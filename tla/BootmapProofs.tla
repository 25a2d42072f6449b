---------------------------- MODULE BootmapProofs ----------------------------
(***************************************************************************)
(* The boot map reader, for every disk, every size of it and of its        *)
(* blocks, and components of any length: the walk through the segment      *)
(* tables stays inside them, a dropped error does not reach kexec, what is *)
(* copied is the whole component, and what is passed to kexec are the      *)
(* components that the stage 3 loader on the disk names.                   *)
(***************************************************************************)
EXTENDS BootmapReference, DataInduction, TLAPS

\* The pointers that a walk can start from or come to
BootmapTypes ==
  /\ disk \in Disks
  /\ comps \in Seq(Components)
  /\ objs.kernel \in Pointers /\ objs.initrd \in Pointers /\ objs.parmfile \in Pointers
  /\ table \in Pointers /\ entry \in Nat

\* The walk, place by place: it starts at the first entry, and while there are segments to
\* copy a further pointer is left behind the current one.
WalkByPlace ==
  /\ bpc = "table" => entry = 0
  /\ bpc \in {"segment", "copied"} =>
       /\ Readable(table) /\ entry < PointersIn(table) /\ code_ptr = ReadPacked(table, entry)
  /\ bpc = "segment" => entry + 1 < PointersIn(table)

WalkInv == BootmapTypes /\ WalkByPlace

\* A kernel is known wherever its table could be read, and from then on.
KernelByPlace ==
  /\ bpc = "table" /\ comp = "kernel" => table \in {objs.kernel, NullPtr}
  /\ bpc = "table" /\ comp \in {"initrd", "parmfile"} => objs.kernel # NullPtr
  /\ bpc \in {"segment", "copied"} /\ comp # "stage3" => objs.kernel # NullPtr
  /\ bpc = "kexec" => objs.kernel # NullPtr
  /\ comp \in {"stage3", "kernel", "initrd", "parmfile"}

-----------------------------------------------------------------------------
\* Every pointer of a table lies in one of its blocks.
LEMMA BlockOfPointer ==
  ASSUME NEW n \in Nat, n >= 1, NEW c \in Nat, NEW i \in Nat, i < n * (c + 1)
  PROVE  i \div n \in 0..c /\ i % n \in 0..(n - 1)
<1> DEFINE q == i \div n
           r == i % n
<1>1. q \in Int /\ r \in 0..(n - 1) /\ i = n * q + r
  OBVIOUS
<1> HIDE DEF q, r
<1>2. q >= 0
  BY <1>1
<1>3. q <= c
  BY <1>1
<1> QED
  BY <1>1, <1>2, <1>3 DEF q, r

\* A table has room for two pointers at least.
LEMMA TableIsLarge ==
  ASSUME NEW t \in Pointers PROVE PointersIn(t) \in Nat /\ PointersIn(t) >= 2
<1>1. t.count \in Nat
  BY DEF Pointers
<1>2. ASSUME NEW n \in Nat, n >= 2, NEW c \in Nat PROVE n * (c + 1) \in Nat /\ n * (c + 1) >= 2
  <2>1. n * c \in Nat
    OBVIOUS
  <2>2. n * (c + 1) = n * c + n
    OBVIOUS
  <2> QED
    BY <1>2, <2>1, <2>2
<1> QED
  BY <1>1, <1>2, BlockAssumption DEF PointersIn

\* The entries of a component table have block pointers.
LEMMA SegmentPointers ==
  ASSUME NEW s \in Seq(Components) PROVE \A k \in 1..Len(s) : s[k].seg \in Pointers
<1> SUFFICES ASSUME NEW k \in 1..Len(s) PROVE s[k].seg \in Pointers
  OBVIOUS
<1>1. s[k] \in Components
  OBVIOUS
<1> QED
  BY <1>1 DEF Components

\* A pointer read from a table on the disk is a block pointer.
LEMMA PointerRead ==
  ASSUME disk \in Disks, NEW t \in Pointers, Readable(t), NEW i \in Nat, i < PointersIn(t)
  PROVE  ReadPacked(t, i) \in Pointers
<1>1. t.block \in Nat /\ t.count \in Nat /\ t.block + t.count < PhyBlocks
  BY DEF Pointers, Readable, EndsOnDisk
<1>2. i \div PerBlock \in 0..t.count /\ i % PerBlock \in 0..(PerBlock - 1)
  <2>1. PerBlock \in Nat /\ PerBlock >= 1 /\ i < PerBlock * (t.count + 1)
    BY BlockAssumption DEF PointersIn
  <2> QED
    BY <1>1, <2>1, BlockOfPointer, Zenon
<1>3. t.block + i \div PerBlock \in 0..(PhyBlocks - 1)
  BY <1>1, <1>2, BlockAssumption
<1>4. disk.ptrs \in [0..(PhyBlocks - 1) -> [0..(PerBlock - 1) -> Pointers]]
  BY DiskAssumption
<1> QED
  BY <1>2, <1>3, <1>4 DEF ReadPacked

\* The null pointer is never read through.
LEMMA NullIsNotReadable == NullPtr \in Pointers /\ ~Readable(NullPtr)
  BY DEF NullPtr, Pointers, Readable, CheckBlockptr

-----------------------------------------------------------------------------
\* A disk that is about to be opened is in the invariant.
LEMMA WalkStarts == BootmapInit => WalkInv
  BY NullIsNotReadable DEF BootmapInit, WalkInv, BootmapTypes, WalkByPlace, NoObjects

\* A copy that starts is in the invariant.
LEMMA CopyStarts ==
  ASSUME NEW c, NEW ptr \in Pointers, StartCopy(c, ptr), BootmapTypes, UNCHANGED disk,
         comps' \in Seq(Components),
         objs'.kernel \in Pointers, objs'.initrd \in Pointers, objs'.parmfile \in Pointers
  PROVE  WalkInv'
  BY DEF StartCopy, WalkInv, BootmapTypes, WalkByPlace

\* A step that leaves the walk alone and does not start or continue one
LEMMA OutsideStep ==
  ASSUME WalkInv, UNCHANGED <<disk, objs, copyVars>>, comps' \in Seq(Components),
         bpc' \notin {"table", "segment", "copied"}
  PROVE  WalkInv'
  BY DEF WalkInv, BootmapTypes, WalkByPlace, copyVars

\* Every step of the walk stays within the table it is in.
LEMMA SegmentStep == ASSUME WalkInv, LoadSegment PROVE WalkInv'
<1> DEFINE next == ReadPacked(table, entry + 1)
<1>1. /\ BootmapTypes /\ Readable(table) /\ entry + 1 < PointersIn(table)
      /\ disk' = disk /\ comps' = comps /\ objs' = objs
  BY DEF LoadSegment, WalkInv, WalkByPlace
<1>2. next \in Pointers
  BY <1>1, PointerRead DEF BootmapTypes
<1>3. bpc' = IF code_ptr' = NullPtr THEN "copied" ELSE "segment"
  BY DEF LoadSegment
<1>4. \A ptr, i : ReadPacked(ptr, i)' = ReadPacked(ptr, i)
  BY <1>1 DEF ReadPacked
<1> HIDE DEF next
<1>5. CASE Readable(next) /\ table' = next /\ entry' = 0 /\ code_ptr' = ReadPacked(next, 0)
  <2>1. PointersIn(next) \in Nat /\ PointersIn(next) >= 2
    BY <1>2, TableIsLarge
  <2>2. BootmapTypes'
    BY <1>1, <1>2, <1>5 DEF BootmapTypes
  <2>3. Readable(table') /\ entry' + 1 < PointersIn(table') /\ entry' < PointersIn(table')
    BY <1>5, <2>1
  <2>4. code_ptr' = ReadPacked(table, entry)'
    BY <1>1, <1>5 DEF ReadPacked
  <2>5. Readable(table)' /\ (entry + 1 < PointersIn(table))' /\ (entry < PointersIn(table))'
    BY <2>3 DEF Readable, CheckBlockptr, EndsOnDisk, PointersIn
  <2> QED
    BY <1>3, <2>2, <2>4, <2>5 DEF WalkInv, WalkByPlace
<1>6. CASE /\ ~EndOfTable(entry + 1) \/ next = NullPtr
           /\ table' = table /\ entry' = entry + 1 /\ code_ptr' = next
  <2>1. entry \in Nat /\ PointersIn(table) \in Nat
    BY <1>1, TableIsLarge DEF BootmapTypes
  <2>2. BootmapTypes'
    BY <1>1, <1>6 DEF BootmapTypes
  <2>3. PointersIn(table)' = PointersIn(table) /\ Readable(table)'
    BY <1>1, <1>6 DEF Readable, CheckBlockptr, EndsOnDisk, PointersIn
  <2>4. code_ptr' = ReadPacked(table, entry)'
    BY <1>1, <1>6 DEF ReadPacked, next
  <2>5. entry' < PointersIn(table)
    BY <1>1, <1>6
  <2>6. next # NullPtr => entry' + 1 < PointersIn(table)
    BY <1>1, <1>6, <2>1 DEF EndOfTable
  <2> QED
    BY <1>3, <1>6, <2>2, <2>3, <2>4, <2>5, <2>6 DEF WalkInv, WalkByPlace
<1> QED
  BY <1>5, <1>6 DEF LoadSegment, next

\* Every step keeps the walk within its tables.
LEMMA WalkStep == WalkInv /\ [BootmapNext]_bootmapVars => WalkInv'
<1> SUFFICES ASSUME WalkInv, [BootmapNext]_bootmapVars PROVE WalkInv'
  OBVIOUS
<1>1. /\ BootmapTypes /\ comps \in Seq(Components) /\ disk \in Disks
      /\ objs.kernel \in Pointers /\ objs.initrd \in Pointers /\ objs.parmfile \in Pointers
  BY DEF WalkInv, BootmapTypes
<1>2. CASE DiskOpen \/ GetProgramTable \/ TableFails \/ CopyHangs \/ WriteFails
  BY <1>1, <1>2, OutsideStep
     DEF DiskOpen, GetProgramTable, TableFails, CopyHangs, WriteFails
<1>3. CASE GetComponentTable
  <2>1. PICK g \in Garbage : comps' = Append(disk.comps, g)
    BY <1>3 DEF GetComponentTable
  <2>2. disk.comps \in Seq(Components) /\ g \in Components
    BY <1>1, DiskAssumption, GarbageAssumption
  <2>3. comps' \in Seq(Components)
    BY <2>1, <2>2
  <2> QED
    BY <1>3, <2>3, OutsideStep DEF GetComponentTable
<1>4. CASE ReadFirstTable
  <2>1. table \in Pointers /\ Readable(table) /\ entry = 0
    BY <1>1, <1>4 DEF ReadFirstTable, WalkInv, WalkByPlace, BootmapTypes
  <2>2. PointersIn(table) \in Nat /\ PointersIn(table) >= 2
    BY <2>1, TableIsLarge
  <2> QED
    BY <1>1, <1>4, <2>1, <2>2
       DEF ReadFirstTable, WalkInv, WalkByPlace, BootmapTypes, Readable, CheckBlockptr, EndsOnDisk,
           PointersIn, ReadPacked
<1>5. CASE LoadSegment
  BY <1>5, SegmentStep
<1>6. CASE CopyFails
  <2>1. CASE StartCopy("kernel", NullPtr)
    BY <1>1, <1>6, <2>1, CopyStarts, NullIsNotReadable DEF CopyFails
  <2>2. CASE bpc' = "error" /\ UNCHANGED copyVars
    BY <1>1, <1>6, <2>2, OutsideStep DEF CopyFails
  <2> QED
    BY <1>6, <2>1, <2>2 DEF CopyFails
<1>7. CASE FindStage3
  <2>1. PICK n \in Executes : n > 1 /\ StartCopy("stage3", comps[n - 1].seg)
    BY <1>7 DEF FindStage3
  <2>2. n - 1 \in 1..Len(comps)
    BY <1>1, <2>1 DEF Executes
  <2>3. comps[n - 1].seg \in Pointers
    BY <1>1, <2>2, SegmentPointers
  <2> QED
    BY <1>1, <1>7, <2>1, <2>3, CopyStarts DEF FindStage3
<1>8. CASE NoStage3
  BY <1>1, <1>8, CopyStarts, NullIsNotReadable DEF NoStage3
<1>9. CASE IdentifyBootObjects
  <2>1. \A k \in 1..Len(comps) : comps[k].seg \in Pointers
    BY <1>1, SegmentPointers
  <2>2. objs'.kernel \in Pointers /\ objs'.initrd \in Pointers /\ objs'.parmfile \in Pointers
    BY <1>9, <2>1, NullIsNotReadable DEF IdentifyBootObjects, NoObjects
  <2>3. StartCopy("kernel", objs'.kernel)
    BY <1>9 DEF IdentifyBootObjects
  <2> QED
    BY <1>1, <1>9, <2>2, <2>3, CopyStarts DEF IdentifyBootObjects
<1>10. ASSUME CopyOrKexec("parmfile", objs.parmfile), UNCHANGED <<disk, comps, objs>>
       PROVE  WalkInv'
  <2>1. CASE StartCopy("parmfile", objs.parmfile)
    BY <1>1, <1>10, <2>1, CopyStarts
  <2>2. CASE bpc' = "kexec" /\ UNCHANGED copyVars
    BY <1>1, <1>10, <2>2, OutsideStep
  <2> QED
    BY <1>10, <2>1, <2>2 DEF CopyOrKexec
<1>11. CASE WriteKernel
  <2>1. CASE StartCopy("initrd", objs.initrd)
    BY <1>1, <1>11, <2>1, CopyStarts DEF WriteKernel
  <2> QED
    BY <1>10, <1>11, <2>1 DEF WriteKernel
<1>12. CASE WriteInitrd
  BY <1>10, <1>12 DEF WriteInitrd
<1>13. CASE ReadParmfile
  BY <1>1, <1>13, OutsideStep DEF ReadParmfile
<1>14. ASSUME UNCHANGED bootmapVars PROVE WalkInv'
  BY <1>14 DEF bootmapVars, WalkInv, BootmapTypes, WalkByPlace, Readable, CheckBlockptr,
               EndsOnDisk, PointersIn, ReadPacked
<1> QED
  BY <1>2, <1>3, <1>4, <1>5, <1>6, <1>7, <1>8, <1>9, <1>11, <1>12, <1>13, <1>14 DEF BootmapNext

\* Whatever is on the disk, the walk through the segment tables never leaves the table it
\* has read.
THEOREM WalkStaysInTable == BootmapSpec => []EntryInTable
<1>1. WalkInv => EntryInTable
  BY DEF WalkInv, WalkByPlace, EntryInTable
<1> QED
  BY <1>1, WalkStarts, WalkStep, PTL DEF BootmapSpec

-----------------------------------------------------------------------------
\* No step loses the kernel that the stage 3 loader has named, or goes on without one.
LEMMA KernelStep == KernelByPlace /\ [BootmapNext]_bootmapVars => KernelByPlace'
<1> SUFFICES ASSUME KernelByPlace, [BootmapNext]_bootmapVars PROVE KernelByPlace'
  OBVIOUS
<1> USE DEF KernelByPlace
<1>1. ASSUME UNCHANGED <<objs, copyVars>>, bpc' \notin {"table", "segment", "copied", "kexec"}
      PROVE  KernelByPlace'
  BY <1>1 DEF copyVars
<1>2. CASE DiskOpen \/ GetProgramTable \/ GetComponentTable \/ TableFails \/ CopyHangs \/ WriteFails
  BY <1>1, <1>2 DEF DiskOpen, GetProgramTable, GetComponentTable, TableFails, CopyHangs, WriteFails
<1>3. CASE ReadFirstTable
  BY <1>3, NullIsNotReadable DEF ReadFirstTable
<1>4. CASE LoadSegment
  BY <1>4 DEF LoadSegment
<1>5. CASE CopyFails
  <2>1. CASE StartCopy("kernel", NullPtr)
    BY <2>1 DEF StartCopy
  <2>2. CASE bpc' = "error" /\ UNCHANGED copyVars
    BY <1>1, <1>5, <2>2 DEF CopyFails
  <2> QED
    BY <1>5, <2>1, <2>2 DEF CopyFails
<1>6. CASE FindStage3
  BY <1>6 DEF FindStage3, StartCopy
<1>7. CASE NoStage3
  BY <1>7 DEF NoStage3, StartCopy
<1>8. CASE IdentifyBootObjects
  <2>1. StartCopy("kernel", objs'.kernel)
    BY <1>8 DEF IdentifyBootObjects
  <2> QED
    BY <2>1 DEF StartCopy
<1>9. ASSUME objs.kernel # NullPtr, UNCHANGED objs, CopyOrKexec("parmfile", objs.parmfile)
      PROVE  KernelByPlace'
  BY <1>9 DEF CopyOrKexec, StartCopy, copyVars
<1>10. CASE WriteKernel
  <2>1. CASE StartCopy("initrd", objs.initrd)
    BY <1>10, <2>1 DEF WriteKernel, StartCopy
  <2> QED
    BY <1>9, <1>10, <2>1 DEF WriteKernel
<1>11. CASE WriteInitrd
  BY <1>9, <1>11 DEF WriteInitrd
<1>12. CASE ReadParmfile
  BY <1>12 DEF ReadParmfile, copyVars
<1>13. ASSUME UNCHANGED bootmapVars PROVE KernelByPlace'
  BY <1>13 DEF bootmapVars
<1> QED
  BY <1>2, <1>3, <1>4, <1>5, <1>6, <1>7, <1>8, <1>10, <1>11, <1>12, <1>13 DEF BootmapNext

\* Whatever identify_boot_objects() met and boot_bootmap_disk() did not look at, kexec is
\* not called without a kernel that the stage 3 loader named.
THEOREM NoKexecWithoutKernel == BootmapSpec => []DroppedErrorIsCaught
<1>1. BootmapInit => KernelByPlace
  BY DEF BootmapInit, KernelByPlace
<1>2. KernelByPlace => DroppedErrorIsCaught
  BY DEF KernelByPlace, DroppedErrorIsCaught
<1> QED
  BY <1>1, <1>2, KernelStep, PTL DEF BootmapSpec

-----------------------------------------------------------------------------
(* What the tables list, one segment and one table after the other *)

\* f holds the concatenation of the first sequences of ss, after each of them.
FlatBy(f, ss) ==
  f[1] = ss[1] /\ \A n \in 1..(Len(ss) - 1) : f[n + 1] = f[n] \o ss[n + 1]

\* Sequences are concatenated one after the other.
LEMMA FlattenStepwise ==
  ASSUME NEW X, NEW ss \in Seq(Seq(X)), Len(ss) # 0
  PROVE  \E f \in [1..Len(ss) -> Seq(X)] : FlattenSeq(ss) = f[Len(ss)] /\ FlatBy(f, ss)
<1> DEFINE L == Len(ss)
           V == Seq(X)
           D == [p \in ((1 + 1)..L) \X V |-> p[2] \o ss[p[1]]]
           Def(g) == g = [i \in 1..L |-> IF i = 1 THEN ss[i] ELSE g[i - 1] \o ss[i]]
           flat == CHOOSE g : Def(g)
<1>1. L \in Nat /\ 1 \in Nat /\ 1 <= L /\ \A i \in 1..L : ss[i] \in V
  OBVIOUS
<1>2. D \in [((1 + 1)..L) \X V -> V]
  BY <1>1
<1>3. PICK f \in [1..L -> V] : Follows(f, 1, L, ss[1], D)
  <2>1. ss[1] \in V
    BY <1>1
  <2> HIDE DEF L, D, V
  <2> QED
    BY <1>1, <1>2, <2>1, IntervalRecursion
<1>4. Def(f)
  <2>1. ASSUME NEW n \in 1..L, n # 1 PROVE f[n] = f[n - 1] \o ss[n]
    <3>1. n \in (1 + 1)..L /\ f[n - 1] \in V
      <4>1. n - 1 \in 1..L /\ n \in (1 + 1)..L
        BY <1>1, <2>1
      <4> HIDE DEF L, V
      <4> QED
        BY <4>1
    <3>2. f[n] = D[<<n, f[n - 1]>>]
      BY <1>3, <3>1 DEF Follows
    <3>3. <<n, f[n - 1]>> \in ((1 + 1)..L) \X V
      BY <3>1
    <3> QED
      BY <3>2, <3>3
  <2>2. f[1] = ss[1]
    BY <1>3 DEF Follows
  <2>3. DOMAIN f = 1..L /\ f = [n \in DOMAIN f |-> f[n]]
    OBVIOUS
  <2> HIDE DEF D, L
  <2>4. \A n \in 1..L : f[n] = IF n = 1 THEN ss[n] ELSE f[n - 1] \o ss[n]
    BY <2>1, <2>2, Zenon
  <2> QED
    BY <2>3, <2>4
<1>5. Def(flat)
  <2> HIDE DEF Def
  <2> QED
    BY <1>4
<1>6. FlattenSeq(ss) = flat[L]
  BY DEF FlattenSeq
<1> HIDE DEF flat, D
<1>7. \A n \in 1..L : flat[n] = IF n = 1 THEN ss[n] ELSE flat[n - 1] \o ss[n]
  BY <1>5, Zenon
<1>8. flat[1] = ss[1]
  BY <1>1, <1>7
<1>9. ASSUME NEW n \in 1..(L - 1) PROVE flat[n + 1] = flat[n] \o ss[n + 1]
  <2>1. n + 1 \in 1..L /\ (n + 1) - 1 = n /\ n + 1 # 1
    BY <1>1
  <2> QED
    BY <1>7, <2>1, Zenon
<1>10. \A n \in 1..L : flat[n] \in V
  <2> DEFINE S == {n \in 1..L : flat[n] \in V}
  <2>1. 1 \in S
    BY <1>1, <1>8
  <2>2. ASSUME NEW n \in 1..(L - 1), n \in S PROVE n + 1 \in S
    <3>1. n + 1 \in 1..L /\ flat[n] \in Seq(X)
      BY <1>1, <2>2
    <3>2. ss[n + 1] \in Seq(X)
      BY <1>1, <3>1
    <3>3. flat[n + 1] = flat[n] \o ss[n + 1]
      BY <1>9
    <3>4. flat[n + 1] \in Seq(X)
      BY <3>1, <3>2, <3>3
    <3> QED
      BY <3>1, <3>4
  <2> HIDE DEF S
  <2>3. \A n \in 1..(L - 1) : n \in S => n + 1 \in S
    BY <2>2
  <2>4. \A n \in 1..L : n \in S
    <3> HIDE DEF L
    <3> QED
      BY <1>1, <2>1, <2>3, IntervalInduction, Zenon
  <2> QED
    BY <2>4 DEF S
<1>11. flat \in [1..L -> V]
  BY <1>5, <1>10
<1>12. FlatBy(flat, ss)
  BY <1>8, <1>9, Zenon DEF FlatBy
<1> QED
  BY <1>6, <1>11, <1>12

\* One more sequence goes to the end.
LEMMA FlattenAppend ==
  ASSUME NEW X, NEW ss \in Seq(Seq(X)), NEW s \in Seq(X)
  PROVE  FlattenSeq(ss) \in Seq(X) /\ FlattenSeq(Append(ss, s)) = FlattenSeq(ss) \o s
<1> DEFINE all == Append(ss, s)
           L == Len(ss)
<1>1. /\ all \in Seq(Seq(X)) /\ Len(all) = L + 1 /\ L \in Nat /\ all[L + 1] = s
      /\ \A i \in 1..L : all[i] = ss[i]
  OBVIOUS
<1> HIDE DEF all
<1>2. PICK g \in [1..Len(all) -> Seq(X)] : FlattenSeq(all) = g[Len(all)] /\ FlatBy(g, all)
  BY <1>1, FlattenStepwise
<1>3. CASE L = 0
  <2>1. ss = <<>> /\ FlattenSeq(ss) = ss
    BY <1>3 DEF FlattenSeq
  <2>2. FlattenSeq(all) = s
    BY <1>1, <1>2, <1>3 DEF FlatBy
  <2>3. ss \in Seq(X) /\ ss \o s = s
    <3>1. ss = <<>>
      BY <2>1
    <3>2. <<>> \o s = s /\ <<>> \in Seq(X)
      OBVIOUS
    <3> QED
      BY <3>1, <3>2, Zenon
  <2> QED
    BY <2>1, <2>2, <2>3, Zenon DEF all
<1>4. CASE L # 0
  <2>1. PICK f \in [1..L -> Seq(X)] : FlattenSeq(ss) = f[L] /\ FlatBy(f, ss)
    BY <1>4, FlattenStepwise
  <2> DEFINE S == {n \in 1..L : f[n] = g[n]}
  <2>2. 1 \in S
    BY <1>1, <1>2, <1>4, <2>1 DEF FlatBy
  <2>3. ASSUME NEW n \in 1..(L - 1), n \in S PROVE n + 1 \in S
    <3>1. n + 1 \in 1..L /\ n \in 1..(Len(all) - 1) /\ f[n] = g[n]
      BY <1>1, <2>3
    <3>2. f[n + 1] = f[n] \o ss[n + 1] /\ g[n + 1] = g[n] \o all[n + 1]
      BY <1>2, <2>1, <2>3, <3>1, Zenon DEF FlatBy
    <3>3. all[n + 1] = ss[n + 1]
      BY <1>1, <3>1, Zenon
    <3>4. f[n + 1] = g[n + 1]
      BY <3>1, <3>2, <3>3, Zenon
    <3> QED
      BY <3>1, <3>4
  <2> HIDE DEF S
  <2>4. \A n \in 1..(L - 1) : n \in S => n + 1 \in S
    BY <2>3
  <2>5. \A n \in 1..L : n \in S
    <3>1. 1 \in Nat /\ L \in Nat
      BY <1>1
    <3> HIDE DEF L
    <3> QED
      BY <2>2, <2>4, <3>1, IntervalInduction, Zenon
  <2>6. f[L] = g[L] /\ L \in 1..(Len(all) - 1) /\ f[L] \in Seq(X)
    <3>1. L \in 1..L /\ L \in 1..(Len(all) - 1)
      BY <1>1, <1>4
    <3>2. f[L] = g[L]
      BY <2>5, <3>1, Zenon DEF S
    <3> HIDE DEF L
    <3> QED
      BY <2>1, <3>1, <3>2
  <2>7. g[L + 1] = g[L] \o all[L + 1]
    BY <1>2, <2>6, Zenon DEF FlatBy
  <2>8. FlattenSeq(all) = FlattenSeq(ss) \o s
    BY <1>1, <1>2, <2>1, <2>6, <2>7, Zenon
  <2> QED
    BY <2>1, <2>6, <2>8, Zenon DEF all
<1> QED
  BY <1>3, <1>4

-----------------------------------------------------------------------------
(* The format of a boot map *)

\* A pointer of a readable table is a block pointer.
LEMMA PointerOnDisk ==
  ASSUME NEW d \in Disks, NEW t \in Pointers, Readable(t), NEW i \in Nat, i < PointersIn(t)
  PROVE  PointerOn(d, t, i) \in Pointers
<1>1. t.block \in Nat /\ t.count \in Nat /\ t.block + t.count < PhyBlocks
  BY DEF Pointers, Readable, EndsOnDisk
<1>2. i \div PerBlock \in 0..t.count /\ i % PerBlock \in 0..(PerBlock - 1)
  <2>1. PerBlock \in Nat /\ PerBlock >= 1 /\ i < PerBlock * (t.count + 1)
    BY BlockAssumption DEF PointersIn
  <2> QED
    BY <1>1, <2>1, BlockOfPointer, Zenon
<1>3. t.block + i \div PerBlock \in 0..(PhyBlocks - 1)
  BY <1>1, <1>2, BlockAssumption
<1>4. d.ptrs \in [0..(PhyBlocks - 1) -> [0..(PerBlock - 1) -> Pointers]]
  BY DiskAssumption
<1> QED
  BY <1>2, <1>3, <1>4 DEF PointerOn

\* i is the position of the first null pointer of the table, or its last position.
EndsAt(d, t, i) ==
  /\ i \in 0..(PointersIn(t) - 1)
  /\ i = PointersIn(t) - 1 \/ PointerOn(d, t, i) = NullPtr
  /\ \A j \in 0..(i - 1) : PointerOn(d, t, j) # NullPtr

\* Every table has one such position.
LEMMA LastUsedEnds ==
  ASSUME NEW d, NEW t \in Pointers
  PROVE  EndsAt(d, t, LastUsed(d, t)) /\ \A i : EndsAt(d, t, i) => i = LastUsed(d, t)
<1> DEFINE N == PointersIn(t)
           Stop(i) == i = N - 1 \/ PointerOn(d, t, i) = NullPtr
           First(i) == Stop(i) /\ \A j \in 0..(i - 1) : PointerOn(d, t, j) # NullPtr
           T == {i \in 0..(N - 1) : Stop(i)}
<1>1. N \in Nat /\ N >= 2
  BY TableIsLarge
<1> HIDE DEF N
<1>2. T \subseteq Nat /\ N - 1 \in T
  BY <1>1
<1>3. PICK i \in T : \A m \in T : i <= m
  <2> HIDE DEF T
  <2> QED
    BY <1>2, LeastNatural
<1>4. i \in 0..(N - 1) /\ First(i)
  <2>1. ASSUME NEW j \in 0..(i - 1) PROVE PointerOn(d, t, j) # NullPtr
    <3>1. j \in 0..(N - 1) /\ j < i /\ i \in Nat
      BY <1>1, <1>3, <2>1
    <3>2. j \notin T
      <4> HIDE DEF T
      <4> QED
        BY <1>3, <3>1
    <3> QED
      BY <3>1, <3>2
  <2> QED
    BY <1>3, <2>1
<1>5. LastUsed(d, t) = CHOOSE m \in 0..(N - 1) : First(m)
  BY DEF LastUsed, N
<1>6. LastUsed(d, t) \in 0..(N - 1) /\ First(LastUsed(d, t))
  <2>1. \E m \in 0..(N - 1) : First(m)
    BY <1>4, Zenon
  <2> HIDE DEF First
  <2> QED
    BY <1>5, <2>1, Zenon
<1>7. EndsAt(d, t, LastUsed(d, t))
  BY <1>6, Zenon DEF EndsAt, N
<1>8. ASSUME NEW m, EndsAt(d, t, m) PROVE m = LastUsed(d, t)
  <2> DEFINE k == LastUsed(d, t)
  <2>1. /\ m \in 0..(N - 1) /\ (m = N - 1 \/ PointerOn(d, t, m) = NullPtr)
        /\ \A j \in 0..(m - 1) : PointerOn(d, t, j) # NullPtr
    BY <1>8, Zenon DEF EndsAt, N
  <2>2. /\ k \in 0..(N - 1) /\ (k = N - 1 \/ PointerOn(d, t, k) = NullPtr)
        /\ \A j \in 0..(k - 1) : PointerOn(d, t, j) # NullPtr
    BY <1>6, Zenon
  <2> HIDE DEF k
  <2>3. ~(m < k) /\ ~(k < m)
    BY <1>1, <2>1, <2>2
  <2> QED
    BY <1>1, <2>1, <2>2, <2>3 DEF k
<1> QED
  BY <1>7, <1>8, Zenon

\* The pointers before the end of a table are block pointers.
LEMMA ListedPointers ==
  ASSUME NEW d \in Disks, NEW t \in Pointers, Readable(t), NEW n \in 0..PointersIn(t)
  PROVE  FirstPointers(d, t, n) \in Seq(Pointers)
<1>1. PointersIn(t) \in Nat
  BY TableIsLarge
<1>2. ASSUME NEW i \in 1..n PROVE PointerOn(d, t, i - 1) \in Pointers
  <2>1. i - 1 \in Nat /\ i - 1 < PointersIn(t)
    BY <1>1
  <2> QED
    BY <2>1, PointerOnDisk
<1>3. n \in Nat
  BY <1>1
<1> QED
  BY <1>2, <1>3 DEF FirstPointers

\* One more segment adds its blocks to the code.
LEMMA CodeGrows ==
  ASSUME NEW segments \in Seq(Pointers), NEW p \in Pointers
  PROVE  /\ CodeOf(segments) \in Seq(Nat)
         /\ CodeOf(Append(segments, p)) = CodeOf(segments) \o Blocks(p)
         /\ Blocks(p) \in Seq(Nat) /\ Len(Blocks(p)) = p.count + 1
<1> DEFINE ss == [i \in 1..Len(segments) |-> Blocks(segments[i])]
           all == Append(segments, p)
           tt == [i \in 1..Len(all) |-> Blocks(all[i])]
<1>1. ASSUME NEW q \in Pointers PROVE Blocks(q) \in Seq(Nat) /\ Len(Blocks(q)) = q.count + 1
  <2>1. q.block \in Nat /\ q.count \in Nat
    BY DEF Pointers
  <2> QED
    BY <2>1 DEF Blocks
<1>2. \A q \in Pointers : Blocks(q) \in Seq(Nat)
  BY <1>1
<1>3. /\ all \in Seq(Pointers) /\ Len(all) = Len(segments) + 1 /\ all[Len(segments) + 1] = p
      /\ \A i \in 1..Len(segments) : all[i] = segments[i]
  OBVIOUS
<1> HIDE DEF all
<1>4. ss \in Seq(Seq(Nat)) /\ Len(ss) = Len(segments)
  BY <1>2
<1>5. tt = Append(ss, Blocks(p))
  <2>1. /\ tt \in Seq(Seq(Nat)) /\ Len(tt) = Len(segments) + 1
        /\ \A i \in 1..(Len(segments) + 1) : tt[i] = Blocks(all[i])
    BY <1>2, <1>3
  <2>2. \A i \in 1..Len(segments) : ss[i] = Blocks(segments[i])
    OBVIOUS
  <2> HIDE DEF tt, ss
  <2> DEFINE b == Blocks(p)
  <2>3. b \in Seq(Nat) /\ tt[Len(segments) + 1] = b
    BY <1>2, <1>3, <2>1
  <2>4. \A i \in 1..Len(segments) : tt[i] = ss[i]
    BY <1>3, <2>1, <2>2
  <2> HIDE DEF b
  <2>5. tt = Append(ss, b)
    BY <1>4, <2>1, <2>3, <2>4
  <2> QED
    BY <2>5 DEF b
<1> HIDE DEF ss, tt
<1>6. FlattenSeq(ss) \in Seq(Nat) /\ FlattenSeq(Append(ss, Blocks(p))) = FlattenSeq(ss) \o Blocks(p)
  <2>1. Blocks(p) \in Seq(Nat)
    BY <1>2
  <2> QED
    BY <1>4, <2>1, FlattenAppend
<1>7. CodeOf(segments) = FlattenSeq(ss) /\ CodeOf(all) = FlattenSeq(tt)
  BY DEF CodeOf, ss, tt
<1> QED
  BY <1>1, <1>5, <1>6, <1>7 DEF all

\* One more table adds the segments it lists.
LEMMA SegmentsGrow ==
  ASSUME NEW d \in Disks, NEW tables \in Seq(Pointers),
         \A i \in 1..Len(tables) : Readable(tables[i]), NEW t \in Pointers, Readable(t)
  PROVE  /\ SegmentsOf(d, tables) \in Seq(Pointers)
         /\ SegmentsOf(d, Append(tables, t)) = SegmentsOf(d, tables) \o Listed(d, t)
<1> DEFINE ss == [i \in 1..Len(tables) |-> Listed(d, tables[i])]
           all == Append(tables, t)
           tt == [i \in 1..Len(all) |-> Listed(d, all[i])]
<1>1. ASSUME NEW q \in Pointers, Readable(q) PROVE Listed(d, q) \in Seq(Pointers)
  <2>1. LastUsed(d, q) \in 0..PointersIn(q)
    <3>1. PointersIn(q) \in Nat /\ LastUsed(d, q) \in 0..(PointersIn(q) - 1)
      BY LastUsedEnds, TableIsLarge DEF EndsAt
    <3> QED
      BY <3>1
  <2> QED
    BY <1>1, <2>1, ListedPointers DEF Listed
<1>2. /\ all \in Seq(Pointers) /\ Len(all) = Len(tables) + 1 /\ all[Len(tables) + 1] = t
      /\ \A i \in 1..Len(tables) : all[i] = tables[i]
  OBVIOUS
<1> HIDE DEF all
<1>3. \A i \in 1..Len(tables) : Listed(d, tables[i]) \in Seq(Pointers)
  BY <1>1
<1>4. \A i \in 1..(Len(tables) + 1) : Listed(d, all[i]) \in Seq(Pointers)
  BY <1>1, <1>2
<1>5. ss \in Seq(Seq(Pointers)) /\ Len(ss) = Len(tables)
  BY <1>3
<1>6. tt = Append(ss, Listed(d, t))
  <2>1. /\ tt \in Seq(Seq(Pointers)) /\ Len(tt) = Len(tables) + 1
        /\ \A i \in 1..(Len(tables) + 1) : tt[i] = Listed(d, all[i])
    BY <1>2, <1>4
  <2>2. \A i \in 1..Len(tables) : ss[i] = Listed(d, tables[i])
    OBVIOUS
  <2> HIDE DEF tt, ss
  <2> DEFINE b == Listed(d, t)
  <2>3. b \in Seq(Pointers) /\ tt[Len(tables) + 1] = b
    BY <1>1, <1>2, <2>1
  <2>4. \A i \in 1..Len(tables) : tt[i] = ss[i]
    BY <1>2, <2>1, <2>2
  <2> HIDE DEF b
  <2>5. tt = Append(ss, b)
    BY <1>5, <2>1, <2>3, <2>4
  <2> QED
    BY <2>5 DEF b
<1> HIDE DEF ss, tt
<1>7. FlattenSeq(ss) \in Seq(Pointers) /\ FlattenSeq(Append(ss, Listed(d, t))) = FlattenSeq(ss) \o Listed(d, t)
  <2>1. Listed(d, t) \in Seq(Pointers)
    BY <1>1
  <2> QED
    BY <1>5, <2>1, FlattenAppend
<1>8. SegmentsOf(d, tables) = FlattenSeq(ss) /\ SegmentsOf(d, all) = FlattenSeq(tt)
  BY DEF SegmentsOf, ss, tt
<1> QED
  BY <1>6, <1>7, <1>8 DEF all

\* Nothing is listed by no tables, and nothing is the code of no segments.
LEMMA NothingListed ==
  ASSUME NEW d PROVE SegmentsOf(d, <<>>) = <<>> /\ CodeOf(<<>>) = <<>>
<1>1. [i \in 1..Len(<<>>) |-> Listed(d, <<>>[i])] = <<>> /\ [i \in 1..Len(<<>>) |-> Blocks(<<>>[i])] = <<>>
  OBVIOUS
<1>2. FlattenSeq(<<>>) = <<>>
  BY DEF FlattenSeq
<1> QED
  BY <1>1, <1>2 DEF SegmentsOf, CodeOf

\* The tables after one more look at the last of them
Extended(d, tables) ==
  IF ~Readable(Last(tables)) \/ Link(d, Last(tables)) = NullPtr THEN tables
  ELSE Append(tables, Link(d, Last(tables)))

\* f holds the tables found after each look.
ChainBy(f, d, ptr) ==
  f[0] = <<ptr>> /\ \A n \in 0..MaxLoad : f[n + 1] = Extended(d, f[n])

SomeTables == {s \in Seq(Pointers) : Len(s) # 0}

\* A further table is a block pointer like those before it.
LEMMA ExtendedType ==
  ASSUME NEW d \in Disks, NEW s \in SomeTables
  PROVE  Extended(d, s) \in SomeTables
<1>1. s \in Seq(Pointers) /\ Last(s) \in Pointers
  BY DEF SomeTables, Last
<1>2. CASE ~Readable(Last(s)) \/ Link(d, Last(s)) = NullPtr
  BY <1>2 DEF Extended
<1>3. CASE Readable(Last(s)) /\ Link(d, Last(s)) # NullPtr
  <2> DEFINE t == Last(s)
  <2>1. LastUsed(d, t) \in Nat /\ LastUsed(d, t) < PointersIn(t)
    <3>1. PointersIn(t) \in Nat /\ LastUsed(d, t) \in 0..(PointersIn(t) - 1)
      BY <1>1, LastUsedEnds, TableIsLarge DEF EndsAt
    <3> QED
      BY <3>1
  <2>2. Link(d, t) \in Pointers
    BY <1>1, <1>3, <2>1, PointerOnDisk DEF Link
  <2>3. Extended(d, s) = Append(s, Link(d, t))
    BY <1>3 DEF Extended
  <2> HIDE DEF t
  <2>4. Append(s, Link(d, t)) \in SomeTables
    BY <1>1, <2>2 DEF SomeTables
  <2> QED
    BY <2>3, <2>4
<1> QED
  BY <1>2, <1>3

\* The tables of a component are found one after the other.
LEMMA ChainStepwise ==
  ASSUME NEW d \in Disks, NEW ptr \in Pointers
  PROVE  \E f \in [0..(MaxLoad + 1) -> SomeTables] :
           Chain(d, ptr) = f[MaxLoad + 1] /\ ChainBy(f, d, ptr)
<1> DEFINE L == MaxLoad + 1
           V == SomeTables
           c == <<ptr>>
           D == [p \in ((0 + 1)..L) \X V |-> Extended(d, p[2])]
           Def(g) == g = [n \in 0..L |-> IF n = 0 THEN c ELSE Extended(d, g[n - 1])]
           chain == CHOOSE g : Def(g)
<1>1. L \in Nat /\ 0 \in Nat /\ 0 <= L /\ c \in V
  BY GarbageAssumption DEF SomeTables
<1>2. D \in [((0 + 1)..L) \X V -> V]
  BY ExtendedType
<1>3. PICK f \in [0..L -> V] : Follows(f, 0, L, c, D)
  <2> HIDE DEF L, D, V, c
  <2> QED
    BY <1>1, <1>2, IntervalRecursion
<1>4. Def(f)
  <2>1. ASSUME NEW n \in 0..L, n # 0 PROVE f[n] = Extended(d, f[n - 1])
    <3>1. n \in (0 + 1)..L /\ f[n - 1] \in V
      <4>1. n \in (0 + 1)..L /\ n - 1 \in 0..L
        BY <1>1, <2>1
      <4> HIDE DEF L, V
      <4> QED
        BY <4>1
    <3>2. f[n] = D[<<n, f[n - 1]>>]
      BY <1>3, <3>1 DEF Follows
    <3>3. <<n, f[n - 1]>> \in ((0 + 1)..L) \X V
      BY <3>1
    <3> QED
      BY <3>2, <3>3
  <2>2. f[0] = c
    BY <1>3 DEF Follows
  <2>3. DOMAIN f = 0..L /\ f = [n \in DOMAIN f |-> f[n]]
    OBVIOUS
  <2> HIDE DEF D, L, c
  <2>4. \A n \in 0..L : f[n] = IF n = 0 THEN c ELSE Extended(d, f[n - 1])
    BY <2>1, <2>2, Zenon
  <2> QED
    BY <2>3, <2>4
<1>5. Def(chain)
  <2> HIDE DEF Def
  <2> QED
    BY <1>4
<1>6. Chain(d, ptr) = chain[L]
  BY DEF Chain, Extended
<1> HIDE DEF chain, D, c
<1>7. \A n \in 0..L : chain[n] = IF n = 0 THEN c ELSE Extended(d, chain[n - 1])
  BY <1>5, Zenon
<1>8. chain[0] = c
  BY <1>1, <1>7
<1>9. ASSUME NEW n \in 0..MaxLoad PROVE chain[n + 1] = Extended(d, chain[n])
  <2>1. n + 1 \in 0..L /\ (n + 1) - 1 = n /\ n + 1 # 0
    BY GarbageAssumption
  <2> QED
    BY <1>7, <2>1, Zenon
<1>10. \A n \in 0..L : chain[n] \in V
  <2> DEFINE S == {n \in 0..L : chain[n] \in V}
  <2>1. 0 \in S
    BY <1>1, <1>8
  <2>2. ASSUME NEW n \in 0..(L - 1), n \in S PROVE n + 1 \in S
    <3>1. n + 1 \in 0..L /\ n \in 0..MaxLoad /\ chain[n] \in V
      BY <1>1, <2>2, GarbageAssumption
    <3>2. chain[n + 1] \in V
      BY <1>9, <3>1, ExtendedType
    <3> QED
      BY <3>1, <3>2
  <2> HIDE DEF S
  <2>3. \A n \in 0..(L - 1) : n \in S => n + 1 \in S
    BY <2>2
  <2>4. \A n \in 0..L : n \in S
    <3> HIDE DEF L
    <3> QED
      BY <1>1, <2>1, <2>3, IntervalInduction, Zenon
  <2> QED
    BY <2>4 DEF S
<1>11. chain \in [0..L -> V]
  BY <1>5, <1>10
<1>12. ChainBy(chain, d, ptr)
  BY <1>8, <1>9, Zenon DEF ChainBy, c
<1> QED
  BY <1>6, <1>11, <1>12

\* A way through linked tables
IsPath(d, ptr, path) ==
  /\ path \in SomeTables /\ path[1] = ptr
  /\ \A i \in 1..(Len(path) - 1) :
       Readable(path[i]) /\ Link(d, path[i]) # NullPtr /\ path[i + 1] = Link(d, path[i])

\* A way that ends at the last table is the chain.
LEMMA PathIsChain ==
  ASSUME NEW d \in Disks, NEW ptr \in Pointers, NEW path, IsPath(d, ptr, path),
         Link(d, Last(path)) = NullPtr, Len(path) <= MaxLoad + 1
  PROVE  Chain(d, ptr) = path
<1> DEFINE L == MaxLoad + 1
           N == Len(path)
<1>1. PICK f \in [0..(MaxLoad + 1) -> SomeTables] :
        Chain(d, ptr) = f[MaxLoad + 1] /\ ChainBy(f, d, ptr)
  BY ChainStepwise
<1>2. /\ path \in Seq(Pointers) /\ N \in Nat /\ N # 0 /\ L \in Nat /\ N <= L /\ 0 \in Nat
      /\ MaxLoad \in Nat
  BY GarbageAssumption DEF IsPath, SomeTables
<1> DEFINE upto(n) == IF n + 1 < N THEN SubSeq(path, 1, n + 1) ELSE path
           S == {n \in 0..L : f[n] = upto(n)}
<1>3. 0 \in S
  <2>1. f[0] = <<path[1]>>
    BY <1>1 DEF ChainBy, IsPath
  <2>2. upto(0) = <<path[1]>>
    <3>1. SubSeq(path, 1, 0 + 1) = <<path[1]>>
      BY <1>2
    <3>2. N = 1 => path = <<path[1]>>
      BY <1>2
    <3> QED
      BY <1>2, <3>1, <3>2
  <2>3. f[0] = upto(0) /\ 0 \in 0..L
    <3> HIDE DEF upto
    <3> QED
      BY <1>2, <2>1, <2>2
  <2> QED
    BY <2>3
<1>4. ASSUME NEW n \in 0..(L - 1), n \in S PROVE n + 1 \in S
  <2>1. n \in 0..MaxLoad /\ n + 1 \in 0..L /\ f[n] = upto(n)
    BY <1>2, <1>4
  <2>2. f[n + 1] = Extended(d, f[n])
    BY <1>1, <2>1, Zenon DEF ChainBy
  <2>3. CASE n + 1 < N
    <3>1. f[n] = SubSeq(path, 1, n + 1)
      BY <2>1, <2>3
    <3>2. Last(f[n]) = path[n + 1] /\ n + 1 \in 1..(N - 1)
      BY <1>2, <2>1, <2>3, <3>1 DEF Last
    <3>3. Readable(path[n + 1]) /\ Link(d, path[n + 1]) # NullPtr /\ path[n + 2] = Link(d, path[n + 1])
      <4>1. (n + 1) + 1 = n + 2
        BY <2>1
      <4> QED
        BY <3>2, <4>1, Zenon DEF IsPath
    <3>4. f[n + 1] = Append(SubSeq(path, 1, n + 1), path[n + 2])
      BY <2>2, <3>1, <3>2, <3>3, Zenon DEF Extended
    <3>5. Append(SubSeq(path, 1, n + 1), path[n + 2]) = SubSeq(path, 1, n + 2)
      BY <1>2, <2>1, <2>3
    <3>6. n + 2 = N => SubSeq(path, 1, n + 2) = path
      BY <1>2
    <3>7. upto(n + 1) = SubSeq(path, 1, n + 2)
      BY <1>2, <2>1, <2>3, <3>6
    <3> QED
      BY <2>1, <3>4, <3>5, <3>7
  <2>4. CASE ~(n + 1 < N)
    <3>1. f[n] = path /\ upto(n + 1) = path
      BY <1>2, <2>1, <2>4
    <3>2. f[n + 1] = path
      BY <2>2, <3>1 DEF Extended
    <3> QED
      BY <2>1, <3>1, <3>2
  <2> QED
    BY <2>3, <2>4
<1> HIDE DEF S
<1>5. L \in S
  <2>1. \A n \in 0..(L - 1) : n \in S => n + 1 \in S
    BY <1>4
  <2> HIDE DEF L
  <2>2. \A n \in 0..L : n \in S
    BY <1>2, <1>3, <2>1, IntervalInduction, Zenon
  <2> QED
    BY <1>2, <2>2
<1>6. f[L] = path
  <2>1. f[L] = upto(L) /\ ~(L + 1 < N)
    BY <1>2, <1>5 DEF S
  <2> QED
    BY <2>1
<1> QED
  BY <1>1, <1>6

-----------------------------------------------------------------------------
(* What has been copied is the code *)

\* copied is the code of the tables in front and of the first e segments of t.
CopiedUpTo(d, ptr, t, e, copied, front) ==
  /\ front \in Seq(Pointers) /\ IsPath(d, ptr, Append(front, t))
  /\ Len(front) <= Len(copied) /\ Len(copied) <= MaxLoad
  /\ copied = CodeOf(SegmentsOf(d, front) \o FirstPointers(d, t, e))

\* The copy, place by place: behind it are the tables on the way from the component pointer
\* and the segments of the table in memory up to the current one.
CopyByPlace ==
  /\ root \in Pointers
  /\ bpc = "table" => table = root /\ buffer = <<>>
  /\ bpc = "copied" => code_ptr = NullPtr
  /\ bpc \in {"segment", "copied"} =>
       /\ \A j \in 0..(entry - 1) : PointerOn(disk, table, j) # NullPtr
       /\ \E front : CopiedUpTo(disk, root, table, entry, buffer, front)

\* The tables in front of the current one have been read.
LEMMA FrontIsReadable ==
  ASSUME NEW d, NEW ptr, NEW t \in Pointers, NEW front \in Seq(Pointers), IsPath(d, ptr, Append(front, t))
  PROVE  \A i \in 1..Len(front) : Readable(front[i])
<1> DEFINE path == Append(front, t)
<1>1. /\ path \in Seq(Pointers) /\ Len(path) = Len(front) + 1
      /\ \A i \in 1..Len(front) : path[i] = front[i]
  OBVIOUS
<1> HIDE DEF path
<1>2. \A i \in 1..(Len(path) - 1) : Readable(path[i])
  BY DEF IsPath, path
<1>3. Len(path) - 1 = Len(front)
  BY <1>1
<1> QED
  BY <1>1, <1>2, <1>3, Zenon

\* What the copy of a segment adds
LEMMA SegmentCopied ==
  ASSUME NEW d \in Disks, NEW ptr, NEW t \in Pointers, Readable(t),
         NEW e \in Nat, e < PointersIn(t), NEW p \in Pointers, p = PointerOn(d, t, e),
         NEW copied, NEW front, CopiedUpTo(d, ptr, t, e, copied, front),
         Len(copied) + p.count + 1 <= MaxLoad
  PROVE  /\ CopiedUpTo(d, ptr, t, e + 1, copied \o Blocks(p), front)
         /\ Len(front) + 1 <= Len(copied \o Blocks(p))
<1> DEFINE fs == SegmentsOf(d, front)
           x == FirstPointers(d, t, e)
<1>1. /\ front \in Seq(Pointers) /\ IsPath(d, ptr, Append(front, t))
      /\ Len(front) <= Len(copied) /\ copied = CodeOf(fs \o x)
  BY DEF CopiedUpTo
<1>2. fs \in Seq(Pointers)
  BY <1>1, FrontIsReadable, SegmentsGrow
<1>3. x \in Seq(Pointers)
  <2>1. e \in 0..PointersIn(t)
    BY TableIsLarge
  <2> QED
    BY <2>1, ListedPointers
<1>4. FirstPointers(d, t, e + 1) = Append(x, p)
  <2>1. /\ Len(x) = e /\ \A i \in 1..e : x[i] = PointerOn(d, t, i - 1)
    BY DEF FirstPointers
  <2>2. /\ FirstPointers(d, t, e + 1) \in Seq(Pointers) /\ Len(FirstPointers(d, t, e + 1)) = e + 1
        /\ \A i \in 1..(e + 1) : FirstPointers(d, t, e + 1)[i] = PointerOn(d, t, i - 1)
    <3>1. e + 1 \in 0..PointersIn(t)
      BY TableIsLarge
    <3>2. FirstPointers(d, t, e + 1) \in Seq(Pointers)
      BY <3>1, ListedPointers
    <3> QED
      BY <3>2 DEF FirstPointers
  <2> DEFINE y == FirstPointers(d, t, e + 1)
  <2>3. y[e + 1] = p
    <3>1. e + 1 \in 1..(e + 1) /\ (e + 1) - 1 = e
      OBVIOUS
    <3> QED
      BY <2>2, <3>1, Zenon
  <2> HIDE DEF x, y
  <2>4. \A i \in 1..e : y[i] = x[i]
    BY <2>1, <2>2 DEF y
  <2>5. y \in Seq(Pointers) /\ Len(y) = e + 1
    BY <2>2 DEF y
  <2>6. y = Append(x, p)
    BY <1>3, <2>1, <2>3, <2>4, <2>5
  <2> QED
    BY <2>6 DEF y
<1> HIDE DEF fs, x
<1>5. fs \o Append(x, p) = Append(fs \o x, p) /\ fs \o x \in Seq(Pointers)
  BY <1>2, <1>3
<1>6. /\ CodeOf(fs \o x) \in Seq(Nat)
      /\ CodeOf(Append(fs \o x, p)) = CodeOf(fs \o x) \o Blocks(p)
      /\ Blocks(p) \in Seq(Nat) /\ Len(Blocks(p)) = p.count + 1
  BY <1>5, CodeGrows
<1>7. /\ Len(copied \o Blocks(p)) = Len(copied) + p.count + 1
      /\ copied \o Blocks(p) = CodeOf(fs \o Append(x, p))
  <2>1. copied \in Seq(Nat) /\ p.count \in Nat
    BY <1>1, <1>6 DEF Pointers
  <2> DEFINE b == Blocks(p)
  <2>2. b \in Seq(Nat) /\ Len(b) = p.count + 1
    BY <1>6
  <2> HIDE DEF b
  <2>3. Len(copied \o b) = Len(copied) + p.count + 1
    <3>1. \A u, v \in Seq(Nat) : Len(u \o v) = Len(u) + Len(v) /\ Len(u) \in Nat
      OBVIOUS
    <3>2. Len(copied \o b) = Len(copied) + Len(b) /\ Len(copied) \in Nat
      BY <2>1, <2>2, <3>1, Zenon
    <3> QED
      BY <2>1, <2>2, <3>2
  <2>4. copied \o Blocks(p) = CodeOf(fs \o Append(x, p))
    BY <1>1, <1>5, <1>6, Zenon
  <2> QED
    BY <2>3, <2>4 DEF b
<1>8. p.count \in Nat /\ Len(copied) \in Nat /\ Len(front) \in Nat /\ MaxLoad \in Nat
  BY <1>1, <1>6, GarbageAssumption DEF Pointers
<1>9. Len(front) + 1 <= Len(copied \o Blocks(p)) /\ Len(copied \o Blocks(p)) <= MaxLoad
      /\ Len(front) <= Len(copied \o Blocks(p))
  BY <1>1, <1>7, <1>8
<1> QED
  BY <1>1, <1>4, <1>7, <1>9 DEF CopiedUpTo, fs

\* At the last pointer of a table the copy goes on with the next one.
LEMMA TableCopied ==
  ASSUME NEW d \in Disks, NEW ptr, NEW t \in Pointers, Readable(t),
         NEW e, EndsAt(d, t, e), NEW next \in Pointers, next = PointerOn(d, t, e), next # NullPtr,
         NEW copied, NEW front, CopiedUpTo(d, ptr, t, e, copied, front), Len(front) + 1 <= Len(copied)
  PROVE  CopiedUpTo(d, ptr, next, 0, copied, Append(front, t))
<1> DEFINE path == Append(front, t)
<1>1. /\ front \in Seq(Pointers) /\ IsPath(d, ptr, path) /\ Len(copied) <= MaxLoad
      /\ copied = CodeOf(SegmentsOf(d, front) \o FirstPointers(d, t, e))
  BY DEF CopiedUpTo
<1>2. LastUsed(d, t) = e
  BY LastUsedEnds, Zenon
<1>3. Link(d, t) = next /\ Listed(d, t) = FirstPointers(d, t, e)
  BY <1>2 DEF Link, Listed
<1>4. /\ SegmentsOf(d, path) = SegmentsOf(d, front) \o Listed(d, t)
      /\ SegmentsOf(d, front) \in Seq(Pointers)
  BY <1>1, FrontIsReadable, SegmentsGrow
<1>5. FirstPointers(d, next, 0) = <<>>
  BY DEF FirstPointers
<1>6. Listed(d, t) \in Seq(Pointers)
  <2>1. e \in 0..PointersIn(t)
    BY TableIsLarge DEF EndsAt
  <2> QED
    BY <1>3, <2>1, ListedPointers
<1>7. /\ path \in Seq(Pointers) /\ Len(path) = Len(front) + 1 /\ path[Len(path)] = t
  BY <1>1
<1> HIDE DEF path
<1>8. SegmentsOf(d, path) \o <<>> = SegmentsOf(d, path)
  <2> DEFINE a == SegmentsOf(d, front)
             b == Listed(d, t)
  <2>1. a \in Seq(Pointers) /\ b \in Seq(Pointers) /\ SegmentsOf(d, path) = a \o b
    BY <1>4, <1>6
  <2> HIDE DEF a, b
  <2>2. a \o b \in Seq(Pointers)
    BY <2>1
  <2> QED
    BY <2>1, <2>2
<1>9. copied = CodeOf(SegmentsOf(d, path) \o FirstPointers(d, next, 0))
  BY <1>1, <1>3, <1>4, <1>5, <1>8
<1>10. IsPath(d, ptr, Append(path, next))
  <2> DEFINE longer == Append(path, next)
  <2>1. /\ longer \in SomeTables /\ Len(longer) = Len(path) + 1 /\ longer[Len(path) + 1] = next
        /\ \A i \in 1..Len(path) : longer[i] = path[i]
    BY <1>7 DEF SomeTables
  <2> HIDE DEF longer
  <2>2. ASSUME NEW i \in 1..(Len(longer) - 1)
        PROVE  Readable(longer[i]) /\ Link(d, longer[i]) # NullPtr /\ longer[i + 1] = Link(d, longer[i])
    <3>1. CASE i = Len(path)
      BY <1>3, <1>7, <2>1, <3>1
    <3>2. CASE i # Len(path)
      <4>1. i \in 1..(Len(path) - 1) /\ i \in 1..Len(path) /\ i + 1 \in 1..Len(path)
        BY <1>7, <2>1, <3>2
      <4>2. Readable(path[i]) /\ Link(d, path[i]) # NullPtr /\ path[i + 1] = Link(d, path[i])
        BY <1>1, <4>1, Zenon DEF IsPath
      <4> QED
        BY <2>1, <4>1, <4>2, Zenon
    <3> QED
      BY <3>1, <3>2
  <2>3. longer[1] = ptr
    <3>1. path[1] = ptr /\ 1 \in 1..Len(path)
      BY <1>1, <1>7 DEF IsPath
    <3> QED
      BY <2>1, <3>1
  <2> QED
    BY <2>1, <2>2, <2>3, Zenon DEF IsPath, longer
<1> QED
  BY <1>1, <1>7, <1>9, <1>10 DEF CopiedUpTo, path

\* At the null pointer the whole component has been copied.
LEMMA ComponentCopied ==
  ASSUME NEW d \in Disks, NEW ptr \in Pointers, NEW t \in Pointers, Readable(t),
         NEW e, EndsAt(d, t, e), PointerOn(d, t, e) = NullPtr,
         NEW copied, NEW front, CopiedUpTo(d, ptr, t, e, copied, front)
  PROVE  copied = Code(d, ptr)
<1> DEFINE path == Append(front, t)
<1>1. /\ front \in Seq(Pointers) /\ IsPath(d, ptr, path)
      /\ Len(front) <= Len(copied) /\ Len(copied) <= MaxLoad
      /\ copied = CodeOf(SegmentsOf(d, front) \o FirstPointers(d, t, e))
  BY DEF CopiedUpTo
<1>2. LastUsed(d, t) = e
  BY LastUsedEnds, Zenon
<1>3. Link(d, t) = NullPtr /\ Listed(d, t) = FirstPointers(d, t, e)
  BY <1>2 DEF Link, Listed
<1>4. SegmentsOf(d, path) = SegmentsOf(d, front) \o Listed(d, t)
  BY <1>1, FrontIsReadable, SegmentsGrow
<1>5. Last(path) = t /\ Len(path) = Len(front) + 1
  BY <1>1 DEF Last
<1>6. Len(path) <= MaxLoad + 1
  <2>1. Len(front) \in Nat /\ Len(copied) \in Int /\ MaxLoad \in Nat
    <3>1. SegmentsOf(d, front) \in Seq(Pointers)
      BY <1>1, FrontIsReadable, SegmentsGrow
    <3>2. FirstPointers(d, t, e) \in Seq(Pointers)
      <4>1. e \in 0..PointersIn(t)
        BY TableIsLarge DEF EndsAt
      <4> QED
        BY <4>1, ListedPointers
    <3>3. SegmentsOf(d, front) \o FirstPointers(d, t, e) \in Seq(Pointers)
      BY <3>1, <3>2
    <3>4. copied \in Seq(Nat)
      BY <1>1, <3>3, CodeGrows, NullIsNotReadable
    <3> QED
      BY <1>1, <3>4, GarbageAssumption
  <2> QED
    BY <1>1, <1>5, <2>1
<1>7. Chain(d, ptr) = path
  <2> HIDE DEF path
  <2> QED
    BY <1>1, <1>3, <1>5, <1>6, PathIsChain
<1> QED
  BY <1>1, <1>3, <1>4, <1>7 DEF Code

\* Outside of a copy there is nothing to keep track of.
LEMMA CopyOutside ==
  ASSUME CopyByPlace, UNCHANGED copyVars, bpc' \notin {"table", "segment", "copied"}
  PROVE  CopyByPlace'
  BY DEF CopyByPlace, copyVars

\* A copy that starts has copied nothing.
LEMMA CopyBegins ==
  ASSUME NEW c, NEW ptr \in Pointers, StartCopy(c, ptr)
  PROVE  CopyByPlace'
  BY DEF StartCopy, CopyByPlace

\* The first table is where the copy starts.
LEMMA FirstTableStep == ASSUME WalkInv, CopyByPlace, ReadFirstTable PROVE CopyByPlace'
<1>1. /\ root \in Pointers /\ table = root /\ buffer = <<>> /\ entry = 0 /\ disk \in Disks
      /\ UNCHANGED <<disk, root, table, entry, buffer>> /\ bpc' = "segment"
  BY DEF ReadFirstTable, CopyByPlace, WalkInv, WalkByPlace, BootmapTypes
<1>2. CopiedUpTo(disk, root, root, 0, <<>>, <<>>)
  <2>1. Append(<<>>, root) = <<root>> /\ <<root>> \in SomeTables /\ <<>> \in Seq(Pointers)
    BY <1>1 DEF SomeTables
  <2>2. IsPath(disk, root, <<root>>)
    BY <2>1 DEF IsPath
  <2>3. FirstPointers(disk, root, 0) = <<>>
    BY DEF FirstPointers
  <2>4. <<>> = CodeOf(SegmentsOf(disk, <<>>) \o FirstPointers(disk, root, 0))
    <3>1. <<>> \o <<>> = <<>>
      OBVIOUS
    <3> QED
      BY <2>3, <3>1, NothingListed, Zenon
  <2>5. Len(<<>>) <= Len(<<>>) /\ Len(<<>>) <= MaxLoad
    BY GarbageAssumption
  <2> QED
    BY <2>1, <2>2, <2>4, <2>5, Zenon DEF CopiedUpTo
<1>3. \E front : CopiedUpTo(disk', root', table', entry', buffer', front)
  BY <1>1, <1>2, Zenon
<1>4. \A j \in 0..(entry - 1) : FALSE
  BY <1>1
<1> QED
  BY <1>1, <1>3, <1>4 DEF CopyByPlace

\* A segment that is loaded is the next one of the component.
LEMMA LoadStep == ASSUME WalkInv, CopyByPlace, LoadSegment PROVE CopyByPlace'
<1> DEFINE next == PointerOn(disk, table, entry + 1)
<1>1. /\ disk \in Disks /\ table \in Pointers /\ entry \in Nat /\ Readable(table)
      /\ entry < PointersIn(table) /\ code_ptr = PointerOn(disk, table, entry)
      /\ entry + 1 < PointersIn(table) /\ root \in Pointers
      /\ \A j \in 0..(entry - 1) : PointerOn(disk, table, j) # NullPtr
  BY DEF LoadSegment, WalkInv, WalkByPlace, BootmapTypes, CopyByPlace, ReadPacked, PointerOn
<1>2. /\ Readable(code_ptr) /\ Len(buffer) + code_ptr.count + 1 <= MaxLoad
      /\ buffer' = buffer \o Blocks(code_ptr) /\ root' = root /\ disk' = disk
      /\ bpc' = IF code_ptr' = NullPtr THEN "copied" ELSE "segment"
  BY DEF LoadSegment
<1>3. PICK front : CopiedUpTo(disk, root, table, entry, buffer, front)
  BY DEF LoadSegment, CopyByPlace
<1>4. code_ptr \in Pointers /\ code_ptr # NullPtr
  BY <1>1, <1>2, PointerOnDisk, NullIsNotReadable
<1>5. /\ CopiedUpTo(disk, root, table, entry + 1, buffer', front)
      /\ Len(front) + 1 <= Len(buffer')
  BY <1>1, <1>2, <1>3, <1>4, SegmentCopied
<1>6. \A j \in 0..((entry + 1) - 1) : PointerOn(disk, table, j) # NullPtr
  BY <1>1, <1>4
<1>7. next = ReadPacked(table, entry + 1)
  BY DEF ReadPacked, PointerOn
<1> HIDE DEF next
<1>8. CASE /\ EndOfTable(entry + 1) /\ next # NullPtr /\ Readable(next)
           /\ table' = next /\ entry' = 0
  <2>1. next \in Pointers
    BY <1>1, PointerOnDisk DEF next
  <2>2. EndsAt(disk, table, entry + 1)
    <3>1. entry + 1 \in 0..(PointersIn(table) - 1) /\ entry + 1 = PointersIn(table) - 1
      BY <1>1, <1>8, TableIsLarge DEF EndOfTable
    <3> QED
      BY <1>6, <3>1, Zenon DEF EndsAt
  <2>3. CopiedUpTo(disk, root, next, 0, buffer', Append(front, table))
    BY <1>1, <1>5, <1>8, <2>1, <2>2, TableCopied DEF next
  <2>4. CopiedUpTo(disk', root', table', entry', buffer', Append(front, table))
    BY <1>2, <1>8, <2>3, Zenon
  <2>5. \A j \in 0..(entry' - 1) : FALSE
    BY <1>8
  <2> QED
    BY <1>1, <1>2, <2>4, <2>5 DEF CopyByPlace
<1>9. CASE table' = table /\ entry' = entry + 1
  <2>1. CopiedUpTo(disk', root', table', entry', buffer', front)
    BY <1>2, <1>5, <1>9, Zenon
  <2>2. \A j \in 0..(entry' - 1) : PointerOn(disk', table', j) # NullPtr
    BY <1>2, <1>6, <1>9, Zenon
  <2> QED
    BY <1>1, <1>2, <2>1, <2>2 DEF CopyByPlace
<1> QED
  BY <1>7, <1>8, <1>9 DEF LoadSegment

\* Every step copies what comes next.
LEMMA CopyStep == WalkInv /\ CopyByPlace /\ [BootmapNext]_bootmapVars => CopyByPlace'
<1> SUFFICES ASSUME WalkInv, CopyByPlace, [BootmapNext]_bootmapVars PROVE CopyByPlace'
  OBVIOUS
<1>1. /\ comps \in Seq(Components) /\ NullPtr \in Pointers
      /\ objs.kernel \in Pointers /\ objs.initrd \in Pointers /\ objs.parmfile \in Pointers
  BY NullIsNotReadable DEF WalkInv, BootmapTypes
<1>2. \A k \in 1..Len(comps) : comps[k].seg \in Pointers
  BY <1>1, SegmentPointers
<1>3. CASE DiskOpen \/ GetProgramTable \/ GetComponentTable \/ TableFails
  BY <1>3, CopyOutside DEF DiskOpen, GetProgramTable, GetComponentTable, TableFails
<1>4. CASE CopyHangs \/ WriteFails \/ ReadParmfile
  BY <1>4, CopyOutside DEF CopyHangs, WriteFails, ReadParmfile
<1>5. CASE ReadFirstTable
  BY <1>5, FirstTableStep
<1>6. CASE LoadSegment
  BY <1>6, LoadStep
<1>7. CASE CopyFails
  BY <1>1, <1>7, CopyOutside, CopyBegins DEF CopyFails
<1>8. CASE FindStage3
  <2>1. PICK n \in Executes : n > 1 /\ StartCopy("stage3", comps[n - 1].seg)
    BY <1>8 DEF FindStage3
  <2>2. n - 1 \in 1..Len(comps)
    BY <1>1, <2>1 DEF Executes
  <2> QED
    BY <1>2, <2>1, <2>2, CopyBegins
<1>9. CASE NoStage3
  BY <1>1, <1>9, CopyBegins DEF NoStage3
<1>10. CASE IdentifyBootObjects
  <2>1. objs'.kernel \in Pointers
    BY <1>1, <1>2, <1>10 DEF IdentifyBootObjects, NoObjects
  <2>2. StartCopy("kernel", objs'.kernel)
    BY <1>10 DEF IdentifyBootObjects
  <2> QED
    BY <2>1, <2>2, CopyBegins
<1>11. ASSUME CopyOrKexec("parmfile", objs.parmfile) PROVE CopyByPlace'
  BY <1>1, <1>11, CopyOutside, CopyBegins DEF CopyOrKexec
<1>12. CASE WriteKernel
  BY <1>1, <1>11, <1>12, CopyBegins DEF WriteKernel
<1>13. CASE WriteInitrd
  BY <1>11, <1>13 DEF WriteInitrd
<1>14. ASSUME UNCHANGED bootmapVars PROVE CopyByPlace'
  <2>1. UNCHANGED <<disk, bpc, root, table, entry, code_ptr, buffer>>
    BY <1>14 DEF bootmapVars
  <2>2. /\ \A j \in 0..(entry - 1) : PointerOn(disk, table, j) # NullPtr
           => PointerOn(disk', table', j) # NullPtr
        /\ \A front : CopiedUpTo(disk, root, table, entry, buffer, front)
           => CopiedUpTo(disk', root', table', entry', buffer', front)
    BY <2>1, Zenon
  <2> QED
    BY <2>1, <2>2 DEF CopyByPlace
<1> QED
  BY <1>3, <1>4, <1>5, <1>6, <1>7, <1>8, <1>9, <1>10, <1>12, <1>13, <1>14 DEF BootmapNext

\* Wherever a component has been copied, it is the whole code of the component.
LEMMA CopyIsCode == WalkInv /\ CopyByPlace => CopiedIsTheComponent
<1> SUFFICES ASSUME WalkInv, CopyByPlace, bpc = "copied" PROVE buffer = Code(disk, root)
  BY DEF CopiedIsTheComponent
<1>1. /\ disk \in Disks /\ table \in Pointers /\ entry \in Nat /\ Readable(table)
      /\ entry < PointersIn(table) /\ PointerOn(disk, table, entry) = NullPtr
      /\ \A j \in 0..(entry - 1) : PointerOn(disk, table, j) # NullPtr
      /\ root \in Pointers
  BY DEF WalkInv, WalkByPlace, BootmapTypes, CopyByPlace, ReadPacked, PointerOn
<1>2. PICK front : CopiedUpTo(disk, root, table, entry, buffer, front)
  BY DEF CopyByPlace
<1>3. EndsAt(disk, table, entry)
  <2>1. entry \in 0..(PointersIn(table) - 1)
    BY <1>1, TableIsLarge
  <2> QED
    BY <1>1, <2>1, Zenon DEF EndsAt
<1> QED
  BY <1>1, <1>2, <1>3, ComponentCopied

\* What has been copied for a component is all of its code in its order, on any disk and
\* through any number of segment tables of any length.
THEOREM ComponentIsCopied == BootmapSpec => []CopiedIsTheComponent
<1>1. BootmapInit => CopyByPlace
  BY NullIsNotReadable DEF BootmapInit, CopyByPlace
<1> QED
  BY <1>1, CopyIsCode, WalkStarts, WalkStep, CopyStep, PTL DEF BootmapSpec

-----------------------------------------------------------------------------
(* The objects that reach kexec *)

Copying == {"table", "segment", "copied"}

\* k is the last component before the stage 3 loader, the one that holds its parameters.
LastBefore(d, k) == k \in OnDiskBeforeStage3(d) /\ k + 1 \notin OnDiskBeforeStage3(d)

\* ptr is the component that a stage 3 loader names by addr, or NullPtr if it names none.
Names(d, addr, ptr) ==
  \/ ptr = NullPtr /\ \A i \in OnDiskBeforeStage3(d) : ~Named(d, addr, i)
  \/ \E i \in OnDiskBeforeStage3(d) : Named(d, addr, i) /\ ptr = d.comps[i].seg

\* The objects are those that the stage 3 loader in component k names.
NamedIn(d, k, kernel, initrd, parmfile, len) ==
  LET stage3 == d.params[Code(d, d.comps[k].seg)[1]] IN
  /\ Names(d, stage3.psw, kernel) /\ Names(d, stage3.initrd, initrd)
  /\ Names(d, stage3.parm, parmfile)
  /\ initrd # NullPtr => len = stage3.len

\* What is known of the components and the boot objects, place by place
NamesByPlace ==
  HasStage3(disk) =>
    /\ bpc \in Copying \cup {"identify", "kexec"} => \E g \in Garbage : comps = Append(disk.comps, g)
    /\ bpc \in Copying /\ comp = "stage3" => \E k : LastBefore(disk, k) /\ root = disk.comps[k].seg
    /\ objs.kernel # NullPtr =>
         \E k : LastBefore(disk, k) /\ NamedIn(disk, k, objs.kernel, objs.initrd, objs.parmfile, objs.len)

\* What is copied is one of the boot objects.
RootByPlace ==
  /\ bpc \in Copying /\ comp = "kernel" => root \in {objs.kernel, NullPtr}
  /\ bpc \in Copying /\ comp = "initrd" => root \in {objs.initrd, NullPtr}
  /\ bpc \in Copying /\ comp = "parmfile" => root \in {objs.parmfile, NullPtr}
  /\ bpc \in {"segment", "copied"} => root # NullPtr

\* What has been written by the time the next object is copied
LoadedByPlace ==
  /\ DOMAIN loaded = {"kernel", "initrd", "parmfile"}
  /\ (bpc \in Copying /\ comp \in {"initrd", "parmfile"}) \/ bpc = "kexec" =>
       loaded["kernel"] = Code(disk, objs.kernel)
  /\ (bpc \in Copying /\ comp = "parmfile") \/ bpc = "kexec" =>
       objs.initrd = NullPtr \/ loaded["initrd"] = SubSeq(Code(disk, objs.initrd), 1, objs.len)
  /\ bpc = "kexec" =>
       objs.parmfile = NullPtr \/ loaded["parmfile"] = Code(disk, objs.parmfile)

ObjectsInv == NamesByPlace /\ RootByPlace /\ LoadedByPlace

\* Whatever lies behind the component table, the components before the stage 3 loader are
\* those on the disk.
LEMMA BeforeStage3 ==
  ASSUME disk \in Disks, HasStage3(disk), NEW g, comps = Append(disk.comps, g)
  PROVE  \A k : /\ (k \in 1..Len(comps) /\ \A n \in Executes : k < n) <=> k \in OnDiskBeforeStage3(disk)
                /\ k \in OnDiskBeforeStage3(disk) => comps[k] = disk.comps[k]
<1> DEFINE L == Len(disk.comps)
<1>1. disk.comps \in Seq(Components) /\ L \in Nat
  BY DiskAssumption
<1>2. /\ Len(comps) = L + 1 /\ \A k \in 1..L : comps[k] = disk.comps[k]
  BY <1>1
<1>3. PICK m \in 1..L : disk.comps[m].type = "execute"
  BY DEF HasStage3
<1> HIDE DEF L
<1>4. m \in Executes
  BY <1>1, <1>2, <1>3 DEF Executes
<1>5. \A k : k \in OnDiskBeforeStage3(disk) <=> k \in 1..L /\ \A n \in 1..k : disk.comps[n].type # "execute"
  BY DEF OnDiskBeforeStage3, L
<1>6. ASSUME NEW k, k \in 1..Len(comps), \A n \in Executes : k < n
      PROVE  k \in OnDiskBeforeStage3(disk)
  <2>1. k < m /\ k \in 1..L
    BY <1>1, <1>2, <1>3, <1>4, <1>6
  <2>2. ASSUME NEW n \in 1..k, disk.comps[n].type = "execute" PROVE FALSE
    <3>1. n \in 1..L /\ n \in 1..Len(comps) /\ ~(k < n)
      BY <1>1, <1>2, <2>1
    <3>2. n \in Executes
      BY <1>2, <2>2, <3>1 DEF Executes
    <3> QED
      BY <1>6, <3>1, <3>2
  <2> QED
    BY <1>5, <2>1, <2>2
<1>7. ASSUME NEW k, k \in OnDiskBeforeStage3(disk)
      PROVE  k \in 1..Len(comps) /\ comps[k] = disk.comps[k] /\ \A n \in Executes : k < n
  <2>1. k \in 1..L /\ \A n \in 1..k : disk.comps[n].type # "execute"
    BY <1>5, <1>7
  <2>2. ASSUME NEW n \in Executes PROVE k < n
    <3>1. n \in 1..Len(comps) /\ comps[n].type = "execute"
      BY DEF Executes
    <3>2. ASSUME ~(k < n) PROVE FALSE
      <4>1. n \in 1..k /\ n \in 1..L
        BY <1>1, <1>2, <2>1, <3>1, <3>2
      <4> QED
        BY <1>2, <2>1, <3>1, <4>1
    <3> QED
      BY <3>2
  <2> QED
    BY <1>1, <1>2, <2>1, <2>2
<1> QED
  BY <1>6, <1>7, Zenon

\* What identify_boot_objects() finds at an address is what that address names.
LEMMA LookupNames ==
  ASSUME disk \in Disks, HasStage3(disk), NEW g, comps = Append(disk.comps, g),
         NEW addr, NEW ptr, Lookup(addr, ptr)
  PROVE  Names(disk, addr, ptr) /\ (AtAddress(addr) = {} => ptr = NullPtr)
<1>1. \A k : k \in AtAddress(addr) <=> k \in OnDiskBeforeStage3(disk) /\ disk.comps[k].addr = addr
  <2> DEFINE Before(k) == k \in 1..Len(comps) /\ \A n \in Executes : k < n
  <2>1. \A k : k \in AtAddress(addr) <=> Before(k) /\ comps[k].addr = addr
    BY DEF AtAddress
  <2>2. \A k : /\ Before(k) <=> k \in OnDiskBeforeStage3(disk)
               /\ k \in OnDiskBeforeStage3(disk) => comps[k] = disk.comps[k]
    BY BeforeStage3
  <2> HIDE DEF Before
  <2> QED
    BY <2>1, <2>2
<1>2. CASE AtAddress(addr) = {} /\ ptr = NullPtr
  BY <1>1, <1>2 DEF Names, Named
<1>3. CASE \E k \in AtAddress(addr) : ptr = comps[k].seg /\ \A j \in AtAddress(addr) : k <= j
  <2>1. PICK k \in AtAddress(addr) : ptr = comps[k].seg /\ \A j \in AtAddress(addr) : k <= j
    BY <1>3
  <2>2. k \in OnDiskBeforeStage3(disk) /\ comps[k] = disk.comps[k] /\ disk.comps[k].addr = addr
    BY <1>1, BeforeStage3
  <2>3. ASSUME NEW j \in OnDiskBeforeStage3(disk), j < k, disk.comps[j].addr = addr PROVE FALSE
    <3>1. k <= j /\ j \in 1..Len(disk.comps) /\ k \in 1..Len(disk.comps)
      BY <1>1, <2>1, <2>2, <2>3 DEF OnDiskBeforeStage3
    <3> QED
      BY <2>3, <3>1
  <2>4. Named(disk, addr, k)
    BY <2>2, <2>3 DEF Named
  <2> QED
    BY <2>1, <2>2, <2>4 DEF Names
<1> QED
  BY <1>2, <1>3 DEF Lookup

\* The stage 3 loader that is found is the one on the disk.
LEMMA FoundStage3 ==
  ASSUME disk \in Disks, HasStage3(disk), NEW g, comps = Append(disk.comps, g),
         NEW n \in Executes, IsStage3(n), n > 1
  PROVE  LastBefore(disk, n - 1) /\ comps[n - 1].seg = disk.comps[n - 1].seg
<1>1. /\ n \in 1..Len(comps) /\ \A k \in Executes : n <= k /\ k \in 1..Len(comps)
  BY DEF Executes, IsStage3
<1>2. n - 1 \in 1..Len(comps) /\ \A k \in Executes : n - 1 < k
  BY <1>1
<1>3. (n - 1) + 1 = n
  BY <1>1
<1>4. n - 1 \in OnDiskBeforeStage3(disk) /\ comps[n - 1] = disk.comps[n - 1]
  BY <1>2, BeforeStage3
<1>5. n \notin OnDiskBeforeStage3(disk)
  <2>1. ~(n < n)
    BY <1>1
  <2> QED
    BY <2>1, BeforeStage3
<1> QED
  BY <1>3, <1>4, <1>5 DEF LastBefore

\* identify_boot_objects() finds the boot objects that the stage 3 loader names.
LEMMA IdentifyNames ==
  ASSUME WalkInv, CopyByPlace, NamesByPlace, IdentifyBootObjects
  PROVE  NamesByPlace'
<1> SUFFICES ASSUME HasStage3(disk') PROVE NamesByPlace'
  BY DEF NamesByPlace
<1>1. disk' = disk /\ comps' = comps /\ bpc' = "table" /\ comp' = "kernel" /\ HasStage3(disk)
  BY DEF IdentifyBootObjects, StartCopy
<1>2. PICK g \in Garbage : comps = Append(disk.comps, g)
  BY <1>1 DEF IdentifyBootObjects, NamesByPlace, Copying
<1>3. PICK k : LastBefore(disk, k) /\ root = disk.comps[k].seg
  BY <1>1 DEF IdentifyBootObjects, NamesByPlace, Copying
<1>4. buffer = Code(disk, disk.comps[k].seg)
  BY <1>3, CopyIsCode DEF IdentifyBootObjects, CopiedIsTheComponent
<1> DEFINE stage3 == disk.params[Code(disk, disk.comps[k].seg)[1]]
<1>5. PICK kernel, initrd, parmfile :
        /\ Lookup(stage3.psw, kernel) /\ Lookup(stage3.initrd, initrd) /\ Lookup(stage3.parm, parmfile)
        /\ objs' = IF AtAddress(stage3.psw) = {} THEN NoObjects
                   ELSE [kernel |-> kernel, initrd |-> initrd, parmfile |-> parmfile,
                         len |-> IF AtAddress(stage3.initrd) = {} THEN 0 ELSE stage3.len]
  BY <1>4 DEF IdentifyBootObjects
<1> HIDE DEF stage3
<1>6. disk \in Disks
  BY DEF WalkInv, BootmapTypes
<1>7. ASSUME objs'.kernel # NullPtr
      PROVE  NamedIn(disk, k, objs'.kernel, objs'.initrd, objs'.parmfile, objs'.len)
  <2>1. /\ objs'.kernel = kernel /\ objs'.initrd = initrd /\ objs'.parmfile = parmfile
        /\ objs'.len = IF AtAddress(stage3.initrd) = {} THEN 0 ELSE stage3.len
    BY <1>5, <1>7 DEF NoObjects
  <2>2. Names(disk, stage3.psw, kernel)
    BY <1>1, <1>2, <1>5, <1>6, LookupNames
  <2>3. Names(disk, stage3.initrd, initrd) /\ (AtAddress(stage3.initrd) = {} => initrd = NullPtr)
    BY <1>1, <1>2, <1>5, <1>6, LookupNames
  <2>4. Names(disk, stage3.parm, parmfile)
    BY <1>1, <1>2, <1>5, <1>6, LookupNames
  <2> QED
    BY <2>1, <2>2, <2>3, <2>4 DEF NamedIn, stage3
<1> QED
  BY <1>1, <1>2, <1>3, <1>7 DEF NamesByPlace, Copying

\* Every step keeps to the components on the disk and to what its stage 3 loader names.
LEMMA NamesStep ==
  WalkInv /\ CopyByPlace /\ NamesByPlace /\ [BootmapNext]_bootmapVars => NamesByPlace'
<1> SUFFICES ASSUME WalkInv, CopyByPlace, NamesByPlace, [BootmapNext]_bootmapVars
             PROVE  NamesByPlace'
  OBVIOUS
<1>1. ASSUME UNCHANGED <<disk, comps, objs>>,
             bpc' \in Copying \cup {"identify", "kexec"} => bpc \in Copying \cup {"identify", "kexec"},
             bpc' \in Copying /\ comp' = "stage3" => bpc \in Copying /\ comp = "stage3" /\ root' = root
      PROVE  NamesByPlace'
  BY <1>1 DEF NamesByPlace
<1>2. ASSUME NEW c, c # "stage3", NEW ptr, StartCopy(c, ptr), UNCHANGED <<disk, comps, objs>>,
             bpc \in Copying \cup {"identify", "kexec"}
      PROVE  NamesByPlace'
  BY <1>1, <1>2 DEF StartCopy
<1>3. CASE DiskOpen \/ GetProgramTable \/ TableFails \/ CopyHangs \/ WriteFails
  BY <1>1, <1>3 DEF DiskOpen, GetProgramTable, TableFails, CopyHangs, WriteFails, Copying
<1>4. CASE GetComponentTable
  <2>1. /\ disk' = disk /\ objs' = objs /\ bpc' = "identify"
        /\ \E g \in Garbage : comps' = Append(disk.comps, g)
    BY <1>4 DEF GetComponentTable
  <2> QED
    BY <2>1 DEF NamesByPlace, Copying
<1>5. CASE ReadFirstTable \/ LoadSegment
  BY <1>1, <1>5 DEF ReadFirstTable, LoadSegment, Copying
<1>6. CASE CopyFails
  <2>1. CASE StartCopy("kernel", NullPtr)
    BY <1>2, <1>6, <2>1 DEF CopyFails, Copying
  <2>2. CASE bpc' = "error"
    BY <1>1, <1>6, <2>2 DEF CopyFails, Copying
  <2> QED
    BY <1>6, <2>1, <2>2 DEF CopyFails
<1>7. CASE FindStage3
  <2>1. PICK n \in Executes : IsStage3(n) /\ n > 1 /\ StartCopy("stage3", comps[n - 1].seg)
    BY <1>7 DEF FindStage3
  <2>2. /\ bpc = "identify" /\ UNCHANGED <<disk, comps, objs>> /\ disk \in Disks
        /\ root' = comps[n - 1].seg /\ bpc' = "table"
    BY <1>7, <2>1 DEF FindStage3, StartCopy, WalkInv, BootmapTypes
  <2>3. SUFFICES ASSUME HasStage3(disk) PROVE NamesByPlace'
    BY <2>2 DEF NamesByPlace
  <2>4. PICK g \in Garbage : comps = Append(disk.comps, g)
    BY <2>2, <2>3 DEF NamesByPlace
  <2>5. LastBefore(disk, n - 1) /\ comps[n - 1].seg = disk.comps[n - 1].seg
    BY <2>1, <2>2, <2>3, <2>4, FoundStage3
  <2>6. \E k : LastBefore(disk, k) /\ root' = disk.comps[k].seg
    BY <2>2, <2>5
  <2> QED
    BY <2>2, <2>3, <2>4, <2>6 DEF NamesByPlace, Copying
<1>8. CASE NoStage3
  BY <1>2, <1>8 DEF NoStage3
<1>9. CASE IdentifyBootObjects
  BY <1>9, IdentifyNames
<1>10. ASSUME CopyOrKexec("parmfile", objs.parmfile), UNCHANGED <<disk, comps, objs>>, bpc = "copied"
       PROVE  NamesByPlace'
  <2>1. CASE StartCopy("parmfile", objs.parmfile)
    BY <1>2, <1>10, <2>1 DEF Copying
  <2>2. CASE bpc' = "kexec"
    BY <1>1, <1>10, <2>2 DEF Copying
  <2> QED
    BY <1>10, <2>1, <2>2 DEF CopyOrKexec
<1>11. CASE WriteKernel
  <2>1. CASE StartCopy("initrd", objs.initrd)
    BY <1>2, <1>11, <2>1 DEF WriteKernel, Copying
  <2> QED
    BY <1>10, <1>11, <2>1 DEF WriteKernel
<1>12. CASE WriteInitrd
  BY <1>10, <1>12 DEF WriteInitrd
<1>13. CASE ReadParmfile
  BY <1>1, <1>13 DEF ReadParmfile, Copying
<1>14. ASSUME UNCHANGED bootmapVars PROVE NamesByPlace'
  BY <1>1, <1>14 DEF bootmapVars
<1> QED
  BY <1>3, <1>4, <1>5, <1>6, <1>7, <1>8, <1>9, <1>11, <1>12, <1>13, <1>14 DEF BootmapNext

\* A copy is begun for a boot object only, and is not carried on for none.
LEMMA RootStep ==
  CopyByPlace /\ RootByPlace /\ [BootmapNext]_bootmapVars => RootByPlace'
<1> SUFFICES ASSUME CopyByPlace, RootByPlace, [BootmapNext]_bootmapVars PROVE RootByPlace'
  OBVIOUS
<1>1. ASSUME bpc' \notin Copying PROVE RootByPlace'
  BY <1>1 DEF RootByPlace, Copying
<1>2. ASSUME UNCHANGED <<objs, comp, root>>, bpc' \in Copying => bpc \in Copying,
             bpc' \in {"segment", "copied"} => root # NullPtr
      PROVE  RootByPlace'
  BY <1>2 DEF RootByPlace
<1>3. ASSUME NEW c \in {"stage3", "kernel", "initrd", "parmfile"}, NEW ptr, StartCopy(c, ptr),
             c = "kernel" => ptr \in {objs'.kernel, NullPtr},
             c = "initrd" => ptr = objs'.initrd, c = "parmfile" => ptr = objs'.parmfile
      PROVE  RootByPlace'
  BY <1>3 DEF RootByPlace, StartCopy
<1>4. CASE DiskOpen \/ GetProgramTable \/ GetComponentTable \/ TableFails \/ CopyHangs \/ WriteFails
  BY <1>1, <1>4
     DEF DiskOpen, GetProgramTable, GetComponentTable, TableFails, CopyHangs, WriteFails, Copying
<1>5. CASE ReadFirstTable
  <2>1. root # NullPtr
    BY <1>5, NullIsNotReadable DEF ReadFirstTable, CopyByPlace
  <2> QED
    BY <1>2, <1>5, <2>1 DEF ReadFirstTable, Copying
<1>6. CASE LoadSegment
  BY <1>2, <1>6 DEF LoadSegment, Copying, RootByPlace
<1>7. CASE CopyFails
  BY <1>1, <1>3, <1>7 DEF CopyFails, Copying
<1>8. CASE FindStage3
  <2>1. PICK n \in Executes : StartCopy("stage3", comps[n - 1].seg)
    BY <1>8 DEF FindStage3
  <2> QED
    BY <1>3, <2>1
<1>9. CASE NoStage3
  BY <1>3, <1>9 DEF NoStage3
<1>10. CASE IdentifyBootObjects
  <2>1. StartCopy("kernel", objs'.kernel)
    BY <1>10 DEF IdentifyBootObjects
  <2> QED
    BY <1>3, <2>1
<1>11. ASSUME CopyOrKexec("parmfile", objs.parmfile), UNCHANGED objs PROVE RootByPlace'
  <2>1. CASE StartCopy("parmfile", objs.parmfile)
    BY <1>3, <1>11, <2>1
  <2>2. CASE bpc' = "kexec"
    BY <1>1, <2>2 DEF Copying
  <2> QED
    BY <1>11, <2>1, <2>2 DEF CopyOrKexec
<1>12. CASE WriteKernel
  <2>1. CASE StartCopy("initrd", objs.initrd)
    BY <1>3, <1>12, <2>1 DEF WriteKernel
  <2> QED
    BY <1>11, <1>12, <2>1 DEF WriteKernel
<1>13. CASE WriteInitrd
  BY <1>11, <1>13 DEF WriteInitrd
<1>14. CASE ReadParmfile
  BY <1>1, <1>14 DEF ReadParmfile, Copying
<1>15. ASSUME UNCHANGED bootmapVars PROVE RootByPlace'
  BY <1>2, <1>15 DEF bootmapVars, RootByPlace
<1> QED
  BY <1>4, <1>5, <1>6, <1>7, <1>8, <1>9, <1>10, <1>12, <1>13, <1>14, <1>15 DEF BootmapNext

\* What is written is the boot object whose turn it is.
LEMMA LoadedStep ==
  WalkInv /\ CopyByPlace /\ KernelByPlace /\ RootByPlace /\ LoadedByPlace /\ [BootmapNext]_bootmapVars
    => LoadedByPlace'
<1> SUFFICES ASSUME WalkInv, CopyByPlace, KernelByPlace, RootByPlace, LoadedByPlace,
                    [BootmapNext]_bootmapVars
             PROVE  LoadedByPlace'
  OBVIOUS
<1> DEFINE Later == {"initrd", "parmfile"}
<1>1. ASSUME UNCHANGED loaded, bpc' # "kexec", bpc' \in Copying => comp' \notin Later
      PROVE  LoadedByPlace'
  BY <1>1 DEF LoadedByPlace
<1>2. ASSUME UNCHANGED <<disk, objs, loaded, comp>>, bpc' \in Copying => bpc \in Copying,
             bpc' = "kexec" => bpc = "kexec"
      PROVE  LoadedByPlace'
  BY <1>2 DEF LoadedByPlace
<1>3. CASE DiskOpen \/ GetProgramTable \/ GetComponentTable \/ TableFails \/ CopyHangs \/ WriteFails
  BY <1>1, <1>3
     DEF DiskOpen, GetProgramTable, GetComponentTable, TableFails, CopyHangs, WriteFails, Copying
<1>4. CASE ReadFirstTable \/ LoadSegment
  BY <1>2, <1>4 DEF ReadFirstTable, LoadSegment, Copying
<1>5. CASE CopyFails
  BY <1>1, <1>5 DEF CopyFails, StartCopy, Copying
<1>6. CASE FindStage3 \/ NoStage3
  BY <1>1, <1>6 DEF FindStage3, NoStage3, StartCopy
<1>7. CASE IdentifyBootObjects
  <2>1. StartCopy("kernel", objs'.kernel) /\ UNCHANGED loaded
    BY <1>7 DEF IdentifyBootObjects
  <2> QED
    BY <1>1, <2>1 DEF StartCopy
<1>8. bpc = "copied" => buffer = Code(disk, root) /\ root # NullPtr
  BY CopyIsCode DEF CopiedIsTheComponent, RootByPlace
<1>9. CASE WriteKernel
  <2>1. /\ bpc = "copied" /\ comp = "kernel" /\ disk' = disk /\ objs' = objs
        /\ loaded' = [loaded EXCEPT !["kernel"] = buffer]
    BY <1>9 DEF WriteKernel
  <2>2. buffer = Code(disk, objs.kernel)
    BY <1>8, <2>1 DEF RootByPlace, Copying
  <2>3. DOMAIN loaded' = {"kernel", "initrd", "parmfile"} /\ loaded'["kernel"] = Code(disk', objs'.kernel)
    BY <2>1, <2>2 DEF LoadedByPlace
  <2>4. CASE StartCopy("initrd", objs.initrd)
    BY <2>3, <2>4 DEF StartCopy, LoadedByPlace
  <2>5. CASE objs.initrd = NullPtr /\ StartCopy("parmfile", objs.parmfile)
    BY <2>1, <2>3, <2>5 DEF StartCopy, LoadedByPlace
  <2>6. CASE objs.initrd = NullPtr /\ objs.parmfile = NullPtr /\ bpc' = "kexec"
    BY <2>1, <2>3, <2>6 DEF LoadedByPlace, Copying
  <2> QED
    BY <1>9, <2>4, <2>5, <2>6 DEF WriteKernel, CopyOrKexec
<1>10. CASE WriteInitrd
  <2>1. /\ bpc = "copied" /\ comp = "initrd" /\ disk' = disk /\ objs' = objs
        /\ loaded' = [loaded EXCEPT !["initrd"] = SubSeq(buffer, 1, objs.len)]
    BY <1>10 DEF WriteInitrd
  <2>2. buffer = Code(disk, objs.initrd)
    BY <1>8, <2>1 DEF RootByPlace, Copying
  <2>3. /\ DOMAIN loaded' = {"kernel", "initrd", "parmfile"}
        /\ loaded'["kernel"] = Code(disk', objs'.kernel)
        /\ loaded'["initrd"] = SubSeq(Code(disk', objs'.initrd), 1, objs'.len)
    BY <2>1, <2>2 DEF LoadedByPlace, Copying
  <2>4. CASE StartCopy("parmfile", objs.parmfile)
    BY <2>3, <2>4 DEF StartCopy, LoadedByPlace
  <2>5. CASE objs.parmfile = NullPtr /\ bpc' = "kexec"
    BY <2>1, <2>3, <2>5 DEF LoadedByPlace, Copying
  <2> QED
    BY <1>10, <2>4, <2>5 DEF WriteInitrd, CopyOrKexec
<1>11. CASE ReadParmfile
  <2>1. /\ bpc = "copied" /\ comp = "parmfile" /\ disk' = disk /\ objs' = objs /\ bpc' = "kexec"
        /\ loaded' = [loaded EXCEPT !["parmfile"] = buffer]
    BY <1>11 DEF ReadParmfile
  <2>2. buffer = Code(disk, objs.parmfile)
    BY <1>8, <2>1 DEF RootByPlace, Copying
  <2> QED
    BY <2>1, <2>2 DEF LoadedByPlace, Copying
<1>12. ASSUME UNCHANGED bootmapVars PROVE LoadedByPlace'
  BY <1>2, <1>12 DEF bootmapVars
<1> QED
  BY <1>3, <1>4, <1>5, <1>6, <1>7, <1>9, <1>10, <1>11, <1>12 DEF BootmapNext

\* An address names at most one component.
LEMMA NamedOnce ==
  ASSUME NEW d, NEW addr, NEW i, NEW j, Named(d, addr, i), Named(d, addr, j)
  PROVE  i = j
<1>1. /\ i \in OnDiskBeforeStage3(d) /\ j \in OnDiskBeforeStage3(d)
      /\ d.comps[i].addr = addr /\ d.comps[j].addr = addr
      /\ ~(i < j) /\ ~(j < i)
  BY DEF Named
<1>2. i \in Nat /\ j \in Nat
  BY <1>1 DEF OnDiskBeforeStage3
<1> QED
  BY <1>1, <1>2

\* Whatever lies in memory behind the component table, what is passed to kexec are the
\* components on the disk that its stage 3 loader names, each with all of its code.
THEOREM NamedObjectsAreBooted == BootmapSpec => []KexecGetsNamedObjects
<1>1. BootmapInit => CopyByPlace /\ KernelByPlace /\ ObjectsInv
  BY NullIsNotReadable DEF BootmapInit, CopyByPlace, KernelByPlace, ObjectsInv, NamesByPlace,
                          RootByPlace, LoadedByPlace, Copying, NoObjects
<1>2. KernelByPlace /\ ObjectsInv => KexecGetsNamedObjects
  <2> SUFFICES ASSUME KernelByPlace, ObjectsInv, bpc = "kexec", HasStage3(disk)
               PROVE  KexecGetsNamedObjects
    BY DEF KexecGetsNamedObjects
  <2>1. objs.kernel # NullPtr
    BY DEF KernelByPlace
  <2>2. PICK k : LastBefore(disk, k) /\ NamedIn(disk, k, objs.kernel, objs.initrd, objs.parmfile, objs.len)
    BY <2>1 DEF ObjectsInv, NamesByPlace
  <2> DEFINE stage3 == disk.params[Code(disk, disk.comps[k].seg)[1]]
  <2>3. /\ Names(disk, stage3.psw, objs.kernel) /\ Names(disk, stage3.initrd, objs.initrd)
        /\ Names(disk, stage3.parm, objs.parmfile)
        /\ objs.initrd # NullPtr => objs.len = stage3.len
    BY <2>2 DEF NamedIn
  <2>4. /\ loaded["kernel"] = Code(disk, objs.kernel)
        /\ objs.initrd = NullPtr \/ loaded["initrd"] = SubSeq(Code(disk, objs.initrd), 1, objs.len)
        /\ objs.parmfile = NullPtr \/ loaded["parmfile"] = Code(disk, objs.parmfile)
    BY DEF ObjectsInv, LoadedByPlace
  <2> HIDE DEF stage3
  <2>5. \E i \in OnDiskBeforeStage3(disk) :
          Named(disk, stage3.psw, i) /\ loaded["kernel"] = Code(disk, disk.comps[i].seg)
    BY <2>1, <2>3, <2>4 DEF Names
  <2>6. ASSUME NEW addr, NEW ptr, Names(disk, addr, ptr), NEW i \in OnDiskBeforeStage3(disk),
               Named(disk, addr, i)
        PROVE  ptr = disk.comps[i].seg
    BY <2>6, NamedOnce DEF Names
  <2>7. ASSUME NEW i \in OnDiskBeforeStage3(disk), Named(disk, stage3.initrd, i),
               disk.comps[i].seg # NullPtr
        PROVE  loaded["initrd"] = SubSeq(Code(disk, disk.comps[i].seg), 1, stage3.len)
    BY <2>3, <2>4, <2>6, <2>7
  <2>8. ASSUME NEW i \in OnDiskBeforeStage3(disk), Named(disk, stage3.parm, i),
               disk.comps[i].seg # NullPtr
        PROVE  loaded["parmfile"] = Code(disk, disk.comps[i].seg)
    BY <2>3, <2>4, <2>6, <2>8
  <2>9. k \in OnDiskBeforeStage3(disk) /\ k + 1 \notin OnDiskBeforeStage3(disk)
    BY <2>2 DEF LastBefore
  <2> QED
    BY <2>5, <2>7, <2>8, <2>9 DEF KexecGetsNamedObjects, stage3
<1>3. /\ WalkInv /\ CopyByPlace /\ KernelByPlace /\ ObjectsInv /\ [BootmapNext]_bootmapVars
      => CopyByPlace' /\ KernelByPlace' /\ ObjectsInv'
  BY CopyStep, KernelStep, NamesStep, RootStep, LoadedStep DEF ObjectsInv
<1> QED
  BY <1>1, <1>2, <1>3, WalkStarts, WalkStep, PTL DEF BootmapSpec

=============================================================================
