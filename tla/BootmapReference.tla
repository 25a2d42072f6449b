-------------------------- MODULE BootmapReference --------------------------
(***************************************************************************)
(* The format of a boot map as zipl writes it, and the boot map reader     *)
(* measured against it: a component is the concatenation of the code       *)
(* segments that its chained segment tables list.                          *)
(***************************************************************************)
EXTENDS Bootmap, SequencesExt

\* Pointer i of a segment table on the disk d, which may be longer than one block
PointerOn(d, t, i) == d.ptrs[t.block + i \div PerBlock][i % PerBlock]

\* The position of the null pointer that ends a table, or of its last pointer
LastUsed(d, t) ==
  CHOOSE i \in 0..(PointersIn(t) - 1) :
    /\ i = PointersIn(t) - 1 \/ PointerOn(d, t, i) = NullPtr
    /\ \A j \in 0..(i - 1) : PointerOn(d, t, j) # NullPtr

FirstPointers(d, t, n) == [i \in 1..n |-> PointerOn(d, t, i - 1)]

Listed(d, t) == FirstPointers(d, t, LastUsed(d, t))

\* Where a table goes on, NullPtr if it is the last one
Link(d, t) == PointerOn(d, t, LastUsed(d, t))

\* The segment tables of a component, as many as MaxLoad blocks of code may need
Chain(d, ptr) ==
  LET chain[n \in 0..(MaxLoad + 1)] ==
        IF n = 0 THEN <<ptr>>
        ELSE LET tables == chain[n - 1]
                 t == Last(tables)
             IN IF ~Readable(t) \/ Link(d, t) = NullPtr THEN tables ELSE Append(tables, Link(d, t))
  IN chain[MaxLoad + 1]

SegmentsOf(d, tables) == FlattenSeq([i \in 1..Len(tables) |-> Listed(d, tables[i])])

CodeOf(segments) == FlattenSeq([i \in 1..Len(segments) |-> Blocks(segments[i])])

Code(d, ptr) == CodeOf(SegmentsOf(d, Chain(d, ptr)))

\* The component can be read to its end.
WellFormed(d, ptr) ==
  /\ \A i \in 1..Len(Chain(d, ptr)) : Readable(Chain(d, ptr)[i])
  /\ LET segments == SegmentsOf(d, Chain(d, ptr)) IN
     segments # <<>> /\ \A i \in 1..Len(segments) : Readable(segments[i])
  /\ Len(Code(d, ptr)) <= MaxLoad

-----------------------------------------------------------------------------
(* Properties *)

\* What has been copied for a component is its code, complete and in order, whatever the
\* lengths of its segment tables (copy_component_to_memory).
CopiedIsTheComponent == bpc = "copied" => buffer = Code(disk, root)

\* A stage 3 loader is in the component table on the disk.
HasStage3(d) == \E n \in 1..Len(d.comps) : d.comps[n].type = "execute"

\* The components that the table on the disk holds before its stage 3 loader
OnDiskBeforeStage3(d) == {k \in 1..Len(d.comps) : \A n \in 1..k : d.comps[n].type # "execute"}

\* The component on the disk that is loaded at addr
Named(d, addr, k) ==
  /\ k \in OnDiskBeforeStage3(d) /\ d.comps[k].addr = addr
  /\ \A j \in OnDiskBeforeStage3(d) : j < k => d.comps[j].addr # addr

\* If the component table has a stage 3 loader, the kernel, the initrd and the parmfile passed
\* to kexec are the components at the addresses that loader holds, whatever lies in memory behind
\* the table (identify_boot_objects, boot_bootmap_disk).
KexecGetsNamedObjects ==
  bpc = "kexec" /\ HasStage3(disk) =>
    \E k \in OnDiskBeforeStage3(disk) :
      /\ k + 1 \notin OnDiskBeforeStage3(disk)
      /\ LET stage3 == disk.params[Code(disk, disk.comps[k].seg)[1]] IN
         /\ \E i \in OnDiskBeforeStage3(disk) :
              Named(disk, stage3.psw, i) /\ loaded["kernel"] = Code(disk, disk.comps[i].seg)
         /\ \A i \in OnDiskBeforeStage3(disk) :
              Named(disk, stage3.initrd, i) /\ disk.comps[i].seg # NullPtr =>
                loaded["initrd"] = SubSeq(Code(disk, disk.comps[i].seg), 1, stage3.len)
         /\ \A i \in OnDiskBeforeStage3(disk) :
              Named(disk, stage3.parm, i) /\ disk.comps[i].seg # NullPtr =>
                loaded["parmfile"] = Code(disk, disk.comps[i].seg)

\* Copying a component that is well formed comes to an end: it is never caught in a read
\* and never follows a pointer that does not belong to the component
\* (copy_component_to_memory, disk_read_phy_blocks).
CopyEnds == (bpc = "table" /\ WellFormed(disk, root)) ~> (bpc \in {"copied", "error"})
=============================================================================
