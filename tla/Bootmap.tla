------------------------------ MODULE Bootmap ------------------------------
(***************************************************************************)
(* Reading a boot map (core/bootmap_common.c): disk_open() finds the       *)
(* program table, boot_bootmap_disk() follows it to the component table of *)
(* the requested program, looks into zipl's stage 3 loader to learn which  *)
(* components are kernel, initrd and parmfile, and copies these through    *)
(* chained segment tables.                                                 *)
(*                                                                         *)
(* The content of a code block is its number.  The tables are given as     *)
(* what they contain; any read may end with an I/O error.                  *)
(***************************************************************************)
EXTENDS Integers, Sequences

CONSTANTS
  PhyBlocks,     \* disk->phy_blocks
  PerBlock,      \* block pointers in one physical block
  TableSize,     \* get_program_table_size()
  Disks,         \* contents of the disk
  Programs,      \* program numbers a bootmap URI asks for
  Garbage,       \* what memory past the component table may look like
  DisabledWait,  \* PSW_DISABLED_WAIT
  MaxLoad        \* bound: blocks loaded for one component

Pointers == [block : Nat, count : Nat, sized : BOOLEAN]  \* sized: of phy_block_size
Components == [type : {"load", "execute"}, addr : Nat, seg : Pointers]
Parameters == [psw : Nat, initrd : Nat, len : Nat, parm : Nat]

ASSUME BlockAssumption == PerBlock \in Nat /\ PerBlock >= 2 /\ PhyBlocks \in Nat
ASSUME DiskAssumption ==
  \A d \in Disks :
    /\ d.type \in {"scsi", "fba", "eckd", "other"} /\ d.signed \in BOOLEAN
    /\ d.table \in Pointers /\ d.magic \in BOOLEAN /\ d.opt \in {"ipl", "dump"}
    /\ d.programs \in [0..(TableSize - 1) -> Pointers]
    /\ d.comps \in Seq(Components)
    /\ d.ptrs \in [0..(PhyBlocks - 1) -> [0..(PerBlock - 1) -> Pointers]]
    /\ d.params \in [0..(PhyBlocks - 1) -> Parameters]
ASSUME GarbageAssumption == Garbage \subseteq Components /\ MaxLoad \in Nat

VARIABLES
  disk,     \* the disk
  program,  \* program number
  bpc,      \* where boot_bootmap_disk() is
  comps,    \* component_table
  objs,     \* block pointers to kernel, initrd and parmfile, and initrd_len
  comp,     \* the component being copied
  root,     \* component_ptr of copy_component_to_memory()
  table,    \* the segment table in memory, by its block pointer
  entry, code_ptr,
  buffer,   \* blocks loaded
  loaded    \* local kernel and initrd, parmfile in memory

copyVars == <<comp, root, table, entry, code_ptr, buffer>>
bootmapVars == <<disk, program, bpc, comps, objs, comp, root, table, entry, code_ptr,
                 buffer, loaded>>

NullPtr == [block |-> 0, count |-> 0, sized |-> FALSE]

CheckBlockptr(ptr) == ptr.sized /\ ptr.block < PhyBlocks

\* check_blockptr() looks at the first block only.
EndsOnDisk(ptr) == ptr.block + ptr.count < PhyBlocks

Readable(ptr) == CheckBlockptr(ptr) /\ EndsOnDisk(ptr)

\* read() returns 0 at the end of the disk and the loop of disk_read_phy_blocks() goes on.
ReadHangs(ptr) == CheckBlockptr(ptr) /\ ~EndsOnDisk(ptr)

Blocks(ptr) == [i \in 1..(ptr.count + 1) |-> ptr.block + i - 1]

PointersIn(ptr) == PerBlock * (ptr.count + 1)

ReadPacked(ptr, i) == disk.ptrs[ptr.block + i \div PerBlock][i % PerBlock]

NoObjects == [kernel |-> NullPtr, initrd |-> NullPtr, parmfile |-> NullPtr, len |-> 0]

BootmapInit ==
  /\ disk \in Disks /\ program \in Programs
  /\ bpc = "open"
  /\ comps = <<>> /\ objs = NoObjects
  /\ comp = "stage3" /\ root = NullPtr /\ table = NullPtr /\ entry = 0
  /\ code_ptr = NullPtr /\ buffer = <<>>
  /\ loaded = [c \in {"kernel", "initrd", "parmfile"} |-> <<>>]

-----------------------------------------------------------------------------
(* disk_open() and the tables *)

\* The signatures of the master boot record are checked, there is none in that of a DASD.
ReadScsiMbr == disk.type \in {"scsi", "fba"} /\ disk.signed
ReadDasdBootRecord == disk.type = "eckd"

DiskOpen ==
  /\ bpc = "open"
  /\ ReadScsiMbr \/ ReadDasdBootRecord
  /\ CheckBlockptr(disk.table) /\ disk.table.count = 0
  /\ bpc' = "programs"
  /\ UNCHANGED <<disk, program, comps, objs, copyVars, loaded>>

GetProgramTable ==
  /\ bpc = "programs"
  /\ program \in 0..(TableSize - 1)
  /\ disk.magic
  /\ disk.programs[program] # NullPtr
  /\ bpc' = "components"
  /\ UNCHANGED <<disk, program, comps, objs, copyVars, loaded>>

\* The loop runs over the number of block pointers in a block although an entry is larger
\* than a block pointer: the table ends with what happens to be in memory.
GetComponentTable ==
  /\ bpc = "components"
  /\ CheckBlockptr(disk.programs[program]) /\ disk.programs[program].count = 0
  /\ disk.magic /\ disk.opt = "ipl"
  /\ \E g \in Garbage : comps' = Append(disk.comps, g)
  /\ bpc' = "identify"
  /\ UNCHANGED <<disk, program, objs, copyVars, loaded>>

\* A read fails or what was read is refused: boot_bootmap_disk() returns.
TableFails ==
  /\ bpc \in {"open", "programs", "components"}
  /\ bpc' = "error"
  /\ UNCHANGED <<disk, program, comps, objs, copyVars, loaded>>

-----------------------------------------------------------------------------
(* copy_component_to_memory() *)

StartCopy(c, ptr) ==
  /\ comp' = c /\ root' = ptr /\ table' = ptr
  /\ entry' = 0 /\ code_ptr' = NullPtr /\ buffer' = <<>>
  /\ bpc' = "table"

ReadFirstTable ==
  /\ bpc = "table" /\ Readable(table)
  /\ code_ptr' = ReadPacked(table, 0)
  /\ bpc' = "segment"
  /\ UNCHANGED <<disk, program, comps, objs, comp, root, table, entry, buffer, loaded>>

\* Mutant: the last pointer of a table is taken for one to code.
EndOfTableOneLate(e) == e = PointersIn(table)

\* The last pointer of a table is the one to the next table.
EndOfTable(e) == e = PointersIn(table) - 1

LoadSegment ==
  /\ bpc = "segment" /\ Readable(code_ptr)
  /\ Len(buffer) + code_ptr.count + 1 <= MaxLoad
  /\ buffer' = buffer \o Blocks(code_ptr)
  /\ LET next == ReadPacked(table, entry + 1) IN
     \/ /\ EndOfTable(entry + 1) /\ next # NullPtr
        /\ Readable(next)
        /\ table' = next /\ entry' = 0
        /\ code_ptr' = ReadPacked(next, 0)
     \/ /\ ~EndOfTable(entry + 1) \/ next = NullPtr
        /\ table' = table /\ entry' = entry + 1
        /\ code_ptr' = next
  /\ bpc' = IF code_ptr' = NullPtr THEN "copied" ELSE "segment"
  /\ UNCHANGED <<disk, program, comps, objs, comp, root, loaded>>

\* A read or the check of a block pointer fails.  The result of identify_boot_objects()
\* is not looked at.
CopyFails ==
  /\ bpc \in {"table", "segment"}
  /\ \/ comp = "stage3" /\ StartCopy("kernel", NullPtr)
     \/ comp # "stage3" /\ bpc' = "error" /\ UNCHANGED copyVars
  /\ UNCHANGED <<disk, program, comps, objs, loaded>>

CopyHangs ==
  /\ \/ bpc = "table" /\ ReadHangs(table)
     \/ bpc = "segment" /\ ReadHangs(code_ptr)
     \/ /\ bpc = "segment" /\ Readable(code_ptr)
        /\ EndOfTable(entry + 1) /\ ReadHangs(ReadPacked(table, entry + 1))
  /\ bpc' = "hang"
  /\ UNCHANGED <<disk, program, comps, objs, copyVars, loaded>>

-----------------------------------------------------------------------------
(* identify_boot_objects() *)

Executes == {n \in 1..Len(comps) : comps[n].type = "execute"}

\* comp_num
IsStage3(n) == n \in Executes /\ \A k \in Executes : n <= k

FindStage3 ==
  /\ bpc = "identify"
  /\ \E n \in Executes :
       /\ IsStage3(n) /\ n > 1 /\ comps[n].addr # DisabledWait
       /\ StartCopy("stage3", comps[n - 1].seg)
  /\ UNCHANGED <<disk, program, comps, objs, loaded>>

\* Mutant: a loader that loads a data segment is accepted as one that has no kernel.
NoStage3IsDone ==
  /\ bpc = "identify"
  /\ \A n \in Executes : IsStage3(n) => n = 1 \/ comps[n].addr = DisabledWait
  /\ bpc' = "kexec"
  /\ UNCHANGED <<disk, program, comps, objs, copyVars, loaded>>

\* "invalid component table found", "data segment load is not supported"
NoStage3 ==
  /\ bpc = "identify"
  /\ \A n \in Executes : IsStage3(n) => n = 1 \/ comps[n].addr = DisabledWait
  /\ StartCopy("kernel", NullPtr)
  /\ UNCHANGED <<disk, program, comps, objs, loaded>>

\* Mutant: the components after the stage 3 loader are searched as well.
AtAddressAll(addr) == {k \in 1..Len(comps) : comps[k].addr = addr}

\* The components before the stage 3 loader that are loaded at addr
AtAddress(addr) ==
  {k \in 1..Len(comps) : comps[k].addr = addr /\ \A n \in Executes : k < n}

Lookup(addr, ptr) ==
  \/ AtAddress(addr) = {} /\ ptr = NullPtr
  \/ \E k \in AtAddress(addr) : ptr = comps[k].seg /\ \A j \in AtAddress(addr) : k <= j

IdentifyBootObjects ==
  /\ bpc = "copied" /\ comp = "stage3"
  /\ LET stage3 == disk.params[buffer[1]] IN
     \E kernel, initrd, parmfile \in {comps[k].seg : k \in 1..Len(comps)} \cup {NullPtr} :
       /\ Lookup(stage3.psw, kernel)
       /\ Lookup(stage3.initrd, initrd) /\ Lookup(stage3.parm, parmfile)
       /\ objs' = IF AtAddress(stage3.psw) = {} THEN NoObjects
                  ELSE [kernel |-> kernel, initrd |-> initrd, parmfile |-> parmfile,
                        len |-> IF AtAddress(stage3.initrd) = {} THEN 0 ELSE stage3.len]
       /\ StartCopy("kernel", objs'.kernel)
  /\ UNCHANGED <<disk, program, comps, loaded>>

-----------------------------------------------------------------------------
(* read_kernel_component(), read_initrd_component(), read_parmfile_component() *)

CopyOrKexec(c, ptr) ==
  \/ ptr # NullPtr /\ StartCopy(c, ptr)
  \/ ptr = NullPtr /\ bpc' = "kexec" /\ UNCHANGED copyVars

WriteKernel ==
  /\ bpc = "copied" /\ comp = "kernel"
  /\ loaded' = [loaded EXCEPT !["kernel"] = buffer]
  /\ \/ objs.initrd # NullPtr /\ StartCopy("initrd", objs.initrd)
     \/ objs.initrd = NullPtr /\ CopyOrKexec("parmfile", objs.parmfile)
  /\ UNCHANGED <<disk, program, comps, objs>>

\* Of the component, initrd_len bytes are written.
WriteInitrd ==
  /\ bpc = "copied" /\ comp = "initrd" /\ objs.len <= Len(buffer)
  /\ loaded' = [loaded EXCEPT !["initrd"] = SubSeq(buffer, 1, objs.len)]
  /\ CopyOrKexec("parmfile", objs.parmfile)
  /\ UNCHANGED <<disk, program, comps, objs>>

ReadParmfile ==
  /\ bpc = "copied" /\ comp = "parmfile"
  /\ loaded' = [loaded EXCEPT !["parmfile"] = buffer]
  /\ bpc' = "kexec"
  /\ UNCHANGED <<disk, program, comps, objs, copyVars>>

\* "invalid initrd component length", or the local file cannot be written
WriteFails ==
  /\ bpc = "copied" /\ comp \in {"kernel", "initrd"}
  /\ bpc' = "error"
  /\ UNCHANGED <<disk, program, comps, objs, copyVars, loaded>>

BootmapNext ==
  \/ DiskOpen \/ GetProgramTable \/ GetComponentTable \/ TableFails
  \/ ReadFirstTable \/ LoadSegment \/ CopyFails \/ CopyHangs
  \/ FindStage3 \/ NoStage3 \/ IdentifyBootObjects
  \/ WriteKernel \/ WriteInitrd \/ ReadParmfile \/ WriteFails

BootmapSpec == BootmapInit /\ [][BootmapNext]_bootmapVars

\* The process that boots runs on; a read of the disk ends.
BootmapFairSpec == BootmapSpec /\ WF_bootmapVars(BootmapNext)

-----------------------------------------------------------------------------
(* Properties *)

\* While segments are copied, the segment table in memory was read from the disk and the
\* current entry lies within it, through every change of the table and its size: the
\* walk never runs over the end of a table (copy_component_to_memory).
EntryInTable ==
  bpc \in {"segment", "copied"} =>
    /\ Readable(table)
    /\ entry < PointersIn(table)
    /\ code_ptr = ReadPacked(table, entry)

\* Although the error of identify_boot_objects() is dropped, no kernel is written, and
\* kexec is not called, unless the stage 3 loader named one (boot_bootmap_disk).
DroppedErrorIsCaught ==
  bpc = "kexec" \/ (bpc = "copied" /\ comp # "stage3") => objs.kernel # NullPtr
=============================================================================
