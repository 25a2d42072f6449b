------------------------------ MODULE Devices ------------------------------
(***************************************************************************)
(* Devices that are set up for a single use and undone afterwards: by the  *)
(* boot map code (core/bootmap_dasd.c, core/bootmap_fcp.c), which opens a  *)
(* device node, and by the component loaders cl_dasd, cl_zfcp and cl_block *)
(* (comploader/), which mount a file system and copy one file.  A job is   *)
(* one such use; System Loaders run their jobs one after the other, but    *)
(* two System Loaders may use the same device at the same time.            *)
(*                                                                         *)
(* sysfs and the kernel are external: any write to them may fail, a WWPN   *)
(* or a LUN that was added may be in the failed state, a device that is in *)
(* use may or may not be set offline, and a file system that is in use is  *)
(* not unmounted.                                                          *)
(***************************************************************************)
EXTENDS Integers

CONSTANTS
  Procs,   \* System Loaders
  MaxJobs  \* bound: jobs of one System Loader

ASSUME JobsAssumption == MaxJobs \in Nat

VARIABLES
  type,                \* "dasd" or "zfcp"
  online, port, unit,  \* the channel device, and for zfcp the directories of WWPN and LUN
  port_failed,         \* the attribute 'failed' of the WWPN
  unit_failed,         \* and of the LUN
  node,                \* the device node of the boot map code
  mounts,              \* /var/sysload/$$ of every job
  link,                \* the mount point it is a symbolic link to
  atStart,             \* history: the device was online at the beginning
  kind, pc, jobs,      \* per System Loader: its job, the place in it, the number of jobs
  failed,              \* the job ends with an error
  set_offline,         \* SET_DASD_OFFLINE of cl_dasd
  fault,               \* history: the environment made a step of this job fail
  found,               \* history: a WWPN or LUN was in the failed state when the job began
  alone,               \* history: no other job ran during this one
  used,                \* history: the kinds of jobs so far
  refused              \* history: some write to a sysfs attribute had no effect, or a late one

\* What a job does not change after its beginning
jobVars == <<type, atStart, kind, jobs, found, alone, used>>
zfcpVars == <<port, unit, port_failed, unit_failed>>
mountVars == <<mounts, link>>

deviceVars == <<jobVars, zfcpVars, mountVars, online, node, pc, failed, set_offline, fault,
                refused>>

\* The jobs that can use a device: a boot map, a component loader, or a mounted disk
Kinds == {type, "cl_block", IF type = "dasd" THEN "cl_dasd" ELSE "cl_zfcp"}

Jobs == Procs \X (1..MaxJobs)
Job(p) == <<p, jobs[p]>>
Scripts == {"cl_dasd", "cl_zfcp", "cl_block"}
Zfcp(p) == kind[p] \in {"zfcp", "cl_zfcp"}
Bootmap(p) == kind[p] \notin Scripts

\* The block device is there
Attached == online /\ (type = "zfcp" => port /\ unit /\ ~port_failed /\ ~unit_failed)

Busy == \E j \in Jobs : mounts[j] = "mounted"

DevicesInit ==
  /\ type \in {"dasd", "zfcp"}
  /\ online \in BOOLEAN /\ port = (online /\ type = "zfcp") /\ unit = port
  /\ port_failed = FALSE /\ unit_failed = FALSE /\ node = FALSE
  /\ atStart = online
  /\ mounts = [j \in Jobs |-> "none"] /\ link = [j \in Jobs |-> j]
  /\ kind = [p \in Procs |-> "cl_block"]
  /\ pc = [p \in Procs |-> "idle"] /\ jobs = [p \in Procs |-> 0]
  /\ failed = [p \in Procs |-> FALSE] /\ set_offline = [p \in Procs |-> FALSE]
  /\ fault = [p \in Procs |-> FALSE] /\ alone = [p \in Procs |-> TRUE]
  /\ found = [p \in Procs |-> FALSE]
  /\ used = {} /\ refused = FALSE

Quiet == \A p \in Procs : pc[p] = "idle"

Goto(p, place) == pc' = [pc EXCEPT ![p] = place]

\* A step of the environment fails
Fault(p) == fault' = [fault EXCEPT ![p] = TRUE] /\ failed' = [failed EXCEPT ![p] = TRUE]

StartJob(p, k) ==
  /\ pc[p] = "idle" /\ jobs[p] < MaxJobs
  /\ kind' = [kind EXCEPT ![p] = k] /\ jobs' = [jobs EXCEPT ![p] = @ + 1]
  /\ Goto(p, IF k = "cl_block" THEN "mount" ELSE "check")
  /\ failed' = [failed EXCEPT ![p] = FALSE] /\ set_offline' = [set_offline EXCEPT ![p] = FALSE]
  /\ fault' = [fault EXCEPT ![p] = FALSE]
  /\ found' = [found EXCEPT ![p] = port_failed \/ unit_failed]
  /\ used' = used \cup {k}
  /\ alone' = [q \in Procs |-> IF q = p THEN Quiet
                               ELSE alone[q] /\ pc[q] = "idle"]
  /\ UNCHANGED <<zfcpVars, mountVars, type, atStart, online, node, refused>>

-----------------------------------------------------------------------------
(* Setting the device up *)

\* Mutant: cl_dasd takes the device for its own also if it was online.
CheckOnlineClaims(p) ==
  /\ pc[p] = "check"
  /\ Goto(p, IF online /\ ~Bootmap(p) THEN "port" ELSE "online")
  /\ set_offline' = [set_offline EXCEPT ![p] = kind[p] = "cl_dasd"]
  /\ UNCHANGED <<jobVars, zfcpVars, mountVars, online, node, failed, fault, refused>>

\* The scripts look whether the device is online already, the boot map code does not.
CheckOnline(p) ==
  /\ pc[p] = "check"
  /\ Goto(p, IF online /\ ~Bootmap(p) THEN "port" ELSE "online")
  /\ UNCHANGED <<jobVars, zfcpVars, mountVars, online, node, failed, set_offline, fault, refused>>

SetOnline(p) ==
  /\ pc[p] = "online"
  /\ online' = TRUE
  /\ set_offline' = [set_offline EXCEPT ![p] = kind[p] = "cl_dasd"]
  /\ Goto(p, "port")
  /\ UNCHANGED <<jobVars, zfcpVars, mountVars, node, failed, fault, refused>>

\* The device is not online when it is looked at again, but it may still become so:
\* all jobs end here, without a cleanup.
SetOnlineFails(p) ==
  /\ pc[p] = "online"
  /\ Fault(p)
  /\ online' \in {online, TRUE} /\ refused' = TRUE
  /\ Goto(p, "idle")
  /\ UNCHANGED <<jobVars, zfcpVars, mountVars, node, set_offline>>

\* Mutant: cl_zfcp ends without its cleanup.
UndoNothing(p) == "idle"

\* A script calls its cleanup when a step fails, the boot map code just returns.
Undo(p) == IF Bootmap(p) THEN "idle" ELSE "umount"

\* If the directory of the WWPN is there its attribute 'failed' is not looked at.
AddPort(p) ==
  /\ pc[p] = "port"
  /\ port' = (port \/ Zfcp(p))
  /\ Goto(p, "unit")
  /\ UNCHANGED <<jobVars, mountVars, online, unit, port_failed, unit_failed, node, failed,
                 set_offline, fault, refused>>

\* port_add has made the directory, and 'failed' in it is not 0.
AddPortFails(p) ==
  /\ pc[p] = "port" /\ Zfcp(p) /\ ~port
  /\ port' = TRUE /\ port_failed' = TRUE
  /\ Fault(p) /\ Goto(p, Undo(p))
  /\ UNCHANGED <<jobVars, mountVars, online, unit, unit_failed, node, set_offline, refused>>

\* port_add has made no directory.  The script has nothing to compare then and goes on.
AddPortRefused(p) ==
  /\ pc[p] = "port" /\ Zfcp(p) /\ ~port
  /\ fault' = [fault EXCEPT ![p] = TRUE]
  /\ failed' = [failed EXCEPT ![p] = @ \/ Bootmap(p)]
  /\ Goto(p, IF Bootmap(p) THEN "idle" ELSE "unit")
  /\ UNCHANGED <<jobVars, zfcpVars, mountVars, online, node, set_offline, refused>>

\* unit_add is below the directory of the WWPN
AddUnit(p) ==
  /\ pc[p] = "unit" /\ (Zfcp(p) => port)
  /\ unit' = (unit \/ Zfcp(p))
  /\ Goto(p, IF Bootmap(p) THEN "mknod" ELSE "mount")
  /\ UNCHANGED <<jobVars, mountVars, online, port, port_failed, unit_failed, node, failed,
                 set_offline, fault, refused>>

AddUnitFails(p) ==
  /\ pc[p] = "unit" /\ Zfcp(p) /\ port /\ ~unit
  /\ unit' = TRUE /\ unit_failed' = TRUE
  /\ failed' = [failed EXCEPT ![p] = TRUE]
  /\ fault' = [fault EXCEPT ![p] = @ \/ ~port_failed]
  /\ Goto(p, Undo(p))
  /\ UNCHANGED <<jobVars, mountVars, online, port, port_failed, node, set_offline, refused>>

AddUnitRefused(p) ==
  /\ pc[p] = "unit" /\ Zfcp(p) /\ ~unit
  /\ fault' = [fault EXCEPT ![p] = @ \/ (port /\ ~port_failed)]
  /\ failed' = [failed EXCEPT ![p] = @ \/ Bootmap(p)]
  /\ Goto(p, IF Bootmap(p) THEN "idle" ELSE "mount")
  /\ UNCHANGED <<jobVars, zfcpVars, mountVars, online, node, set_offline, refused>>

-----------------------------------------------------------------------------
(* The boot map code: device node, disk_open(), boot_bootmap_disk() *)

\* Mutant: a node left by an earlier attempt is not removed.
CanMakeNodeOnce == Attached /\ ~node

\* unlink() removes a node left by an earlier attempt
CanMakeNode == Attached

MakeNode(p) ==
  /\ pc[p] = "mknod" /\ CanMakeNode
  /\ node' = TRUE
  /\ Goto(p, "open")
  /\ UNCHANGED <<jobVars, zfcpVars, mountVars, online, failed, set_offline, fault, refused>>

MakeNodeFails(p) ==
  /\ pc[p] = "mknod"
  /\ failed' = [failed EXCEPT ![p] = TRUE]
  /\ fault' = [fault EXCEPT ![p] = @ \/ CanMakeNode]
  /\ node' \in {node, FALSE}
  /\ Goto(p, "idle")
  /\ UNCHANGED <<jobVars, zfcpVars, mountVars, online, set_offline, refused>>

DiskOpen(p) ==
  /\ pc[p] = "open" /\ Attached /\ node
  /\ Goto(p, "boot")
  /\ UNCHANGED <<jobVars, zfcpVars, mountVars, online, node, failed, set_offline, fault, refused>>

\* The device is left as it is.
DiskOpenFails(p) ==
  /\ pc[p] = "open"
  /\ failed' = [failed EXCEPT ![p] = TRUE]
  /\ fault' = [fault EXCEPT ![p] = @ \/ (Attached /\ node)]
  /\ Goto(p, "idle")
  /\ UNCHANGED <<jobVars, zfcpVars, mountVars, online, node, set_offline, refused>>

\* "if we are still here boot failed": disk_close(), then the device is taken away
BootFails(p) ==
  /\ pc[p] = "boot"
  /\ Fault(p)
  /\ Goto(p, "unit_remove")
  /\ UNCHANGED <<jobVars, zfcpVars, mountVars, online, node, set_offline, refused>>

-----------------------------------------------------------------------------
(* The scripts: find the block device, mount, look for the file, copy *)

\* cl_block links to the place where the device is mounted already, if that is one place
Elsewhere == {j \in Jobs : mounts[j] \in {"mounted", "dead"}}

\* cl_zfcp looks for the SCSI device of the LUN first.
NoBlockDevice(p) ==
  /\ pc[p] = "mount" /\ kind[p] = "cl_zfcp"
  /\ failed' = [failed EXCEPT ![p] = TRUE]
  /\ fault' = [fault EXCEPT ![p] = @ \/ Attached]
  /\ Goto(p, "umount")
  /\ UNCHANGED <<jobVars, zfcpVars, mountVars, online, node, set_offline, refused>>

Mount(p) ==
  /\ pc[p] = "mount" /\ (Attached \/ (kind[p] = "cl_block" /\ Elsewhere # {}))
  /\ mounts' = [mounts EXCEPT ![Job(p)] =
                  IF kind[p] = "cl_block" /\ Elsewhere # {}
                  THEN IF \E j \in Jobs : Elsewhere = {j} /\ mounts[j] = "mounted"
                       THEN "linked" ELSE "broken"
                  ELSE "mounted"]
  /\ link' = [link EXCEPT ![Job(p)] =
                IF kind[p] = "cl_block" /\ \E j \in Jobs : Elsewhere = {j}
                THEN CHOOSE j \in Jobs : Elsewhere = {j} ELSE @]
  /\ Goto(p, "file")
  /\ UNCHANGED <<jobVars, zfcpVars, online, node, failed, set_offline, fault, refused>>

\* The directory has been made; cl_block does not remove it, since it calls rm.
MountFails(p) ==
  /\ pc[p] = "mount" /\ (kind[p] = "cl_block" => Elsewhere = {})
  /\ failed' = [failed EXCEPT ![p] = TRUE]
  /\ fault' = [fault EXCEPT ![p] = @ \/ Attached \/ kind[p] = "cl_block"]
  /\ mounts' = [mounts EXCEPT ![Job(p)] = "dir"] /\ UNCHANGED link
  /\ Goto(p, "umount")
  /\ UNCHANGED <<jobVars, zfcpVars, online, node, set_offline, refused>>

\* What the job sees under its mount point, through the link of cl_block too
Readable(p) ==
  \/ mounts[Job(p)] = "mounted"
  \/ mounts[Job(p)] = "linked" /\ mounts[link[Job(p)]] = "mounted"

\* The file is there, and cp is called.
FindFile(p) ==
  /\ pc[p] = "file" /\ Readable(p)
  /\ Goto(p, "copy")
  /\ UNCHANGED <<jobVars, zfcpVars, mountVars, online, node, failed, set_offline, fault, refused>>

\* "No such file.": cl_zfcp ends without its cleanup.
NoSuchFile(p) ==
  /\ pc[p] = "file"
  /\ failed' = [failed EXCEPT ![p] = TRUE]
  /\ fault' = [fault EXCEPT ![p] = @ \/ Readable(p)]
  /\ Goto(p, IF kind[p] = "cl_zfcp" THEN "idle" ELSE "umount")
  /\ UNCHANGED <<jobVars, zfcpVars, mountVars, online, node, set_offline, refused>>

Copy(p) ==
  /\ pc[p] = "copy" /\ Readable(p)
  /\ Goto(p, "umount")
  /\ UNCHANGED <<jobVars, zfcpVars, mountVars, online, node, failed, set_offline, fault, refused>>

CopyFails(p) ==
  /\ pc[p] = "copy"
  /\ failed' = [failed EXCEPT ![p] = TRUE]
  /\ fault' = [fault EXCEPT ![p] = @ \/ Readable(p)]
  /\ Goto(p, "umount")
  /\ UNCHANGED <<jobVars, zfcpVars, mountVars, online, node, set_offline, refused>>

-----------------------------------------------------------------------------
(* Undoing *)

\* A cp that was called on a link into the mount of j has not ended, and may have the
\* file open.
CopiedFrom(j) ==
  \E q \in Procs : pc[q] = "copy" /\ mounts[Job(q)] = "linked" /\ link[Job(q)] = j

\* Mutant: the mount point is removed after a successful copy only.
UnmountOnSuccess(p) ==
  /\ pc[p] = "umount"
  /\ \/ mounts' = [mounts EXCEPT ![Job(p)] = IF failed[p] THEN @ ELSE "none"]
     \/ CopiedFrom(Job(p)) /\ mounts[Job(p)] \in {"mounted", "dead"} /\ UNCHANGED mounts
  /\ Goto(p, IF kind[p] = "cl_block" THEN "idle" ELSE "unit_remove")
  /\ UNCHANGED <<jobVars, zfcpVars, link, online, node, failed, set_offline, fault, refused>>

\* umount, then rmdir, or rm of a link.  Nobody looks whether umount fails: it does if the
\* file system is in use.
Unmount(p) ==
  /\ pc[p] = "umount"
  /\ \/ mounts' = [mounts EXCEPT ![Job(p)] =
                     IF kind[p] = "cl_block" /\ @ = "dir" THEN "dir" ELSE "none"]
     \/ CopiedFrom(Job(p)) /\ mounts[Job(p)] \in {"mounted", "dead"} /\ UNCHANGED mounts
  /\ Goto(p, IF kind[p] = "cl_block" THEN "idle" ELSE "unit_remove")
  /\ UNCHANGED <<jobVars, zfcpVars, link, online, node, failed, set_offline, fault, refused>>

\* File systems on a device that has gone
Killed == [j \in Jobs |-> IF mounts[j] = "mounted" THEN "dead" ELSE mounts[j]]

\* delete, then unit_remove: refused if the disk is in use
RemoveUnit(p) ==
  /\ pc[p] = "unit_remove"
  /\ \/ /\ unit' = (unit /\ ~Zfcp(p))
        /\ mounts' = IF unit' # unit THEN Killed ELSE mounts
        /\ UNCHANGED refused
     \/ /\ Busy /\ Zfcp(p) /\ unit
        /\ refused' = TRUE /\ UNCHANGED <<unit, mounts>>
  /\ unit_failed' = (unit_failed /\ unit')
  /\ Goto(p, "port_remove")
  /\ UNCHANGED <<jobVars, link, online, port, port_failed, node, failed, set_offline, fault>>

\* Mutant: the WWPN is not removed.
RemovePortForgotten(p) ==
  /\ pc[p] = "port_remove"
  /\ Goto(p, "offline")
  /\ UNCHANGED <<jobVars, zfcpVars, mountVars, online, node, failed, set_offline, fault, refused>>

\* port_remove: refused while there is a unit
RemovePort(p) ==
  /\ pc[p] = "port_remove"
  /\ port' = (port /\ (unit \/ ~Zfcp(p)))
  /\ port_failed' = (port_failed /\ port')
  /\ refused' = (refused \/ (port /\ unit /\ Zfcp(p)))
  /\ Goto(p, "offline")
  /\ UNCHANGED <<jobVars, mountVars, online, unit, unit_failed, node, failed, set_offline, fault>>

\* cl_dasd sets offline only what it has set online
SetOffline(p) ==
  /\ pc[p] = "offline"
  /\ \/ /\ kind[p] = "cl_dasd" /\ ~set_offline[p]
        /\ UNCHANGED <<online, mounts, refused>>
     \/ /\ kind[p] = "cl_dasd" => set_offline[p]
        /\ online' = FALSE /\ mounts' = Killed
        /\ UNCHANGED refused
     \/ /\ kind[p] = "cl_dasd" => set_offline[p]
        /\ Busy /\ refused' = TRUE
        /\ UNCHANGED <<online, mounts>>
  /\ node' = (node /\ ~Bootmap(p))
  /\ Goto(p, "idle")
  /\ UNCHANGED <<jobVars, zfcpVars, link, failed, set_offline, fault>>

DevicesNext ==
  \E p \in Procs :
    \/ \E k \in Kinds : StartJob(p, k)
    \/ CheckOnline(p) \/ SetOnline(p) \/ SetOnlineFails(p)
    \/ AddPort(p) \/ AddPortFails(p) \/ AddPortRefused(p)
    \/ AddUnit(p) \/ AddUnitFails(p) \/ AddUnitRefused(p)
    \/ MakeNode(p) \/ MakeNodeFails(p) \/ DiskOpen(p) \/ DiskOpenFails(p) \/ BootFails(p)
    \/ NoBlockDevice(p) \/ Mount(p) \/ MountFails(p)
    \/ FindFile(p) \/ NoSuchFile(p) \/ Copy(p) \/ CopyFails(p)
    \/ Unmount(p) \/ RemoveUnit(p) \/ RemovePort(p) \/ SetOffline(p)

DevicesSpec == DevicesInit /\ [][DevicesNext]_deviceVars
-----------------------------------------------------------------------------
(* Properties *)

\* A job that ran alone fails only if one of its own steps was made to fail, but for two
\* things that earlier jobs can leave in its way: another mount of the disk, which
\* cl_block looks for, and a WWPN or LUN in the failed state, which only boot attempts
\* leave (set_fcp_disk_online, which does not look at the attribute 'failed' of a
\* directory that is there).  Everything else, the device online or not, its node, a
\* mount point, may have been left by jobs that ended well or not.
RetryWorks ==
  \A p \in Procs :
    pc[p] = "idle" /\ jobs[p] > 0 /\ alone[p] /\ failed[p] /\ ~fault[p] =>
      \/ kind[p] = "cl_block" /\ \E j \in Jobs : j # Job(p) /\ mounts[j] # "none"
      \/ Zfcp(p) /\ found[p]

\* When all jobs have ended, a WWPN or a LUN is left in the failed state by boot attempts
\* only: cl_zfcp, however many run at once and remove what others are adding, always
\* takes it away again (cleanup of cl_zfcp, set_fcp_disk_online).
LoadersLeaveNoFailed == Quiet /\ (port_failed \/ unit_failed) => "zfcp" \in used

\* As long as only component loaders use a DASD, one that was online stays online at any
\* moment, and when all have ended it is as it was at the beginning unless sysfs refused
\* a write, for any interleaving of two users (SET_DASD_OFFLINE in cl_dasd).
LoadersRestoreDasd ==
  type = "dasd" /\ used \subseteq {"cl_dasd", "cl_block"} =>
    /\ atStart => online
    /\ Quiet /\ ~refused => online = atStart

\* The mount point of a job that has ended is gone, but for two failures and one
\* collision: cl_zfcp leaves its file system mounted if there is no such file, cl_block a
\* directory it could not mount anything on, and the umount of any script has no effect
\* if another job, a cl_block, was there at the same time (the functions cleanup of the
\* scripts; that other job copies through its link).
MountPointGone ==
  \A p \in Procs : pc[p] = "idle" /\ jobs[p] > 0 =>
    \/ mounts[Job(p)] = "none"
    \/ failed[p] /\ kind[p] = "cl_zfcp" /\ mounts[Job(p)] \in {"mounted", "dead"}
    \/ failed[p] /\ kind[p] = "cl_block" /\ mounts[Job(p)] = "dir"
    \/ ~alone[p] /\ "cl_block" \in used /\ mounts[Job(p)] \in {"mounted", "dead"}

\* A failed boot from a boot map that reached the disk, and every use by cl_zfcp that
\* comes to its cleanup, leaves nothing configured, whatever state the device was found
\* in, if it ran alone and nothing was refused (set_dasd_offline, set_fcp_disk_offline).
UseIsUndone ==
  [][\A p \in Procs :
       pc[p] = "offline" /\ pc'[p] = "idle" /\ kind[p] # "cl_dasd" /\ alone[p] /\ ~refused' =>
         ~online' /\ ~port' /\ ~unit' /\ (Bootmap(p) => ~node')]_deviceVars
=============================================================================
