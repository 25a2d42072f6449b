---------------------------- MODULE DevicesProofs ----------------------------
(***************************************************************************)
(* What a use of a device leaves behind, for any number of System Loaders  *)
(* and of uses: mount points, whether a DASD is online, what is still      *)
(* configured of a device, and whether the next use can go ahead.          *)
(***************************************************************************)
EXTENDS Devices, TLAPS

Before == {"check", "online", "port", "unit", "mknod", "open", "boot", "mount"}
After == {"unit_remove", "port_remove", "offline"}
Places == Before \cup After \cup {"idle", "file", "copy", "umount"}
MountStates == {"none", "dir", "mounted", "dead", "linked", "broken"}

\* The types of what the properties of mount points and of a DASD depend on
UseTypes ==
  /\ pc \in [Procs -> Places] /\ kind \in [Procs -> Scripts \cup {"dasd", "zfcp"}]
  /\ jobs \in [Procs -> 0..MaxJobs] /\ failed \in [Procs -> BOOLEAN]
  /\ alone \in [Procs -> BOOLEAN]
  /\ mounts \in [Jobs -> MountStates] /\ type \in {"dasd", "zfcp"}

\* The umount of p's current use had no effect, since a cl_block ran at the same time.
Collided(p) == ~alone[p] /\ "cl_block" \in used /\ mounts[Job(p)] \in {"mounted", "dead"}

\* The mount point of the current use of p, by the place p has come to
MountByPlace(p) ==
  /\ \A n \in 1..MaxJobs : n > jobs[p] => mounts[<<p, n>>] = "none"
  /\ pc[p] # "idle" => jobs[p] > 0 /\ kind[p] \in used
  /\ pc[p] \in Before => mounts[Job(p)] = "none"
  /\ pc[p] \in {"mount", "file", "copy", "umount"} => kind[p] \in Scripts
  /\ pc[p] \in {"file", "copy"} => mounts[Job(p)] \notin {"none", "dir"}
  /\ pc[p] \in {"file", "copy"} /\ kind[p] # "cl_block" => mounts[Job(p)] \in {"mounted", "dead"}
  /\ pc[p] = "umount" /\ kind[p] = "cl_block" /\ mounts[Job(p)] = "dir" => failed[p]
  /\ pc[p] \in After => mounts[Job(p)] = "none" \/ Collided(p)
  /\ pc[p] = "idle" /\ jobs[p] > 0 =>
       \/ mounts[Job(p)] = "none"
       \/ failed[p] /\ kind[p] = "cl_zfcp" /\ mounts[Job(p)] \in {"mounted", "dead"}
       \/ failed[p] /\ kind[p] = "cl_block" /\ mounts[Job(p)] = "dir"
       \/ Collided(p)

\* While one runs that is alone, nobody else runs.
OthersIdle(p) == alone[p] /\ pc[p] # "idle" => \A q \in Procs : q # p => pc[q] = "idle"

MountInv == UseTypes /\ \A p \in Procs : MountByPlace(p) /\ OthersIdle(p)

-----------------------------------------------------------------------------
\* Nothing is mounted at the beginning.
LEMMA MountStarts == DevicesInit => MountInv
  BY JobsAssumption DEF DevicesInit, MountInv, UseTypes, MountByPlace, OthersIdle, Places,
     MountStates, Scripts, Jobs, Before, After

\* A step of a job that has begun leaves idle who was idle.
LEMMA IdleStays ==
  ASSUME MountInv, NEW p \in Procs, NEW place, pc[p] # "idle",
         pc' = [pc EXCEPT ![p] = place], UNCHANGED alone, NEW q \in Procs
  PROVE  OthersIdle(q)'
  BY DEF MountInv, UseTypes, OthersIdle

\* Steps that do not touch a mount point, from one place to another
LEMMA PlainStep ==
  ASSUME MountInv, NEW p \in Procs, UNCHANGED <<mounts, jobs, kind, type, alone, used>>,
         NEW place \in Before \cup After \cup {"umount", "idle"},
         pc[p] \in Before \/ (pc[p] \in After /\ place \in After),
         pc' = [pc EXCEPT ![p] = place],
         place \in {"mount", "umount"} => kind[p] \in Scripts,
         failed' \in [Procs -> BOOLEAN], \A q \in Procs : q # p => failed'[q] = failed[q]
  PROVE  MountInv'
<1> USE DEF MountInv, UseTypes, Places, Before, After
<1>1. UseTypes'
  OBVIOUS
<1>2. ASSUME NEW q \in Procs PROVE MountByPlace(q)'
  BY DEF MountByPlace, Job, Collided
<1>3. \A q \in Procs : OthersIdle(q)'
  BY IdleStays
<1> QED
  BY <1>1, <1>2, <1>3

\* Steps that take a device away, and with it the file systems on it
LEMMA KillingStep ==
  ASSUME MountInv, NEW p \in Procs, UNCHANGED <<jobs, kind, type, alone, used, failed>>,
         mounts' = Killed \/ mounts' = mounts, NEW place \in After \cup {"idle"},
         pc[p] \in After, pc' = [pc EXCEPT ![p] = place]
  PROVE  MountInv'
<1> USE DEF MountInv, UseTypes, Places, Before, After, MountStates
<1>1. UseTypes'
  BY DEF Killed
<1>2. \A j \in Jobs : mounts'[j] = mounts[j] \/ (mounts[j] = "mounted" /\ mounts'[j] = "dead")
  BY DEF Killed
<1>3. ASSUME NEW q \in Procs PROVE MountByPlace(q)'
  <2>1. \A n \in 1..MaxJobs : <<q, n>> \in Jobs
    BY DEF Jobs
  <2>2. jobs[q] > 0 => Job(q) \in Jobs
    BY DEF Jobs, Job
  <2> QED
    BY <1>2, <2>1, <2>2, JobsAssumption DEF MountByPlace, Job, Collided
<1>4. \A q \in Procs : OthersIdle(q)'
  BY IdleStays
<1> QED
  BY <1>1, <1>3, <1>4

\* Every step of a System Loader keeps the mount points in order.
LEMMA MountStep == MountInv /\ [DevicesNext]_deviceVars => MountInv'
<1> SUFFICES ASSUME MountInv, [DevicesNext]_deviceVars PROVE MountInv'
  OBVIOUS
<1>a. CASE UNCHANGED deviceVars
  BY <1>a DEF deviceVars, jobVars, mountVars, MountInv, UseTypes, MountByPlace, OthersIdle, Job,
     Collided
<1>b. ASSUME NEW p \in Procs,
             CheckOnline(p) \/ SetOnline(p) \/ AddPort(p) \/ MakeNode(p) \/ DiskOpen(p) \/ RemovePort(p)
      PROVE  MountInv'
  <2>1. PICK place \in {"port", "online", "unit", "open", "boot", "offline"} :
          pc' = [pc EXCEPT ![p] = place] /\ (place = "offline" <=> pc[p] = "port_remove")
    BY <1>b DEF CheckOnline, SetOnline, AddPort, MakeNode, DiskOpen, RemovePort, Goto
  <2>2. /\ pc[p] \in Before \/ pc[p] = "port_remove"
        /\ UNCHANGED <<mounts, jobs, kind, type, alone, used, failed>>
    BY <1>b DEF CheckOnline, SetOnline, AddPort, MakeNode, DiskOpen, RemovePort, Before,
       jobVars, mountVars
  <2>3. /\ place \in Before \cup After \cup {"umount", "idle"} /\ place \notin {"mount", "umount"}
        /\ pc[p] \in Before \/ (pc[p] \in After /\ place \in After)
    BY <2>1, <2>2 DEF Before, After
  <2> QED
    BY <2>1, <2>2, <2>3, PlainStep DEF MountInv, UseTypes
<1>c. ASSUME NEW p \in Procs, AddUnit(p) PROVE MountInv'
  <2>1. PICK place \in {"mknod", "mount"} :
          pc' = [pc EXCEPT ![p] = place] /\ (place = "mount" => ~Bootmap(p))
    BY <1>c DEF AddUnit, Goto
  <2>2. pc[p] \in Before /\ UNCHANGED <<mounts, jobs, kind, type, alone, used, failed>>
    BY <1>c DEF AddUnit, Before, jobVars, mountVars
  <2>3. place \in Before \cup After \cup {"umount", "idle"}
        /\ (place \in {"mount", "umount"} => kind[p] \in Scripts)
    BY <2>1 DEF Before, Bootmap
  <2> QED
    BY <2>1, <2>2, <2>3, PlainStep DEF MountInv, UseTypes
<1>d. ASSUME NEW p \in Procs,
             SetOnlineFails(p) \/ AddPortFails(p) \/ AddUnitFails(p) \/ MakeNodeFails(p)
               \/ DiskOpenFails(p) \/ BootFails(p) \/ AddPortRefused(p) \/ AddUnitRefused(p)
               \/ NoBlockDevice(p)
      PROVE  MountInv'
  <2>1. PICK place \in {"idle", "umount", "unit_remove", "unit", "mount"} :
          pc' = [pc EXCEPT ![p] = place] /\ (place \in {"mount", "umount"} => ~Bootmap(p))
    BY <1>d DEF SetOnlineFails, AddPortFails, AddUnitFails, MakeNodeFails, DiskOpenFails,
       BootFails, AddPortRefused, AddUnitRefused, NoBlockDevice, Goto, Undo, Bootmap, Scripts
  <2>2. pc[p] \in Before /\ UNCHANGED <<mounts, jobs, kind, type, alone, used>>
    BY <1>d DEF SetOnlineFails, AddPortFails, AddUnitFails, MakeNodeFails, DiskOpenFails,
       BootFails, AddPortRefused, AddUnitRefused, NoBlockDevice, Before, jobVars, mountVars
  <2>3. place \in Before \cup After \cup {"umount", "idle"}
        /\ (place \in {"mount", "umount"} => kind[p] \in Scripts)
    BY <2>1 DEF Before, After, Bootmap
  <2>4. \E v \in BOOLEAN : failed' = [failed EXCEPT ![p] = v]
    <3>1. CASE AddPortRefused(p) \/ AddUnitRefused(p)
      <4>1. (failed[p] \/ Bootmap(p)) \in BOOLEAN
        OBVIOUS
      <4> QED
        BY <3>1, <4>1 DEF AddPortRefused, AddUnitRefused
    <3>2. CASE ~(AddPortRefused(p) \/ AddUnitRefused(p))
      BY <1>d, <3>2 DEF SetOnlineFails, AddPortFails, AddUnitFails, MakeNodeFails, DiskOpenFails,
         BootFails, NoBlockDevice, Fault
    <3> QED
      BY <3>1, <3>2
  <2>5. failed' \in [Procs -> BOOLEAN] /\ \A q \in Procs : q # p => failed'[q] = failed[q]
    BY <2>4 DEF MountInv, UseTypes
  <2> QED
    BY <2>1, <2>2, <2>3, <2>5, PlainStep
<1>e. ASSUME NEW p \in Procs, RemoveUnit(p) \/ SetOffline(p) PROVE MountInv'
  <2>1. PICK place \in {"port_remove", "idle"} : pc' = [pc EXCEPT ![p] = place]
    BY <1>e DEF RemoveUnit, SetOffline, Goto
  <2>2. pc[p] \in After /\ UNCHANGED <<jobs, kind, type, alone, used, failed>>
    BY <1>e DEF RemoveUnit, SetOffline, After, jobVars
  <2>3. mounts' = Killed \/ mounts' = mounts
    BY <1>e DEF RemoveUnit, SetOffline
  <2>4. place \in After \cup {"idle"}
    BY <2>1 DEF After
  <2> QED
    BY <2>1, <2>2, <2>3, <2>4, KillingStep
<1> USE JobsAssumption DEF MountInv, UseTypes, Places, Before, After, MountStates, Scripts
<1>f. ASSUME NEW p \in Procs, NEW k \in Kinds, StartJob(p, k) PROVE MountInv'
  <2>1. k \in Scripts \cup {"dasd", "zfcp"}
    BY DEF Kinds
  <2>2. alone' \in [Procs -> BOOLEAN] /\ \A q \in Procs : alone'[q] =>
          (IF q = p THEN Quiet ELSE alone[q] /\ pc[q] = "idle")
    <3>1. \A q \in Procs : (IF q = p THEN Quiet ELSE alone[q] /\ pc[q] = "idle") \in BOOLEAN
      BY Zenon DEF Quiet
    <3> QED
      BY <1>f, <3>1, Zenon DEF StartJob
  <2>3. UseTypes'
    BY <1>f, <2>1, <2>2 DEF StartJob, Goto, mountVars
  <2>4. ASSUME NEW q \in Procs PROVE MountByPlace(q)'
    BY <1>f, <2>2 DEF StartJob, Goto, MountByPlace, Job, Collided, mountVars
  <2>5. ASSUME NEW q \in Procs PROVE OthersIdle(q)'
    BY <1>f, <2>2 DEF StartJob, Goto, OthersIdle, Quiet
  <2> QED
    BY <2>3, <2>4, <2>5
<1>g. ASSUME NEW p \in Procs, Mount(p) \/ MountFails(p) \/ Unmount(p) PROVE MountInv'
  <2>1. jobs[p] > 0 /\ Job(p) \in Jobs /\ pc[p] \in {"mount", "umount"}
    BY <1>g DEF Mount, MountFails, Unmount, MountByPlace, Job, Jobs
  <2>2. PICK m \in MountStates : mounts' = [mounts EXCEPT ![Job(p)] = m]
    <3>1. CASE mounts' = mounts
      <4>1. mounts' = [mounts EXCEPT ![Job(p)] = mounts[Job(p)]]
        BY <3>1
      <4> QED
        BY <2>1, <4>1
    <3>2. CASE mounts' # mounts
      BY <1>g, <2>1, <3>2 DEF Mount, MountFails, Unmount
    <3> QED
      BY <3>1, <3>2
  <2>u. UNCHANGED <<jobs, kind, type, alone, used>>
    BY <1>g DEF Mount, MountFails, Unmount, jobVars
  <2>p. PICK place \in {"file", "umount", "idle", "unit_remove"} : pc' = [pc EXCEPT ![p] = place]
    BY <1>g DEF Mount, MountFails, Unmount, Goto
  <2>3. UseTypes'
    BY <1>g, <2>2, <2>u, <2>p DEF Mount, MountFails, Unmount
  <2>4. MountByPlace(p)'
    <3>1. \A n \in 1..MaxJobs : n > jobs[p] => mounts'[<<p, n>>] = "none"
      BY <2>2 DEF Job, Jobs, MountByPlace
    <3>2. mounts'[Job(p)] = m /\ Job(p)' = Job(p) /\ UNCHANGED <<jobs, kind, alone, used>>
      BY <2>1, <2>2, <2>u DEF Job
    <3>3. kind[p] \in Scripts /\ kind[p] \in used
      BY <2>1 DEF MountByPlace
    <3>4. CASE Mount(p)
      <4>1. pc'[p] = "file"
        BY <3>4 DEF Mount, Goto
      <4>2. m \notin {"none", "dir"} /\ (kind[p] # "cl_block" => m = "mounted")
        BY <3>4, <3>2, <2>1 DEF Mount
      <4> QED
        BY <2>1, <3>1, <3>2, <3>3, <4>1, <4>2 DEF MountByPlace
    <3>5. CASE MountFails(p)
      <4>1. pc'[p] = "umount" /\ failed'[p]
        BY <3>5 DEF MountFails, Goto
      <4> QED
        BY <2>1, <3>1, <3>2, <3>3, <4>1 DEF MountByPlace
    <3>6. CASE Unmount(p)
      <4>1. pc'[p] = (IF kind[p] = "cl_block" THEN "idle" ELSE "unit_remove") /\ UNCHANGED failed
        BY <3>6 DEF Unmount, Goto
      <4>2. \/ m = "none" \/ (m = "dir" /\ kind[p] = "cl_block" /\ mounts[Job(p)] = "dir")
            \/ CopiedFrom(Job(p)) /\ m \in {"mounted", "dead"}
        BY <3>6, <3>2, <2>1 DEF Unmount
      <4>3. m = "dir" => failed[p]
        BY <3>6, <4>2 DEF MountByPlace, Unmount
      <4>4. ASSUME CopiedFrom(Job(p)) PROVE ~alone[p] /\ "cl_block" \in used
        <5>1. PICK q \in Procs : pc[q] = "copy" /\ mounts[Job(q)] = "linked"
          BY <4>4 DEF CopiedFrom
        <5>2. q # p /\ pc[p] # "idle"
          BY <3>6, <5>1 DEF Unmount
        <5>3. kind[q] = "cl_block" /\ kind[q] \in used
          BY <5>1 DEF MountByPlace
        <5> QED
          BY <5>1, <5>2, <5>3 DEF OthersIdle
      <4>5. m = "none" \/ (m = "dir" /\ kind[p] = "cl_block") \/ Collided(p)'
        BY <3>2, <4>2, <4>4 DEF Collided
      <4> QED
        BY <2>1, <3>1, <3>2, <3>3, <4>1, <4>3, <4>5 DEF MountByPlace
    <3> QED
      BY <1>g, <3>4, <3>5, <3>6
  <2>5. ASSUME NEW q \in Procs, q # p PROVE MountByPlace(q)'
    <3>1. \A n \in Nat : <<q, n>> # Job(p)
      BY <2>5 DEF Job
    <3>2. \A n \in 1..MaxJobs : mounts'[<<q, n>>] = mounts[<<q, n>>]
      BY <3>1, <2>2 DEF Jobs
    <3>3. pc'[q] = pc[q] /\ failed'[q] = failed[q]
      BY <1>g, <2>5, <2>p DEF Mount, MountFails, Unmount
    <3> QED
      BY <2>u, <3>2, <3>3 DEF MountByPlace, Job, Collided
  <2>6. \A q \in Procs : OthersIdle(q)'
    BY <2>1, <2>u, <2>p, IdleStays
  <2> QED
    BY <2>3, <2>4, <2>5, <2>6
<1>h. ASSUME NEW p \in Procs, FindFile(p) \/ NoSuchFile(p) \/ Copy(p) \/ CopyFails(p) PROVE MountInv'
  <2>u. UNCHANGED <<mounts, jobs, kind, type, alone, used>>
    BY <1>h DEF FindFile, Copy, CopyFails, NoSuchFile, jobVars, mountVars
  <2>p. PICK place \in {"copy", "umount", "idle"} :
          /\ pc' = [pc EXCEPT ![p] = place] /\ pc[p] \in {"file", "copy"}
          /\ place = "idle" => kind[p] = "cl_zfcp" /\ failed' = [failed EXCEPT ![p] = TRUE]
    BY <1>h DEF FindFile, Copy, CopyFails, NoSuchFile, Goto
  <2>f. failed' = failed \/ failed' = [failed EXCEPT ![p] = TRUE]
    BY <1>h DEF FindFile, Copy, CopyFails, NoSuchFile
  <2>1. UseTypes'
    BY <2>u, <2>p, <2>f
  <2>2. ASSUME NEW q \in Procs PROVE MountByPlace(q)'
    BY <2>u, <2>p, <2>f DEF MountByPlace, Job, Collided
  <2>3. \A q \in Procs : OthersIdle(q)'
    BY <2>u, <2>p, IdleStays
  <2> QED
    BY <2>1, <2>2, <2>3
<1> QED
  BY <1>a, <1>b, <1>c, <1>d, <1>e, <1>f, <1>g, <1>h DEF DevicesNext

-----------------------------------------------------------------------------
\* After every use of any number of System Loaders the mount point is gone, but for the
\* two failures and the one collision that MountPointGone names.
THEOREM MountPointsAreRemoved == DevicesSpec => []MountPointGone
<1>1. MountInv => MountPointGone
  BY DEF MountInv, MountByPlace, Collided, MountPointGone
<1> QED
  BY MountStarts, MountStep, <1>1, PTL DEF DevicesSpec

-----------------------------------------------------------------------------
(* A DASD that only component loaders use *)

OnlyLoaders == type = "dasd" /\ used \subseteq {"cl_dasd", "cl_block"}

\* A use of cl_dasd has set the device online and has not come to the end of its cleanup.
Holds(p) == set_offline[p] /\ kind[p] = "cl_dasd" /\ pc[p] \notin {"idle", "check", "online"}

\* A component loader goes its own way through the places of the model.
OwnPlaces(p) ==
  /\ pc[p] # "idle" => kind[p] \in {"cl_dasd", "cl_block"}
  /\ pc[p] \in {"mknod", "open", "boot"} => kind[p] # "cl_dasd"
  /\ kind[p] = "cl_block" => pc[p] \in {"idle", "mount", "file", "copy", "umount"}

\* If the device was online nobody has set it online, otherwise one who did still holds it.
DasdHeld ==
  OnlyLoaders =>
    /\ \A p \in Procs : OwnPlaces(p)
    /\ atStart => online /\ \A p \in Procs : pc[p] # "idle" => ~set_offline[p] /\ pc[p] # "online"
    /\ ~atStart /\ online /\ ~refused => \E p \in Procs : Holds(p)

DasdTypes ==
  /\ online \in BOOLEAN /\ atStart \in BOOLEAN /\ refused \in BOOLEAN
  /\ set_offline \in [Procs -> BOOLEAN]

DasdInv == MountInv /\ DasdTypes /\ DasdHeld

\* At the beginning the device is as it was at the beginning.
LEMMA DasdStarts == DevicesInit => DasdInv
<1> SUFFICES ASSUME DevicesInit PROVE DasdInv
  OBVIOUS
<1>1. MountInv
  BY MountStarts
<1>2. DasdTypes
  BY Zenon DEF DevicesInit, DasdTypes
<1>3. DasdHeld
  BY DEF DevicesInit, DasdHeld, OwnPlaces
<1> QED
  BY <1>1, <1>2, <1>3 DEF DasdInv

\* A step of p that leaves the device as it is and keeps p's claim on it
LEMMA ClaimKept ==
  ASSUME DasdHeld, NEW p \in Procs, pc \in [Procs -> Places], NEW place \in Places,
         pc' = [pc EXCEPT ![p] = place], pc[p] # "idle",
         UNCHANGED <<type, used, atStart, online, kind, set_offline>>, refused => refused',
         OnlyLoaders => OwnPlaces(p)' /\ (atStart => place # "online") /\ (Holds(p) => Holds(p)')
  PROVE  DasdHeld'
  BY DEF DasdHeld, OnlyLoaders, OwnPlaces, Holds

\* Every step of a System Loader keeps the device held by the one who has to set it offline.
LEMMA DasdStep == DasdInv /\ [DevicesNext]_deviceVars => DasdInv'
<1> SUFFICES ASSUME DasdInv, [DevicesNext]_deviceVars PROVE DasdInv'
  OBVIOUS
<1>1. MountInv'
  BY MountStep DEF DasdInv
<1>t. pc \in [Procs -> Places] /\ kind \in [Procs -> Scripts \cup {"dasd", "zfcp"}]
  BY DEF DasdInv, MountInv, UseTypes
<1>s. set_offline \in [Procs -> BOOLEAN]
  BY DEF DasdInv, DasdTypes
<1>2. DasdTypes'
  <2>a. ASSUME UNCHANGED deviceVars PROVE DasdTypes'
    BY <2>a DEF deviceVars, jobVars, DasdInv, DasdTypes
  <2>1. ASSUME NEW p \in Procs, NEW k \in Kinds, StartJob(p, k) PROVE DasdTypes'
    BY <2>1, <1>s DEF StartJob, DasdInv, DasdTypes
  <2>2. ASSUME NEW p \in Procs, SetOnline(p) PROVE DasdTypes'
    BY <2>2, <1>s DEF SetOnline, jobVars, DasdInv, DasdTypes
  <2>3. ASSUME NEW p \in Procs, SetOnlineFails(p) PROVE DasdTypes'
    BY <2>3 DEF SetOnlineFails, jobVars, DasdInv, DasdTypes
  <2>4. ASSUME NEW p \in Procs, SetOffline(p) \/ RemoveUnit(p) PROVE DasdTypes'
    BY <2>4 DEF SetOffline, RemoveUnit, jobVars, DasdInv, DasdTypes
  <2>5. ASSUME NEW p \in Procs, RemovePort(p) PROVE DasdTypes'
    <3>1. refused' \in BOOLEAN
      BY <2>5, Zenon DEF RemovePort
    <3> QED
      BY <2>5, <3>1 DEF RemovePort, jobVars, DasdInv, DasdTypes
  <2>6. ASSUME NEW p \in Procs,
               \/ CheckOnline(p) \/ AddPort(p) \/ AddPortFails(p) \/ AddUnit(p) \/ AddUnitFails(p)
               \/ MakeNode(p) \/ MakeNodeFails(p) \/ DiskOpen(p) \/ DiskOpenFails(p) \/ BootFails(p)
               \/ AddPortRefused(p) \/ AddUnitRefused(p) \/ NoBlockDevice(p) \/ Mount(p) \/ MountFails(p)
               \/ FindFile(p) \/ NoSuchFile(p) \/ Copy(p) \/ CopyFails(p) \/ Unmount(p)
        PROVE  DasdTypes'
    <3>1. UNCHANGED <<online, atStart, refused, set_offline>>
      BY <2>6 DEF CheckOnline, AddPort, AddPortFails, AddUnit, AddUnitFails, MakeNode,
         MakeNodeFails, DiskOpen, DiskOpenFails, BootFails, AddPortRefused, AddUnitRefused,
         NoBlockDevice, Mount, MountFails, FindFile, NoSuchFile, Copy, CopyFails, Unmount, jobVars
    <3> QED
      BY <3>1 DEF DasdInv, DasdTypes
  <2> QED
    BY <2>a, <2>1, <2>2, <2>3, <2>4, <2>5, <2>6 DEF DevicesNext
<1> USE DEF DasdInv
<1>a. ASSUME UNCHANGED deviceVars PROVE DasdHeld'
  BY <1>a DEF deviceVars, jobVars, DasdHeld, OnlyLoaders, OwnPlaces, Holds
<1>b. ASSUME NEW p \in Procs,
             \/ CheckOnline(p) \/ AddPort(p) \/ AddPortFails(p) \/ AddUnit(p) \/ AddUnitFails(p)
             \/ MakeNode(p) \/ MakeNodeFails(p) \/ DiskOpen(p) \/ DiskOpenFails(p) \/ BootFails(p)
             \/ AddPortRefused(p) \/ AddUnitRefused(p) \/ NoBlockDevice(p)
      PROVE  DasdHeld'
  <2>1. PICK place \in {"port", "online", "unit", "mknod", "mount", "open", "boot", "idle", "umount", "unit_remove"} :
          pc' = [pc EXCEPT ![p] = place]
    BY <1>b DEF CheckOnline, AddPort, AddPortFails, AddUnit, AddUnitFails, MakeNode, MakeNodeFails,
       DiskOpen, DiskOpenFails, BootFails, AddPortRefused, AddUnitRefused, NoBlockDevice, Goto, Undo
  <2>2. pc[p] # "idle" /\ UNCHANGED <<type, used, atStart, online, kind, set_offline, refused>>
    BY <1>b DEF CheckOnline, AddPort, AddPortFails, AddUnit, AddUnitFails, MakeNode, MakeNodeFails,
       DiskOpen, DiskOpenFails, BootFails, AddPortRefused, AddUnitRefused, NoBlockDevice, jobVars
  <2>3. place \in Places
    BY <2>1 DEF Places, Before, After
  <2>4. ASSUME OnlyLoaders
        PROVE  OwnPlaces(p)' /\ (atStart => place # "online") /\ (Holds(p) => Holds(p)')
    <3>1. OwnPlaces(p) /\ (atStart => online)
      BY <2>4 DEF DasdHeld
    <3>2. kind[p] = "cl_dasd"
      BY <1>b, <3>1 DEF OwnPlaces, CheckOnline, AddPort, AddPortFails, AddUnit, AddUnitFails,
         MakeNode, MakeNodeFails, DiskOpen, DiskOpenFails, BootFails, AddPortRefused,
         AddUnitRefused, NoBlockDevice
    <3>3. CheckOnline(p) \/ AddPort(p) \/ AddUnit(p)
      BY <1>b, <3>1, <3>2 DEF OwnPlaces, AddPortFails, AddUnitFails, Zfcp, AddPortRefused,
         AddUnitRefused, NoBlockDevice, MakeNode, MakeNodeFails, DiskOpen, DiskOpenFails, BootFails
    <3>4. ~Bootmap(p)
      BY <3>2 DEF Bootmap, Scripts
    <3>5. pc'[p] \in {"port", "online", "unit", "mount"} /\ (atStart => pc'[p] # "online")
          /\ (pc[p] # "check" => pc'[p] # "online")
      BY <1>t, <3>1, <3>3, <3>4 DEF CheckOnline, AddPort, AddUnit, Goto
    <3>6. pc'[p] = place /\ kind'[p] = "cl_dasd"
      BY <1>t, <2>1, <2>2, <3>2
    <3>7. OwnPlaces(p)'
      BY <3>5, <3>6 DEF OwnPlaces
    <3>8. Holds(p) => Holds(p)'
      BY <2>2, <3>5, <3>6 DEF Holds
    <3> QED
      BY <3>5, <3>6, <3>7, <3>8
  <2> QED
    BY <1>t, <2>1, <2>2, <2>3, <2>4, ClaimKept
<1>c. ASSUME NEW p \in Procs,
             \/ Mount(p) \/ MountFails(p) \/ FindFile(p) \/ NoSuchFile(p) \/ Copy(p) \/ CopyFails(p)
             \/ Unmount(p) \/ RemoveUnit(p) \/ RemovePort(p)
      PROVE  DasdHeld'
  <2>1. PICK place \in {"file", "copy", "umount", "idle", "unit_remove", "port_remove", "offline"} :
          pc' = [pc EXCEPT ![p] = place]
    BY <1>c DEF Mount, MountFails, FindFile, NoSuchFile, Copy, CopyFails, Unmount, RemoveUnit,
       RemovePort, Goto
  <2>2. pc[p] # "idle" /\ UNCHANGED <<type, used, atStart, online, kind, set_offline>>
    BY <1>c DEF Mount, MountFails, FindFile, NoSuchFile, Copy, CopyFails, Unmount, RemoveUnit,
       RemovePort, jobVars
  <2>3. refused => refused'
    BY <1>c DEF Mount, MountFails, FindFile, NoSuchFile, Copy, CopyFails, Unmount, RemoveUnit,
       RemovePort, jobVars
  <2>4. place \in Places
    BY <2>1 DEF Places, Before, After
  <2>5. ASSUME OnlyLoaders
        PROVE  OwnPlaces(p)' /\ (atStart => place # "online") /\ (Holds(p) => Holds(p)')
    <3>1. OwnPlaces(p)
      BY <2>5 DEF DasdHeld
    <3>2. kind[p] \in {"cl_dasd", "cl_block"}
      BY <2>2, <3>1 DEF OwnPlaces
    <3>3. kind[p] = "cl_dasd" => pc'[p] \in {"file", "copy", "umount", "unit_remove", "port_remove", "offline"}
      BY <1>t, <1>c, <3>2 DEF Mount, MountFails, FindFile, NoSuchFile, Copy, CopyFails, Unmount, RemoveUnit,
         RemovePort, Goto
    <3>4. kind[p] = "cl_block" => pc'[p] \in {"file", "copy", "umount", "idle"}
      BY <1>t, <1>c, <3>1 DEF OwnPlaces, Mount, MountFails, FindFile, NoSuchFile, Copy, CopyFails, Unmount,
         RemoveUnit, RemovePort, Goto
    <3>5. pc'[p] = place /\ kind'[p] = kind[p]
      BY <1>t, <2>1, <2>2
    <3>6. OwnPlaces(p)'
      BY <3>2, <3>3, <3>4, <3>5 DEF OwnPlaces
    <3>7. Holds(p) => Holds(p)'
      BY <2>2, <3>3, <3>5 DEF Holds
    <3> QED
      BY <2>1, <3>6, <3>7
  <2> QED
    BY <1>t, <2>1, <2>2, <2>3, <2>4, <2>5, ClaimKept
<1>d. ASSUME NEW p \in Procs, NEW k \in Kinds, StartJob(p, k) PROVE DasdHeld'
  <2>1. OnlyLoaders' => OnlyLoaders /\ k \in {"cl_dasd", "cl_block"}
    BY <1>d DEF StartJob, OnlyLoaders
  <2>2. \A q \in Procs : Holds(q) => Holds(q)'
    BY <1>d, <1>t, <1>s DEF StartJob, Holds, Goto
  <2>3. ASSUME OnlyLoaders' PROVE \A q \in Procs : OwnPlaces(q)'
    BY <1>d, <1>t, <2>1, <2>3 DEF StartJob, OwnPlaces, Goto, DasdHeld
  <2>4. ASSUME OnlyLoaders', atStart, NEW q \in Procs
        PROVE  pc'[q] # "idle" => ~set_offline'[q] /\ pc'[q] # "online"
    BY <1>d, <1>t, <1>s, <2>1, <2>4 DEF StartJob, Goto, DasdHeld
  <2>5. UNCHANGED <<online, atStart, refused>>
    BY <1>d DEF StartJob
  <2> QED
    BY <2>1, <2>2, <2>3, <2>4, <2>5 DEF DasdHeld
<1>e. ASSUME NEW p \in Procs, SetOnline(p) \/ SetOnlineFails(p) PROVE DasdHeld'
  <2> SUFFICES ASSUME OnlyLoaders' PROVE DasdHeld'
    BY DEF DasdHeld
  <2>1. OnlyLoaders /\ UNCHANGED <<kind, atStart>>
    BY <1>e DEF SetOnline, SetOnlineFails, jobVars, OnlyLoaders
  <2>2. kind[p] = "cl_dasd" /\ ~atStart
    BY <1>e, <2>1 DEF SetOnline, SetOnlineFails, DasdHeld, OwnPlaces
  <2>3. \A q \in Procs : OwnPlaces(q)'
    BY <1>e, <1>t, <2>1, <2>2 DEF SetOnline, SetOnlineFails, DasdHeld, OwnPlaces, Goto, jobVars
  <2>4. refused' \/ Holds(p)'
    BY <1>e, <1>t, <1>s, <2>2 DEF SetOnline, SetOnlineFails, Holds, Goto, jobVars
  <2> QED
    BY <2>1, <2>2, <2>3, <2>4 DEF DasdHeld
<1>f. ASSUME NEW p \in Procs, SetOffline(p) PROVE DasdHeld'
  <2> SUFFICES ASSUME OnlyLoaders' PROVE DasdHeld'
    BY DEF DasdHeld
  <2>1. OnlyLoaders /\ UNCHANGED <<kind, atStart, set_offline>> /\ pc' = [pc EXCEPT ![p] = "idle"]
    BY <1>f DEF SetOffline, OnlyLoaders, Goto, jobVars
  <2>2. kind[p] = "cl_dasd" /\ pc[p] = "offline"
    BY <1>f, <2>1 DEF SetOffline, DasdHeld, OwnPlaces
  <2>3. \A q \in Procs : OwnPlaces(q)'
    BY <1>t, <2>1, <2>2 DEF DasdHeld, OwnPlaces
  <2>4. \A q \in Procs : q # p /\ Holds(q) => Holds(q)'
    BY <1>t, <2>1 DEF Holds
  <2>5. set_offline[p] => ~atStart
    BY <2>1, <2>2 DEF DasdHeld
  <2>6. CASE set_offline[p]
    <3>1. ~online' \/ refused'
      BY <1>f, <2>6 DEF SetOffline
    <3> QED
      BY <2>1, <2>3, <2>5, <2>6, <3>1 DEF DasdHeld
  <2>7. CASE ~set_offline[p]
    <3>1. UNCHANGED <<online, refused>>
      BY <1>f, <2>2, <2>7 DEF SetOffline
    <3>2. ~Holds(p)
      BY <2>7 DEF Holds
    <3>3. \A q \in Procs : pc'[q] # "idle" => pc[q] = pc'[q]
      BY <1>t, <2>1
    <3> QED
      BY <2>1, <2>3, <2>4, <3>1, <3>2, <3>3 DEF DasdHeld
  <2> QED
    BY <2>6, <2>7
<1>3. DasdHeld'
  BY <1>a, <1>b, <1>c, <1>d, <1>e, <1>f DEF DevicesNext
<1> QED
  BY <1>1, <1>2, <1>3

-----------------------------------------------------------------------------
\* A DASD that any number of component loaders use, one at a time or together, is never
\* taken away if it was online, and is left as it was found.
THEOREM DasdIsRestored == DevicesSpec => []LoadersRestoreDasd
<1>1. DasdInv => LoadersRestoreDasd
  <2> SUFFICES ASSUME DasdInv, OnlyLoaders
               PROVE  (atStart => online) /\ (Quiet /\ ~refused => online = atStart)
    BY DEF LoadersRestoreDasd, OnlyLoaders
  <2>1. atStart => online
    BY DEF DasdInv, DasdHeld
  <2>2. ASSUME Quiet, ~refused PROVE ~atStart => ~online
    BY <2>2 DEF DasdInv, DasdHeld, Quiet, Holds
  <2>3. online \in BOOLEAN /\ atStart \in BOOLEAN
    BY DEF DasdInv, DasdTypes
  <2> QED
    BY <2>1, <2>2, <2>3
<1> QED
  BY DasdStarts, DasdStep, <1>1, PTL DEF DevicesSpec

-----------------------------------------------------------------------------
(* A use that runs alone: what it finds set up, and what it leaves *)

\* The job j has come to its end.
Ended(j) == j[2] < jobs[j[1]] \/ (j[2] = jobs[j[1]] /\ pc[j[1]] = "idle")

\* An earlier job of anybody has left its mount point.
OtherLeft(p) == \E j \in Jobs : j # Job(p) /\ mounts[j] # "none" /\ Ended(j)

\* Which kinds of jobs come to a place
KindByPlace(p) ==
  /\ pc[p] # "idle" => kind[p] \in Kinds
  /\ kind[p] = "cl_block" => pc[p] \in {"idle", "mount", "file", "copy", "umount"}
  /\ pc[p] \in {"mknod", "open", "boot"} => Bootmap(p)

\* What a job has set up when it comes to a place, unless the failure of one of its steps
\* has been noted, or it has found a WWPN or a LUN that failed in an earlier job
Found(p) ==
  /\ pc[p] \in {"port", "unit"} => online
  /\ pc[p] \in {"check", "online", "port", "unit"} /\ ~found[p] => ~port_failed /\ ~unit_failed
  /\ pc[p] = "unit" /\ type = "zfcp" => port \/ fault[p]
  /\ pc[p] \in {"mknod", "open"} \/ (pc[p] = "mount" /\ kind[p] # "cl_block") =>
       Attached \/ fault[p] \/ found[p]
  /\ pc[p] = "open" => node

Mounted(p) ==
  pc[p] \in {"file", "copy"} => mounts[Job(p)] = "mounted" \/ (kind[p] = "cl_block" /\ OtherLeft(p))

\* Why it can have failed
Excused(p) == (kind[p] = "cl_block" /\ OtherLeft(p)) \/ (Zfcp(p) /\ found[p])
Explained(p) == failed[p] /\ ~fault[p] => Excused(p)

\* What it has taken away again
Removed(p) ==
  /\ pc[p] \in {"port_remove", "offline"} /\ ~refused => ~unit
  /\ pc[p] = "offline" /\ ~refused => ~port

AloneByPlace(p) == alone[p] => Found(p) /\ Mounted(p) /\ Explained(p) /\ Removed(p)

\* A DASD has neither WWPN nor LUN.
NoPortOnDasd ==
  type = "dasd" =>
    ~port /\ ~unit /\ ~port_failed /\ ~unit_failed /\ \A p \in Procs : ~found[p]

DeviceTypes ==
  /\ online \in BOOLEAN /\ port \in BOOLEAN /\ unit \in BOOLEAN /\ node \in BOOLEAN
  /\ port_failed \in BOOLEAN /\ unit_failed \in BOOLEAN
  /\ refused \in BOOLEAN /\ fault \in [Procs -> BOOLEAN] /\ found \in [Procs -> BOOLEAN]

UseInv ==
  /\ MountInv /\ DeviceTypes /\ NoPortOnDasd
  /\ \A p \in Procs : KindByPlace(p) /\ AloneByPlace(p)

\* Before the first use nothing is left and nobody is in the way.
LEMMA UseStarts == DevicesInit => UseInv
<1> SUFFICES ASSUME DevicesInit PROVE UseInv
  OBVIOUS
<1>1. DeviceTypes
  BY Zenon DEF DevicesInit, DeviceTypes
<1>2. NoPortOnDasd
  BY DEF DevicesInit, NoPortOnDasd
<1>3. \A p \in Procs : KindByPlace(p) /\ AloneByPlace(p)
  BY DEF DevicesInit, KindByPlace, AloneByPlace, Found, Mounted, Explained, Removed
<1> QED
  BY <1>1, <1>2, <1>3, MountStarts DEF UseInv

\* A step of p within its use: it goes to a place, and no mount point of another job goes.
Within(p, place) ==
  /\ pc[p] # "idle" /\ pc' = [pc EXCEPT ![p] = place]
  /\ UNCHANGED <<jobs, kind, alone, found, type>>
  /\ \A q \in Procs : q # p => failed'[q] = failed[q] /\ fault'[q] = fault[q]
  /\ \A j \in Jobs : j # Job(p) /\ mounts[j] # "none" => mounts'[j] # "none"

\* What an earlier job has left stays while others run.
LEMMA LeftStays ==
  ASSUME UseInv, NEW p \in Procs, NEW place, Within(p, place), NEW q \in Procs, OtherLeft(q)
  PROVE  OtherLeft(q)'
<1>1. PICK j \in Jobs : j # Job(q) /\ mounts[j] # "none" /\ Ended(j)
  BY DEF OtherLeft
<1>2. jobs \in [Procs -> 0..MaxJobs] /\ pc \in [Procs -> Places]
  BY DEF UseInv, MountInv, UseTypes
<1>3. j[1] \in Procs /\ j[2] \in 1..MaxJobs /\ j = <<j[1], j[2]>>
  BY DEF Jobs
<1>4. j # Job(p)
  BY <1>1, <1>2, <1>3, JobsAssumption DEF Ended, Job, Within
<1>5. mounts'[j] # "none" /\ jobs' = jobs
  BY <1>1, <1>4 DEF Within
<1>6. Ended(j)'
  BY <1>1, <1>2, <1>3, JobsAssumption DEF Ended, Within
<1> QED
  BY <1>1, <1>5, <1>6 DEF OtherLeft, Job

\* A step of p within its use does not disturb the others.
LEMMA OthersKept ==
  ASSUME UseInv, NEW p \in Procs, NEW place, Within(p, place)
  PROVE  \A q \in Procs : q # p => KindByPlace(q)' /\ AloneByPlace(q)'
<1>1. pc \in [Procs -> Places] /\ alone \in [Procs -> BOOLEAN]
  BY DEF UseInv, MountInv, UseTypes
<1>2. \A q \in Procs : q # p => pc'[q] = pc[q] /\ kind'[q] = kind[q]
  BY <1>1 DEF Within
<1>3. \A q \in Procs : q # p /\ alone[q] => pc[q] = "idle"
  BY DEF UseInv, MountInv, OthersIdle, Within
<1>4. ASSUME NEW q \in Procs, q # p PROVE KindByPlace(q)'
  BY <1>2, <1>4 DEF UseInv, KindByPlace, Kinds, Bootmap, Within
<1>5. ASSUME NEW q \in Procs, q # p, alone'[q] PROVE AloneByPlace(q)'
  <2>1. /\ alone[q] /\ pc'[q] = "idle" /\ failed'[q] = failed[q] /\ fault'[q] = fault[q]
        /\ kind'[q] = kind[q] /\ found' = found
    BY <1>2, <1>3, <1>5 DEF Within
  <2>2. failed[q] /\ ~fault[q] => Excused(q)
    BY <2>1 DEF UseInv, AloneByPlace, Explained
  <2>3. OtherLeft(q) => OtherLeft(q)'
    BY LeftStays
  <2>4. Excused(q) => Excused(q)'
    BY <2>1, <2>3 DEF Excused, Zfcp
  <2> QED
    BY <2>1, <2>2, <2>4 DEF AloneByPlace, Found, Mounted, Explained, Removed
<1> QED
  BY <1>4, <1>5 DEF AloneByPlace

\* A failure is explained after a step if it was before it, or if a WWPN or LUN was found
\* that had failed.
LEMMA FailureKept ==
  ASSUME UseInv, NEW p \in Procs, NEW place, Within(p, place), alone[p],
         failed'[p] /\ ~fault'[p] => (failed[p] /\ ~fault[p]) \/ (Zfcp(p) /\ found[p])
  PROVE  Explained(p)'
<1>1. OtherLeft(p) => OtherLeft(p)'
  BY LeftStays
<1>2. Excused(p) => Excused(p)'
  BY <1>1 DEF Excused, Within, Zfcp
<1>3. Explained(p)
  BY DEF UseInv, AloneByPlace
<1> QED
  BY <1>2, <1>3 DEF Explained, Excused

\* The zfcp places are for a WWPN and a LUN exactly if the device is not a DASD.
LEMMA ZfcpByType ==
  ASSUME UseInv, NEW p \in Procs, pc[p] \notin {"idle", "mount", "file", "copy", "umount"}
  PROVE  /\ kind[p] # "cl_block"
         /\ type = "zfcp" => Zfcp(p)
         /\ type = "dasd" => ~Zfcp(p)
         /\ type \in {"dasd", "zfcp"}
  BY DEF UseInv, MountInv, UseTypes, KindByPlace, Kinds, Zfcp

\* Every step keeps the types, and no step gives a DASD a WWPN or a LUN.
LEMMA DeviceStep == UseInv /\ [DevicesNext]_deviceVars => DeviceTypes' /\ NoPortOnDasd'
<1> SUFFICES ASSUME UseInv, [DevicesNext]_deviceVars PROVE DeviceTypes' /\ NoPortOnDasd'
  OBVIOUS
<1> USE DEF UseInv, DeviceTypes, NoPortOnDasd
<1>a. ASSUME UNCHANGED <<type, found, zfcpVars, online, node, refused, fault>>
      PROVE  DeviceTypes' /\ NoPortOnDasd'
  BY <1>a DEF zfcpVars
<1>b. ASSUME NEW p \in Procs,
             \/ CheckOnline(p) \/ DiskOpen(p) \/ Mount(p) \/ FindFile(p) \/ Copy(p) \/ Unmount(p)
      PROVE  DeviceTypes' /\ NoPortOnDasd'
  BY <1>a, <1>b DEF CheckOnline, DiskOpen, Mount, FindFile, Copy, Unmount, jobVars
<1>c. ASSUME NEW p \in Procs, NEW v \in BOOLEAN, fault' = [fault EXCEPT ![p] = v],
             UNCHANGED <<type, found, zfcpVars, online, node, refused>>
      PROVE  DeviceTypes' /\ NoPortOnDasd'
  BY <1>c DEF zfcpVars
<1>d. ASSUME NEW p \in Procs, AddPortRefused(p) \/ BootFails(p) PROVE DeviceTypes' /\ NoPortOnDasd'
  BY <1>c, <1>d DEF AddPortRefused, BootFails, Fault, jobVars
<1>e. ASSUME NEW p \in Procs,
             \/ AddUnitRefused(p) \/ DiskOpenFails(p) \/ NoBlockDevice(p) \/ MountFails(p)
             \/ CopyFails(p) \/ NoSuchFile(p)
      PROVE  DeviceTypes' /\ NoPortOnDasd'
  <2>1. \E v \in BOOLEAN : fault' = [fault EXCEPT ![p] = v]
    <3>1. CASE AddUnitRefused(p)
      BY <3>1, (fault[p] \/ (port /\ ~port_failed)) \in BOOLEAN DEF AddUnitRefused
    <3>2. CASE DiskOpenFails(p)
      BY <3>2, (fault[p] \/ (Attached /\ node)) \in BOOLEAN DEF DiskOpenFails
    <3>3. CASE MountFails(p)
      BY <3>3, (fault[p] \/ Attached \/ kind[p] = "cl_block") \in BOOLEAN DEF MountFails
    <3>4. CASE CopyFails(p) \/ NoSuchFile(p)
      BY <3>4, (fault[p] \/ Readable(p)) \in BOOLEAN DEF CopyFails, NoSuchFile
    <3>5. CASE NoBlockDevice(p)
      BY <3>5, (fault[p] \/ Attached) \in BOOLEAN DEF NoBlockDevice
    <3> QED
      BY <1>e, <3>1, <3>2, <3>3, <3>4, <3>5
  <2>2. UNCHANGED <<type, found, zfcpVars, online, node, refused>>
    BY <1>e DEF AddUnitRefused, DiskOpenFails, NoBlockDevice, MountFails, CopyFails, NoSuchFile, jobVars
  <2> QED
    BY <1>c, <2>1, <2>2
<1>f. ASSUME NEW p \in Procs, MakeNode(p) PROVE DeviceTypes' /\ NoPortOnDasd'
  BY <1>f DEF MakeNode, jobVars, zfcpVars
<1>g. ASSUME NEW p \in Procs, MakeNodeFails(p) PROVE DeviceTypes' /\ NoPortOnDasd'
  <2>1. PICK v \in BOOLEAN : fault' = [fault EXCEPT ![p] = v]
    BY <1>g, (fault[p] \/ CanMakeNode) \in BOOLEAN DEF MakeNodeFails
  <2>2. node' \in BOOLEAN /\ UNCHANGED <<type, found, zfcpVars, online, refused>>
    BY <1>g DEF MakeNodeFails, jobVars
  <2> QED
    BY <2>1, <2>2 DEF zfcpVars
<1>h. ASSUME NEW p \in Procs, SetOnline(p) \/ SetOnlineFails(p) PROVE DeviceTypes' /\ NoPortOnDasd'
  <2>1. online' \in BOOLEAN /\ refused' \in BOOLEAN
    BY <1>h, Zenon DEF SetOnline, SetOnlineFails
  <2>2. fault' \in [Procs -> BOOLEAN]
    BY <1>h DEF SetOnline, SetOnlineFails, Fault
  <2>3. UNCHANGED <<type, found, zfcpVars, node>>
    BY <1>h DEF SetOnline, SetOnlineFails, jobVars
  <2> QED
    BY <2>1, <2>2, <2>3 DEF zfcpVars
<1>i. ASSUME NEW p \in Procs, AddPort(p) \/ AddUnit(p) \/ AddPortFails(p) \/ AddUnitFails(p)
      PROVE  DeviceTypes' /\ NoPortOnDasd'
  <2>1. type = "dasd" => ~Zfcp(p)
    BY <1>i, ZfcpByType DEF AddPort, AddUnit, AddPortFails, AddUnitFails
  <2>2. port' \in BOOLEAN /\ unit' \in BOOLEAN /\ port_failed' \in BOOLEAN /\ unit_failed' \in BOOLEAN
    BY <1>i, Zenon DEF AddPort, AddUnit, AddPortFails, AddUnitFails
  <2>3. UNCHANGED <<type, found, online, node, refused>>
    BY <1>i DEF AddPort, AddUnit, AddPortFails, AddUnitFails, jobVars
  <2>4. fault' \in [Procs -> BOOLEAN]
    <3>1. CASE AddUnitFails(p)
      BY <3>1, (fault[p] \/ ~port_failed) \in BOOLEAN DEF AddUnitFails
    <3>2. CASE ~AddUnitFails(p)
      BY <1>i, <3>2 DEF AddPort, AddUnit, AddPortFails, Fault
    <3> QED
      BY <3>1, <3>2
  <2>5. type = "dasd" => ~port' /\ ~unit' /\ ~port_failed' /\ ~unit_failed'
    BY <1>i, <2>1 DEF AddPort, AddUnit, AddPortFails, AddUnitFails
  <2> QED
    BY <2>2, <2>3, <2>4, <2>5
<1>j. ASSUME NEW p \in Procs, RemoveUnit(p) \/ RemovePort(p) PROVE DeviceTypes' /\ NoPortOnDasd'
  <2>1. port' \in BOOLEAN /\ unit' \in BOOLEAN /\ refused' \in BOOLEAN
        /\ port_failed' \in BOOLEAN /\ unit_failed' \in BOOLEAN
    BY <1>j, Zenon DEF RemoveUnit, RemovePort
  <2>2. UNCHANGED <<type, found, online, node, fault>>
    BY <1>j DEF RemoveUnit, RemovePort, jobVars
  <2>3. ~port /\ ~unit /\ ~port_failed /\ ~unit_failed =>
          ~port' /\ ~unit' /\ ~port_failed' /\ ~unit_failed'
    BY <1>j DEF RemoveUnit, RemovePort
  <2> QED
    BY <2>1, <2>2, <2>3
<1>k. ASSUME NEW p \in Procs, SetOffline(p) PROVE DeviceTypes' /\ NoPortOnDasd'
  <2>1. online' \in BOOLEAN /\ node' \in BOOLEAN /\ refused' \in BOOLEAN
    BY <1>k, Zenon DEF SetOffline
  <2>2. UNCHANGED <<type, found, zfcpVars, fault>>
    BY <1>k DEF SetOffline, jobVars
  <2> QED
    BY <2>1, <2>2 DEF zfcpVars
<1>l. ASSUME NEW p \in Procs, NEW k \in Kinds, StartJob(p, k) PROVE DeviceTypes' /\ NoPortOnDasd'
  <2>1. found' \in [Procs -> BOOLEAN] /\ (type = "dasd" => \A q \in Procs : ~found'[q])
    <3>1. (port_failed \/ unit_failed) \in BOOLEAN
      OBVIOUS
    <3> QED
      BY <1>l, <3>1 DEF StartJob
  <2>2. fault' \in [Procs -> BOOLEAN]
    BY <1>l DEF StartJob
  <2>3. UNCHANGED <<type, zfcpVars, online, node, refused>>
    BY <1>l DEF StartJob
  <2> QED
    BY <2>1, <2>2, <2>3 DEF zfcpVars
<1>m. ASSUME UNCHANGED deviceVars PROVE DeviceTypes' /\ NoPortOnDasd'
  BY <1>a, <1>m DEF deviceVars, jobVars
<1> QED
  BY <1>b, <1>d, <1>e, <1>f, <1>g, <1>h, <1>i, <1>j, <1>k, <1>l, <1>m DEF DevicesNext

-----------------------------------------------------------------------------
\* Setting the device up: a use that is alone finds what it has set up.
LEMMA SetUpStep ==
  ASSUME UseInv, NEW p \in Procs,
         \/ CheckOnline(p) \/ SetOnline(p) \/ SetOnlineFails(p)
         \/ AddPort(p) \/ AddPortFails(p) \/ AddPortRefused(p)
         \/ AddUnit(p) \/ AddUnitFails(p) \/ AddUnitRefused(p)
  PROVE  /\ \E place : Within(p, place)
         /\ KindByPlace(p)' /\ AloneByPlace(p)'
<1> USE DEF CheckOnline, SetOnline, SetOnlineFails, AddPort, AddPortFails, AddPortRefused, AddUnit,
      AddUnitFails, AddUnitRefused, Fault, jobVars, mountVars
<1>1. /\ pc \in [Procs -> Places] /\ failed \in [Procs -> BOOLEAN] /\ fault \in [Procs -> BOOLEAN]
      /\ alone \in [Procs -> BOOLEAN] /\ found \in [Procs -> BOOLEAN]
  BY DEF UseInv, MountInv, UseTypes, DeviceTypes
<1>2. PICK place \in {"port", "online", "unit", "mknod", "mount", "umount", "idle"} :
        pc' = [pc EXCEPT ![p] = place]
    BY DEF Goto, Undo
<1>3. Within(p, place)
  <2>1. UNCHANGED <<jobs, kind, alone, type, mounts>>
    OBVIOUS
  <2>2. pc[p] \in {"check", "online", "port", "unit"}
    OBVIOUS
  <2>3. \A q \in Procs : q # p => failed'[q] = failed[q] /\ fault'[q] = fault[q]
    BY <1>1
  <2> QED
    BY <1>2, <2>1, <2>2, <2>3 DEF Within
<1>4. pc'[p] = place /\ kind' = kind /\ type' = type /\ alone' = alone
  BY <1>1, <1>2
<1>5. kind[p] # "cl_block" /\ kind[p] \in Kinds
  BY ZfcpByType DEF UseInv, KindByPlace
<1>6. type = "zfcp" <=> Zfcp(p)
  BY ZfcpByType
<1>7. place = "mknod" => Bootmap(p)
  BY <1>1, <1>4 DEF Goto, Undo
<1>8. KindByPlace(p)'
  BY <1>4, <1>5, <1>7 DEF KindByPlace, Kinds, Bootmap
<1>9. ASSUME alone[p] PROVE Found(p)' /\ Mounted(p)' /\ Explained(p)' /\ Removed(p)'
  <2>1. Found(p) /\ (found[p] => Zfcp(p))
    BY <1>6, <1>9, ZfcpByType DEF UseInv, AloneByPlace, NoPortOnDasd
  <2>2. Mounted(p)' /\ Removed(p)'
    BY <1>4 DEF Mounted, Removed
  <2>3. Found(p)'
    <3>1. found' = found /\ (place \in {"idle", "umount"} => Found(p)')
      BY <1>4 DEF Found
    <3>2. CASE CheckOnline(p)
      BY <1>1, <1>4, <2>1, <3>1, <3>2 DEF Found, Goto, zfcpVars
    <3>3. CASE SetOnline(p)
      BY <1>1, <1>4, <2>1, <3>1, <3>3 DEF Found, Goto, zfcpVars
    <3>4. CASE AddPort(p)
      <4>1. place = "unit" /\ UNCHANGED <<online, port_failed, unit_failed>>
        BY <1>1, <1>4, <3>4 DEF Goto
      <4>2. Zfcp(p) => port'
        BY <3>4
      <4> QED
        BY <1>4, <1>6, <2>1, <3>1, <3>4, <4>1, <4>2 DEF Found
    <3>5. CASE AddPortRefused(p)
      <4>1. place \in {"idle", "unit"} /\ UNCHANGED <<online, zfcpVars>>
        BY <1>1, <1>4, <3>5 DEF Goto
      <4>2. fault'[p] /\ pc[p] = "port"
        BY <1>1, <3>5
      <4> QED
        BY <1>4, <2>1, <3>1, <4>1, <4>2 DEF Found, zfcpVars
    <3>6. CASE AddUnit(p)
      <4>1. place \in {"mknod", "mount"} /\ UNCHANGED <<online, port, port_failed, unit_failed, fault>>
        BY <1>1, <1>4, <3>6 DEF Goto
      <4>2. type = "zfcp" => unit' /\ port
        BY <1>6, <3>6
      <4>3. Attached' \/ fault'[p] \/ found'[p]
        BY <1>4, <2>1, <3>1, <3>6, <4>1, <4>2 DEF Found, Attached
      <4> QED
        BY <1>4, <4>1, <4>3 DEF Found
    <3>7. CASE AddUnitRefused(p)
      <4>1. place \in {"idle", "mount"} /\ UNCHANGED zfcpVars
        BY <1>1, <1>4, <3>7 DEF Goto
      <4>2. fault'[p] \/ found'[p]
        BY <1>1, <1>6, <2>1, <3>1, <3>7 DEF Found
      <4> QED
        BY <1>4, <4>1, <4>2 DEF Found
    <3>8. CASE SetOnlineFails(p) \/ AddPortFails(p) \/ AddUnitFails(p)
      <4>1. place \in {"idle", "umount"}
        BY <1>1, <1>4, <3>8 DEF Goto, Undo
      <4> QED
        BY <3>1, <4>1
    <3> QED
      BY <3>2, <3>3, <3>4, <3>5, <3>6, <3>7, <3>8
  <2>4. failed'[p] /\ ~fault'[p] => (failed[p] /\ ~fault[p]) \/ (Zfcp(p) /\ found[p])
    BY <1>1, <1>6, <2>1 DEF Found
  <2>5. Explained(p)'
    BY <1>3, <1>9, <2>4, FailureKept
  <2> QED
    BY <2>2, <2>3, <2>5
<1>10. AloneByPlace(p)'
  BY <1>4, <1>9 DEF AloneByPlace
<1> QED
  BY <1>3, <1>8, <1>10

\* The boot map code: what it opens is there.
LEMMA BootStep ==
  ASSUME UseInv, NEW p \in Procs,
         MakeNode(p) \/ MakeNodeFails(p) \/ DiskOpen(p) \/ DiskOpenFails(p) \/ BootFails(p)
  PROVE  /\ \E place : Within(p, place)
         /\ KindByPlace(p)' /\ AloneByPlace(p)'
<1> USE DEF MakeNode, MakeNodeFails, DiskOpen, DiskOpenFails, BootFails, Fault, jobVars, mountVars
<1>1. /\ pc \in [Procs -> Places] /\ failed \in [Procs -> BOOLEAN] /\ fault \in [Procs -> BOOLEAN]
      /\ alone \in [Procs -> BOOLEAN] /\ found \in [Procs -> BOOLEAN]
  BY DEF UseInv, MountInv, UseTypes, DeviceTypes
<1>2. PICK place \in {"open", "boot", "unit_remove", "idle"} : pc' = [pc EXCEPT ![p] = place]
  BY DEF Goto
<1>3. Within(p, place)
  <2>1. UNCHANGED <<jobs, kind, alone, type, mounts>>
    OBVIOUS
  <2>2. pc[p] \in {"mknod", "open", "boot"}
    OBVIOUS
  <2>3. \A q \in Procs : q # p => failed'[q] = failed[q] /\ fault'[q] = fault[q]
    BY <1>1
  <2> QED
    BY <1>2, <2>1, <2>2, <2>3 DEF Within
<1>4. pc'[p] = place /\ kind' = kind /\ type' = type /\ alone' = alone
  BY <1>1, <1>2
<1>5. kind[p] # "cl_block" /\ kind[p] \in Kinds /\ Bootmap(p)
  BY ZfcpByType DEF UseInv, KindByPlace
<1>6. KindByPlace(p)'
  BY <1>4, <1>5 DEF KindByPlace, Kinds, Bootmap
<1>7. ASSUME alone[p] PROVE Found(p)' /\ Mounted(p)' /\ Explained(p)' /\ Removed(p)'
  <2>1. Found(p) /\ (found[p] => Zfcp(p))
    BY <1>7, ZfcpByType DEF UseInv, AloneByPlace, NoPortOnDasd
  <2>2. Mounted(p)' /\ Removed(p)'
    BY <1>4 DEF Mounted, Removed
  <2>3. Found(p)'
    <3>1. CASE MakeNode(p)
      <4>1. place = "open" /\ node' /\ Attached /\ UNCHANGED <<zfcpVars, online>>
        BY <1>1, <1>4, <3>1 DEF Goto, CanMakeNode
      <4>2. Attached'
        BY <1>4, <4>1 DEF Attached, zfcpVars
      <4> QED
        BY <1>4, <4>1, <4>2 DEF Found
    <3>2. CASE ~MakeNode(p)
      <4>1. place \in {"idle", "boot", "unit_remove"}
        BY <1>1, <1>4, <3>2 DEF Goto
      <4> QED
        BY <1>4, <4>1 DEF Found
    <3> QED
      BY <3>1, <3>2
  <2>4. failed'[p] /\ ~fault'[p] => (failed[p] /\ ~fault[p]) \/ (Zfcp(p) /\ found[p])
    BY <1>1, <2>1 DEF Found, CanMakeNode
  <2>5. Explained(p)'
    BY <1>3, <1>7, <2>4, FailureKept
  <2> QED
    BY <2>2, <2>3, <2>5
<1>8. AloneByPlace(p)'
  BY <1>4, <1>7 DEF AloneByPlace
<1> QED
  BY <1>3, <1>6, <1>8

\* Undoing: a use that is alone takes the LUN and the WWPN away unless that is refused.
LEMMA UndoStep ==
  ASSUME UseInv, NEW p \in Procs, Unmount(p) \/ RemoveUnit(p) \/ RemovePort(p) \/ SetOffline(p)
  PROVE  /\ \E place : Within(p, place)
         /\ KindByPlace(p)' /\ AloneByPlace(p)'
<1> USE DEF Unmount, RemoveUnit, RemovePort, SetOffline, jobVars, mountVars
<1>1. /\ pc \in [Procs -> Places] /\ failed \in [Procs -> BOOLEAN] /\ fault \in [Procs -> BOOLEAN]
      /\ alone \in [Procs -> BOOLEAN] /\ mounts \in [Jobs -> MountStates]
  BY DEF UseInv, MountInv, UseTypes, DeviceTypes
<1>2. PICK place \in {"unit_remove", "port_remove", "offline", "idle"} : pc' = [pc EXCEPT ![p] = place]
  BY DEF Goto
<1>3. Within(p, place)
  <2>1. UNCHANGED <<jobs, kind, alone, type, failed, fault>>
    OBVIOUS
  <2>2. pc[p] # "idle"
    OBVIOUS
  <2>3. mounts' \in {mounts, Killed} \/ \E v : mounts' = [mounts EXCEPT ![Job(p)] = v]
    BY Zenon
  <2>4. \A j \in Jobs : j # Job(p) /\ mounts[j] # "none" => mounts'[j] # "none"
    BY <1>1, <2>3 DEF Killed
  <2> QED
    BY <1>2, <2>1, <2>2, <2>4 DEF Within
<1>4. pc'[p] = place /\ kind' = kind /\ type' = type /\ alone' = alone
  BY <1>1, <1>2
<1>5. kind[p] \in Kinds /\ (place # "idle" => kind[p] # "cl_block")
  BY <1>1, <1>4 DEF UseInv, KindByPlace, Goto
<1>6. KindByPlace(p)'
  BY <1>4, <1>5 DEF KindByPlace, Kinds
<1>7. ASSUME alone[p] PROVE Found(p)' /\ Mounted(p)' /\ Explained(p)' /\ Removed(p)'
  <2>1. Found(p)' /\ Mounted(p)'
    BY <1>4 DEF Found, Mounted
  <2>2. Explained(p)'
    <3>1. failed' = failed /\ fault' = fault
      OBVIOUS
    <3> QED
      BY <1>3, <1>7, <3>1, FailureKept
  <2>3. Removed(p)'
    <3>1. CASE RemoveUnit(p)
      <4>1. place = "port_remove" /\ pc[p] = "unit_remove"
        BY <1>1, <1>4, <3>1 DEF Goto
      <4>2. unit => Zfcp(p)
        BY <4>1, ZfcpByType DEF UseInv, NoPortOnDasd
      <4>3. ~refused' => ~unit'
        BY <3>1, <4>2
      <4> QED
        BY <1>4, <4>1, <4>3 DEF Removed
    <3>2. CASE RemovePort(p)
      <4>1. place = "offline" /\ pc[p] = "port_remove" /\ unit' = unit /\ (refused => refused')
        BY <1>1, <1>4, <3>2 DEF Goto
      <4>2. port => Zfcp(p)
        BY <4>1, ZfcpByType DEF UseInv, NoPortOnDasd
      <4>3. ~refused => ~unit
        BY <1>7, <4>1 DEF UseInv, AloneByPlace, Removed
      <4>4. ~refused' => ~port'
        BY <3>2, <4>1, <4>2, <4>3
      <4> QED
        BY <1>4, <4>1, <4>3, <4>4 DEF Removed
    <3>3. CASE Unmount(p) \/ SetOffline(p)
      <4>1. place \in {"idle", "unit_remove"}
        BY <1>1, <1>4, <3>3 DEF Goto
      <4> QED
        BY <1>4, <4>1 DEF Removed
    <3> QED
      BY <3>1, <3>2, <3>3
  <2> QED
    BY <2>1, <2>2, <2>3
<1>8. AloneByPlace(p)'
  BY <1>4, <1>7 DEF AloneByPlace
<1> QED
  BY <1>3, <1>6, <1>8

\* What a use that is alone finds mounted elsewhere, an earlier job has left there.
LEMMA MountedElsewhere ==
  ASSUME UseInv, NEW p \in Procs, alone[p], pc[p] = "mount", Elsewhere # {}
  PROVE  OtherLeft(p)
<1>1. PICK j \in Jobs : mounts[j] \in {"mounted", "dead"}
  BY DEF Elsewhere
<1>2. PICK q \in Procs, n \in 1..MaxJobs : j = <<q, n>>
  BY DEF Jobs
<1>3. jobs \in [Procs -> 0..MaxJobs] /\ MountByPlace(p) /\ MountByPlace(q)
  BY DEF UseInv, MountInv, UseTypes
<1>4. n <= jobs[q]
  BY <1>1, <1>2, <1>3, JobsAssumption DEF MountByPlace
<1>5. j # Job(p)
  BY <1>1, <1>3 DEF MountByPlace, Before
<1>6. q # p => pc[q] = "idle"
  BY DEF UseInv, MountInv, OthersIdle
<1>7. Ended(j)
  BY <1>2, <1>3, <1>4, <1>5, <1>6, JobsAssumption DEF Ended, Job
<1> QED
  BY <1>1, <1>5, <1>7 DEF OtherLeft

\* The scripts: what a use that is alone copies from is mounted, unless cl_block has come
\* upon a mount of an earlier job.
LEMMA ScriptStep ==
  ASSUME UseInv, NEW p \in Procs,
         \/ NoBlockDevice(p) \/ Mount(p) \/ MountFails(p)
         \/ FindFile(p) \/ NoSuchFile(p) \/ Copy(p) \/ CopyFails(p)
  PROVE  /\ \E place : Within(p, place)
         /\ KindByPlace(p)' /\ AloneByPlace(p)'
<1> USE DEF NoBlockDevice, Mount, MountFails, FindFile, NoSuchFile, Copy, CopyFails, jobVars, mountVars
<1>1. /\ pc \in [Procs -> Places] /\ failed \in [Procs -> BOOLEAN] /\ fault \in [Procs -> BOOLEAN]
      /\ alone \in [Procs -> BOOLEAN] /\ mounts \in [Jobs -> MountStates]
  BY DEF UseInv, MountInv, UseTypes, DeviceTypes
<1>2. PICK place \in {"file", "copy", "umount", "idle"} : pc' = [pc EXCEPT ![p] = place]
  BY DEF Goto
<1>3. Within(p, place)
  <2>1. UNCHANGED <<jobs, kind, alone, type>>
    OBVIOUS
  <2>2. pc[p] # "idle"
    OBVIOUS
  <2>3. mounts' = mounts \/ \E v : mounts' = [mounts EXCEPT ![Job(p)] = v]
    BY Zenon
  <2>4. \A j \in Jobs : j # Job(p) /\ mounts[j] # "none" => mounts'[j] # "none"
    BY <1>1, <2>3
  <2>5. \A q \in Procs : q # p => failed'[q] = failed[q] /\ fault'[q] = fault[q]
    BY <1>1
  <2> QED
    BY <1>2, <2>1, <2>2, <2>4, <2>5 DEF Within
<1>4. pc'[p] = place /\ kind' = kind /\ type' = type /\ alone' = alone /\ jobs' = jobs
  BY <1>1, <1>2
<1>5. kind[p] \in Kinds
  BY DEF UseInv, KindByPlace
<1>6. KindByPlace(p)'
  BY <1>4, <1>5 DEF KindByPlace, Kinds
<1>7. ASSUME alone[p] PROVE Found(p)' /\ Mounted(p)' /\ Explained(p)' /\ Removed(p)'
  <2>1. Found(p) /\ Mounted(p)
    BY <1>7 DEF UseInv, AloneByPlace
  <2>z. kind[p] # "cl_block" /\ found[p] => Zfcp(p)
    BY <1>5 DEF UseInv, MountInv, UseTypes, NoPortOnDasd, Kinds, Zfcp
  <2>2. Found(p)' /\ Removed(p)'
    BY <1>4 DEF Found, Removed
  <2>3. OtherLeft(p) => OtherLeft(p)'
    BY <1>3, LeftStays
  <2>4. CASE Mount(p)
    <3>1. pc[p] = "mount" /\ failed' = failed /\ fault' = fault
      BY <2>4
    <3>2. Explained(p)'
      BY <1>3, <1>7, <3>1, FailureKept
    <3>3. CASE kind[p] = "cl_block" /\ Elsewhere # {}
      BY <1>4, <1>7, <2>3, <3>1, <3>2, <3>3, <2>2, MountedElsewhere DEF Mounted
    <3>4. CASE ~(kind[p] = "cl_block" /\ Elsewhere # {})
      <4>1. Job(p) \in Jobs
        <5>1. jobs[p] > 0 /\ jobs[p] \in 0..MaxJobs
          BY <3>1 DEF UseInv, MountInv, UseTypes, MountByPlace
        <5> QED
          BY <5>1, JobsAssumption DEF Job, Jobs
      <4>2. mounts' = [mounts EXCEPT ![Job(p)] = "mounted"]
        BY <2>4, <3>4
      <4>3. mounts'[Job(p)] = "mounted" /\ Job(p)' = Job(p)
        BY <1>1, <1>4, <4>1, <4>2 DEF Job
      <4> QED
        BY <2>2, <3>2, <4>3 DEF Mounted
    <3> QED
      BY <3>3, <3>4
  <2>5. CASE ~Mount(p)
    <3>2. Mounted(p)'
      <4>1. place = "copy" => pc[p] = "file" /\ UNCHANGED mounts
        BY <1>1, <1>4, <2>5 DEF Goto
      <4>2. place # "file"
        BY <1>1, <1>4, <2>5 DEF Goto
      <4> QED
        BY <1>4, <2>1, <2>3, <4>1, <4>2 DEF Mounted, Job
    <3>3. CASE pc[p] \in {"file", "copy"} /\ ~(mounts[Job(p)] = "mounted")
      BY <1>4, <2>1, <2>2, <2>3, <3>2, <3>3 DEF Mounted, Explained, Excused
    <3>4. CASE ~(pc[p] \in {"file", "copy"} /\ ~(mounts[Job(p)] = "mounted"))
      <4>1. failed'[p] /\ ~fault'[p] => (failed[p] /\ ~fault[p]) \/ (Zfcp(p) /\ found[p])
        BY <1>1, <2>1, <2>z, <2>5, <3>4 DEF Found, Readable
      <4> QED
        BY <1>3, <1>7, <2>2, <3>2, <4>1, FailureKept
    <3> QED
      BY <3>3, <3>4
  <2> QED
    BY <2>4, <2>5
<1>8. AloneByPlace(p)'
  BY <1>4, <1>7 DEF AloneByPlace
<1> QED
  BY <1>3, <1>6, <1>8

\* A new job ends the time others are alone, and finds the marks of the earlier ones.
LEMMA StartStep ==
  ASSUME UseInv, NEW p \in Procs, NEW k \in Kinds, StartJob(p, k), NEW q \in Procs
  PROVE  KindByPlace(q)' /\ AloneByPlace(q)'
<1>1. /\ pc \in [Procs -> Places] /\ failed \in [Procs -> BOOLEAN] /\ fault \in [Procs -> BOOLEAN]
      /\ found \in [Procs -> BOOLEAN] /\ kind \in [Procs -> Scripts \cup {"dasd", "zfcp"}]
      /\ jobs \in [Procs -> 0..MaxJobs]
  BY DEF UseInv, MountInv, UseTypes, DeviceTypes
<1>2. /\ pc[p] = "idle" /\ pc' = [pc EXCEPT ![p] = IF k = "cl_block" THEN "mount" ELSE "check"]
      /\ jobs' = [jobs EXCEPT ![p] = @ + 1] /\ kind' = [kind EXCEPT ![p] = k]
      /\ failed' = [failed EXCEPT ![p] = FALSE] /\ fault' = [fault EXCEPT ![p] = FALSE]
      /\ found' = [found EXCEPT ![p] = port_failed \/ unit_failed]
      /\ UNCHANGED <<type, mounts, online, port, unit, port_failed, unit_failed, node, refused>>
  BY DEF StartJob, Goto, zfcpVars, mountVars
<1>3. alone'[q] => IF q = p THEN Quiet ELSE alone[q] /\ pc[q] = "idle"
  BY DEF StartJob
<1>4. Kinds' = Kinds
  BY <1>2 DEF Kinds
<1>5. KindByPlace(q)'
  BY <1>1, <1>2, <1>4 DEF UseInv, KindByPlace, Bootmap
<1>7. ASSUME q = p PROVE AloneByPlace(q)'
  BY <1>1, <1>2, <1>7 DEF AloneByPlace, Found, Mounted, Explained, Removed
<1>8. ASSUME q # p PROVE AloneByPlace(q)'
  <2> SUFFICES ASSUME alone'[q] PROVE Found(q)' /\ Mounted(q)' /\ Explained(q)' /\ Removed(q)'
    BY DEF AloneByPlace
  <2>1. /\ alone[q] /\ pc'[q] = "idle" /\ failed'[q] = failed[q] /\ fault'[q] = fault[q]
        /\ kind'[q] = kind[q] /\ found'[q] = found[q] /\ Job(q)' = Job(q)
    BY <1>1, <1>2, <1>3, <1>8 DEF Job
  <2>2. ASSUME OtherLeft(q) PROVE OtherLeft(q)'
    <3>1. PICK j \in Jobs : j # Job(q) /\ mounts[j] # "none" /\ Ended(j)
      BY <2>2 DEF OtherLeft
    <3>2. j[1] \in Procs /\ j[2] \in 1..MaxJobs
      BY DEF Jobs
    <3>3. Ended(j)'
      BY <1>1, <1>2, <3>1, <3>2, JobsAssumption DEF Ended
    <3> QED
      BY <1>2, <2>1, <3>1, <3>3 DEF OtherLeft
  <2>3. Explained(q)'
    BY <2>1, <2>2 DEF UseInv, AloneByPlace, Explained, Excused, Zfcp
  <2> QED
    BY <2>1, <2>3 DEF Found, Mounted, Removed
<1> QED
  BY <1>5, <1>7, <1>8

-----------------------------------------------------------------------------
\* Every step of any System Loader keeps all of it.
LEMMA UseStep == UseInv /\ [DevicesNext]_deviceVars => UseInv'
<1> SUFFICES ASSUME UseInv, [DevicesNext]_deviceVars PROVE UseInv'
  OBVIOUS
<1>1. MountInv' /\ DeviceTypes' /\ NoPortOnDasd'
  BY MountStep, DeviceStep DEF UseInv
<1>2. ASSUME NEW p \in Procs, \E place : Within(p, place), KindByPlace(p)', AloneByPlace(p)'
      PROVE  UseInv'
  <2>1. \A q \in Procs : q # p => KindByPlace(q)' /\ AloneByPlace(q)'
    BY <1>2, OthersKept
  <2> QED
    BY <1>1, <1>2, <2>1, Zenon DEF UseInv
<1>3. ASSUME NEW p \in Procs, NEW k \in Kinds, StartJob(p, k) PROVE UseInv'
  BY <1>1, <1>3, StartStep DEF UseInv
<1>4. ASSUME NEW p \in Procs,
             \/ CheckOnline(p) \/ SetOnline(p) \/ SetOnlineFails(p)
             \/ AddPort(p) \/ AddPortFails(p) \/ AddPortRefused(p)
             \/ AddUnit(p) \/ AddUnitFails(p) \/ AddUnitRefused(p)
      PROVE  UseInv'
  BY <1>2, <1>4, SetUpStep
<1>5. ASSUME NEW p \in Procs,
             MakeNode(p) \/ MakeNodeFails(p) \/ DiskOpen(p) \/ DiskOpenFails(p) \/ BootFails(p)
      PROVE  UseInv'
  BY <1>2, <1>5, BootStep
<1>6. ASSUME NEW p \in Procs,
             \/ NoBlockDevice(p) \/ Mount(p) \/ MountFails(p)
             \/ FindFile(p) \/ NoSuchFile(p) \/ Copy(p) \/ CopyFails(p)
      PROVE  UseInv'
  BY <1>2, <1>6, ScriptStep
<1>7. ASSUME NEW p \in Procs, Unmount(p) \/ RemoveUnit(p) \/ RemovePort(p) \/ SetOffline(p)
      PROVE  UseInv'
  BY <1>2, <1>7, UndoStep
<1>8. CASE UNCHANGED deviceVars
  <2> USE <1>8 DEF deviceVars, jobVars, zfcpVars, mountVars
  <2>1. \A p \in Procs : KindByPlace(p)'
    BY DEF UseInv, KindByPlace, Kinds, Bootmap
  <2>2. \A p \in Procs : OtherLeft(p)' <=> OtherLeft(p)
    BY DEF OtherLeft, Ended, Job
  <2>3. \A p \in Procs : AloneByPlace(p)'
    BY <2>2 DEF UseInv, AloneByPlace, Found, Mounted, Explained, Excused, Zfcp, Removed, Attached, Job
  <2> QED
    BY <1>1, <2>1, <2>3 DEF UseInv
<1> QED
  BY <1>3, <1>4, <1>5, <1>6, <1>7, <1>8 DEF DevicesNext

-----------------------------------------------------------------------------
\* Whatever earlier jobs of any number of System Loaders have left of a device, a job that
\* runs alone fails only by a fault of its own steps, or because of one of the two things
\* that RetryWorks names: another mount, for cl_block, and a WWPN or LUN that it has found
\* in the failed state.
THEOREM RetriesWork == DevicesSpec => []RetryWorks
<1>1. UseInv => RetryWorks
  BY DEF UseInv, AloneByPlace, Explained, Excused, OtherLeft, RetryWorks
<1> QED
  BY UseStarts, UseStep, <1>1, PTL DEF DevicesSpec

\* Only the last step of an undo leads from "offline" to the end.
LEMMA LastStepUndoes ==
  ASSUME UseInv, [DevicesNext]_deviceVars, NEW p \in Procs,
         pc[p] = "offline", pc'[p] = "idle", kind[p] # "cl_dasd", alone[p], ~refused'
  PROVE  ~online' /\ ~port' /\ ~unit' /\ (Bootmap(p) => ~node')
<1>1. pc \in [Procs -> Places]
  BY DEF UseInv, MountInv, UseTypes
<1>2. SetOffline(p)
  <2>1. pc' # pc
    OBVIOUS
  <2>2. PICK q \in Procs :
          \/ \E k \in Kinds : StartJob(q, k)
          \/ CheckOnline(q) \/ SetOnline(q) \/ SetOnlineFails(q)
          \/ AddPort(q) \/ AddPortFails(q) \/ AddPortRefused(q)
          \/ AddUnit(q) \/ AddUnitFails(q) \/ AddUnitRefused(q)
          \/ MakeNode(q) \/ MakeNodeFails(q) \/ DiskOpen(q) \/ DiskOpenFails(q) \/ BootFails(q)
          \/ NoBlockDevice(q) \/ Mount(q) \/ MountFails(q)
          \/ FindFile(q) \/ NoSuchFile(q) \/ Copy(q) \/ CopyFails(q)
          \/ Unmount(q) \/ RemoveUnit(q) \/ RemovePort(q) \/ SetOffline(q)
    BY <2>1, Zenon DEF DevicesNext, deviceVars
  <2>3. \E place : pc' = [pc EXCEPT ![q] = place]
    BY <2>2, Zenon DEF StartJob, CheckOnline, SetOnline, SetOnlineFails, AddPort, AddPortFails,
       AddPortRefused, AddUnit, AddUnitFails, AddUnitRefused, MakeNode, MakeNodeFails, DiskOpen,
       DiskOpenFails, BootFails, NoBlockDevice, Mount, MountFails, FindFile, NoSuchFile, Copy,
       CopyFails, Unmount, RemoveUnit, RemovePort, SetOffline, Goto
  <2>4. q = p
    BY <1>1, <2>3
  <2> QED
    BY <2>2, <2>4 DEF StartJob, CheckOnline, SetOnline, SetOnlineFails, AddPort, AddPortFails,
       AddPortRefused, AddUnit, AddUnitFails, AddUnitRefused, MakeNode, MakeNodeFails, DiskOpen,
       DiskOpenFails, BootFails, NoBlockDevice, Mount, MountFails, FindFile, NoSuchFile, Copy,
       CopyFails, Unmount, RemoveUnit, RemovePort
<1>3. ~refused => ~unit /\ ~port
  BY DEF UseInv, AloneByPlace, Removed
<1>4. refused => refused'
  BY <1>2 DEF SetOffline
<1> QED
  BY <1>2, <1>3, <1>4 DEF SetOffline, zfcpVars

\* The last step of an undo that ran alone and was refused nothing leaves the device offline,
\* without a WWPN, a LUN and, for the boot map code, a device node, in whatever state the
\* device was found (set_dasd_offline, set_fcp_disk_offline, cleanup of cl_zfcp).
THEOREM UsesAreUndone == DevicesSpec => UseIsUndone
<1>1. UseInv /\ [DevicesNext]_deviceVars =>
        [\A p \in Procs :
           pc[p] = "offline" /\ pc'[p] = "idle" /\ kind[p] # "cl_dasd" /\ alone[p] /\ ~refused' =>
             ~online' /\ ~port' /\ ~unit' /\ (Bootmap(p) => ~node')]_deviceVars
  BY LastStepUndoes
<1> QED
  BY UseStarts, UseStep, <1>1, PTL DEF DevicesSpec, UseIsUndone

-----------------------------------------------------------------------------
(* A WWPN or a LUN in the failed state *)

\* p, a cl_zfcp, will remove the LUN.
RemovesUnit(p) == kind[p] = "cl_zfcp" /\ pc[p] \in {"mount", "umount", "unit_remove"}

\* Without boot attempts somebody who will remove the WWPN is there as long as one is in
\* the failed state, and he will find the LUN removed, or somebody else will remove both.
FailedHeld ==
  /\ unit_failed => unit
  /\ port_failed => port
  /\ Busy => Attached
  /\ (port_failed \/ unit_failed) /\ "zfcp" \notin used =>
       /\ \E p \in Procs : RemovesUnit(p) \/ (kind[p] = "cl_zfcp" /\ pc[p] = "port_remove")
       /\ unit => \E p \in Procs : RemovesUnit(p)

FailedInv == UseInv /\ FailedHeld

\* Nothing has failed at the beginning.
LEMMA FailedStarts == DevicesInit => FailedInv
<1>1. DevicesInit => FailedHeld
  BY DEF DevicesInit, FailedHeld, Busy
<1> QED
  BY <1>1, UseStarts DEF FailedInv

\* Without boot attempts it is cl_zfcp that comes to the places of the WWPN and the LUN.
LEMMA OnlyScripts ==
  ASSUME UseInv, NEW p \in Procs, "zfcp" \notin used, type = "zfcp",
         pc[p] \notin {"idle", "mount", "file", "copy", "umount"}
  PROVE  kind[p] = "cl_zfcp" /\ ~Bootmap(p)
<1>1. kind[p] \in used /\ kind[p] \in Kinds /\ kind[p] # "cl_block"
  BY ZfcpByType DEF UseInv, MountInv, MountByPlace, KindByPlace
<1> QED
  BY <1>1 DEF Kinds, Bootmap, Scripts

\* A step of p that changes neither the WWPN nor the LUN, nor mounts anything
LEMMA FailedKept ==
  ASSUME FailedInv, NEW p \in Procs, NEW place, pc' = [pc EXCEPT ![p] = place],
         UNCHANGED <<type, kind, used, zfcpVars>>, online => online', mounts' \in {mounts, Killed}
           \/ \E m \in MountStates \ {"mounted"} : mounts' = [mounts EXCEPT ![Job(p)] = m],
         RemovesUnit(p) /\ (port_failed \/ unit_failed) => place \in {"mount", "umount", "unit_remove"},
         pc[p] # "port_remove"
  PROVE  FailedHeld'
<1> USE DEF FailedInv, FailedHeld, zfcpVars
<1>1. pc \in [Procs -> Places] /\ mounts \in [Jobs -> MountStates] /\ online \in BOOLEAN
  BY DEF UseInv, MountInv, UseTypes, DeviceTypes
<1>2. Busy' => Busy
  BY <1>1 DEF Busy, Killed
<1>3. Busy' => Attached'
  BY <1>2 DEF Attached
<1>4. \A q \in Procs : RemovesUnit(q) /\ (port_failed \/ unit_failed) => RemovesUnit(q)'
  BY <1>1 DEF RemovesUnit
<1>5. \A q \in Procs : pc[q] = "port_remove" => pc'[q] = "port_remove"
  BY <1>1
<1> QED
  BY <1>3, <1>4, <1>5

\* Every step of a System Loader keeps somebody there.
LEMMA FailedStep == FailedInv /\ [DevicesNext]_deviceVars => FailedInv'
<1> SUFFICES ASSUME FailedInv, [DevicesNext]_deviceVars PROVE FailedHeld'
  BY UseStep DEF FailedInv
<1>t. /\ pc \in [Procs -> Places] /\ kind \in [Procs -> Scripts \cup {"dasd", "zfcp"}]
      /\ mounts \in [Jobs -> MountStates] /\ type \in {"dasd", "zfcp"}
  BY DEF FailedInv, UseInv, MountInv, UseTypes
<1>a. CASE UNCHANGED deviceVars
  BY <1>a DEF deviceVars, jobVars, zfcpVars, mountVars, FailedInv, FailedHeld, RemovesUnit, Busy,
     Attached
<1>b. ASSUME NEW p \in Procs, NEW k \in Kinds, StartJob(p, k) PROVE FailedHeld'
  <2>1. pc[p] = "idle" /\ UNCHANGED <<type, online, zfcpVars, mounts>> /\ used' = used \cup {k}
    BY <1>b DEF StartJob, mountVars
  <2>2. \A q \in Procs : q # p => pc'[q] = pc[q] /\ kind'[q] = kind[q]
    BY <1>b, <1>t DEF StartJob, Goto
  <2> QED
    BY <2>1, <2>2 DEF FailedInv, FailedHeld, RemovesUnit, Busy, Attached, zfcpVars
<1>c. ASSUME NEW p \in Procs,
             \/ CheckOnline(p) \/ SetOnline(p) \/ SetOnlineFails(p) \/ AddPortRefused(p)
             \/ AddUnitRefused(p) \/ MakeNode(p) \/ MakeNodeFails(p) \/ DiskOpen(p)
             \/ DiskOpenFails(p) \/ BootFails(p) \/ NoBlockDevice(p) \/ MountFails(p)
             \/ FindFile(p) \/ NoSuchFile(p) \/ Copy(p) \/ CopyFails(p) \/ Unmount(p)
      PROVE  FailedHeld'
  <2> USE DEF CheckOnline, SetOnline, SetOnlineFails, AddPortRefused, AddUnitRefused, MakeNode,
          MakeNodeFails, DiskOpen, DiskOpenFails, BootFails, NoBlockDevice, MountFails, FindFile,
          NoSuchFile, Copy, CopyFails, Unmount, jobVars, mountVars
  <2>1. /\ \E place : pc' = [pc EXCEPT ![p] = place]
        /\ UNCHANGED <<type, kind, used, zfcpVars>>
        /\ pc[p] \notin {"port_remove", "unit_remove"}
    BY <1>c, Zenon DEF Goto
  <2>2. online => online'
    BY <1>c, Zenon
  <2>3. mounts' \in {mounts, Killed}
           \/ \E m \in MountStates \ {"mounted"} : mounts' = [mounts EXCEPT ![Job(p)] = m]
    <3>1. CASE MountFails(p)
      BY <3>1 DEF MountStates
    <3>2. CASE Unmount(p)
      BY <3>2 DEF MountStates
    <3>3. CASE ~MountFails(p) /\ ~Unmount(p)
      BY <1>c, <3>3
    <3> QED
      BY <3>1, <3>2, <3>3
  <2>4. ASSUME RemovesUnit(p)
        PROVE  pc' = [pc EXCEPT ![p] = "umount"] \/ pc' = [pc EXCEPT ![p] = "unit_remove"]
    BY <1>c, <2>4 DEF RemovesUnit, Goto
  <2> QED
    BY <2>1, <2>2, <2>3, <2>4, FailedKept, <1>t
<1>d. ASSUME NEW p \in Procs, Mount(p) PROVE FailedHeld'
  <2>1. PICK m \in MountStates : mounts' = [mounts EXCEPT ![Job(p)] = m] /\ (m = "mounted" => Attached \/ Busy)
    BY <1>d DEF Mount, MountStates, Elsewhere
  <2>2. UNCHANGED <<type, kind, used, online, zfcpVars>> /\ pc' = [pc EXCEPT ![p] = "file"] /\ pc[p] = "mount"
    BY <1>d DEF Mount, Goto, jobVars
  <2>3. Busy' => Attached
    BY <1>t, <2>1 DEF Busy, FailedInv, FailedHeld
  <2>4. Attached' = Attached
    BY <2>2 DEF Attached, zfcpVars
  <2>5. ASSUME port_failed \/ unit_failed, type = "zfcp" PROVE kind[p] # "cl_zfcp"
    BY <1>d, <2>5 DEF Mount, Attached
  <2>6. port_failed \/ unit_failed => type = "zfcp"
    BY <1>t DEF FailedInv, UseInv, NoPortOnDasd
  <2> QED
    BY <1>t, <2>2, <2>3, <2>4, <2>5, <2>6 DEF FailedInv, FailedHeld, RemovesUnit, zfcpVars
<1>e. ASSUME NEW p \in Procs, AddPort(p) PROVE FailedHeld'
  <2>1. /\ UNCHANGED <<type, kind, used, online, mounts, unit, port_failed, unit_failed>>
        /\ pc' = [pc EXCEPT ![p] = "unit"] /\ pc[p] = "port" /\ (port => port')
    BY <1>e DEF AddPort, Goto, jobVars, mountVars
  <2>2. (Busy' <=> Busy) /\ (Attached => Attached')
    BY <2>1 DEF Busy, Attached
  <2>3. \A q \in Procs : q # p => pc'[q] = pc[q]
    BY <1>t, <2>1
  <2>4. \A q \in Procs : (RemovesUnit(q) => RemovesUnit(q)')
                         /\ (pc[q] = "port_remove" => pc'[q] = "port_remove")
    BY <2>1, <2>3 DEF RemovesUnit
  <2> QED
    BY <2>1, <2>2, <2>4 DEF FailedInv, FailedHeld
<1>f. ASSUME NEW p \in Procs, AddPortFails(p) \/ AddUnit(p) \/ AddUnitFails(p) PROVE FailedHeld'
  <2> DEFINE Facts == (unit_failed' => unit') /\ (port_failed' => port') /\ (Attached => Attached')
  <2>1. UNCHANGED <<type, kind, used, online, mounts>> /\ pc[p] \in {"port", "unit"}
    BY <1>f DEF AddPortFails, AddUnit, AddUnitFails, jobVars, mountVars
  <2>2. Facts
    <3>1. type = "zfcp" <=> Zfcp(p)
      BY <2>1, ZfcpByType DEF FailedInv
    <3>2. CASE AddPortFails(p)
      BY <3>1, <3>2 DEF AddPortFails, Attached, FailedInv, FailedHeld
    <3>3. CASE AddUnit(p)
      <4>1. unit' = (unit \/ Zfcp(p)) /\ UNCHANGED <<port, port_failed, unit_failed>>
        BY <3>3 DEF AddUnit
      <4>2. unit => unit'
        BY <4>1, Zenon
      <4> QED
        BY <2>1, <4>1, <4>2 DEF Attached, FailedInv, FailedHeld
    <3>4. CASE AddUnitFails(p)
      BY <3>1, <3>4 DEF AddUnitFails, Attached, FailedInv, FailedHeld
    <3> QED
      BY <1>f, <3>2, <3>3, <3>4
  <2>3. Busy' => Attached'
    BY <2>1, <2>2 DEF Busy, FailedInv, FailedHeld
  <2>4. ASSUME port_failed' \/ unit_failed', "zfcp" \notin used'
        PROVE  \E q \in Procs : RemovesUnit(q)'
    <3>1. type = "zfcp"
      BY <1>t, <2>1, <2>4, DeviceStep DEF FailedInv, NoPortOnDasd
    <3>2. kind[p] = "cl_zfcp" /\ ~Bootmap(p)
      BY <2>1, <2>4, <3>1, OnlyScripts DEF FailedInv
    <3>3. pc'[p] \in {"umount", "mount"} \/ AddPortFails(p)
      BY <1>f, <1>t, <3>2 DEF AddUnit, AddUnitFails, Goto, Undo
    <3>4. pc'[p] \in {"umount", "mount"}
      BY <1>t, <3>2, <3>3 DEF AddPortFails, Goto, Undo
    <3> QED
      BY <2>1, <3>2, <3>4 DEF RemovesUnit
  <2> QED
    BY <2>2, <2>3, <2>4 DEF FailedHeld
<1>g. ASSUME NEW p \in Procs, RemoveUnit(p) PROVE FailedHeld'
  <2>1. /\ UNCHANGED <<type, kind, used, online, port, port_failed>> /\ pc[p] = "unit_remove"
        /\ pc' = [pc EXCEPT ![p] = "port_remove"] /\ (unit_failed' <=> unit_failed /\ unit')
        /\ (unit' => unit)
    BY <1>g DEF RemoveUnit, Goto, jobVars
  <2>2. unit' = unit \/ (~unit' /\ mounts' = Killed)
    <3>1. unit \in BOOLEAN /\ unit' \in BOOLEAN
      BY UseStep DEF FailedInv, UseInv, DeviceTypes
    <3> QED
      BY <1>g, <3>1 DEF RemoveUnit
  <2>3. Busy' => Attached'
    <3>1. CASE mounts' = Killed
      BY <1>t, <3>1 DEF Busy, Killed
    <3>2. CASE mounts' # Killed
      <4>1. unit' = unit /\ mounts' = mounts
        BY <1>g, <2>2, <3>2 DEF RemoveUnit
      <4>2. Busy' => Attached
        BY <4>1 DEF Busy, FailedInv, FailedHeld
      <4>3. Attached => Attached'
        BY <2>1, <4>1 DEF Attached
      <4> QED
        BY <4>2, <4>3
    <3> QED
      BY <3>1, <3>2
  <2>4. ASSUME port_failed' \/ unit_failed', "zfcp" \notin used' PROVE kind[p] = "cl_zfcp" /\ ~unit'
    <3>1. type = "zfcp" /\ (port_failed \/ unit_failed)
      BY <1>t, <2>1, <2>4 DEF FailedInv, UseInv, NoPortOnDasd
    <3>2. kind[p] = "cl_zfcp"
      BY <2>1, <2>4, <3>1, OnlyScripts DEF FailedInv
    <3>3. ~Busy /\ Zfcp(p)
      BY <3>1, <3>2 DEF FailedInv, FailedHeld, Attached, Zfcp
    <3> QED
      BY <1>g, <3>2, <3>3 DEF RemoveUnit
  <2>5. ASSUME port_failed' \/ unit_failed', "zfcp" \notin used'
        PROVE  kind'[p] = "cl_zfcp" /\ pc'[p] = "port_remove"
    BY <1>t, <2>1, <2>4, <2>5
  <2> QED
    BY <2>1, <2>3, <2>4, <2>5 DEF FailedInv, FailedHeld
<1>h. ASSUME NEW p \in Procs, RemovePort(p) PROVE FailedHeld'
  <2>1. /\ UNCHANGED <<type, kind, used, online, unit, unit_failed, mounts>> /\ pc[p] = "port_remove"
        /\ pc' = [pc EXCEPT ![p] = "offline"] /\ (port_failed' <=> port_failed /\ port')
        /\ (port' <=> port /\ (unit \/ ~Zfcp(p)))
    BY <1>h DEF RemovePort, Goto, jobVars, mountVars
  <2>2. Busy' => Attached'
    <3>1. Busy' => Attached
      BY <2>1 DEF Busy, FailedInv, FailedHeld
    <3> QED
      BY <2>1, <3>1 DEF Attached
  <2>3. ASSUME port_failed' \/ unit_failed', "zfcp" \notin used' PROVE \E q \in Procs : RemovesUnit(q)'
    <3>1. type = "zfcp" /\ (port_failed \/ unit_failed)
      BY <1>t, <2>1, <2>3 DEF FailedInv, UseInv, NoPortOnDasd
    <3>2. Zfcp(p)
      BY <2>1, <2>3, <3>1, OnlyScripts DEF FailedInv, Zfcp
    <3>3. unit
      BY <2>1, <2>3, <3>2 DEF FailedInv, FailedHeld
    <3>4. PICK q \in Procs : RemovesUnit(q)
      BY <2>1, <2>3, <3>1, <3>3 DEF FailedInv, FailedHeld
    <3>5. q # p
      BY <2>1, <3>4 DEF RemovesUnit
    <3>6. RemovesUnit(q)'
      BY <1>t, <2>1, <3>4, <3>5 DEF RemovesUnit
    <3> QED
      BY <3>6
  <2> QED
    BY <2>1, <2>2, <2>3 DEF FailedInv, FailedHeld
<1>i. ASSUME NEW p \in Procs, SetOffline(p) PROVE FailedHeld'
  <2>1. UNCHANGED <<type, kind, used, zfcpVars>> /\ pc[p] = "offline" /\ pc' = [pc EXCEPT ![p] = "idle"]
    BY <1>i DEF SetOffline, Goto, jobVars
  <2>2. Busy' => Attached'
    <3>1. CASE mounts' = Killed
      BY <1>t, <3>1 DEF Busy, Killed
    <3>2. CASE mounts' # Killed
      <4>1. online' = online /\ mounts' = mounts
        BY <1>i, <3>2 DEF SetOffline
      <4>2. Attached' = Attached
        BY <2>1, <4>1 DEF Attached, zfcpVars
      <4> QED
        BY <4>1, <4>2 DEF Busy, FailedInv, FailedHeld
    <3> QED
      BY <3>1, <3>2
  <2>3. \A q \in Procs : (RemovesUnit(q) => RemovesUnit(q)')
                         /\ (pc[q] = "port_remove" => pc'[q] = "port_remove")
    BY <1>t, <2>1 DEF RemovesUnit
  <2> QED
    BY <2>1, <2>2, <2>3 DEF FailedInv, FailedHeld, zfcpVars
<1> QED
  BY <1>a, <1>b, <1>c, <1>d, <1>e, <1>f, <1>g, <1>h, <1>i DEF DevicesNext

\* However many System Loaders use a SCSI disk by cl_zfcp, no WWPN and no LUN that failed
\* is left when they have ended.
THEOREM LoadersRemoveWhatFailed == DevicesSpec => []LoadersLeaveNoFailed
<1>1. FailedInv => LoadersLeaveNoFailed
  BY DEF FailedInv, FailedHeld, RemovesUnit, Quiet, LoadersLeaveNoFailed
<1> QED
  BY FailedStarts, FailedStep, <1>1, PTL DEF DevicesSpec
=============================================================================
