---------------------------- MODULE LoaderProofs ----------------------------
(***************************************************************************)
(* What the boot actions boot and what they leave in /tmp, for every set   *)
(* of boot entries, any number of attempts and insfiles of any length.     *)
(* That failed attempts clean up holds for any number of System Loaders;   *)
(* what is booted is certain for one System Loader alone, because the      *)
(* names of the files are fixed.                                           *)
(*                                                                         *)
(* And of comp_load(), through which the boot actions fetch: it returns    *)
(* the result and the whole output of the module it started, and reads     *)
(* without select() only after an interrupt, for every size of the pipes,  *)
(* of a read and of the output.                                            *)
(***************************************************************************)
EXTENDS Loader, CompLoad, TLAPS

LoaderPlaces == {"idle", "command", "gone", "fetch", "copying", "lines", "identify",
                 "compose", "load", "exec", "cleanup"}

Between == {"idle", "command", "gone"}       \* no boot files are being worked on
Starting == {"compose", "load", "exec"}      \* the files are complete

\* The types of what decides the way through an attempt
LoaderTypes ==
  /\ lpc \in [Procs -> LoaderPlaces]
  /\ entry \in [Procs -> BootEntries \cup {NoEntry}]
  /\ attempt \in [Procs -> Nat]
  /\ todo \in [Procs -> Seq(Files)] /\ DOMAIN cmdline = Procs
  /\ DOMAIN file = Files

\* A machine that has booted has stopped the booter where it called kexec -e.
BootedFrom == machine = "booted" => booter \in Procs /\ lpc[booter] = "exec"

\* Which actions come to a place, and what they still have to fetch there
WayOf(p) ==
  /\ lpc[p] \in LoaderPlaces \ Between => entry[p].action \in {"kernel", "insfile", "bootmap"}
  /\ lpc[p] \in {"lines", "identify"} => entry[p].action = "insfile"
  /\ lpc[p] \in {"fetch", "copying"} =>
       /\ todo[p] # <<>>
       /\ IF entry[p].action = "insfile" THEN todo[p] \in {<<"insfile">>, <<"component">>}
          ELSE \A i \in DOMAIN todo[p] : todo[p][i] \in BootFiles

\* The inductive invariant of any number of System Loaders: each is on the way of its action.
WayInv == LoaderTypes /\ BootedFrom /\ \A p \in Procs : WayOf(p)

\* The files that the entry of a kernel or boot map attempt asks for
Wanted(p) == {"kernel"} \cup (IF entry[p].initrd THEN {"initrd"} ELSE {})
             \cup (IF entry[p].parmfile THEN {"parmfile"} ELSE {})

Pending(p, f) == \E i \in DOMAIN todo[p] : todo[p][i] = f

\* A file that is wanted is fetched or still to be fetched.
FetchedOrPending(p) ==
  entry[p].action # "insfile" =>
    /\ lpc[p] \in {"fetch", "copying"} =>
         \A f \in Wanted(p) : Pending(p, f) \/ file[f] = Mine(p, TRUE)
    /\ lpc[p] \in Starting => \A f \in Wanted(p) : file[f] = Mine(p, TRUE)
    /\ lpc[p] \in {"load", "exec"} =>
         cmdline[p] = IF UsesParmfile(p) THEN Mine(p, TRUE) ELSE Absent
    /\ lpc[p] = "exec" => Exactly(p)

Leftover(c) == c = Absent \/ c.of = "bootmap"

\* Files of an earlier attempt that an insfile attempt can meet, and its own
InsfileFiles(p) ==
  /\ lpc[p] \in Between \/ entry[p].action = "bootmap" =>
       \A f \in BootFiles : Leftover(file[f])
  /\ lpc[p] \notin Between /\ entry[p].action = "insfile" =>
       \A f \in BootFiles : file[f] = Mine(p, TRUE) \/ Leftover(file[f])
  /\ lpc[p] = "identify" => file["component"] = Mine(p, TRUE)
  /\ lpc[p] \in Starting /\ entry[p].action = "insfile" =>
       \A f \in BootFiles : file[f] # Absent
  /\ lpc[p] \in {"load", "exec"} /\ entry[p].action = "insfile" =>
       cmdline[p] = file["parmfile"]
  /\ lpc[p] = "exec" /\ entry[p].action = "insfile" =>
       \A f \in BootFiles : loaded[f] = file[f]

\* The inductive invariant of a System Loader that is alone
AloneInv(p) == WayInv /\ FetchedOrPending(p) /\ InsfileFiles(p)

-----------------------------------------------------------------------------
\* The elements of a concatenation
LEMMA Concatenation ==
  ASSUME NEW S, NEW s \in Seq(S), NEW t \in Seq(S)
  PROVE  /\ s \o t \in Seq(S) /\ Len(s \o t) = Len(s) + Len(t)
         /\ \A i \in 1..Len(s) : (s \o t)[i] = s[i]
         /\ \A i \in 1..Len(t) : (s \o t)[Len(s) + i] = t[i]
  OBVIOUS

\* The elements behind the first one
LEMMA RestOf ==
  ASSUME NEW S, NEW s \in Seq(S), s # <<>>
  PROVE  /\ Tail(s) \in Seq(S) /\ Head(s) = s[1] /\ Len(s) >= 1
         /\ DOMAIN s = 1..Len(s) /\ DOMAIN Tail(s) = 1..(Len(s) - 1)
         /\ Len(s) > 1 => Tail(s) # <<>>
         /\ \A i \in DOMAIN Tail(s) : i + 1 \in DOMAIN s /\ Tail(s)[i] = s[i + 1]
<1>1. Len(s) \in Nat /\ Len(s) >= 1 /\ DOMAIN s = 1..Len(s)
  OBVIOUS
<1>2. Tail(s) \in Seq(S) /\ Len(Tail(s)) = Len(s) - 1 /\ DOMAIN Tail(s) = 1..Len(Tail(s))
  BY <1>1
<1>3. Len(s) > 1 => Tail(s) # <<>>
  <2>1. 1 \in DOMAIN Tail(s) <=> Len(s) > 1
    BY <1>1, <1>2
  <2>2. DOMAIN <<>> = {}
    OBVIOUS
  <2> QED
    BY <2>1, <2>2
<1>4. \A i \in 1..(Len(s) - 1) : Tail(s)[i] = s[i + 1]
  BY <1>1
<1> QED
  BY <1>1, <1>2, <1>3, <1>4

\* What an entry makes the System Loader fetch, written out
LEMMA ComponentsOfEntry ==
  ASSUME NEW e \in BootEntries
  PROVE  /\ Components(e) \in Seq(Files)
         /\ Components(e) # <<>> <=> e.action \in {"kernel", "insfile", "bootmap"}
         /\ e.action = "insfile" => Components(e) = <<"insfile">>
         /\ e.action \in {"kernel", "bootmap"} =>
              /\ \A i \in DOMAIN Components(e) : Components(e)[i] \in BootFiles
              /\ \E i \in DOMAIN Components(e) : Components(e)[i] = "kernel"
              /\ e.initrd => \E i \in DOMAIN Components(e) : Components(e)[i] = "initrd"
              /\ e.parmfile => \E i \in DOMAIN Components(e) : Components(e)[i] = "parmfile"
<1>1. e \in [action : Actions, initrd : BOOLEAN, parmfile : BOOLEAN]
  BY EntryAssumption
<1>2. CASE e.action = "insfile"
  BY <1>2 DEF Components, Files
<1>3. CASE e.action \in {"kernel", "bootmap"}
  <2> DEFINE ki == <<"kernel">> \o Optional(e.initrd, "initrd")
             kp == ki \o Optional(e.parmfile, "parmfile")
  <2>1. /\ Optional(e.initrd, "initrd") \in Seq(BootFiles)
        /\ Optional(e.parmfile, "parmfile") \in Seq(BootFiles)
    <3>1. <<>> \in Seq(BootFiles) /\ <<"initrd">> \in Seq(BootFiles) /\ <<"parmfile">> \in Seq(BootFiles)
      BY DEF BootFiles
    <3> QED
      BY <3>1 DEF Optional
  <2>2. /\ e.initrd => Optional(e.initrd, "initrd") = <<"initrd">>
        /\ e.parmfile => Optional(e.parmfile, "parmfile") = <<"parmfile">>
    BY DEF Optional
  <2> HIDE DEF ki
  <2>3. ki \in Seq(BootFiles) /\ Len(ki) >= 1 /\ ki[1] = "kernel"
    <3>1. <<"kernel">> \in Seq(BootFiles) /\ Len(<<"kernel">>) = 1 /\ <<"kernel">>[1] = "kernel"
      BY DEF BootFiles
    <3> QED
      BY <2>1, <3>1, Concatenation DEF ki
  <2>4. e.initrd => Len(ki) = 2 /\ ki[2] = "initrd"
    <3>1. <<"kernel">> \in Seq(BootFiles) /\ Len(<<"kernel">>) = 1
      BY DEF BootFiles
    <3>2. Len(<<"initrd">>) = 1 /\ <<"initrd">>[1] = "initrd" /\ 1 \in 1..1
      OBVIOUS
    <3>3. e.initrd => ki = <<"kernel">> \o <<"initrd">> /\ <<"initrd">> \in Seq(BootFiles)
      BY <2>1, <2>2 DEF ki
    <3>4. e.initrd => Len(ki) = 1 + 1 /\ ki[1 + 1] = "initrd"
      BY <3>1, <3>2, <3>3, Concatenation
    <3> QED
      BY <3>4
  <2> HIDE DEF kp
  <2>5. kp \in Seq(BootFiles) /\ Len(kp) >= Len(ki) /\ \A i \in 1..Len(ki) : kp[i] = ki[i]
    BY <2>1, <2>3, Concatenation DEF kp
  <2>6. e.parmfile => Len(kp) = Len(ki) + 1 /\ kp[Len(ki) + 1] = "parmfile"
    <3>1. Len(<<"parmfile">>) = 1 /\ <<"parmfile">>[1] = "parmfile" /\ 1 \in 1..1
      OBVIOUS
    <3>2. e.parmfile => kp = ki \o <<"parmfile">> /\ <<"parmfile">> \in Seq(BootFiles)
      BY <2>1, <2>2 DEF kp
    <3> QED
      BY <2>3, <3>1, <3>2, Concatenation
  <2>7. Components(e) = kp
    BY <1>3 DEF Components, kp, ki
  <2>8. kp \in Seq(Files) /\ kp # <<>>
    BY <2>3, <2>5 DEF Files
  <2>9. \A i \in DOMAIN kp : kp[i] \in BootFiles
    BY <2>5
  <2>10. /\ 1 \in DOMAIN kp /\ kp[1] = "kernel"
         /\ e.initrd => 2 \in DOMAIN kp /\ kp[2] = "initrd"
         /\ e.parmfile => Len(ki) + 1 \in DOMAIN kp /\ kp[Len(ki) + 1] = "parmfile"
    BY <2>3, <2>4, <2>5, <2>6
  <2> QED
    BY <1>3, <2>7, <2>8, <2>9, <2>10
<1>4. CASE e.action \notin {"kernel", "bootmap", "insfile"}
  BY <1>4 DEF Components
<1> QED
  BY <1>2, <1>3, <1>4

\* At the beginning nobody is on the way.
LEMMA WayStarts == LoaderInit => WayInv
  BY DEF LoaderInit, WayInv, LoaderTypes, BootedFrom, WayOf, LoaderPlaces, Between, Files

\* Steps that only go on, or back, to another place
LEMMA MoveStep ==
  ASSUME WayInv, NEW p \in Procs, NEW place \in LoaderPlaces,
         machine = "up", machine' # "booted", Goto(p, place), UNCHANGED <<entry, attempt, todo>>,
         DOMAIN cmdline' = Procs, DOMAIN file' = Files,
         place \notin Between => lpc[p] \notin Between,
         place \in {"lines", "identify"} => entry[p].action = "insfile",
         place \in {"fetch", "copying"} => lpc[p] \in {"fetch", "copying"}
  PROVE  WayInv'
<1> USE DEF WayInv, Goto
<1>1. LoaderTypes' /\ BootedFrom'
  BY DEF LoaderTypes, BootedFrom
<1>2. ASSUME NEW q \in Procs PROVE WayOf(q)'
  BY DEF LoaderTypes, WayOf, Between, LoaderPlaces
<1> QED
  BY <1>1, <1>2

\* Every step keeps every System Loader on the way of its action.
LEMMA WayStep == WayInv /\ [LoaderNext]_loaderVars => WayInv'
<1> SUFFICES ASSUME WayInv, [LoaderNext]_loaderVars PROVE WayInv'
  OBVIOUS
<1> USE DEF WayInv, LoaderTypes, LoaderPlaces, Between, At
<1>1. ASSUME NEW p \in Procs, NEW e \in BootEntries, LoaderCalled(p, e) PROVE WayInv'
  <2>1. LoaderTypes' /\ BootedFrom'
    BY <1>1, ComponentsOfEntry DEF LoaderCalled, Goto, BootedFrom
  <2>2. ASSUME NEW q \in Procs PROVE WayOf(q)'
    BY <1>1, ComponentsOfEntry DEF LoaderCalled, Goto, WayOf
  <2> QED
    BY <2>1, <2>2
<1>2. ASSUME NEW p \in Procs, RunCommand(p) \/ ActionExit(p) PROVE WayInv'
  <2>1. CASE RunCommand(p)
    <3>1. CASE Goto(p, "idle") /\ UNCHANGED machine
      BY <2>1, <3>1, MoveStep DEF RunCommand
    <3>2. CASE machine' = "down" /\ UNCHANGED lpc
      BY <2>1, <3>2 DEF RunCommand, WayOf, BootedFrom
    <3> QED
      BY <2>1, <3>1, <3>2 DEF RunCommand
  <2>2. CASE ActionExit(p)
    BY <2>2, MoveStep DEF ActionExit
  <2> QED
    BY <1>2, <2>1, <2>2
<1>3. ASSUME NEW p \in Procs, FetchFails(p) \/ FetchStarts(p) \/ FetchBreaks(p) PROVE WayInv'
  <2>1. AfterFailure(p) \in {"idle", "cleanup"}
    BY DEF AfterFailure
  <2>2. CASE FetchFails(p)
    BY <2>1, <2>2, MoveStep DEF FetchFails
  <2>3. CASE FetchStarts(p)
    BY <2>3, MoveStep DEF FetchStarts
  <2>4. CASE FetchBreaks(p)
    BY <2>1, <2>4, MoveStep DEF FetchBreaks
  <2> QED
    BY <1>3, <2>2, <2>3, <2>4
<1>4. ASSUME NEW p \in Procs, FetchEnds(p) PROVE WayInv'
  <2>1. todo[p] \in Seq(Files) /\ todo[p] # <<>>
    BY <1>4 DEF FetchEnds, WayOf
  <2>2. Tail(todo[p]) \in Seq(Files)
    BY <2>1
  <2>3. LoaderTypes' /\ BootedFrom'
    BY <1>4, <2>2 DEF FetchEnds, Goto, AfterFetch, BootedFrom
  <2>4. ASSUME NEW q \in Procs, q # p PROVE WayOf(q)'
    BY <1>4, <2>4 DEF FetchEnds, Goto, WayOf
  <2>5. WayOf(p)'
    <3>1. CASE entry[p].action = "insfile"
      <4>1. todo[p] = <<"insfile">> \/ todo[p] = <<"component">>
        BY <1>4, <3>1 DEF FetchEnds, WayOf
      <4>2. Len(todo[p]) = 1 /\ Head(todo[p]) \in {"insfile", "component"}
        <5>1. CASE todo[p] = <<"insfile">>
          BY <5>1
        <5>2. CASE todo[p] = <<"component">>
          BY <5>2
        <5> QED
          BY <4>1, <5>1, <5>2
      <4>3. AfterFetch(p) \in {"lines", "identify"}
        BY <4>2 DEF AfterFetch
      <4> QED
        <5>1. entry'[p] = entry[p] /\ lpc'[p] = AfterFetch(p)
          BY <1>4 DEF FetchEnds, Goto
        <5> QED
          BY <3>1, <4>3, <5>1 DEF WayOf
    <3>2. CASE entry[p].action # "insfile"
      <4>1. \A i \in DOMAIN todo[p] : todo[p][i] \in BootFiles
        BY <1>4, <3>2 DEF FetchEnds, WayOf
      <4>2. \A i \in DOMAIN Tail(todo[p]) : Tail(todo[p])[i] \in BootFiles
        <5>1. \A i \in DOMAIN Tail(todo[p]) : i + 1 \in DOMAIN todo[p] /\ Tail(todo[p])[i] = todo[p][i + 1]
          BY <2>1, RestOf
        <5> QED
          BY <4>1, <5>1
      <4>3. Head(todo[p]) \in BootFiles /\ (Len(todo[p]) > 1 => Tail(todo[p]) # <<>>)
        <5>1. Head(todo[p]) = todo[p][1] /\ Len(todo[p]) >= 1 /\ DOMAIN todo[p] = 1..Len(todo[p])
          BY <2>1, RestOf
        <5>2. Len(todo[p]) > 1 => Tail(todo[p]) # <<>>
          BY <2>1, RestOf
        <5> QED
          BY <4>1, <5>1, <5>2
      <4>4. AfterFetch(p) \in {"fetch", "compose"} /\ (AfterFetch(p) = "fetch" => Len(todo[p]) > 1)
        BY <4>3 DEF AfterFetch, BootFiles
      <4>5. entry[p].action \in {"kernel", "insfile", "bootmap"}
        BY <1>4 DEF FetchEnds, WayOf
      <4> QED
        <5>1. entry'[p] = entry[p] /\ todo'[p] = Tail(todo[p]) /\ lpc'[p] = AfterFetch(p)
          BY <1>4 DEF FetchEnds, Goto
        <5> QED
          BY <3>2, <4>2, <4>3, <4>4, <4>5, <5>1 DEF WayOf
    <3> QED
      BY <3>1, <3>2
  <2> QED
    BY <2>3, <2>4, <2>5
<1>5. ASSUME NEW p \in Procs, ReadLine(p) PROVE WayInv'
  <2>1. LoaderTypes' /\ BootedFrom'
    BY <1>5 DEF ReadLine, Goto, BootedFrom, Files
  <2>2. ASSUME NEW q \in Procs PROVE WayOf(q)'
    BY <1>5 DEF ReadLine, Goto, WayOf
  <2> QED
    BY <2>1, <2>2
<1>6. ASSUME NEW p \in Procs, InsfileEnds(p) PROVE WayInv'
  BY <1>6, MoveStep DEF InsfileEnds
<1>7. ASSUME NEW p \in Procs, NEW f \in BootFiles \cup {"component"}, IdentifyComponent(p, f)
      PROVE  WayInv'
  BY <1>7, MoveStep DEF IdentifyComponent, WayOf
<1>8. ASSUME NEW p \in Procs, ComposeCommandline(p) \/ ComposeFails(p) PROVE WayInv'
  <2>1. CASE ComposeCommandline(p)
    BY <2>1, MoveStep DEF ComposeCommandline
  <2>2. CASE ComposeFails(p)
    BY <2>2, MoveStep DEF ComposeFails, AfterFailure
  <2> QED
    BY <1>8, <2>1, <2>2
<1>9. ASSUME NEW p \in Procs, KexecLoad(p) \/ KexecFails(p) PROVE WayInv'
  <2>1. CASE KexecLoad(p)
    BY <2>1, MoveStep DEF KexecLoad
  <2>2. CASE KexecFails(p)
    BY <2>2, MoveStep DEF KexecFails, AfterFailure
  <2> QED
    BY <1>9, <2>1, <2>2
<1>10. ASSUME NEW p \in Procs, KexecExecute(p) PROVE WayInv'
  BY <1>10 DEF KexecExecute, WayOf, BootedFrom
<1>11. ASSUME NEW p \in Procs, Cleanup(p) PROVE WayInv'
  BY <1>11, MoveStep DEF Cleanup
<1>12. ASSUME UNCHANGED loaderVars PROVE WayInv'
  BY <1>12 DEF loaderVars, WayOf, BootedFrom
<1> QED
  BY <1>1, <1>2, <1>3, <1>4, <1>5, <1>6, <1>7, <1>8, <1>9, <1>10, <1>11, <1>12
     DEF LoaderNext, LoaderStep

-----------------------------------------------------------------------------
\* Only the cleanup brings a kernel or insfile attempt back to main().
LEMMA CleanupStep ==
  WayInv /\ NothingLeftBehind /\ [LoaderNext]_loaderVars => NothingLeftBehind'
<1> SUFFICES ASSUME WayInv, NothingLeftBehind, [LoaderNext]_loaderVars,
                    \A q \in Procs : lpc'[q] = "idle" /\ entry'[q].action \in {"kernel", "insfile"},
                    NEW f \in BootFiles
             PROVE  file'[f] = Absent
  BY DEF NothingLeftBehind, Absent
<1> USE DEF WayInv, LoaderTypes, At, Goto
<1>1. ASSUME NEW p \in Procs, Cleanup(p) PROVE file'[f] = Absent
  BY <1>1 DEF Cleanup, Files
<1>2. ASSUME NEW p \in Procs, NEW e \in BootEntries, LoaderCalled(p, e) PROVE FALSE
  BY <1>2 DEF LoaderCalled
<1>3. ASSUME NEW p \in Procs, RunCommand(p) \/ ActionExit(p) PROVE FALSE
  BY <1>3 DEF RunCommand, ActionExit, Commands
<1>4. ASSUME NEW p \in Procs, FetchFails(p) \/ FetchStarts(p) \/ FetchBreaks(p) PROVE FALSE
  BY <1>4 DEF FetchFails, FetchStarts, FetchBreaks, AfterFailure
<1>5. ASSUME NEW p \in Procs, FetchEnds(p) \/ ReadLine(p) \/ InsfileEnds(p) PROVE FALSE
  BY <1>5 DEF FetchEnds, ReadLine, InsfileEnds, AfterFetch
<1>6. ASSUME NEW p \in Procs, NEW g \in BootFiles \cup {"component"}, IdentifyComponent(p, g)
      PROVE  FALSE
  BY <1>6 DEF IdentifyComponent
<1>7. ASSUME NEW p \in Procs, ComposeCommandline(p) \/ ComposeFails(p) PROVE FALSE
  BY <1>7 DEF ComposeCommandline, ComposeFails, AfterFailure
<1>8. ASSUME NEW p \in Procs, KexecLoad(p) \/ KexecExecute(p) \/ KexecFails(p) PROVE FALSE
  BY <1>8 DEF KexecLoad, KexecExecute, KexecFails, AfterFailure
<1>9. ASSUME UNCHANGED loaderVars PROVE file'[f] = Absent
  BY <1>9 DEF loaderVars, NothingLeftBehind
<1> QED
  BY <1>1, <1>2, <1>3, <1>4, <1>5, <1>6, <1>7, <1>8, <1>9 DEF LoaderNext, LoaderStep

\* When every System Loader has come back from a failed kernel or insfile boot, none of
\* the boot files is left in /tmp, for any number of System Loaders that share it.
THEOREM FailedBootsCleanUp == LoaderSpec => []NothingLeftBehind
<1>1. LoaderInit => WayInv /\ NothingLeftBehind
  BY WayStarts DEF LoaderInit, NothingLeftBehind, Files
<1>2. WayInv /\ NothingLeftBehind /\ [LoaderNext]_loaderVars => (WayInv /\ NothingLeftBehind)'
  BY WayStep, CleanupStep
<1> QED
  BY <1>1, <1>2, PTL DEF LoaderSpec

-----------------------------------------------------------------------------
\* Within an attempt the meaning of its entry does not change.
LEMMA SameAttempt ==
  ASSUME NEW p \in Procs, UNCHANGED <<entry, attempt>>
  PROVE  /\ Mine(p, TRUE)' = Mine(p, TRUE) /\ Mine(p, FALSE)' = Mine(p, FALSE)
         /\ UsesInitrd(p)' = UsesInitrd(p) /\ UsesParmfile(p)' = UsesParmfile(p)
         /\ Wanted(p)' = Wanted(p)
  BY DEF Mine, UsesInitrd, UsesParmfile, Wanted

\* Steps that leave an attempt, or go to its cleanup, owe nothing about what is fetched.
LEMMA LeavingKeepsFetched ==
  ASSUME NEW p \in Procs, lpc'[p] \notin {"fetch", "copying"} \cup Starting
  PROVE  FetchedOrPending(p)'
  BY DEF FetchedOrPending, Starting

\* A System Loader that is alone fetches what its entry asks for, and loads that.
LEMMA FetchStep ==
  ASSUME NEW p, Procs = {p}, WayInv, FetchedOrPending(p), [LoaderNext]_loaderVars
  PROVE  FetchedOrPending(p)'
<1> USE DEF WayInv, LoaderTypes, At, Goto
<1>1. ASSUME NEW e \in BootEntries, LoaderCalled(p, e) PROVE FetchedOrPending(p)'
  <2>1. CASE e.action \in {"kernel", "bootmap"}
    <3>1. entry'[p] = e /\ todo'[p] = Components(e) /\ lpc'[p] = "fetch"
      BY <1>1, <2>1, ComponentsOfEntry DEF LoaderCalled
    <3>2. \A f \in Wanted(p)' : \E i \in DOMAIN Components(e) : Components(e)[i] = f
      BY <2>1, <3>1, ComponentsOfEntry DEF Wanted
    <3> QED
      BY <3>1, <3>2 DEF FetchedOrPending, Pending, Starting
  <2>2. CASE e.action = "insfile"
    BY <1>1, <2>2 DEF LoaderCalled, FetchedOrPending
  <2>3. CASE e.action \notin {"kernel", "bootmap", "insfile"}
    <3>1. lpc'[p] = "command"
      BY <1>1, <2>3, ComponentsOfEntry DEF LoaderCalled
    <3> QED
      BY <3>1, LeavingKeepsFetched DEF Starting
  <2> QED
    BY <2>1, <2>2, <2>3
<1>2. CASE RunCommand(p) \/ ActionExit(p)
  <2>1. lpc'[p] \in Between
    BY <1>2 DEF RunCommand, ActionExit, Between
  <2> QED
    BY <2>1, LeavingKeepsFetched DEF Between, Starting
<1>3. CASE FetchFails(p) \/ FetchBreaks(p) \/ ComposeFails(p) \/ KexecFails(p) \/ Cleanup(p)
  <2>1. lpc'[p] \in {"idle", "cleanup"}
    BY <1>3 DEF FetchFails, FetchBreaks, ComposeFails, KexecFails, Cleanup, AfterFailure
  <2> QED
    BY <2>1, LeavingKeepsFetched DEF Starting
<1>4. CASE FetchStarts(p)
  <2>1. Mine(p, TRUE)' = Mine(p, TRUE) /\ Wanted(p)' = Wanted(p) /\ entry' = entry /\ todo' = todo
    BY <1>4, SameAttempt DEF FetchStarts
  <2>2. todo[p] \in Seq(Files) /\ todo[p] # <<>> /\ lpc[p] = "fetch" /\ lpc'[p] = "copying"
    BY <1>4 DEF FetchStarts, WayOf
  <2>3. 1 \in DOMAIN todo[p] /\ Head(todo[p]) = todo[p][1]
    BY <2>2, RestOf
  <2>4. \A f \in Files : f = Head(todo[p]) \/ file'[f] = file[f]
    BY <1>4 DEF FetchStarts
  <2>5. Wanted(p) \subseteq Files
    BY DEF Wanted, Files, BootFiles
  <2> QED
    BY <2>1, <2>2, <2>3, <2>4, <2>5 DEF FetchedOrPending, Pending, Starting
<1>5. CASE FetchEnds(p)
  <2>1. Mine(p, TRUE)' = Mine(p, TRUE) /\ Wanted(p)' = Wanted(p) /\ entry' = entry
    BY <1>5, SameAttempt DEF FetchEnds
  <2>2. todo[p] \in Seq(Files) /\ todo[p] # <<>> /\ lpc[p] = "copying"
    BY <1>5 DEF FetchEnds, WayOf
  <2>3. Head(todo[p]) = todo[p][1] /\ Head(todo[p]) \in Files /\ Len(todo[p]) >= 1
    BY <2>2, RestOf
  <2>4. /\ file'[Head(todo[p])] = Mine(p, TRUE)
        /\ \A f \in Files : f # Head(todo[p]) => file'[f] = file[f]
    BY <1>5, <2>3 DEF FetchEnds
  <2>5. ASSUME NEW f \in Wanted(p), entry[p].action # "insfile"
        PROVE  Pending(p, f)' \/ file'[f] = Mine(p, TRUE)
    <3>1. f \in Files
      BY DEF Wanted, Files, BootFiles
    <3>2. CASE f = Head(todo[p]) \/ file[f] = Mine(p, TRUE)
      BY <2>4, <3>1, <3>2
    <3>3. ASSUME NEW i \in DOMAIN todo[p], todo[p][i] = f, i # 1 PROVE Pending(p, f)'
      <4>1. i - 1 \in DOMAIN Tail(todo[p]) /\ Tail(todo[p])[i - 1] = todo[p][(i - 1) + 1] /\ (i - 1) + 1 = i
        BY <2>2, <3>3, RestOf
      <4> QED
        BY <1>5, <3>3, <4>1 DEF FetchEnds, Pending
    <3> QED
      BY <2>2, <2>3, <2>5, <3>2, <3>3 DEF FetchedOrPending, Pending
  <2>6. lpc'[p] \in {"fetch", "compose", "lines", "identify"}
    BY <1>5 DEF FetchEnds, AfterFetch
  <2>7. lpc'[p] = "compose" => DOMAIN todo'[p] = {}
    BY <1>5, <2>2, RestOf DEF FetchEnds, AfterFetch
  <2> QED
    BY <2>1, <2>5, <2>6, <2>7 DEF FetchedOrPending, Pending, Starting
<1>6. ASSUME entry[p].action = "insfile", UNCHANGED entry PROVE FetchedOrPending(p)'
  BY <1>6 DEF FetchedOrPending
<1>7. CASE ReadLine(p) \/ InsfileEnds(p)
  BY <1>6, <1>7 DEF ReadLine, InsfileEnds, WayOf
<1>8. ASSUME NEW f \in BootFiles \cup {"component"}, IdentifyComponent(p, f)
      PROVE  FetchedOrPending(p)'
  BY <1>6, <1>8 DEF IdentifyComponent, WayOf
<1>9. CASE ComposeCommandline(p)
  <2>1. /\ Mine(p, TRUE)' = Mine(p, TRUE) /\ UsesParmfile(p)' = UsesParmfile(p)
        /\ Wanted(p)' = Wanted(p) /\ entry' = entry /\ file' = file
    BY <1>9, SameAttempt DEF ComposeCommandline
  <2>2. entry[p].action # "insfile" /\ UsesParmfile(p) => "parmfile" \in Wanted(p)
    BY DEF Wanted, UsesParmfile
  <2> QED
    BY <1>9, <2>1, <2>2 DEF ComposeCommandline, FetchedOrPending, Starting
<1>10. CASE KexecLoad(p)
  <2>1. /\ Mine(p, TRUE)' = Mine(p, TRUE) /\ UsesParmfile(p)' = UsesParmfile(p)
        /\ UsesInitrd(p)' = UsesInitrd(p)
        /\ Wanted(p)' = Wanted(p) /\ entry' = entry /\ file' = file /\ cmdline' = cmdline
    BY <1>10, SameAttempt DEF KexecLoad
  <2>2. /\ entry[p].action # "insfile" /\ UsesInitrd(p) => "initrd" \in Wanted(p)
        /\ "kernel" \in Wanted(p)
    BY DEF Wanted, UsesInitrd
  <2>3. /\ loaded'["kernel"] = file["kernel"] /\ loaded'["parmfile"] = cmdline[p]
        /\ loaded'["initrd"] = IF UsesInitrd(p) THEN file["initrd"] ELSE Absent
    BY <1>10 DEF KexecLoad
  <2>4. lpc[p] = "load" /\ lpc'[p] = "exec"
    BY <1>10 DEF KexecLoad
  <2> QED
    BY <2>1, <2>2, <2>3, <2>4 DEF FetchedOrPending, Starting, Exactly
<1>11. ASSUME UNCHANGED <<file, loaded, lpc, entry, attempt, todo, cmdline>>
       PROVE  FetchedOrPending(p)'
  <2>1. /\ Mine(p, TRUE)' = Mine(p, TRUE) /\ UsesParmfile(p)' = UsesParmfile(p)
        /\ UsesInitrd(p)' = UsesInitrd(p) /\ Wanted(p)' = Wanted(p)
    BY <1>11, SameAttempt
  <2> QED
    BY <1>11, <2>1 DEF FetchedOrPending, Pending, Exactly
<1>12. CASE KexecExecute(p) \/ UNCHANGED loaderVars
  BY <1>11, <1>12 DEF KexecExecute, loaderVars
<1> QED
  BY <1>1, <1>2, <1>3, <1>4, <1>5, <1>7, <1>8, <1>9, <1>10, <1>12 DEF LoaderNext, LoaderStep

\* A System Loader that is alone meets, in an insfile attempt, only its own files and
\* what a boot map attempt left.
LEMMA LeftoverStep ==
  ASSUME NEW p, Procs = {p}, WayInv, InsfileFiles(p), [LoaderNext]_loaderVars
  PROVE  InsfileFiles(p)'
<1> USE DEF WayInv, LoaderTypes, At, Goto, LoaderPlaces, Between, Starting
<1>1. ASSUME NEW e \in BootEntries, LoaderCalled(p, e) PROVE InsfileFiles(p)'
  <2>1. lpc[p] = "idle" /\ lpc'[p] \in {"fetch", "command"} /\ file' = file
    BY <1>1 DEF LoaderCalled
  <2> QED
    BY <2>1 DEF InsfileFiles
<1>2. CASE RunCommand(p) \/ ActionExit(p)
  <2>1. lpc[p] = "command" /\ lpc'[p] \in Between /\ UNCHANGED <<file, entry>>
    BY <1>2 DEF RunCommand, ActionExit
  <2> QED
    BY <2>1 DEF InsfileFiles
<1>3. ASSUME UNCHANGED <<file, entry, attempt>>, lpc[p] \notin Between, Goto(p, AfterFailure(p))
      PROVE  InsfileFiles(p)'
  <2>1. lpc'[p] = IF entry[p].action = "bootmap" THEN "idle" ELSE "cleanup"
    BY <1>3 DEF AfterFailure
  <2>2. Mine(p, TRUE)' = Mine(p, TRUE)
    BY <1>3, SameAttempt
  <2> QED
    BY <1>3, <2>1, <2>2 DEF InsfileFiles
<1>4. CASE FetchFails(p) \/ ComposeFails(p) \/ KexecFails(p)
  BY <1>3, <1>4 DEF FetchFails, ComposeFails, KexecFails
<1>5. CASE FetchStarts(p) \/ FetchEnds(p) \/ FetchBreaks(p)
  <2> DEFINE g == Head(todo[p])
  <2>1. lpc[p] \in {"fetch", "copying"} /\ todo[p] \in Seq(Files) /\ todo[p] # <<>>
    BY <1>5 DEF FetchStarts, FetchEnds, FetchBreaks, WayOf
  <2>2. g \in Files /\ g = todo[p][1] /\ 1 \in DOMAIN todo[p]
    BY <2>1, RestOf
  <2>3. /\ entry[p].action = "insfile" => g \in {"insfile", "component"}
        /\ entry[p].action # "insfile" => g \in BootFiles
    BY <2>1, <2>2 DEF WayOf
  <2> HIDE DEF g
  <2>4. \A f \in Files : f # g => file'[f] = file[f]
    BY <1>5, <2>2 DEF FetchStarts, FetchEnds, FetchBreaks, g
  <2>5. /\ file'[g] \in {Mine(p, TRUE), Mine(p, FALSE), Absent, file[g]}
        /\ FetchEnds(p) => file'[g] = Mine(p, TRUE)
    BY <1>5, <2>2 DEF FetchStarts, FetchEnds, FetchBreaks, g
  <2>6. Mine(p, TRUE)' = Mine(p, TRUE) /\ entry' = entry
    BY <1>5, SameAttempt DEF FetchStarts, FetchEnds, FetchBreaks
  <2>7. /\ lpc'[p] \in {"fetch", "copying", "lines", "identify", "compose"} \cup {AfterFailure(p)}
        /\ lpc'[p] \in {"lines", "identify", "compose"} => FetchEnds(p) /\ lpc'[p] = AfterFetch(p)
    BY <1>5 DEF FetchStarts, FetchEnds, FetchBreaks, AfterFetch, AfterFailure
  <2>8. \A f \in BootFiles : f \in Files
    BY DEF Files
  <2>9. CASE entry[p].action = "insfile"
    <3>1. \A f \in BootFiles : file'[f] = file[f]
      BY <2>3, <2>4, <2>8, <2>9 DEF BootFiles
    <3>2. lpc'[p] = "identify" => file'["component"] = Mine(p, TRUE)
      <4>1. lpc'[p] = "identify" => g = "component"
        BY <2>7 DEF AfterFetch, g
      <4> QED
        BY <2>5, <2>7, <4>1
    <3>3. lpc'[p] # "compose" /\ lpc'[p] \notin Between
      BY <2>3, <2>7, <2>9 DEF AfterFetch, AfterFailure, g
    <3> QED
      BY <2>1, <2>6, <2>7, <2>9, <3>1, <3>2, <3>3 DEF InsfileFiles, AfterFailure
  <2>10. CASE entry[p].action = "bootmap"
    <3>1. Leftover(Mine(p, TRUE)) /\ Leftover(Mine(p, FALSE)) /\ Leftover(Absent)
      BY <2>10 DEF Leftover, Mine
    <3>2. \A f \in BootFiles : Leftover(file[f])
      BY <2>10 DEF InsfileFiles
    <3>3. \A f \in BootFiles : Leftover(file'[f])
      BY <2>3, <2>4, <2>5, <2>8, <2>10, <3>1, <3>2
    <3>4. lpc'[p] # "identify"
      BY <2>3, <2>7, <2>10 DEF AfterFetch, g, BootFiles
    <3> QED
      BY <2>6, <2>10, <3>3, <3>4 DEF InsfileFiles
  <2>11. CASE entry[p].action = "kernel"
    <3>1. lpc'[p] \notin Between /\ lpc'[p] # "identify"
      BY <2>3, <2>7, <2>11 DEF AfterFetch, AfterFailure, g, BootFiles
    <3> QED
      BY <2>6, <2>11, <3>1 DEF InsfileFiles
  <2> QED
    BY <2>1, <2>9, <2>10, <2>11 DEF WayOf
<1>6. CASE ReadLine(p)
  <2>1. Mine(p, TRUE)' = Mine(p, TRUE)
    BY <1>6, SameAttempt DEF ReadLine
  <2> QED
    BY <1>6, <2>1 DEF ReadLine, InsfileFiles
<1>7. CASE InsfileEnds(p)
  <2>1. Mine(p, TRUE)' = Mine(p, TRUE) /\ entry' = entry
    BY <1>7, SameAttempt DEF InsfileEnds
  <2>2. \A f \in BootFiles : file'[f] = file[f]
    BY <1>7 DEF InsfileEnds, BootFiles, Files
  <2>3. lpc'[p] = IF \A f \in BootFiles : file[f] # Absent THEN "compose" ELSE "cleanup"
    BY <1>7 DEF InsfileEnds
  <2>4. lpc[p] = "lines" /\ entry[p].action = "insfile"
    BY <1>7 DEF InsfileEnds, WayOf
  <2> QED
    BY <2>1, <2>2, <2>3, <2>4 DEF InsfileFiles
<1>8. ASSUME NEW g \in BootFiles \cup {"component"}, IdentifyComponent(p, g)
      PROVE  InsfileFiles(p)'
  <2>1. Mine(p, TRUE)' = Mine(p, TRUE) /\ entry' = entry
    BY <1>8, SameAttempt DEF IdentifyComponent
  <2>2. lpc[p] = "identify" /\ lpc'[p] = "lines" /\ entry[p].action = "insfile"
    BY <1>8 DEF IdentifyComponent, WayOf
  <2>3. \A f \in BootFiles : file'[f] = IF f = g THEN file["component"] ELSE file[f]
    <3>1. \A f \in BootFiles : f \in Files /\ f # "component"
      BY DEF BootFiles, Files
    <3> QED
      BY <1>8, <3>1 DEF IdentifyComponent
  <2>4. file["component"] = Mine(p, TRUE)
    BY <2>2 DEF InsfileFiles
  <2> QED
    BY <2>1, <2>2, <2>3, <2>4 DEF InsfileFiles
<1>9. CASE ComposeCommandline(p)
  <2>1. Mine(p, TRUE)' = Mine(p, TRUE)
    BY <1>9, SameAttempt DEF ComposeCommandline
  <2>2. entry[p].action = "insfile" => cmdline'[p] = file["parmfile"]
    BY <1>9 DEF ComposeCommandline, UsesParmfile
  <2> QED
    BY <1>9, <2>1, <2>2 DEF ComposeCommandline, InsfileFiles
<1>10. CASE KexecLoad(p)
  <2>1. Mine(p, TRUE)' = Mine(p, TRUE)
    BY <1>10, SameAttempt DEF KexecLoad
  <2>2. /\ loaded'["kernel"] = file["kernel"] /\ loaded'["parmfile"] = cmdline[p]
        /\ entry[p].action = "insfile" => loaded'["initrd"] = file["initrd"]
    BY <1>10 DEF KexecLoad, UsesInitrd
  <2>3. entry[p].action = "insfile" => \A f \in BootFiles : loaded'[f] = file[f]
    BY <1>10, <2>2 DEF KexecLoad, InsfileFiles, BootFiles
  <2> QED
    BY <1>10, <2>1, <2>3 DEF KexecLoad, InsfileFiles
<1>11. CASE Cleanup(p)
  <2>1. \A f \in BootFiles : file'[f] = Absent
    BY <1>11 DEF Cleanup, Files
  <2> QED
    BY <1>11, <2>1 DEF Cleanup, InsfileFiles, Leftover
<1>12. ASSUME UNCHANGED <<file, loaded, lpc, entry, attempt, cmdline>> PROVE InsfileFiles(p)'
  <2>1. Mine(p, TRUE)' = Mine(p, TRUE)
    BY <1>12, SameAttempt
  <2> QED
    BY <1>12, <2>1 DEF InsfileFiles
<1>13. CASE KexecExecute(p) \/ UNCHANGED loaderVars
  BY <1>12, <1>13 DEF KexecExecute, loaderVars
<1> QED
  BY <1>1, <1>2, <1>4, <1>5, <1>6, <1>7, <1>8, <1>9, <1>10, <1>11, <1>13 DEF LoaderNext, LoaderStep

-----------------------------------------------------------------------------
\* The invariant of a System Loader that is alone holds at all times.
LEMMA AloneStays == ASSUME NEW p, Procs = {p} PROVE LoaderSpec => []AloneInv(p)
<1>1. LoaderInit => AloneInv(p)
  <2> SUFFICES ASSUME LoaderInit PROVE AloneInv(p)
    OBVIOUS
  <2>1. lpc[p] = "idle" /\ \A f \in BootFiles : file[f] = Absent
    BY DEF LoaderInit, Files
  <2> QED
    BY <2>1, WayStarts
       DEF AloneInv, FetchedOrPending, InsfileFiles, Starting, Between, Leftover
<1>2. AloneInv(p) /\ [LoaderNext]_loaderVars => AloneInv(p)'
  BY WayStep, FetchStep, LeftoverStep DEF AloneInv
<1> QED
  BY <1>1, <1>2, PTL DEF LoaderSpec

\* With one System Loader, what kexec boots is the kernel, initrd and parmfile of the last
\* selection, each one fetched completely for it, whatever was attempted before.
THEOREM SelectionIsBooted ==
  ASSUME NEW p, Procs = {p} PROVE LoaderSpec => []BootsWhatWasSelected
<1>1. AloneInv(p) => BootsWhatWasSelected
  BY DEF AloneInv, WayInv, BootedFrom, FetchedOrPending, BootsWhatWasSelected
<1> QED
  BY <1>1, AloneStays, PTL

\* With one System Loader, an insfile is booted with files that were fetched for it, or
\* that a failed boot map attempt left, and with nothing of an earlier kernel or insfile.
THEOREM InsfileBootsItsOwn ==
  ASSUME NEW p, Procs = {p} PROVE LoaderSpec => []InsfileBootsItsComponents
<1>1. AloneInv(p) => InsfileBootsItsComponents
  <2> SUFFICES ASSUME AloneInv(p), machine = "booted", entry[booter].action = "insfile",
                      NEW f \in BootFiles
               PROVE  loaded[f] = Mine(booter, TRUE) \/ (loaded[f] # Absent /\ loaded[f].of = "bootmap")
    BY DEF InsfileBootsItsComponents
  <2>1. booter = p /\ lpc[p] = "exec"
    BY DEF AloneInv, WayInv, BootedFrom
  <2> QED
    BY <2>1 DEF AloneInv, InsfileFiles, Starting, Between, Leftover
<1> QED
  BY <1>1, AloneStays, PTL

-----------------------------------------------------------------------------
(* comp_load() *)

\* The variables have their types, a pipe never holds more than it can, and every way
\* through comp_load() ends with a result.
CompLoadTypes ==
  /\ pc \in {"verify", "fork", "select", "wait", "done"} \cup Streams
  /\ read_set \subseteq Streams /\ read_flags \subseteq Streams
  /\ collected \in [Streams -> 0..(MaxOutput + 1)] /\ written \in [Streams -> 0..(MaxOutput + 1)]
  /\ pipe \in [Streams -> 0..Cap]
  /\ ret \in {Success, Failure} \/ (ret = "unset" /\ pc # "done")
  /\ status \in {"unset", Success, Failure}
  /\ child \in {"none", "exec", "running", "gone"} \cup Streams
  /\ leftover \in {"none", Success, Failure}
  /\ alarm \in BOOLEAN /\ interrupted \in BOOLEAN

\* Nothing is lost on the way: what was written is in the pipe or has been collected.
Accounting == \A s \in Streams : collected[s] + pipe[s] = written[s]

\* A module that is not running yet has written nothing, one in write() may still write.
ChildOutput ==
  /\ child \in {"none", "exec"} => \A s \in Streams : written[s] = 0
  /\ \A s \in Streams : child = s => written[s] < MaxOutput

\* The status is there exactly when the module has ended.
StatusOfEnded == child = "gone" <=> status # "unset"

\* Before fork() there is no child, and no end of a stream has been seen.
BeforeFork == pc \in {"verify", "fork"} => child = "none" /\ read_flags = {}

\* A stream that was seen to end has ended for good.
EndsSeen == \A s \in read_flags : AtEnd(s)

\* The loop is left when both streams have ended, and then the status is that of the module.
LeavesAtEnd ==
  /\ pc = "wait" => read_flags = Streams
  /\ pc = "done" /\ child # "none" => read_flags = Streams /\ child = "gone" /\ ret = status

\* What select() found ready stays so until it is read.
StaysReady ==
  pc \in Streams /\ ~interrupted =>
    \A s \in read_set : pc = "stdout" \/ s = "stderr" => Readable(s)

\* The inductive invariant of comp_load()
CompLoadInv ==
  /\ CompLoadTypes /\ Accounting /\ ChildOutput /\ StatusOfEnded /\ BeforeFork
  /\ EndsSeen /\ LeavesAtEnd /\ StaysReady

-----------------------------------------------------------------------------
\* comp_load() starts in the invariant.
LEMMA CompLoadStarts == CompLoadInit => CompLoadInv
<1> SUFFICES ASSUME CompLoadInit PROVE CompLoadInv
  OBVIOUS
<1> USE PipeAssumption DEF CompLoadInit, Streams
<1>1. CompLoadTypes
  <2>1. alarm \in BOOLEAN /\ interrupted \in BOOLEAN
    BY Zenon
  <2>2. /\ collected \in [Streams -> 0..(MaxOutput + 1)] /\ pipe \in [Streams -> 0..Cap]
        /\ written \in [Streams -> 0..(MaxOutput + 1)]
    OBVIOUS
  <2> QED
    BY <2>1, <2>2 DEF CompLoadTypes
<1>2. Accounting /\ ChildOutput
  BY DEF Accounting, ChildOutput
<1>3. StatusOfEnded /\ BeforeFork /\ EndsSeen /\ LeavesAtEnd /\ StaysReady
  BY DEF StatusOfEnded, BeforeFork, EndsSeen, LeavesAtEnd, StaysReady
<1> QED
  BY <1>1, <1>2, <1>3 DEF CompLoadInv

\* Every step of the parent, of the child and of the alarm keeps the types.
LEMMA TypeStep == CompLoadInv /\ [CompLoadNext]_compVars => CompLoadTypes'
<1> SUFFICES ASSUME CompLoadInv, [CompLoadNext]_compVars PROVE CompLoadTypes'
  OBVIOUS
<1> USE PipeAssumption DEF CompLoadInv, CompLoadTypes, Streams, Success, Failure
<1>1. CASE Verify
  BY <1>1 DEF Verify, Refused
<1>2. CASE Fork \/ ForkFails
  BY <1>2 DEF Fork, ForkFails
<1>3. CASE Select
  BY <1>3 DEF Select, Ready
<1>4. ASSUME NEW s \in Streams, ReadToString(s) PROVE CompLoadTypes'
  <2> DEFINE n == Smaller(Chunk, pipe[s])
  <2>1. n \in 0..pipe[s] /\ pipe[s] - n \in 0..Cap
    BY DEF Smaller
  <2>2. collected[s] + n \in 0..(MaxOutput + 1)
    BY <2>1 DEF Accounting
  <2> HIDE DEF n
  <2>3. pipe' \in [Streams -> 0..Cap] /\ collected' \in [Streams -> 0..(MaxOutput + 1)]
    BY <1>4, <2>1, <2>2 DEF ReadToString, n
  <2>4. read_flags' \subseteq Streams
    BY <1>4 DEF ReadToString, Ended
  <2>5. read_set' \subseteq Streams /\ pc' \in {"select", "wait"} \cup Streams
    BY <1>4, <2>4 DEF ReadToString, AfterRead
  <2> QED
    BY <1>4, <2>3, <2>4, <2>5 DEF ReadToString
<1>5. ASSUME NEW s \in Streams, NotSelected(s) PROVE CompLoadTypes'
  BY <1>5 DEF NotSelected, AfterRead
<1>6. CASE Wait4 \/ Wait4Any
  BY <1>6 DEF Wait4, Wait4Any
<1>7. CASE Exec
  BY <1>7 DEF Exec
<1>8. CASE ExecFails
  <2>1. written["stderr"] = 0 /\ pipe["stderr"] = 0
    BY <1>8 DEF ExecFails, ChildOutput, Accounting
  <2> QED
    BY <1>8, <2>1 DEF ExecFails, Put
<1>9. ASSUME NEW s \in Streams, BeginWrite(s) PROVE CompLoadTypes'
  BY <1>9 DEF BeginWrite
<1>10. ASSUME NEW s \in Streams, Write(s) PROVE CompLoadTypes'
  <2>1. written[s] < MaxOutput /\ pipe[s] < Cap
    BY <1>10 DEF Write, ChildOutput
  <2> QED
    BY <1>10, <2>1 DEF Write, Put
<1>11. ASSUME NEW st \in {Success, Failure}, Exit(st) PROVE CompLoadTypes'
  BY <1>11 DEF Exit
<1>12. CASE Interrupt \/ Alarm
  <2>1. CASE Interrupt
    BY <2>1 DEF Interrupt
  <2>2. CASE Alarm
    BY <2>2 DEF Alarm
  <2> QED
    BY <1>12, <2>1, <2>2
<1>13. CASE UNCHANGED compVars
  BY <1>13 DEF compVars
<1> QED
  BY <1>1, <1>2, <1>3, <1>4, <1>5, <1>6, <1>7, <1>8, <1>9, <1>10, <1>11, <1>12, <1>13
     DEF CompLoadNext, Parent, Child

\* Output is neither lost nor invented, and a module writes within its bound.
LEMMA OutputStep == CompLoadInv /\ [CompLoadNext]_compVars => Accounting' /\ ChildOutput'
<1> SUFFICES ASSUME CompLoadInv, [CompLoadNext]_compVars PROVE Accounting' /\ ChildOutput'
  OBVIOUS
<1> USE PipeAssumption DEF CompLoadInv, CompLoadTypes, Accounting, ChildOutput, Streams
<1>1. ASSUME NEW s \in Streams, ReadToString(s) PROVE Accounting' /\ ChildOutput'
  <2> DEFINE n == Smaller(Chunk, pipe[s])
  <2>1. n \in Int
    BY DEF Smaller
  <2> HIDE DEF n
  <2>2. collected' = [collected EXCEPT ![s] = @ + n] /\ pipe' = [pipe EXCEPT ![s] = @ - n]
    BY <1>1 DEF ReadToString, n
  <2> QED
    BY <1>1, <2>1, <2>2 DEF ReadToString
<1>2. CASE ExecFails
  BY <1>2 DEF ExecFails, Put
<1>3. ASSUME NEW s \in Streams, BeginWrite(s) PROVE Accounting' /\ ChildOutput'
  BY <1>3 DEF BeginWrite
<1>4. ASSUME NEW s \in Streams, Write(s) PROVE Accounting' /\ ChildOutput'
  BY <1>4 DEF Write, Put
<1>5. CASE Fork
  <2>1. child = "none"
    BY <1>5 DEF Fork, BeforeFork
  <2> QED
    BY <1>5, <2>1 DEF Fork
<1>6. CASE Exec \/ \E st \in {Success, Failure} : Exit(st)
  BY <1>6 DEF Exec, Exit
<1>7. CASE Verify \/ ForkFails \/ Select \/ Wait4 \/ Wait4Any \/ Interrupt \/ Alarm
  BY <1>7 DEF Verify, Refused, ForkFails, Select, Wait4, Wait4Any, Interrupt, Alarm
<1>8. ASSUME NEW s \in Streams, NotSelected(s) PROVE Accounting' /\ ChildOutput'
  BY <1>8 DEF NotSelected
<1>9. CASE UNCHANGED compVars
  BY <1>9 DEF compVars
<1> QED
  BY <1>1, <1>2, <1>3, <1>4, <1>5, <1>6, <1>7, <1>8, <1>9 DEF CompLoadNext, Parent, Child

\* What the parent knows of its child stays true, whatever either of them does.
LEMMA KnowledgeStep ==
  CompLoadInv /\ [CompLoadNext]_compVars =>
    StatusOfEnded' /\ BeforeFork' /\ EndsSeen' /\ LeavesAtEnd'
<1> DEFINE Known == StatusOfEnded /\ BeforeFork /\ EndsSeen /\ LeavesAtEnd
<1> SUFFICES ASSUME CompLoadInv, [CompLoadNext]_compVars PROVE Known'
  OBVIOUS
<1> USE PipeAssumption DEF CompLoadInv, CompLoadTypes, StatusOfEnded, BeforeFork, EndsSeen,
        LeavesAtEnd, AtEnd, Streams, Success, Failure
<1>1. CASE Verify
  BY <1>1 DEF Verify, Refused
<1>2. CASE Fork \/ ForkFails
  BY <1>2 DEF Fork, ForkFails
<1>3. CASE Select \/ Interrupt \/ Alarm
  BY <1>3 DEF Select, Interrupt, Alarm
<1>4. ASSUME NEW s \in Streams, ReadToString(s) PROVE Known'
  <2>1. Smaller(Chunk, pipe[s]) = 0 => pipe[s] = 0
    BY DEF Smaller
  <2>2. \A t \in read_flags : pipe[t] = 0 => pipe'[t] = 0
    BY <1>4 DEF ReadToString, Smaller
  <2>3. EndsSeen'
    BY <1>4, <2>1, <2>2 DEF ReadToString, Ended, Readable
  <2>4. pc' = "wait" => read_flags' = Streams
    BY <1>4 DEF ReadToString, AfterRead, LoopEnds
  <2>5. pc' \in {"select", "wait", "stderr"}
    BY <1>4 DEF ReadToString, AfterRead
  <2> QED
    BY <1>4, <2>3, <2>4, <2>5 DEF ReadToString
<1>5. ASSUME NEW s \in Streams, NotSelected(s) PROVE Known'
  BY <1>5 DEF NotSelected, AfterRead, LoopEnds
<1>6. CASE Wait4 \/ Wait4Any
  BY <1>6 DEF Wait4, Wait4Any
<1>7. CASE Exec \/ ExecFails
  <2>1. read_flags = {} /\ pc \notin {"wait", "done", "verify", "fork"}
    BY <1>7 DEF Exec, ExecFails
  <2> QED
    BY <1>7, <2>1 DEF Exec, ExecFails
<1>8. ASSUME NEW s \in Streams, BeginWrite(s) \/ Write(s) PROVE Known'
  <2>1. read_flags = {} /\ pc \notin {"wait", "done", "verify", "fork"}
    BY <1>8 DEF BeginWrite, Write
  <2> QED
    BY <1>8, <2>1 DEF BeginWrite, Write, Put
<1>9. ASSUME NEW st \in {Success, Failure}, Exit(st) PROVE Known'
  BY <1>9 DEF Exit
<1>10. CASE UNCHANGED compVars
  BY <1>10 DEF compVars
<1> QED
  BY <1>1, <1>2, <1>3, <1>4, <1>5, <1>6, <1>7, <1>8, <1>9, <1>10
     DEF CompLoadNext, Parent, Child

\* A stream that can be read stays so until the parent reads it.
LEMMA ReadyStep == CompLoadInv /\ [CompLoadNext]_compVars => StaysReady'
<1> SUFFICES ASSUME CompLoadInv, [CompLoadNext]_compVars PROVE StaysReady'
  OBVIOUS
<1> USE PipeAssumption DEF CompLoadInv, CompLoadTypes, StaysReady, Readable, AtEnd, Streams
<1>1. CASE Verify \/ Fork \/ ForkFails \/ Wait4 \/ Wait4Any
  BY <1>1 DEF Verify, Refused, Fork, ForkFails, Wait4, Wait4Any
<1>2. CASE Select
  BY <1>2 DEF Select, Ready
<1>3. CASE Interrupt \/ Alarm
  BY <1>3 DEF Interrupt, Alarm
<1>4. ASSUME NEW s \in Streams, ReadToString(s) PROVE StaysReady'
  BY <1>4 DEF ReadToString, AfterRead
<1>5. ASSUME NEW s \in Streams, NotSelected(s) PROVE StaysReady'
  BY <1>5 DEF NotSelected, AfterRead
<1>6. CASE Exec
  BY <1>6 DEF Exec
<1>7. CASE ExecFails
  BY <1>7 DEF ExecFails, Put
<1>8. ASSUME NEW s \in Streams, BeginWrite(s) PROVE StaysReady'
  BY <1>8 DEF BeginWrite
<1>9. ASSUME NEW s \in Streams, Write(s) PROVE StaysReady'
  BY <1>9 DEF Write, Put
<1>10. ASSUME NEW st \in {Success, Failure}, Exit(st) PROVE StaysReady'
  BY <1>10 DEF Exit
<1>11. CASE UNCHANGED compVars
  BY <1>11 DEF compVars
<1> QED
  BY <1>1, <1>2, <1>3, <1>4, <1>5, <1>6, <1>7, <1>8, <1>9, <1>10, <1>11
     DEF CompLoadNext, Parent, Child

-----------------------------------------------------------------------------
\* The parts together are inductive: comp_load() never leaves them.
LEMMA CompLoadInvariant == CompLoadSpec => []CompLoadInv
<1>1. CompLoadInv /\ [CompLoadNext]_compVars => CompLoadInv'
  BY TypeStep, OutputStep, KnowledgeStep, ReadyStep DEF CompLoadInv
<1> QED
  BY CompLoadStarts, <1>1, PTL DEF CompLoadSpec

\* A started module's status and its complete output are what comp_load() returns, in
\* every interleaving, interrupted or not.
THEOREM NothingIsLost == CompLoadSpec => []ResultIsTheModules
<1>1. ASSUME CompLoadInv, pc = "done", child # "none"
      PROVE  child = "gone" /\ ret = status /\ collected = written
  <2>1. child = "gone" /\ ret = status /\ read_flags = Streams
    BY <1>1 DEF CompLoadInv, LeavesAtEnd
  <2>2. \A s \in Streams : pipe[s] = 0
    BY <1>1, <2>1 DEF CompLoadInv, EndsSeen, AtEnd
  <2>3. \A s \in Streams : collected[s] = written[s]
    BY <1>1, <2>2 DEF CompLoadInv, Accounting, CompLoadTypes
  <2>4. collected = written
    BY <1>1, <2>3 DEF CompLoadInv, CompLoadTypes
  <2> QED
    BY <2>1, <2>4
<1>2. CompLoadInv => ResultIsTheModules
  BY <1>1 DEF ResultIsTheModules
<1> QED
  BY CompLoadInvariant, <1>2, PTL

\* comp_load() waits for an empty stream only after the alarm has interrupted select().
THEOREM BlocksOnlyAfterInterrupt == CompLoadSpec => []ReadsWhatIsReady
<1>1. ASSUME CompLoadInv, NEW s \in Streams, pc = s, s \in read_set, ~interrupted
      PROVE  Readable(s)
  BY <1>1 DEF CompLoadInv, StaysReady, Streams
<1>2. CompLoadInv => ReadsWhatIsReady
  BY <1>1 DEF ReadsWhatIsReady
<1> QED
  BY CompLoadInvariant, <1>2, PTL
=============================================================================
