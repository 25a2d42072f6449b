------------------------------- MODULE Loader -------------------------------
(***************************************************************************)
(* loader() and the boot actions behind it: action_kernel_boot()           *)
(* (core/loader.c), action_insfile_boot() (core/insfile.c) and             *)
(* boot_bootmap_disk() (core/bootmap_common.c).  They fetch components     *)
(* into files with fixed names in /tmp, hand these to kexec, and come back *)
(* when the boot failed; main() then asks for another entry.  A secondary  *)
(* System Loader (sysload -u) runs the same code on the same files.        *)
(*                                                                         *)
(* A file's content is abstracted to who fetched it, for which attempt and *)
(* action, and whether the copy was finished.                              *)
(***************************************************************************)
EXTENDS Integers, Sequences

CONSTANTS
  Procs,        \* System Loader processes
  BootEntries,  \* entries a user may select: [action, initrd, parmfile]
  MaxAttempts,  \* bound: boot attempts of one process
  MaxLines      \* bound: lines of an insfile

Commands == {"reboot", "halt", "shell"}
Actions == {"kernel", "insfile", "bootmap", "exit"} \cup Commands

ASSUME EntryAssumption ==
  BootEntries \subseteq [action : Actions, initrd : BOOLEAN, parmfile : BOOLEAN]
ASSUME LimitAssumption == MaxAttempts \in Nat /\ MaxLines \in Nat

VARIABLES
  machine,  \* "up", "booted" (a new kernel runs) or "down"
  file,     \* content of the local files
  loaded,   \* what kexec -l has put into memory
  booter,   \* the process whose kexec -e succeeded
  lpc,      \* where each process is
  entry,    \* *boot
  attempt,  \* boot attempts so far
  todo,     \* components still to fetch, the current one first
  lines,    \* lines of the insfile read
  cmdline   \* the parmfile content in the command line

procVars == <<lpc, entry, attempt, todo, lines, cmdline>>
loaderVars == <<machine, file, loaded, booter, lpc, entry, attempt, todo, lines, cmdline>>

BootFiles == {"kernel", "initrd", "parmfile"}       \* SYSLOAD_FILENAME_...
Files == BootFiles \cup {"insfile", "component"}    \* and /tmp/file_%d

Absent == [by |-> "nobody", no |-> 0, of |-> "exit", whole |-> FALSE]

\* The content of a file that p is fetching, or has fetched, for its current attempt
Mine(p, whole) == [by |-> p, no |-> attempt[p], of |-> entry[p].action, whole |-> whole]

Nothing == [f \in BootFiles |-> Absent]
NoEntry == [action |-> "exit", initrd |-> FALSE, parmfile |-> FALSE]

LoaderInit ==
  /\ machine = "up" /\ booter = "nobody"
  /\ file = [f \in Files |-> Absent]
  /\ loaded = Nothing
  /\ lpc = [p \in Procs |-> "idle"]
  /\ entry = [p \in Procs |-> NoEntry]
  /\ attempt = [p \in Procs |-> 0]
  /\ todo = [p \in Procs |-> <<>>]
  /\ lines = [p \in Procs |-> 0]
  /\ cmdline = [p \in Procs |-> Absent]

At(p, place) == machine = "up" /\ lpc[p] = place

Goto(p, place) == lpc' = [lpc EXCEPT ![p] = place]

\* "goto cleanup" in loader.c and insfile.c; boot_bootmap_disk() just returns.
AfterFailure(p) == IF entry[p].action = "bootmap" THEN "idle" ELSE "cleanup"

-----------------------------------------------------------------------------
(* main() and loader() *)

Optional(wanted, f) == IF wanted THEN <<f>> ELSE <<>>

\* The components an action fetches one after the other
Components(e) ==
  IF e.action = "insfile" THEN <<"insfile">>
  ELSE IF e.action \in {"kernel", "bootmap"}
  THEN <<"kernel">> \o Optional(e.initrd, "initrd") \o Optional(e.parmfile, "parmfile")
  ELSE <<>>

\* userinterface() has returned the entry e.
LoaderCalled(p, e) ==
  /\ At(p, "idle") /\ attempt[p] < MaxAttempts
  /\ attempt' = [attempt EXCEPT ![p] = @ + 1]
  /\ entry' = [entry EXCEPT ![p] = e]
  /\ todo' = [todo EXCEPT ![p] = Components(e)]
  /\ lines' = [lines EXCEPT ![p] = 0]
  /\ cmdline' = [cmdline EXCEPT ![p] = Absent]
  /\ Goto(p, IF Components(e) = <<>> THEN "command" ELSE "fetch")
  /\ UNCHANGED <<machine, file, loaded, booter>>

\* action_reboot(), action_halt(), action_shell(): "on success ... does not return"
RunCommand(p) ==
  /\ At(p, "command") /\ entry[p].action \in Commands
  /\ \/ machine' = "down" /\ entry[p].action # "shell" /\ UNCHANGED lpc
     \/ Goto(p, "idle") /\ UNCHANGED machine
  /\ UNCHANGED <<file, loaded, booter, entry, attempt, todo, lines, cmdline>>

ActionExit(p) ==
  /\ At(p, "command") /\ entry[p].action = "exit"
  /\ Goto(p, "gone")
  /\ UNCHANGED <<machine, file, loaded, booter, entry, attempt, todo, lines, cmdline>>

-----------------------------------------------------------------------------
(* Fetching a component: comp_load(), read_kernel_component(), read_initrd_component() *)

\* The component is not there: nothing is written.
FetchFails(p) ==
  /\ At(p, "fetch")
  /\ Goto(p, AfterFailure(p))
  /\ UNCHANGED <<machine, file, loaded, booter, entry, attempt, todo, lines, cmdline>>

\* The destination is created, or truncated, and the copy begins.
FetchStarts(p) ==
  /\ At(p, "fetch")
  /\ file' = [file EXCEPT ![Head(todo[p])] = Mine(p, FALSE)]
  /\ Goto(p, "copying")
  /\ UNCHANGED <<machine, loaded, booter, entry, attempt, todo, lines, cmdline>>

AfterFetch(p) ==
  IF Len(todo[p]) > 1 THEN "fetch"
  ELSE IF Head(todo[p]) = "insfile" THEN "lines"
  ELSE IF Head(todo[p]) = "component" THEN "identify"
  ELSE "compose"

FetchEnds(p) ==
  /\ At(p, "copying")
  /\ file' = [file EXCEPT ![Head(todo[p])] = Mine(p, TRUE)]
  /\ todo' = [todo EXCEPT ![p] = Tail(@)]
  /\ Goto(p, AfterFetch(p))
  /\ UNCHANGED <<machine, loaded, booter, entry, attempt, lines, cmdline>>

\* The copy fails half way.  Only the bootmap code removes the file, and after a read
\* error not that of the kernel.
FetchBreaks(p) ==
  /\ At(p, "copying")
  /\ \/ UNCHANGED file /\ (entry[p].action = "bootmap" => Head(todo[p]) # "initrd")
     \/ /\ entry[p].action = "bootmap" /\ Head(todo[p]) # "parmfile"
        /\ file' = [file EXCEPT ![Head(todo[p])] = Absent]
  /\ Goto(p, AfterFailure(p))
  /\ UNCHANGED <<machine, loaded, booter, entry, attempt, todo, lines, cmdline>>

-----------------------------------------------------------------------------
(* action_insfile_boot(): every line names a component *)

ReadLine(p) ==
  /\ At(p, "lines") /\ lines[p] < MaxLines
  /\ lines' = [lines EXCEPT ![p] = @ + 1]
  /\ todo' = [todo EXCEPT ![p] = <<"component">>]
  /\ Goto(p, "fetch")
  /\ UNCHANGED <<machine, file, loaded, booter, entry, attempt, cmdline>>

\* identify_file() takes the component for the file f and it is renamed, or for
\* something not needed ("component") and it is removed.
IdentifyComponent(p, f) ==
  /\ At(p, "identify")
  /\ file' = [file EXCEPT !["component"] = Absent,
                          ![f] = IF f = "component" THEN Absent ELSE file["component"]]
  /\ Goto(p, "lines")
  /\ UNCHANGED <<machine, loaded, booter, entry, attempt, todo, lines, cmdline>>

\* End of the insfile.  "if all required files exist" the new kernel is started.
InsfileEnds(p) ==
  /\ At(p, "lines")
  /\ file' = [file EXCEPT !["insfile"] = Absent]
  /\ Goto(p, IF \A f \in BootFiles : file[f] # Absent THEN "compose" ELSE "cleanup")
  /\ UNCHANGED <<machine, loaded, booter, entry, attempt, todo, lines, cmdline>>

-----------------------------------------------------------------------------
(* Starting the new kernel *)

UsesInitrd(p) == entry[p].action = "insfile" \/ entry[p].initrd
UsesParmfile(p) == entry[p].action = "insfile" \/ entry[p].parmfile

\* compose_commandline() reads the local parmfile, if the entry has one.
ComposeCommandline(p) ==
  /\ At(p, "compose")
  /\ UsesParmfile(p) => file["parmfile"] # Absent
  /\ cmdline' = [cmdline EXCEPT ![p] = IF UsesParmfile(p) THEN file["parmfile"] ELSE Absent]
  /\ Goto(p, "load")
  /\ UNCHANGED <<machine, file, loaded, booter, entry, attempt, todo, lines>>

\* The parmfile is missing, unreadable or too long.
ComposeFails(p) ==
  /\ At(p, "compose") /\ UsesParmfile(p)
  /\ Goto(p, AfterFailure(p))
  /\ UNCHANGED <<machine, file, loaded, booter, entry, attempt, todo, lines, cmdline>>

\* Mutant: --initrd is passed whenever the file exists.
KexecLoadAnyInitrd(p) ==
  /\ At(p, "load")
  /\ file["kernel"] # Absent
  /\ loaded' = [kernel |-> file["kernel"], initrd |-> file["initrd"], parmfile |-> cmdline[p]]
  /\ Goto(p, "exec")
  /\ UNCHANGED <<machine, file, booter, entry, attempt, todo, lines, cmdline>>

\* kexec -l
KexecLoad(p) ==
  /\ At(p, "load")
  /\ file["kernel"] # Absent
  /\ UsesInitrd(p) => file["initrd"] # Absent
  /\ loaded' = [kernel |-> file["kernel"],
                initrd |-> IF UsesInitrd(p) THEN file["initrd"] ELSE Absent,
                parmfile |-> cmdline[p]]
  /\ Goto(p, "exec")
  /\ UNCHANGED <<machine, file, booter, entry, attempt, todo, lines, cmdline>>

\* kexec -e
KexecExecute(p) ==
  /\ At(p, "exec")
  /\ machine' = "booted" /\ booter' = p
  /\ UNCHANGED <<file, loaded, lpc, entry, attempt, todo, lines, cmdline>>

KexecFails(p) ==
  /\ At(p, "load") \/ At(p, "exec")
  /\ Goto(p, AfterFailure(p))
  /\ UNCHANGED <<machine, file, loaded, booter, entry, attempt, todo, lines, cmdline>>

\* Mutant: only the kernel is removed.
CleanupKernelOnly(p) ==
  /\ At(p, "cleanup")
  /\ file' = [file EXCEPT !["kernel"] = Absent]
  /\ Goto(p, "idle")
  /\ UNCHANGED <<machine, loaded, booter, entry, attempt, todo, lines, cmdline>>

\* cleanup: the three boot files are removed and the message is returned to main().
Cleanup(p) ==
  /\ At(p, "cleanup")
  /\ file' = [f \in Files |-> IF f \in BootFiles THEN Absent ELSE file[f]]
  /\ Goto(p, "idle")
  /\ UNCHANGED <<machine, loaded, booter, entry, attempt, todo, lines, cmdline>>

-----------------------------------------------------------------------------
LoaderStep(p) ==
  \/ \E e \in BootEntries : LoaderCalled(p, e)
  \/ RunCommand(p) \/ ActionExit(p)
  \/ FetchFails(p) \/ FetchStarts(p) \/ FetchEnds(p) \/ FetchBreaks(p)
  \/ ReadLine(p) \/ InsfileEnds(p)
  \/ \E f \in BootFiles \cup {"component"} : IdentifyComponent(p, f)
  \/ ComposeCommandline(p) \/ ComposeFails(p)
  \/ KexecLoad(p) \/ KexecExecute(p) \/ KexecFails(p) \/ Cleanup(p)

LoaderNext == \E p \in Procs : LoaderStep(p)

LoaderSpec == LoaderInit /\ [][LoaderNext]_loaderVars

-----------------------------------------------------------------------------
(* Properties *)

\* What kexec -l has loaded belongs to the last selection of p: the kernel, the initrd
\* and the parmfile its entry asks for, each one fetched completely by p for that
\* selection, and nothing else.
Exactly(p) ==
  /\ loaded["kernel"] = Mine(p, TRUE)
  /\ loaded["initrd"] = IF UsesInitrd(p) THEN Mine(p, TRUE) ELSE Absent
  /\ loaded["parmfile"] = IF UsesParmfile(p) THEN Mine(p, TRUE) ELSE Absent

\* The system that comes up is the one selected last, whatever earlier attempts left in
\* /tmp (action_kernel_boot, boot_bootmap_disk).
BootsWhatWasSelected ==
  machine = "booted" /\ entry[booter].action # "insfile" => Exactly(booter)

\* An insfile is booted with components that were fetched for it.  A file it does not
\* name can only be one that a failed boot map attempt left, never one of an earlier
\* kernel or insfile attempt (action_insfile_boot tests that the files exist).
InsfileBootsItsComponents ==
  machine = "booted" /\ entry[booter].action = "insfile" =>
    \A f \in BootFiles :
      loaded[f] = Mine(booter, TRUE) \/ (loaded[f] # Absent /\ loaded[f].of = "bootmap")

\* When a failed kernel or insfile boot returns to main(), none of the boot files is
\* left behind, also none that an earlier bootmap attempt left (the cleanup of
\* action_kernel_boot and action_insfile_boot).
NothingLeftBehind ==
  (\A p \in Procs : lpc[p] = "idle" /\ entry[p].action \in {"kernel", "insfile"}) =>
    \A f \in BootFiles : file[f] = Absent
=============================================================================
