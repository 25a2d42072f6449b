------------------------------ MODULE UiControl ------------------------------
(***************************************************************************)
(* userinterface() of core/ui_control.c: the System Loader forks one       *)
(* process per configured user interface, waits in select() for a boot     *)
(* entry on one of their pipes, for the alarm of the boot timeout or for   *)
(* SIGUSR1 (which stops that timeout), and then terminates the clients.    *)
(* main() calls it again whenever the loader could not boot the selection. *)
(*                                                                         *)
(* Actors: the parent (pc), the clients (cstate), the kernel's alarm       *)
(* (timer).  Every place where the parent can be preempted with an effect  *)
(* on the outcome is a separate step.  The text a client prints is         *)
(* abstracted to the number of reads it takes: an entry is complete when   *)
(* Chunks pieces were written, anything shorter does not parse.            *)
(***************************************************************************)
EXTENDS Integers

CONSTANTS
  N,           \* config->ui_count, the number of user interface clients
  Chunks,      \* read() calls of CFG_STR_MAX_LEN bytes a complete entry takes
  Timeout,     \* is config->timeout > 0 after parsing?
  HasDefault,  \* is config->boot_default an index of config->bentry_list?
  MaxCalls,    \* bound: calls of userinterface() from main()
  MaxSignals   \* bound: SIGUSR1 sent by one client in one call

ASSUME NAssumption == N \in Nat
ASSUME ChunksAssumption == Chunks \in Nat \ {0}
ASSUME FlagAssumption == Timeout \in BOOLEAN /\ HasDefault \in BOOLEAN
ASSUME BoundAssumption == MaxCalls \in Nat \ {0} /\ MaxSignals \in Nat

Clients == 1..N
Default == 0                 \* the value of boot when ui_timeout() filled it

UiStatus == {"running", "clean", "problem"}    \* enum ui_status

VARIABLES
  pc,         \* where the parent is
  next,       \* i, the client the start loop creates next
  status,     \* u[c].status
  collected,  \* u[c].collected_str, in chunks
  waitset,    \* clients put into read_fd_set by build_waitset()
  ready,      \* clients select() reported and the service loop has still to visit
  endtime,    \* endtime > 0
  timeout,    \* config->timeout > 0
  rcvd_sig,   \* the last signal default_sig_hdlr() saw; never reset
  handlers,   \* are the SIGALRM and SIGUSR1 handlers installed?
  retval,     \* "none" until the outcome of this call is decided
  boot,       \* the client whose entry was taken, or Default
  calls,      \* calls of userinterface() so far
  timer,      \* the process's alarm: "off" or "armed"
  cstate,     \* life cycle of the client processes
  sig,        \* strongest signal sent to a client: "none", "term", "kill"
  exitok,     \* did the client exit with status 0?
  written,    \* chunks the client has written to its pipe
  touched,    \* SIGUSR1 signals the client has sent
  received    \* history: SIGUSR1 reached the handler while this call was waiting

parentVars == <<next, status, collected, waitset, ready, endtime, timeout,
                handlers, retval, boot, calls>>
clientVars == <<cstate, sig, exitok, written, touched>>
vars == <<pc, next, status, collected, waitset, ready, endtime, timeout, handlers, retval,
          boot, calls, rcvd_sig, timer, cstate, sig, exitok, written, touched, received>>

WaitPcs == {"build", "enter", "blocked", "eintr", "read", "check"}
CleanupPcs == {"term", "reap", "grace", "kill", "reapKilled"}
ReturnPcs == {"loader", "exit"}
Pcs == {"call", "start", "dead"} \cup WaitPcs \cup CleanupPcs \cup ReturnPcs

\* "none": pid 0, not started.  "nopid": pid -1, fork() failed.  "child": forked.
\* "failing", "failWait": execl() failed and the child runs the cleanup code.
\* "exiting": descriptors closed, not yet waitable.
LiveStates == {"child", "failing", "failWait", "running"}
ClientStates == {"none", "nopid", "exiting", "zombie", "reaped"} \cup LiveStates

Live(c) == cstate[c] \in LiveStates
Exists(c) == Live(c) \/ cstate[c] \in {"exiting", "zombie"}   \* kill(pid, 0) == 0
ChildrenLeft == \E c \in Clients : Live(c) \/ cstate[c] = "exiting"
Readable(c) == written[c] > collected[c] \/ cstate[c] \in {"exiting", "zombie", "reaped"}

\* The client has left a complete entry in its pipe and exited with status 0.
Delivered(c) ==
  /\ cstate[c] \in {"exiting", "zombie", "reaped"}
  /\ exitok[c]
  /\ written[c] = Chunks

-----------------------------------------------------------------------------
(* The parent: start up *)

Init ==
  /\ pc = "call" /\ next = 1
  /\ status = [c \in Clients |-> "problem"]
  /\ collected = [c \in Clients |-> 0]
  /\ waitset = {} /\ ready = {}
  /\ endtime = FALSE /\ timeout = Timeout
  /\ rcvd_sig = "none" /\ handlers = FALSE
  /\ retval = "none" /\ boot = Default /\ calls = 1
  /\ timer = "off"
  /\ cstate = [c \in Clients |-> "none"]
  /\ sig = [c \in Clients |-> "none"]
  /\ exitok = [c \in Clients |-> FALSE]
  /\ written = [c \in Clients |-> 0]
  /\ touched = [c \in Clients |-> 0]
  /\ received = FALSE

\* goto cleanup_and_return with CFG_RETURN_ERROR
Fail == retval' = "error" /\ pc' = "term"

\* "useless to continue if no timeout and no ui"
EnterUserinterface ==
  /\ pc = "call"
  /\ IF ~timeout /\ N = 0
     THEN Fail
     ELSE pc' = "start" /\ UNCHANGED retval
  /\ UNCHANGED <<next, status, collected, waitset, ready, endtime, timeout,
                 handlers, boot, calls, rcvd_sig, timer, clientVars, received>>

StartClient ==
  /\ pc = "start" /\ next <= N
  /\ next' = next + 1
  /\ status' = [status EXCEPT ![next] = "running"]
  /\ cstate' = [cstate EXCEPT ![next] = "child"]
  /\ UNCHANGED <<pc, collected, waitset, ready, endtime, timeout, handlers, retval,
                 boot, calls, rcvd_sig, timer, sig, exitok, written, touched, received>>

PipeFails ==
  /\ pc = "start" /\ next <= N
  /\ Fail
  /\ UNCHANGED <<next, status, collected, waitset, ready, endtime, timeout, handlers,
                 boot, calls, rcvd_sig, timer, clientVars, received>>

\* u[i].pid is -1 and u[i].status stays UI_RUNNING ("assume the fork will work")
ForkFails ==
  /\ pc = "start" /\ next <= N
  /\ Fail
  /\ status' = [status EXCEPT ![next] = "running"]
  /\ cstate' = [cstate EXCEPT ![next] = "nopid"]
  /\ UNCHANGED <<next, collected, waitset, ready, endtime, timeout, handlers, boot,
                 calls, rcvd_sig, timer, sig, exitok, written, touched, received>>

InstallHandlers ==
  /\ pc = "start" /\ next > N
  /\ handlers' = TRUE
  /\ endtime' = timeout
  /\ pc' = "build"
  /\ UNCHANGED <<next, status, collected, waitset, ready, timeout, retval, boot,
                 calls, rcvd_sig, timer, clientVars, received>>

-----------------------------------------------------------------------------
(* The parent: waiting for a selection *)

\* build_waitset() and the alarm() of ui_select(): the timer is set anew, or
\* cancelled, each time round the loop.
BuildWaitset ==
  /\ pc = "build"
  /\ waitset' = {c \in Clients : Exists(c)}
  /\ timer' = IF endtime THEN "armed" ELSE "off"
  /\ pc' = "enter"
  /\ UNCHANGED <<next, status, collected, ready, endtime, timeout, handlers, retval,
                 boot, calls, rcvd_sig, clientVars, received>>

\* A signal that comes before this step does not interrupt select().
EnterSelect ==
  /\ pc = "enter"
  /\ pc' = "blocked"
  /\ UNCHANGED <<parentVars, rcvd_sig, timer, clientVars, received>>

SelectReady ==
  /\ pc = "blocked"
  /\ ready' = {c \in waitset : Readable(c)}
  /\ ready' # {}
  /\ pc' = "read"
  /\ UNCHANGED <<next, status, collected, waitset, endtime, timeout, handlers, retval,
                 boot, calls, rcvd_sig, timer, clientVars, received>>

\* select() fails for another reason than a signal
SelectFails ==
  /\ pc = "blocked"
  /\ Fail
  /\ UNCHANGED <<next, status, collected, waitset, ready, endtime, timeout, handlers,
                 boot, calls, rcvd_sig, timer, clientVars, received>>

\* Mutant: config->timeout is cleared but the end time of this call is kept.
StopTimeoutKeepsEndtime ==
  /\ pc = "eintr" /\ rcvd_sig = "USR1"
  /\ timeout' = IF endtime THEN FALSE ELSE timeout
  /\ pc' = "build"
  /\ UNCHANGED <<next, status, collected, waitset, ready, endtime, handlers, retval, boot,
                 calls, rcvd_sig, timer, clientVars, received>>

\* SIGUSR1: switch the timeout off, also for later calls.
StopTimeout ==
  /\ pc = "eintr" /\ rcvd_sig = "USR1"
  /\ timeout' = IF endtime THEN FALSE ELSE timeout
  /\ endtime' = FALSE
  /\ pc' = "build"
  /\ UNCHANGED <<next, status, collected, waitset, ready, handlers, retval, boot,
                 calls, rcvd_sig, timer, clientVars, received>>

\* Mutant: without a default entry the wait goes on.
UiTimeoutWaitsOn ==
  /\ pc = "eintr" /\ rcvd_sig # "USR1"
  /\ IF HasDefault
     THEN retval' = "ok" /\ boot' = Default /\ pc' = "term"
     ELSE pc' = "build" /\ UNCHANGED <<retval, boot>>
  /\ UNCHANGED <<next, status, collected, waitset, ready, endtime, timeout, handlers,
                 calls, rcvd_sig, timer, clientVars, received>>

\* Any other signal counts as the timeout.
UiTimeout ==
  /\ pc = "eintr" /\ rcvd_sig # "USR1"
  /\ IF HasDefault
     THEN retval' = "ok" /\ boot' = Default
     ELSE retval' = "error" /\ UNCHANGED boot
  /\ pc' = "term"
  /\ UNCHANGED <<next, status, collected, waitset, ready, endtime, timeout, handlers,
                 calls, rcvd_sig, timer, clientVars, received>>

\* The descriptor loop visits the ready clients in ascending order.
Current(c) == c \in ready /\ \A d \in ready : c <= d

\* Mutant: end of file is taken for data.
ReadFromClientPastEnd ==
  /\ pc = "read"
  /\ \E c \in ready : Current(c) /\ collected' = [collected EXCEPT ![c] = @ + 1]
  /\ pc' = "check"
  /\ UNCHANGED <<next, status, waitset, ready, endtime, timeout, handlers, retval, boot,
                 calls, rcvd_sig, timer, clientVars, received>>

\* read_from_client(): one read(), which returns a chunk or end of file
ReadFromClient ==
  /\ pc = "read"
  /\ \E c \in ready :
       /\ Current(c)
       /\ collected' = [collected EXCEPT ![c] = IF written[c] > @ THEN @ + 1 ELSE @]
  /\ pc' = "check"
  /\ UNCHANGED <<next, status, waitset, ready, endtime, timeout, handlers, retval, boot,
                 calls, rcvd_sig, timer, clientVars, received>>

\* waitpid(WAIT_ANY, WNOHANG) until it returns 0 or -1.  The last return value is
\* also looked up as a pid: 0 matches clients never started, -1 (no child left)
\* a failed fork; they take the status of whoever was reaped last.
StatusAfterReap(c) ==
  IF cstate[c] = "zombie" THEN {IF exitok[c] THEN "clean" ELSE "problem"}
  ELSE IF cstate[c] = (IF ChildrenLeft THEN "none" ELSE "nopid") THEN {"clean", "problem"}
  ELSE {status[c]}

RemoveTerminatedClients ==
  /\ status' \in {s \in [Clients -> UiStatus] : \A c \in Clients : s[c] \in StatusAfterReap(c)}
  /\ cstate' = [c \in Clients |-> IF cstate[c] = "zombie" THEN "reaped" ELSE cstate[c]]

\* Mutant: the entry of a client that has not ended is accepted.
CheckInputWhileRunning ==
  /\ pc = "check"
  /\ RemoveTerminatedClients
  /\ \E c \in ready :
       /\ Current(c)
       /\ IF collected[c] = Chunks
          THEN /\ retval' = "ok" /\ boot' = c
               /\ pc' = "term"
               /\ UNCHANGED ready
          ELSE /\ ready' = ready \ {c}
               /\ pc' = IF ready' = {} THEN "build" ELSE "read"
               /\ UNCHANGED <<retval, boot>>
  /\ UNCHANGED <<next, collected, waitset, endtime, timeout, handlers, calls, rcvd_sig,
                 timer, sig, exitok, written, touched, received>>

\* Mutant: the status is tested as it was before the client was reaped.
CheckInputBeforeReap ==
  /\ pc = "check"
  /\ RemoveTerminatedClients
  /\ \E c \in ready :
       /\ Current(c)
       /\ IF status[c] = "clean" /\ collected[c] = Chunks
          THEN /\ retval' = "ok" /\ boot' = c
               /\ pc' = "term"
               /\ UNCHANGED ready
          ELSE /\ ready' = ready \ {c}
               /\ pc' = IF ready' = {} THEN "build" ELSE "read"
               /\ UNCHANGED <<retval, boot>>
  /\ UNCHANGED <<next, collected, waitset, endtime, timeout, handlers, calls, rcvd_sig,
                 timer, sig, exitok, written, touched, received>>

\* The rest of check_input_from_client(): every terminated client is reaped, then
\* the entry of the current one is parsed if that client has ended with success.
CheckInputFromClient ==
  /\ pc = "check"
  /\ RemoveTerminatedClients
  /\ \E c \in ready :
       /\ Current(c)
       /\ IF status'[c] = "clean" /\ collected[c] = Chunks
          THEN /\ retval' = "ok" /\ boot' = c
               /\ pc' = "term"
               /\ UNCHANGED ready
          ELSE /\ ready' = ready \ {c}
               /\ pc' = IF ready' = {} THEN "build" ELSE "read"
               /\ UNCHANGED <<retval, boot>>
  /\ UNCHANGED <<next, collected, waitset, endtime, timeout, handlers, calls, rcvd_sig,
                 timer, sig, exitok, written, touched, received>>

-----------------------------------------------------------------------------
(* The parent: cleanup_and_return *)

Stronger(old, new) == IF old = "kill" THEN old ELSE new

\* kill(u[c].pid, s) for the clients in S that are still "running"; pid -1, left by
\* a failed fork, addresses every process of the system.
SignalClients(S, s) ==
  LET everyone == \E c \in S : cstate[c] = "nopid" IN
  sig' = [c \in Clients |-> IF Live(c) /\ (c \in S \/ everyone)
                            THEN Stronger(sig[c], s) ELSE sig[c]]

\* Mutant: the loop stops before the last client.
StillRunningButLast == {c \in Clients : c < N /\ status[c] = "running"}

StillRunning == {c \in Clients : status[c] = "running"}

TermClients ==
  /\ pc = "term"
  /\ SignalClients(StillRunning, "term")
  /\ pc' = "reap"
  /\ UNCHANGED <<parentVars, rcvd_sig, timer, cstate, exitok, written, touched,
                 received>>

\* Mutant: waitpid() without WNOHANG.
ReapTerminatedBlocking ==
  /\ pc = "reap"
  /\ ~ChildrenLeft
  /\ RemoveTerminatedClients
  /\ pc' = IF \E c \in Clients : status'[c] = "running" THEN "grace" ELSE "kill"
  /\ UNCHANGED <<next, collected, waitset, ready, endtime, timeout, handlers, retval, boot,
                 calls, rcvd_sig, timer, sig, exitok, written, touched, received>>

\* Wait UI_KILL_TIMEOUT seconds if a client is left, "only once".
ReapTerminated ==
  /\ pc = "reap"
  /\ RemoveTerminatedClients
  /\ pc' = IF \E c \in Clients : status'[c] = "running" THEN "grace" ELSE "kill"
  /\ UNCHANGED <<next, collected, waitset, ready, endtime, timeout, handlers, retval, boot,
                 calls, rcvd_sig, timer, sig, exitok, written, touched, received>>

GraceElapses ==
  /\ pc = "grace"
  /\ pc' = "kill"
  /\ UNCHANGED <<parentVars, rcvd_sig, timer, clientVars, received>>

KillClients ==
  /\ pc = "kill"
  /\ SignalClients(StillRunning, "kill")
  /\ pc' = "reapKilled"
  /\ UNCHANGED <<parentVars, rcvd_sig, timer, cstate, exitok, written, touched,
                 received>>

\* main() enters loader() with the selection, or exits.
ReapKilledAndReturn ==
  /\ pc = "reapKilled"
  /\ RemoveTerminatedClients
  /\ pc' = IF retval = "ok" THEN "loader" ELSE "exit"
  /\ UNCHANGED <<next, collected, waitset, ready, endtime, timeout, handlers, retval, boot,
                 calls, rcvd_sig, timer, sig, exitok, written, touched, received>>

\* loader() came back, so the boot failed and main() asks again.  The clients of
\* the old call were sent SIGKILL; u[] is allocated anew.
LoaderReturns ==
  /\ pc = "loader" /\ calls < MaxCalls
  /\ calls' = calls + 1
  /\ pc' = "call" /\ next' = 1 /\ retval' = "none" /\ boot' = Default
  /\ status' = [c \in Clients |-> "problem"]
  /\ collected' = [c \in Clients |-> 0]
  /\ waitset' = {} /\ ready' = {} /\ endtime' = FALSE
  /\ cstate' = [c \in Clients |-> "none"]
  /\ sig' = [c \in Clients |-> "none"]
  /\ exitok' = [c \in Clients |-> FALSE]
  /\ written' = [c \in Clients |-> 0]
  /\ touched' = [c \in Clients |-> 0]
  /\ received' = FALSE
  /\ UNCHANGED <<timeout, handlers, rcvd_sig, timer>>

-----------------------------------------------------------------------------
(* Signals to the parent *)

\* default_sig_hdlr() stores the number.  It ends select() only when the parent is
\* blocked there and no descriptor is ready; it also ends the grace period.
DefaultSigHdlr(s) ==
  /\ rcvd_sig' = s
  /\ pc' = IF pc = "blocked" /\ ~(\E c \in waitset : Readable(c)) THEN "eintr"
           ELSE IF pc = "grace" THEN "kill" ELSE pc

AlarmFires ==
  /\ timer = "armed" /\ pc \notin {"dead", "exit"}
  /\ timer' = "off"
  /\ DefaultSigHdlr("ALRM")
  /\ UNCHANGED <<parentVars, clientVars, received>>

\* The user typed something and the client sends SIGUSR1 to the pid in CFG_PIDFILE.
\* Without a handler the signal terminates the System Loader.
UserInteracts(c) ==
  /\ cstate[c] = "running" /\ sig[c] # "kill"
  /\ touched[c] < MaxSignals /\ pc \notin {"dead", "exit"}
  /\ touched' = [touched EXCEPT ![c] = @ + 1]
  /\ IF handlers
     THEN DefaultSigHdlr("USR1") /\ received' = (received \/ pc \in WaitPcs)
     ELSE pc' = "dead" /\ UNCHANGED <<rcvd_sig, received>>
  /\ UNCHANGED <<parentVars, timer, cstate, sig, exitok, written>>

-----------------------------------------------------------------------------
(* The clients *)

ParentUntouched == UNCHANGED parentVars /\ UNCHANGED <<pc, rcvd_sig, timer, touched, received>>

Exec(c) ==
  /\ cstate[c] = "child" /\ sig[c] # "kill"
  /\ cstate' = [cstate EXCEPT ![c] = "running"]
  /\ ParentUntouched /\ UNCHANGED <<sig, exitok, written>>

ExecFails(c) ==
  /\ cstate[c] = "child" /\ sig[c] # "kill"
  /\ cstate' = [cstate EXCEPT ![c] = "failing"]
  /\ ParentUntouched /\ UNCHANGED <<sig, exitok, written>>

\* In the child, u[] says UI_RUNNING for every client started before it.
SignalElderSiblings(c, s) ==
  [d \in Clients |-> IF d < c /\ Live(d) THEN Stronger(sig[d], s) ELSE sig[d]]

FailedChildTerms(c) ==
  /\ cstate[c] = "failing" /\ sig[c] # "kill"
  /\ sig' = SignalElderSiblings(c, "term")
  /\ cstate' = [cstate EXCEPT ![c] = "failWait"]
  /\ ParentUntouched /\ UNCHANGED <<exitok, written>>

FailedChildKills(c) ==
  /\ cstate[c] = "failWait" /\ sig[c] # "kill"
  /\ sig' = SignalElderSiblings(c, "kill")
  /\ cstate' = [cstate EXCEPT ![c] = "exiting"]
  /\ exitok' = [exitok EXCEPT ![c] = FALSE]
  /\ ParentUntouched /\ UNCHANGED <<written>>

WriteChunk(c) ==
  /\ cstate[c] = "running" /\ sig[c] # "kill"
  /\ written[c] < Chunks
  /\ written' = [written EXCEPT ![c] = @ + 1]
  /\ ParentUntouched /\ UNCHANGED <<cstate, sig, exitok>>

\* The client exits by itself, with success or not, whatever it has written; a
\* SIGTERM handler that calls exit() is the same step.
ExitClient(c) ==
  /\ cstate[c] = "running" /\ sig[c] # "kill"
  /\ \E ok \in BOOLEAN : exitok' = [exitok EXCEPT ![c] = ok]
  /\ cstate' = [cstate EXCEPT ![c] = "exiting"]
  /\ ParentUntouched /\ UNCHANGED <<sig, written>>

Die(c) ==
  /\ exitok' = [exitok EXCEPT ![c] = FALSE]
  /\ cstate' = [cstate EXCEPT ![c] = "exiting"]
  /\ ParentUntouched /\ UNCHANGED <<sig, written>>

\* SIGTERM with its default action; a client may also handle or ignore it
DieFromTerm(c) == Live(c) /\ sig[c] = "term" /\ Die(c)

DieFromKill(c) == Live(c) /\ sig[c] = "kill" /\ Die(c)

BecomeZombie(c) ==
  /\ cstate[c] = "exiting"
  /\ cstate' = [cstate EXCEPT ![c] = "zombie"]
  /\ ParentUntouched /\ UNCHANGED <<sig, exitok, written>>

-----------------------------------------------------------------------------
\* What the parent does by itself once it is scheduled; a start up failure is one of
\* the outcomes of the step it belongs to.
ParentStep ==
  \/ EnterUserinterface \/ StartClient \/ PipeFails \/ ForkFails \/ InstallHandlers
  \/ BuildWaitset \/ EnterSelect \/ SelectReady \/ StopTimeout \/ UiTimeout
  \/ ReadFromClient \/ CheckInputFromClient
  \/ TermClients \/ ReapTerminated \/ GraceElapses \/ KillClients \/ ReapKilledAndReturn

\* What a client process does without its user
ClientStep(c) ==
  \/ Exec(c) \/ ExecFails(c) \/ FailedChildTerms(c) \/ FailedChildKills(c)
  \/ DieFromKill(c) \/ BecomeZombie(c)

Client(c) ==
  \/ ClientStep(c)
  \/ UserInteracts(c) \/ WriteChunk(c) \/ ExitClient(c) \/ DieFromTerm(c)

Next ==
  \/ ParentStep
  \/ SelectFails
  \/ LoaderReturns
  \/ AlarmFires
  \/ \E c \in Clients : Client(c)

Spec == Init /\ [][Next]_vars

\* The scheduler runs the parent and the clients, and an alarm that is set expires.
\* Nothing forces a user to type, a client to answer or to obey SIGTERM, select() to
\* fail, or loader() to come back.
Fairness ==
  /\ WF_vars(ParentStep)
  /\ WF_vars(AlarmFires)
  /\ \A c \in Clients : WF_vars(ClientStep(c))

FairSpec == Spec /\ Fairness

-----------------------------------------------------------------------------
(* Properties *)

\* The variables keep their types; no client has more collected or written than an entry,
\* no start index, call counter or signal counter leaves its bound.
TypeOK ==
  /\ pc \in Pcs /\ next \in 1..(N + 1)
  /\ status \in [Clients -> UiStatus]
  /\ collected \in [Clients -> 0..Chunks] /\ written \in [Clients -> 0..Chunks]
  /\ waitset \subseteq Clients /\ ready \subseteq Clients
  /\ endtime \in BOOLEAN /\ timeout \in BOOLEAN /\ handlers \in BOOLEAN
  /\ rcvd_sig \in {"none", "USR1", "ALRM"}
  /\ retval \in {"none", "ok", "error"} /\ boot \in 0..N
  /\ calls \in 1..MaxCalls
  /\ timer \in {"off", "armed"}
  /\ cstate \in [Clients -> ClientStates]
  /\ sig \in [Clients -> {"none", "term", "kill"}]
  /\ exitok \in [Clients -> BOOLEAN]
  /\ touched \in [Clients -> 0..MaxSignals]
  /\ received \in BOOLEAN

\* An entry is booted only if its client wrote all of it and exited with status 0,
\* however reads, exits and reaping interleave (check_input_from_client).
SelectionIsComplete ==
  retval = "ok" /\ boot # Default => Delivered(boot)

\* The default entry is booted only while the timeout is configured: a timeout that
\* was stopped stays stopped for the rest of this call and in all later calls, even
\* though the alarm of an earlier round may still fire (endtime, config->timeout).
DefaultNeedsTimeout ==
  retval = "ok" /\ boot = Default => timeout /\ HasDefault

\* When userinterface() returns, no client process survives: each one has ended or has
\* SIGKILL pending, also after a start up failure (cleanup_and_return).
NoSurvivors ==
  pc \in ReturnPcs => \A c \in Clients : Live(c) => sig[c] = "kill"

\* A client with a complete entry is not reaped and then forgotten while the parent
\* goes back to waiting (check_input_from_client, build_waitset).
NoSelectionDropped ==
  pc \in {"build", "enter", "blocked"} =>
    \A c \in Clients : ~(Delivered(c) /\ cstate[c] = "reaped")

\* Once SIGUSR1 was received while waiting, the timeout does not boot the default.
StopIsHonoured ==
  received => ~(retval = "ok" /\ boot = Default)

\* No SIGALRM was lost between alarm() and select().
AlarmNotMissed ==
  pc = "blocked" /\ endtime /\ timer = "off" => \E c \in waitset : Readable(c)

NobodyInteracts == \A c \in Clients : touched[c] = 0

\* With a timeout, if no user interacts and no alarm is lost between alarm() and
\* select(), userinterface() returns: clients that start, write, exit or crash restart
\* the alarm but cannot keep it from ending the wait (ui_select, ui_timeout).
TimeoutEndsWait ==
  []NobodyInteracts /\ []AlarmNotMissed => <>(pc \in ReturnPcs)

\* After the decision userinterface() always returns: cleanup waits for no client,
\* not even for one that ignores SIGTERM (cleanup_and_return).
CleanupEnds == retval # "none" ~> pc \in ReturnPcs \cup {"dead"}

\* No client but c has written anything or ended.
OthersQuiet(c) == \A d \in Clients \ {c} : written[d] = 0 /\ (Live(d) \/ cstate[d] = "none")

\* A complete entry that fits one read() ends the wait while the other clients are quiet,
\* whatever the order in which the parent sees the data, the end of file and the exit of
\* the client (read_from_client, check_input_from_client, build_waitset).
DeliveryEndsWait ==
  \A c \in Clients : []OthersQuiet(c) => (Delivered(c) ~> retval # "none" \/ pc = "dead")

-----------------------------------------------------------------------------
(* What userinterface() promises, and the mapping to it *)

Selection == INSTANCE UiSelection WITH
  offers <- {c \in Clients : Delivered(c)},
  enabled <- timeout,
  outcome <- retval,
  choice <- boot

\* The detailed waiting loop implements the selection contract.
ImplementsSelection == Selection!Spec
=============================================================================
