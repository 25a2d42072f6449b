------------------------------ MODULE CompLoad ------------------------------
(***************************************************************************)
(* comp_load() (core/comp_load.c): the System Loader starts a component    *)
(* loader module for a URI and collects what it writes to its standard     *)
(* output and standard error through two pipes.  The alarm that            *)
(* userinterface() may have left pending can interrupt its select().       *)
(* A URI is the sequence of the classes of its characters; output is       *)
(* counted in units.                                                       *)
(***************************************************************************)
EXTENDS Integers, Sequences

CONSTANTS
  Uris,       \* sequences of "alpha", "digit", "mark" (one of + - .), "colon", "other"
  Cap,        \* what a pipe holds
  Chunk,      \* what one read() takes at most
  MaxOutput   \* bound: what a module writes to one stream

ASSUME PipeAssumption == Cap \in Nat \ {0} /\ Chunk \in Nat \ {0} /\ MaxOutput \in Nat

Streams == {"stdout", "stderr"}
Success == "success"
Failure == "failure"

VARIABLES
  uri,
  pc,           \* "verify", "fork", "select", "stdout" and "stderr" (its read()), "wait", "done"
  read_set, read_flags,
  collected,    \* int_info and int_errmsg
  ret,
  child,        \* "none", "exec", "running", in write(): "stdout" or "stderr", "gone"
  status,       \* of the child
  pipe,         \* units in the pipes
  written,      \* units the child has written
  leftover,     \* the status of a client that nobody has waited for, or "none"
  alarm,        \* an alarm is pending
  interrupted   \* history: the alarm interrupted select()

compVars == <<uri, pc, read_set, read_flags, collected, ret, child, status, pipe, written,
              leftover, alarm, interrupted>>

CompLoadInit ==
  /\ uri \in Uris /\ pc = "verify" /\ read_set = Streams /\ read_flags = {}
  /\ collected = [s \in Streams |-> 0] /\ ret = "unset"
  /\ child = "none" /\ status = "unset"
  /\ pipe = [s \in Streams |-> 0] /\ written = [s \in Streams |-> 0]
  /\ leftover \in {"none", Success, Failure}
  /\ alarm \in BOOLEAN /\ interrupted = FALSE

\* verify_uri_scheme()
VerifyUriScheme(u) ==
  \E colon \in 1..Len(u) :
    /\ u[colon] = "colon" /\ u[1] = "alpha"
    /\ \A i \in 2..(colon - 1) : u[i] \in {"alpha", "digit", "mark"}

Refused == pc' = "done" /\ ret' = Failure

Verify ==
  /\ pc = "verify"
  /\ IF VerifyUriScheme(uri)
     THEN pc' = "fork" /\ UNCHANGED ret
     ELSE Refused
  /\ UNCHANGED <<uri, read_set, read_flags, collected, child, status, pipe, written,
                 leftover, alarm, interrupted>>

Fork ==
  /\ pc = "fork"
  /\ child' = "exec" /\ pc' = "select"
  /\ UNCHANGED <<uri, read_set, read_flags, collected, ret, status, pipe, written, leftover,
                 alarm, interrupted>>

\* pid is -1 and nobody has the write ends of the pipes
ForkFails ==
  /\ pc = "fork"
  /\ pc' = "select"
  /\ UNCHANGED <<uri, read_set, read_flags, collected, ret, child, status, pipe, written,
                 leftover, alarm, interrupted>>

-----------------------------------------------------------------------------
(* The System Loader reads *)

AtEnd(s) == pipe[s] = 0 /\ child \in {"none", "gone"}
Readable(s) == pipe[s] > 0 \/ AtEnd(s)

\* Mutant: one ready stream is taken for both.
ReadyAll == read_set

Ready == {s \in read_set : Readable(s)}

Select ==
  /\ pc = "select" /\ \E s \in read_set : Readable(s)
  /\ read_set' = Ready
  /\ pc' = "stdout"
  /\ UNCHANGED <<uri, read_flags, collected, ret, child, status, pipe, written, leftover,
                 alarm, interrupted>>

\* EINTR is not looked at and the sets are left as they were.
Interrupt ==
  /\ pc = "select" /\ alarm
  /\ alarm' = FALSE /\ interrupted' = TRUE
  /\ pc' = "stdout"
  /\ UNCHANGED <<uri, read_set, read_flags, collected, ret, child, status, pipe, written,
                 leftover>>

\* At any other place the handler only notes the signal; read() and wait4() are restarted.
Alarm ==
  /\ pc # "select" /\ alarm
  /\ alarm' = FALSE
  /\ UNCHANGED <<uri, pc, read_set, read_flags, collected, ret, child, status, pipe, written,
                 leftover, interrupted>>

\* Mutant: the loop ends with the first stream that ends.
LoopEndsEarly(flags) == flags # {}

LoopEnds(flags) == flags = Streams

\* The next stream is read, or the loop is left or starts again
AfterRead(s) ==
  IF s = "stdout" THEN pc' = "stderr" /\ UNCHANGED read_set
  ELSE /\ pc' = IF LoopEnds(read_flags') THEN "wait" ELSE "select"
       /\ read_set' = Streams \ read_flags'

Smaller(m, n) == IF m < n THEN m ELSE n

\* Mutant: the end of the other stream is forgotten.
EndedOnly(s) == {s}

Ended(s) == read_flags \cup {s}

ReadToString(s) ==
  /\ pc = s /\ s \in read_set /\ Readable(s)
  /\ LET n == Smaller(Chunk, pipe[s])
     IN /\ pipe' = [pipe EXCEPT ![s] = @ - n]
        /\ collected' = [collected EXCEPT ![s] = @ + n]
        /\ read_flags' = IF n = 0 THEN Ended(s) ELSE read_flags
  /\ AfterRead(s)
  /\ UNCHANGED <<uri, ret, child, status, written, leftover, alarm, interrupted>>

NotSelected(s) ==
  /\ pc = s /\ s \notin read_set
  /\ UNCHANGED read_flags /\ AfterRead(s)
  /\ UNCHANGED <<uri, collected, ret, child, status, pipe, written, leftover, alarm,
                 interrupted>>

Wait4 ==
  /\ pc = "wait" /\ child = "gone"
  /\ ret' = IF status = Success THEN Success ELSE Failure
  /\ pc' = "done"
  /\ UNCHANGED <<uri, read_set, read_flags, collected, child, status, pipe, written,
                 leftover, alarm, interrupted>>

\* Without a child wait4(-1) takes any client, or leaves the status uninitialised.
Wait4Any ==
  /\ pc = "wait" /\ child = "none"
  /\ ret' \in IF leftover = "none" THEN {Success, Failure} ELSE {leftover}
  /\ leftover' = "none"
  /\ pc' = "done"
  /\ UNCHANGED <<uri, read_set, read_flags, collected, child, status, pipe, written, alarm,
                 interrupted>>

-----------------------------------------------------------------------------
(* The child *)

Exec ==
  /\ child = "exec"
  /\ child' = "running"
  /\ UNCHANGED <<uri, pc, read_set, read_flags, collected, ret, status, pipe, written,
                 leftover, alarm, interrupted>>

Put(s) ==
  /\ pipe' = [pipe EXCEPT ![s] = @ + 1]
  /\ written' = [written EXCEPT ![s] = @ + 1]

\* There is no such module: a message, then _exit(127)
ExecFails ==
  /\ child = "exec"
  /\ Put("stderr")
  /\ child' = "gone" /\ status' = Failure
  /\ UNCHANGED <<uri, pc, read_set, read_flags, collected, ret, leftover, alarm, interrupted>>

BeginWrite(s) ==
  /\ child = "running" /\ written[s] < MaxOutput
  /\ child' = s
  /\ UNCHANGED <<uri, pc, read_set, read_flags, collected, ret, status, pipe, written,
                 leftover, alarm, interrupted>>

\* write() blocks while the pipe is full.
Write(s) ==
  /\ child = s /\ pipe[s] < Cap
  /\ Put(s)
  /\ child' = "running"
  /\ UNCHANGED <<uri, pc, read_set, read_flags, collected, ret, status, leftover, alarm,
                 interrupted>>

\* The module ends, or a signal ends it (Failure).
Exit(st) ==
  /\ child = "running"
  /\ child' = "gone" /\ status' = st
  /\ UNCHANGED <<uri, pc, read_set, read_flags, collected, ret, pipe, written, leftover, alarm,
                 interrupted>>

Parent ==
  \/ Verify \/ Fork \/ ForkFails \/ Select
  \/ \E s \in Streams : ReadToString(s) \/ NotSelected(s)
  \/ Wait4 \/ Wait4Any

Child ==
  \/ Exec \/ ExecFails
  \/ \E s \in Streams : BeginWrite(s) \/ Write(s)
  \/ \E st \in {Success, Failure} : Exit(st)

CompLoadNext == Parent \/ Child \/ Interrupt \/ Alarm

\* Fairness: the System Loader goes on whenever it is not blocked, and so does the module,
\* which writes no more than MaxOutput and ends.  No alarm need ever fire.
CompLoadSpec ==
  CompLoadInit /\ [][CompLoadNext]_compVars /\ WF_compVars(Parent) /\ WF_compVars(Child)
-----------------------------------------------------------------------------
(* Properties *)

\* When a module was started, comp_load() returns success exactly if the module ended
\* with success, and by then it has collected everything the module wrote to either
\* stream, in whatever order the two streams were filled, read and closed, and whether
\* or not select() was interrupted.
ResultIsTheModules ==
  pc = "done" /\ child # "none" =>
    /\ child = "gone" /\ ret = status
    /\ collected = written

\* The System Loader waits in read() for a stream that has nothing to read only if the
\* alarm has interrupted select(): without it the two can never wait for each other.
ReadsWhatIsReady ==
  \A s \in Streams : pc = s /\ s \in read_set /\ ~Readable(s) => interrupted

\* Each waits for the other: nothing to read here, no room to write there.
Stuck ==
  \E s, t \in Streams : /\ pc = s /\ s \in read_set /\ ~Readable(s)
                        /\ child = t /\ pipe[t] = Cap

\* comp_load() returns, or the two are stuck, which ReadsWhatIsReady allows only after
\* the alarm has interrupted select(): the module wrote more to one stream than its pipe
\* holds while the System Loader waited for the other.
LoadEnds == <>(pc = "done" \/ Stuck)
=============================================================================
