--------------------------- MODULE UiControlProofs ---------------------------
(***************************************************************************)
(* Proofs about UiControl for any number of clients, any entry length and  *)
(* any number of calls: the selection contract of UiSelection, the stopped *)
(* timeout, and the termination of all clients.                            *)
(***************************************************************************)
EXTENDS UiControl, TLAPS

(* The inductive invariant, by topic *)

\* The parent never reads more than was written.
ReadsBounded == \A c \in Clients : collected[c] <= written[c]

\* The start loop has reached exactly the clients below next.
StartOrder ==
  /\ pc = "call" => next = 1
  /\ pc \in {"call", "start"} =>
       \A c \in Clients : cstate[c] \notin {"nopid"} /\ (cstate[c] = "none" <=> c >= next)
  /\ pc \in WaitPcs => \A c \in Clients : cstate[c] \notin {"none", "nopid"}

\* u[c].status is the parent's view of the process: a process that exists is
\* "running", a reaped one has the status of its exit.
StatusTracksProcess ==
  \A c \in Clients :
    /\ Exists(c) => status[c] = "running"
    /\ cstate[c] = "reaped" => status[c] = IF exitok[c] THEN "clean" ELSE "problem"

\* No outcome while the call is waiting, and one afterwards.
OutcomeByPhase ==
  /\ pc \in {"call", "start"} \cup WaitPcs => retval = "none"
  /\ pc \in CleanupPcs \cup ReturnPcs => retval # "none"
  /\ pc = "loader" => retval = "ok"

\* A select() interrupted by the alarm means that the timeout is still running.
AlarmMeansTimeout ==
  /\ pc \in WaitPcs /\ endtime => timeout
  /\ pc \in {"enter", "blocked", "eintr"} /\ ~endtime => timer = "off"
  /\ pc = "eintr" /\ rcvd_sig # "USR1" => endtime

\* SIGKILL has been sent to every client that is still alive.
AllKilled ==
  pc \in {"reapKilled"} \cup ReturnPcs => \A c \in Clients : Live(c) => sig[c] = "kill"

\* The topics together, with the two safety properties that need them
Parts ==
  /\ ReadsBounded /\ StartOrder /\ StatusTracksProcess /\ OutcomeByPhase
  /\ AlarmMeansTimeout /\ AllKilled /\ SelectionIsComplete /\ DefaultNeedsTimeout

\* The inductive invariant of userinterface()
IInv == TypeOK /\ Parts

-----------------------------------------------------------------------------
\* The names of places and of process states that the actions assign.
LEMMA TypeNames ==
  /\ "start" \in Pcs /\ "call" \in Pcs /\ "dead" \in Pcs /\ "loader" \in Pcs /\ "exit" \in Pcs
  /\ "build" \in Pcs /\ "enter" \in Pcs /\ "blocked" \in Pcs /\ "eintr" \in Pcs
  /\ "read" \in Pcs /\ "check" \in Pcs /\ "term" \in Pcs /\ "reap" \in Pcs /\ "grace" \in Pcs
  /\ "kill" \in Pcs /\ "reapKilled" \in Pcs
  /\ "child" \in ClientStates /\ "running" \in ClientStates /\ "failing" \in ClientStates
  /\ "failWait" \in ClientStates /\ "exiting" \in ClientStates /\ "zombie" \in ClientStates
  /\ "reaped" \in ClientStates /\ "none" \in ClientStates /\ "nopid" \in ClientStates
  /\ "running" \in UiStatus /\ "clean" \in UiStatus /\ "problem" \in UiStatus
  BY DEF Pcs, WaitPcs, CleanupPcs, ReturnPcs, ClientStates, LiveStates, UiStatus

\* Every step of the parent, of a client and of the alarm keeps the types and bounds.
LEMMA TypeStep == TypeOK /\ [Next]_vars => TypeOK'
<1> SUFFICES ASSUME TypeOK, [Next]_vars PROVE TypeOK'
  OBVIOUS
<1> USE NAssumption, ChunksAssumption, BoundAssumption, TypeNames
        DEF TypeOK, parentVars, clientVars, ParentUntouched
<1>1. CASE EnterUserinterface
  BY <1>1 DEF EnterUserinterface, Fail
<1>2. CASE StartClient
  <2>1. next' \in 1..N + 1 /\ next \in Clients
    BY <1>2 DEF StartClient, Clients
  <2>2. status' \in [Clients -> UiStatus] /\ cstate' \in [Clients -> ClientStates]
    BY <1>2, <2>1 DEF StartClient
  <2> QED
    BY <1>2, <2>1, <2>2 DEF StartClient
<1>3. CASE PipeFails
  BY <1>3 DEF PipeFails, Fail
<1>4. CASE ForkFails
  BY <1>4 DEF ForkFails, Fail, Clients
<1>5. CASE InstallHandlers
  BY <1>5 DEF InstallHandlers
<1>6. CASE BuildWaitset
  BY <1>6 DEF BuildWaitset
<1>7. CASE EnterSelect
  BY <1>7 DEF EnterSelect
<1>8. CASE SelectReady
  BY <1>8 DEF SelectReady
<1>9. CASE StopTimeout
  BY <1>9 DEF StopTimeout
<1>10. CASE UiTimeout
  BY <1>10 DEF UiTimeout, Default
<1>11. CASE ReadFromClient
  BY <1>11 DEF ReadFromClient, Current
<1>12. CASE CheckInputFromClient
  <2>1. status' \in [Clients -> UiStatus] /\ cstate' \in [Clients -> ClientStates]
    BY <1>12 DEF CheckInputFromClient, RemoveTerminatedClients
  <2>2. pc' \in Pcs /\ ready' \subseteq Clients /\ retval' \in {"none", "ok", "error"}
    BY <1>12 DEF CheckInputFromClient
  <2>3. boot' \in 0..N
    BY <1>12 DEF CheckInputFromClient, Clients
  <2> QED
    BY <1>12, <2>1, <2>2, <2>3 DEF CheckInputFromClient
<1>13. CASE TermClients
  BY <1>13 DEF TermClients, SignalClients, Stronger
<1>14. CASE ReapTerminated
  BY <1>14 DEF ReapTerminated, RemoveTerminatedClients
<1>15. CASE GraceElapses
  BY <1>15 DEF GraceElapses
<1>16. CASE KillClients
  BY <1>16 DEF KillClients, SignalClients, Stronger
<1>17. CASE ReapKilledAndReturn
  BY <1>17 DEF ReapKilledAndReturn, RemoveTerminatedClients
<1>18. CASE SelectFails
  BY <1>18 DEF SelectFails, Fail
<1>19. CASE LoaderReturns
  <2>1. 0 \in 0..N /\ 0 \in 0..Chunks /\ 0 \in 0..MaxSignals /\ 1 \in 1..(N + 1)
    OBVIOUS
  <2>2. calls' \in 1..MaxCalls
    BY <1>19 DEF LoaderReturns
  <2>3. /\ status' \in [Clients -> UiStatus] /\ cstate' \in [Clients -> ClientStates]
        /\ collected' \in [Clients -> 0..Chunks] /\ written' \in [Clients -> 0..Chunks]
    BY <1>19, <2>1 DEF LoaderReturns
  <2>4. /\ sig' \in [Clients -> {"none", "term", "kill"}] /\ exitok' \in [Clients -> BOOLEAN]
        /\ touched' \in [Clients -> 0..MaxSignals]
    BY <1>19, <2>1 DEF LoaderReturns
  <2> QED
    BY <1>19, <2>1, <2>2, <2>3, <2>4 DEF LoaderReturns, Default
<1>20. CASE AlarmFires
  BY <1>20 DEF AlarmFires, DefaultSigHdlr
<1>21. ASSUME NEW c \in Clients, UserInteracts(c) PROVE TypeOK'
  BY <1>21 DEF UserInteracts, DefaultSigHdlr
<1>22. ASSUME NEW c \in Clients, Exec(c) PROVE TypeOK'
  BY <1>22 DEF Exec
<1>23. ASSUME NEW c \in Clients, ExecFails(c) PROVE TypeOK'
  BY <1>23 DEF ExecFails
<1>24. ASSUME NEW c \in Clients, FailedChildTerms(c) PROVE TypeOK'
  BY <1>24 DEF FailedChildTerms, SignalElderSiblings, Stronger
<1>25. ASSUME NEW c \in Clients, FailedChildKills(c) PROVE TypeOK'
  BY <1>25 DEF FailedChildKills, SignalElderSiblings, Stronger
<1>26. ASSUME NEW c \in Clients, WriteChunk(c) PROVE TypeOK'
  BY <1>26 DEF WriteChunk
<1>27. ASSUME NEW c \in Clients, ExitClient(c) PROVE TypeOK'
  BY <1>27 DEF ExitClient
<1>28. ASSUME NEW c \in Clients, DieFromTerm(c) PROVE TypeOK'
  BY <1>28 DEF DieFromTerm, Die
<1>29. ASSUME NEW c \in Clients, DieFromKill(c) PROVE TypeOK'
  BY <1>29 DEF DieFromKill, Die
<1>30. ASSUME NEW c \in Clients, BecomeZombie(c) PROVE TypeOK'
  BY <1>30 DEF BecomeZombie
<1>31. CASE UNCHANGED vars
  BY <1>31 DEF vars
<1> QED
  BY <1>1, <1>2, <1>3, <1>4, <1>5, <1>6, <1>7, <1>8, <1>9, <1>10, <1>11, <1>12,
     <1>13, <1>14, <1>15, <1>16, <1>17, <1>18, <1>19, <1>20, <1>21, <1>22, <1>23,
     <1>24, <1>25, <1>26, <1>27, <1>28, <1>29, <1>30, <1>31
     DEF Next, ParentStep, Client, ClientStep

\* What remove_terminated_clients() does to the processes and to u[].status.
LEMMA ReapFacts ==
  ASSUME TypeOK, StatusTracksProcess, RemoveTerminatedClients, UNCHANGED <<exitok, written>>
  PROVE  /\ StatusTracksProcess'
         /\ \A c \in Clients :
              /\ cstate'[c] = IF cstate[c] = "zombie" THEN "reaped" ELSE cstate[c]
              /\ status'[c] = "clean" /\ cstate[c] \notin {"none", "nopid"} =>
                   cstate'[c] = "reaped" /\ exitok[c]
<1>1. \A c \in Clients : cstate'[c] = IF cstate[c] = "zombie" THEN "reaped" ELSE cstate[c]
  BY DEF RemoveTerminatedClients
<1>2. \A c \in Clients : status'[c] \in StatusAfterReap(c)
  BY DEF RemoveTerminatedClients
<1>3. ASSUME NEW c \in Clients
      PROVE  /\ cstate[c] = "zombie" => status'[c] = IF exitok[c] THEN "clean" ELSE "problem"
             /\ cstate[c] \notin {"none", "nopid", "zombie"} => status'[c] = status[c]
  BY <1>2 DEF StatusAfterReap
<1>4. StatusTracksProcess'
  BY <1>1, <1>3 DEF StatusTracksProcess, Exists, Live, LiveStates
<1>5. ASSUME NEW c \in Clients, status'[c] = "clean", cstate[c] \notin {"none", "nopid"}
      PROVE  cstate'[c] = "reaped" /\ exitok[c]
  <2>1. CASE cstate[c] = "zombie"
    BY <1>1, <1>3, <1>5, <2>1
  <2>2. CASE cstate[c] # "zombie"
    <3>1. status[c] = "clean"
      BY <1>3, <1>5, <2>2
    <3>2. cstate[c] = "reaped"
      BY <1>5, <2>2, <3>1 DEF StatusTracksProcess, Exists, Live, LiveStates, TypeOK, ClientStates
    <3> QED
      BY <1>1, <3>1, <3>2 DEF StatusTracksProcess
  <2> QED
    BY <2>1, <2>2
<1> QED
  BY <1>1, <1>4, <1>5

\* Every step keeps the inductive invariant: what the parent believes about a client
\* (u[c].status, collected_str), the timeout and the signals sent fit the processes.
LEMMA PartsStep == IInv /\ [Next]_vars => Parts'
<1> SUFFICES ASSUME TypeOK, Parts, [Next]_vars PROVE Parts'
  BY DEF IInv
<1>0. TypeOK'
  BY TypeStep
<1>a. ASSUME RemoveTerminatedClients, UNCHANGED <<exitok, written>>
      PROVE  /\ StatusTracksProcess'
             /\ \A c \in Clients :
                  /\ cstate'[c] = IF cstate[c] = "zombie" THEN "reaped" ELSE cstate[c]
                  /\ status'[c] = "clean" /\ cstate[c] \notin {"none", "nopid"} =>
                       cstate'[c] = "reaped" /\ exitok[c]
  BY <1>a, ReapFacts DEF Parts
<1> USE NAssumption, ChunksAssumption, <1>0
        DEF TypeOK, Parts, parentVars, clientVars, ParentUntouched, Clients,
            ReadsBounded, StartOrder, StatusTracksProcess, OutcomeByPhase,
            AlarmMeansTimeout, AllKilled, SelectionIsComplete, DefaultNeedsTimeout, WaitPcs,
            CleanupPcs, ReturnPcs, Exists, Live, LiveStates, Delivered, Default
<1>1. CASE EnterUserinterface
  BY <1>1, SMTT(20) DEF EnterUserinterface, Fail
<1>2. CASE StartClient
  BY <1>2, SMTT(20) DEF StartClient
<1>3. CASE PipeFails
  BY <1>3, SMTT(20) DEF PipeFails, Fail
<1>4. CASE ForkFails
  BY <1>4, SMTT(20) DEF ForkFails, Fail
<1>5. CASE InstallHandlers
  BY <1>5, SMTT(20) DEF InstallHandlers
<1>6. CASE BuildWaitset
  BY <1>6, SMTT(20) DEF BuildWaitset
<1>7. CASE EnterSelect
  BY <1>7, SMTT(20) DEF EnterSelect
<1>8. CASE SelectReady
  BY <1>8, SMTT(20) DEF SelectReady, Readable
<1>9. CASE StopTimeout
  BY <1>9, SMTT(20) DEF StopTimeout
<1>10. CASE UiTimeout
  BY <1>10, SMTT(20) DEF UiTimeout
<1>11. CASE ReadFromClient
  BY <1>11, SMTT(20) DEF ReadFromClient, Current
<1>12. CASE CheckInputFromClient
  <2>1. RemoveTerminatedClients /\ UNCHANGED <<exitok, written>>
    BY <1>12 DEF CheckInputFromClient
  <2> QED
    BY <1>12, <2>1, <1>a DEF CheckInputFromClient
<1>13. CASE TermClients
  BY <1>13, SMTT(20) DEF TermClients, SignalClients, Stronger, StillRunning
<1>14. CASE ReapTerminated
  <2>1. RemoveTerminatedClients /\ UNCHANGED <<exitok, written>>
    BY <1>14 DEF ReapTerminated
  <2> QED
    BY <1>14, <2>1, <1>a DEF ReapTerminated
<1>15. CASE GraceElapses
  BY <1>15, SMTT(20) DEF GraceElapses
<1>16. CASE KillClients
  BY <1>16, SMTT(20) DEF KillClients, SignalClients, Stronger, StillRunning
<1>17. CASE ReapKilledAndReturn
  <2>1. RemoveTerminatedClients /\ UNCHANGED <<exitok, written>>
    BY <1>17 DEF ReapKilledAndReturn
  <2> QED
    BY <1>17, <2>1, <1>a DEF ReapKilledAndReturn
<1>18. CASE SelectFails
  BY <1>18, SMTT(20) DEF SelectFails, Fail
<1>19. CASE LoaderReturns
  BY <1>19, SMTT(20) DEF LoaderReturns
<1>20. CASE AlarmFires
  BY <1>20, SMTT(20) DEF AlarmFires, DefaultSigHdlr, Readable
<1>21. ASSUME NEW c \in Clients, UserInteracts(c) PROVE Parts'
  BY <1>21, SMTT(20) DEF UserInteracts, DefaultSigHdlr, Readable
<1>22. ASSUME NEW c \in Clients, Exec(c) PROVE Parts'
  BY <1>22, SMTT(20) DEF Exec
<1>23. ASSUME NEW c \in Clients, ExecFails(c) PROVE Parts'
  BY <1>23, SMTT(20) DEF ExecFails
<1>24. ASSUME NEW c \in Clients, FailedChildTerms(c) PROVE Parts'
  BY <1>24, SMTT(20) DEF FailedChildTerms, SignalElderSiblings, Stronger
<1>25. ASSUME NEW c \in Clients, FailedChildKills(c) PROVE Parts'
  BY <1>25, SMTT(20) DEF FailedChildKills, SignalElderSiblings, Stronger
<1>26. ASSUME NEW c \in Clients, WriteChunk(c) PROVE Parts'
  BY <1>26, SMTT(20) DEF WriteChunk
<1>27. ASSUME NEW c \in Clients, ExitClient(c) PROVE Parts'
  BY <1>27, SMTT(20) DEF ExitClient
<1>28. ASSUME NEW c \in Clients, DieFromTerm(c) PROVE Parts'
  BY <1>28, SMTT(20) DEF DieFromTerm, Die
<1>29. ASSUME NEW c \in Clients, DieFromKill(c) PROVE Parts'
  BY <1>29, SMTT(20) DEF DieFromKill, Die
<1>30. ASSUME NEW c \in Clients, BecomeZombie(c) PROVE Parts'
  BY <1>30, SMTT(20) DEF BecomeZombie
<1>31. CASE UNCHANGED vars
  BY <1>31 DEF vars
<1> QED
  BY <1>1, <1>2, <1>3, <1>4, <1>5, <1>6, <1>7, <1>8, <1>9, <1>10, <1>11, <1>12,
     <1>13, <1>14, <1>15, <1>16, <1>17, <1>18, <1>19, <1>20, <1>21, <1>22, <1>23,
     <1>24, <1>25, <1>26, <1>27, <1>28, <1>29, <1>30, <1>31
     DEF Next, ParentStep, Client, ClientStep

\* The invariant holds when userinterface() is called for the first time.
LEMMA InitIInv == Init => IInv
<1> SUFFICES ASSUME Init PROVE IInv
  OBVIOUS
<1> USE NAssumption, ChunksAssumption, FlagAssumption, BoundAssumption DEF Init
<1>1. TypeOK
  <2>1. 0 \in 0..N /\ 0 \in 0..Chunks /\ 0 \in 0..MaxSignals /\ 1 \in 1..(N + 1) /\ 1 \in 1..MaxCalls
    OBVIOUS
  <2>2. /\ status \in [Clients -> UiStatus] /\ cstate \in [Clients -> ClientStates]
        /\ collected \in [Clients -> 0..Chunks] /\ written \in [Clients -> 0..Chunks]
    BY <2>1, TypeNames
  <2>3. /\ sig \in [Clients -> {"none", "term", "kill"}] /\ exitok \in [Clients -> BOOLEAN]
        /\ touched \in [Clients -> 0..MaxSignals]
    BY <2>1
  <2> QED
    BY <2>1, <2>2, <2>3, TypeNames DEF TypeOK, Default
<1>2. Parts
  BY DEF Parts, ReadsBounded, StartOrder, StatusTracksProcess, OutcomeByPhase,
         AlarmMeansTimeout, AllKilled, SelectionIsComplete, DefaultNeedsTimeout, WaitPcs,
         CleanupPcs, ReturnPcs, Exists, Live, LiveStates, Clients
<1> QED
  BY <1>1, <1>2 DEF IInv

\* The inductive invariant holds throughout all calls of userinterface().
THEOREM Invariance == Spec => []IInv
<1>1. IInv /\ [Next]_vars => IInv'
  BY TypeStep, PartsStep DEF IInv
<1> QED
  BY InitIInv, <1>1, PTL DEF Spec

\* All variables of userinterface() and of its clients keep their types; no buffer holds
\* more than was written.
THEOREM TypeCorrect == Spec => []TypeOK
<1>1. IInv => TypeOK
  BY DEF IInv
<1> QED
  BY Invariance, <1>1, PTL

\* For any number of clients and any entry length, check_input_from_client() accepts an
\* entry only if its client wrote all of it and exited with status 0.
THEOREM OnlyCompleteSelections == Spec => []SelectionIsComplete
<1>1. IInv => SelectionIsComplete
  BY DEF IInv, Parts
<1> QED
  BY Invariance, <1>1, PTL

\* ui_timeout() selects the default entry only while config->timeout is set: once
\* SIGUSR1 has been served, no late alarm boots the default, in this call or a later one.
THEOREM StoppedTimeoutStaysStopped == Spec => []DefaultNeedsTimeout
<1>1. IInv => DefaultNeedsTimeout
  BY DEF IInv, Parts
<1> QED
  BY Invariance, <1>1, PTL

\* When userinterface() returns, each client has ended or has SIGKILL pending
\* (cleanup_and_return).
THEOREM ClientsDoNotSurvive == Spec => []NoSurvivors
<1>1. IInv => NoSurvivors
  BY DEF IInv, Parts, AllKilled, NoSurvivors
<1> QED
  BY Invariance, <1>1, PTL

-----------------------------------------------------------------------------
\* Every step of the waiting loop, of a client or of a signal is a step of the selection
\* contract or changes nothing of it.
LEMMA SelectionStep == IInv /\ [Next]_vars => [Selection!Next]_(Selection!vars)
<1> SUFFICES ASSUME IInv, [Next]_vars PROVE [Selection!Next]_(Selection!vars)
  OBVIOUS
<1> DEFINE Offers == {c \in Clients : Delivered(c)}
           Goal == [Selection!Next]_(Selection!vars)
<1>a. ASSUME \A c \in Clients : Delivered(c)' <=> Delivered(c) PROVE Offers' = Offers
  BY <1>a
<1> USE <1>a, NAssumption, ChunksAssumption
        DEF IInv, TypeOK, Parts, parentVars, clientVars, ParentUntouched,
            Delivered, OutcomeByPhase, WaitPcs, CleanupPcs, ReturnPcs, Selection!Next,
            Selection!vars, Selection!Clients, Clients
<1>1. CASE EnterUserinterface
  BY <1>1 DEF EnterUserinterface, Fail, Selection!GiveUp
<1>2. CASE StartClient
  BY <1>2 DEF StartClient, StartOrder
<1>3. CASE PipeFails
  BY <1>3 DEF PipeFails, Fail, Selection!GiveUp
<1>4. CASE ForkFails
  BY <1>4 DEF ForkFails, Fail, Selection!GiveUp, StartOrder
<1>5. CASE InstallHandlers
  BY <1>5 DEF InstallHandlers
<1>6. CASE BuildWaitset
  BY <1>6 DEF BuildWaitset
<1>7. CASE EnterSelect
  BY <1>7 DEF EnterSelect
<1>8. CASE SelectReady
  BY <1>8 DEF SelectReady
<1>9. CASE StopTimeout
  BY <1>9 DEF StopTimeout, Selection!DisableTimeout
<1>10. CASE UiTimeout
  BY <1>10 DEF UiTimeout, Selection!TakeDefault, Selection!GiveUp, AlarmMeansTimeout,
               Default, Selection!Default
<1>11. CASE ReadFromClient
  BY <1>11 DEF ReadFromClient, Current
<1>12. CASE CheckInputFromClient
  <2>1. RemoveTerminatedClients /\ UNCHANGED <<exitok, written, timeout, collected>>
    BY <1>12 DEF CheckInputFromClient
  <2>2. \A c \in Clients :
          /\ cstate'[c] = IF cstate[c] = "zombie" THEN "reaped" ELSE cstate[c]
          /\ status'[c] = "clean" /\ cstate[c] \notin {"none", "nopid"} =>
               cstate'[c] = "reaped" /\ exitok[c]
    BY <2>1, ReapFacts
  <2>3. Offers' = Offers
    BY <2>1, <2>2
  <2>4. PICK c \in ready : Current(c) /\
          \/ status'[c] = "clean" /\ collected[c] = Chunks /\ retval' = "ok" /\ boot' = c
          \/ UNCHANGED <<retval, boot>>
    BY <1>12 DEF CheckInputFromClient
  <2>5. CASE UNCHANGED <<retval, boot>>
    BY <2>1, <2>3, <2>5
  <2>6. CASE status'[c] = "clean" /\ collected[c] = Chunks /\ retval' = "ok" /\ boot' = c
    <3>1. c \in Clients /\ cstate[c] \notin {"none", "nopid"} /\ retval = "none"
      BY <1>12 DEF CheckInputFromClient, StartOrder
    <3>2. cstate[c] \in {"zombie", "reaped"} /\ exitok[c]
      BY <2>2, <2>6, <3>1
    <3>3. written[c] = Chunks
      BY <2>6, <3>1 DEF ReadsBounded
    <3>4. c \in Offers
      BY <3>1, <3>2, <3>3
    <3> QED
      BY <2>1, <2>3, <2>6, <3>1, <3>4 DEF Selection!TakeOffer
  <2> QED
    BY <2>4, <2>5, <2>6
<1>13. CASE TermClients
  BY <1>13 DEF TermClients, SignalClients, Stronger
<1>14. CASE ReapTerminated
  BY <1>14 DEF ReapTerminated, RemoveTerminatedClients, StartOrder
<1>15. CASE GraceElapses
  BY <1>15 DEF GraceElapses
<1>16. CASE KillClients
  BY <1>16 DEF KillClients, SignalClients, Stronger
<1>17. CASE ReapKilledAndReturn
  BY <1>17 DEF ReapKilledAndReturn, RemoveTerminatedClients, StartOrder
<1>18. CASE SelectFails
  BY <1>18 DEF SelectFails, Fail, Selection!GiveUp
<1>19. CASE LoaderReturns
  BY <1>19 DEF LoaderReturns, Selection!AskAgain, Default, Selection!Default
<1>20. CASE AlarmFires
  BY <1>20 DEF AlarmFires, DefaultSigHdlr
<1>21. ASSUME NEW c \in Clients, UserInteracts(c) PROVE Goal
  BY <1>21 DEF UserInteracts, DefaultSigHdlr
<1>22. ASSUME NEW c \in Clients, Exec(c) PROVE Goal
  BY <1>22 DEF Exec
<1>23. ASSUME NEW c \in Clients, ExecFails(c) PROVE Goal
  BY <1>23 DEF ExecFails
<1>24. ASSUME NEW c \in Clients, FailedChildTerms(c) PROVE Goal
  BY <1>24 DEF FailedChildTerms, SignalElderSiblings, Stronger
<1>25. ASSUME NEW c \in Clients, FailedChildKills(c) PROVE Goal
  BY <1>25 DEF FailedChildKills, SignalElderSiblings, Stronger
<1>26. ASSUME NEW c \in Clients, WriteChunk(c) PROVE Goal
  BY <1>26 DEF WriteChunk
<1>27. ASSUME NEW c \in Clients, ExitClient(c) PROVE Goal
  <2>1. \A d \in Clients \ {c} : Delivered(d)' <=> Delivered(d)
    BY <1>27 DEF ExitClient
  <2>2. ~Delivered(c) /\ UNCHANGED <<timeout, retval, boot>>
    BY <1>27 DEF ExitClient
  <2>3. CASE Delivered(c)'
    <3>1. Offers' = Offers \cup {c}
      BY <2>1, <2>2, <2>3
    <3> QED
      BY <2>2, <3>1 DEF Selection!Offer
  <2>4. CASE ~Delivered(c)'
    <3>1. Offers' = Offers
      BY <2>1, <2>2, <2>4
    <3> QED
      BY <2>2, <3>1
  <2> QED
    BY <2>3, <2>4
<1>28. ASSUME NEW c \in Clients, DieFromTerm(c) PROVE Goal
  BY <1>28 DEF DieFromTerm, Die, Live, LiveStates
<1>29. ASSUME NEW c \in Clients, DieFromKill(c) PROVE Goal
  BY <1>29 DEF DieFromKill, Die, Live, LiveStates
<1>30. ASSUME NEW c \in Clients, BecomeZombie(c) PROVE Goal
  BY <1>30 DEF BecomeZombie
<1>31. CASE UNCHANGED vars
  BY <1>31 DEF vars
<1> QED
  BY <1>1, <1>2, <1>3, <1>4, <1>5, <1>6, <1>7, <1>8, <1>9, <1>10, <1>11, <1>12,
     <1>13, <1>14, <1>15, <1>16, <1>17, <1>18, <1>19, <1>20, <1>21, <1>22, <1>23,
     <1>24, <1>25, <1>26, <1>27, <1>28, <1>29, <1>30, <1>31
     DEF Next, ParentStep, Client, ClientStep

\* userinterface() with its processes, pipes and signals implements the contract that
\* main() relies on (UiSelection).
THEOREM SelectionRefinement == Spec => ImplementsSelection
<1>1. Init => Selection!Init
  BY NAssumption, ChunksAssumption
     DEF Init, Selection!Init, Delivered, Default, Selection!Default
<1> QED
  BY <1>1, SelectionStep, Invariance, PTL DEF Spec, ImplementsSelection, Selection!Spec
=============================================================================
