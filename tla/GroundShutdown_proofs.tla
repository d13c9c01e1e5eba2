------------------------- MODULE GroundShutdown_proofs -------------------------
(***************************************************************************)
(* Proofs about the end of ground control, for every configuration file.   *)
(***************************************************************************)
EXTENDS GroundShutdown, TLAPS

--------------------------------------------------------------------------------
(* Threads.                                                                 *)

ThreadState == {"none", "test", "work", "pop", "use", "done"}

LEMMA ThreadSets ==
    /\ Pollers \subseteq Threads /\ Poppers \subseteq Threads
    /\ Listener \in Threads /\ Updater \in Threads /\ Display \in Threads
    /\ Sender \in Threads /\ Logger \in Threads
    /\ Display \in Poppers /\ Sender \in Poppers /\ Logger \in Poppers
    /\ \A i \in Lines : SatLogger(i) \in Poppers /\ SatLogger(i) \in Threads
BY DEF Threads, Pollers, Poppers

LEMMA NamesDiffer ==
    /\ \A i, j : SatLogger(i) = SatLogger(j) => i = j
    /\ \A i : SatLogger(i) \notin Pollers \cup {Display, Sender, Logger}
BY DEF SatLogger, Pollers, Listener, Updater, Display, Sender, Logger

LEMMA LinesType == Len(Setup) \in Nat /\ Lines = 1 .. Len(Setup)
BY ShutdownAssumption DEF Lines

--------------------------------------------------------------------------------
(* Type correctness.                                                        *)

LEMMA InitType == Init => TypeOK
BY LinesType, ShutdownAssumption DEF Init, TypeOK, MainStates

LEMMA PushSomeType ==
    ASSUME TypeOK, NEW Q, PushSome(Q)
    PROVE  queued' \in [Poppers -> 0 .. MaxQueued] /\ UNCHANGED stopped
<1>1. PICK P \in SUBSET {t \in Q : queued[t] < MaxQueued} :
        queued' = [t \in Poppers |-> IF t \in P THEN queued[t] + 1 ELSE queued[t]]
  BY DEF PushSome
<1>2. \A t \in Poppers : queued[t] \in 0 .. MaxQueued
  BY DEF TypeOK
<1>3. \A t \in P : queued[t] < MaxQueued
  OBVIOUS
<1>4. \A t \in Poppers : (IF t \in P THEN queued[t] + 1 ELSE queued[t]) \in 0 .. MaxQueued
  BY <1>2, <1>3, ShutdownAssumption
<1>5. QED
  BY <1>1, <1>4 DEF PushSome

LEMMA GoesType ==
    ASSUME TypeOK, NEW t \in Threads, NEW from \in ThreadState, NEW to \in ThreadState,
           Goes(t, from, to)
    PROVE  /\ thread' \in [Threads -> ThreadState]
           /\ thread[t] = from
           /\ thread' = [thread EXCEPT ![t] = to]
           /\ UNCHANGED <<main, line, running, made, sats, dying>>
BY DEF TypeOK, Goes, ThreadState, dataVars

\* A step of a thread: it was not at its end, and no other thread is moved.
LEMMA RunFacts ==
    ASSUME TypeOK, NEW t \in Threads, Run(t)
    PROVE  /\ thread' \in [Threads -> ThreadState]
           /\ thread[t] \notin {"none", "done"}
           /\ \A u \in Threads : u # t => thread'[u] = thread[u]
           /\ UNCHANGED <<main, line, running, made, sats, dying>>
           /\ queued' \in [Poppers -> 0 .. MaxQueued]
           /\ UNCHANGED stopped
<1> USE DEF ThreadState
<1>1. thread \in [Threads -> ThreadState] /\ queued \in [Poppers -> 0 .. MaxQueued]
  BY DEF TypeOK
<1>2. CASE TestRunning(t)
  <2>1. PICK to \in ThreadState : Goes(t, "test", to)
    BY <1>2 DEF TestRunning
  <2>2. UNCHANGED queueVars
    BY <1>2 DEF TestRunning
  <2>3. QED
    BY <1>1, <2>1, <2>2, GoesType DEF queueVars
<1>3. CASE Work(t)
  <2>1. Goes(t, "work", "test") /\ PushSome({Display, Logger})
    BY <1>3 DEF Work
  <2>2. QED
    BY <1>1, <2>1, GoesType, PushSomeType
<1>4. CASE Pop(t)
  <2>1. PICK to \in ThreadState : Goes(t, "pop", to)
    BY <1>4 DEF Pop
  <2>2. queued' \in [Poppers -> 0 .. MaxQueued] /\ UNCHANGED stopped
    <3>1. t \in Poppers /\ UNCHANGED stopped
      BY <1>4 DEF Pop
    <3>2. CASE queued[t] > 0 /\ queued' = [queued EXCEPT ![t] = @ - 1]
      <4>1. queued[t] - 1 \in 0 .. MaxQueued
        BY <1>1, <3>1, <3>2, ShutdownAssumption
      <4>2. QED
        BY <1>1, <3>1, <3>2, <4>1
    <3>3. CASE UNCHANGED queued
      BY <1>1, <3>1, <3>3
    <3>4. QED
      BY <1>4, <3>2, <3>3 DEF Pop
  <2>3. QED
    BY <1>1, <2>1, <2>2, GoesType
<1>5. CASE Use(t)
  <2>1. PICK to \in ThreadState : Goes(t, "use", to)
    BY <1>5 DEF Use
  <2>2. queued' \in [Poppers -> 0 .. MaxQueued] /\ UNCHANGED stopped
    <3>1. CASE running
      BY <1>5, <3>1, PushSomeType DEF Use
    <3>2. CASE ~running
      BY <1>1, <1>5, <3>2 DEF Use, queueVars
    <3>3. QED
      BY <3>1, <3>2
  <2>3. QED
    BY <1>1, <2>1, <2>2, GoesType
<1>6. QED
  BY <1>2, <1>3, <1>4, <1>5 DEF Run

\* A line is read: at most one object for an id is kept.
LEMMA AddSatType == ASSUME TypeOK, Owned, AddSat PROVE TypeOK'
<1>1. line \in Lines /\ line \notin made /\ dying = 0 /\ main = "setup"
  BY LinesType DEF AddSat, Owned, TypeOK
<1>2. /\ line' \in 1 .. Len(Setup) + 1
      /\ made' \subseteq Lines
      /\ thread' \in [Threads -> ThreadState]
  <2>1. line' = line + 1 /\ line \in 1 .. Len(Setup) /\ made' = made \cup {line}
    BY <1>1, LinesType DEF AddSat
  <2>2. thread' = [thread EXCEPT ![SatLogger(line)] = "test"]
    BY DEF AddSat
  <2>3. line' \in 1 .. Len(Setup) + 1
    BY <2>1, LinesType
  <2>4. made' \subseteq Lines
    BY <1>1, <2>1 DEF TypeOK
  <2>5. thread' \in [Threads -> ThreadState]
    BY <2>2 DEF TypeOK, ThreadState
  <2>6. QED
    BY <2>3, <2>4, <2>5
<1>3. /\ sats' \subseteq made'
      /\ dying' \in made' \cup {0} /\ dying' \notin sats'
      /\ \A i, j \in sats' : Setup[i] = Setup[j] => i = j
  <2>1. /\ sats \subseteq made /\ 0 \notin sats /\ line \notin sats /\ line # 0
        /\ \A i, j \in sats : Setup[i] = Setup[j] => i = j
    BY <1>1, LinesType DEF TypeOK
  <2>2. CASE Setup[line] \in Ids(sats)
    BY <1>1, <2>1, <2>2 DEF AddSat
  <2>3. CASE Setup[line] \notin Ids(sats)
    <3>1. sats' = sats \cup {line} /\ dying' = 0 /\ made' = made \cup {line}
      BY <1>1, <2>3 DEF AddSat
    <3>2. \A i \in sats : Setup[i] # Setup[line]
      BY <2>3 DEF Ids
    <3>3. QED
      BY <2>1, <3>1, <3>2
  <2>4. QED
    BY <2>2, <2>3
<1>4. QED
  BY <1>2, <1>3 DEF AddSat, TypeOK, queueVars, ThreadState

LEMMA RunType == ASSUME TypeOK, NEW t \in Threads, Run(t) PROVE TypeOK'
BY RunFacts DEF TypeOK, ThreadState

LEMMA StopType ==
    ASSUME TypeOK, NEW at, NEW t \in Poppers, NEW next \in MainStates, Stop(at, t, next)
    PROVE  TypeOK'
BY DEF TypeOK, Stop, dataVars

LEMMA JoinType ==
    ASSUME TypeOK, NEW at, NEW t \in Threads, NEW next \in MainStates, Join(at, t, next)
    PROVE  TypeOK'
BY DEF TypeOK, Join, dataVars, queueVars

LEMMA FinishType == ASSUME TypeOK, Finish PROVE TypeOK'
<1>1. {"stop input", "join display", "stop logger", "join listener", "join sender",
       "join update", "join logger", "destroy"} \subseteq MainStates
  BY DEF MainStates
<1>2. QED
  BY <1>1, StopType, JoinType, ThreadSets DEF Finish

LEMMA StepType == ASSUME TypeOK, Owned, [Next]_vars PROVE TypeOK'
<1>1. CASE AddSat
  BY <1>1, AddSatType
<1>2. CASE AddSatFails
  BY <1>2, LinesType DEF TypeOK, AddSatFails, queueVars, dataVars
<1>3. CASE StartThreads
  BY <1>3 DEF TypeOK, StartThreads, queueVars, dataVars, MainStates
<1>4. CASE \E t \in Threads : TestRunning(t) \/ Work(t) \/ Pop(t) \/ Use(t)
  BY <1>4, RunType DEF Run
<1>5. CASE Command
  <2>1. queued' \in [Poppers -> 0 .. MaxQueued]
    BY <1>5, ThreadSets, ShutdownAssumption DEF TypeOK, Command
  <2>2. QED
    BY <1>5, <2>1 DEF TypeOK, Command, dataVars
<1>6. CASE Quit
  BY <1>6 DEF TypeOK, Quit, queueVars, dataVars, MainStates
<1>7. CASE Finish
  BY <1>7, FinishType
<1>8. CASE DestroySat
  BY <1>8 DEF TypeOK, DestroySat, queueVars
<1>9. CASE StopDying
  <2>1. SatLogger(dying) \in Poppers
    BY <1>9, ThreadSets DEF TypeOK, StopDying
  <2>2. QED
    BY <1>9, <2>1 DEF TypeOK, StopDying, dataVars
<1>10. CASE JoinDying
  <2>1. made' = made \ {dying} /\ dying' = 0 /\ UNCHANGED sats
    BY <1>10 DEF JoinDying
  <2>2. /\ made' \subseteq Lines /\ sats' \subseteq made'
        /\ dying' \in made' \cup {0} /\ dying' \notin sats'
    BY <2>1, LinesType DEF TypeOK
  <2>3. UNCHANGED <<main, line, running, thread, queued, stopped, sats>>
    BY <1>10 DEF JoinDying, queueVars
  <2>4. QED
    BY <2>2, <2>3 DEF TypeOK
<1>11. CASE Exit
  BY <1>11 DEF TypeOK, Exit, queueVars, dataVars, MainStates
<1>12. CASE UNCHANGED vars
  BY <1>12 DEF TypeOK, vars, queueVars, dataVars
<1>13. QED
  BY <1>1, <1>2, <1>3, <1>4, <1>5, <1>6, <1>7, <1>8, <1>9, <1>10, <1>11, <1>12
     DEF Next, Destroy

--------------------------------------------------------------------------------
(* Nothing is used after its destruction.                                   *)

LEMMA InitShutdown == Init => ShutdownInv
BY ThreadSets, LinesType
   DEF Init, ShutdownInv, JoinedInOrder, Owned, Ended, PastDisplay, PastListener,
       PastSender, PastUpdate, PastLogger

\* main is past a join only if the thread is done, and what is done stays done.
LEMMA StepJoined == ASSUME TypeOK, JoinedInOrder, [Next]_vars PROVE JoinedInOrder'
<1> USE DEF PastDisplay, PastListener, PastSender, PastUpdate, PastLogger
<1>1. CASE main' \notin PastDisplay
  BY <1>1 DEF JoinedInOrder
<1>2. CASE UNCHANGED main /\ \A t \in Threads : thread[t] = "done" => thread'[t] = "done"
  BY <1>2, ThreadSets DEF JoinedInOrder
<1>3. CASE AddSat
  BY <1>1, <1>3 DEF AddSat
<1>4. CASE StartThreads
  BY <1>1, <1>4 DEF StartThreads
<1>5. CASE \E t \in Threads : TestRunning(t) \/ Work(t) \/ Pop(t) \/ Use(t)
  <2>1. PICK t \in Threads : Run(t)
    BY <1>5 DEF Run
  <2>2. QED
    BY <1>2, <2>1, RunFacts
<1>6. CASE Quit
  BY <1>1, <1>6 DEF Quit
<1>7. CASE Finish
  BY <1>7 DEF Finish, Stop, Join, JoinedInOrder
<1>8. CASE Exit
  BY <1>8 DEF Exit, JoinedInOrder
<1>9. CASE AddSatFails \/ Command \/ DestroySat \/ StopDying \/ JoinDying
  <2>1. UNCHANGED <<main, thread>>
    BY <1>9 DEF AddSatFails, Command, DestroySat, StopDying, JoinDying
  <2>2. QED
    BY <1>2, <2>1
<1>10. CASE UNCHANGED vars
  BY <1>2, <1>10 DEF vars
<1>11. QED
  BY <1>3, <1>4, <1>5, <1>6, <1>7, <1>8, <1>9, <1>10 DEF Next, Destroy

\* An object exists exactly as long as the table or the destructor holds it, and
\* its thread ends first.
LEMMA StepOwned == ASSUME TypeOK, Owned, [Next]_vars PROVE Owned'
<1> USE DEF Ended
<1>1. ASSUME UNCHANGED <<line, made, sats, dying>>,
             main' = "exited" => main = "exited",
             \A i \in Lines \ made : UNCHANGED thread[SatLogger(i)]
      PROVE  Owned'
  BY <1>1 DEF Owned
<1>2. CASE AddSat
  <2>1. line \in Lines /\ dying = 0 /\ main' = "setup" /\ line' = line + 1
        /\ made' = made \cup {line}
        /\ thread' = [thread EXCEPT ![SatLogger(line)] = "test"]
    BY <1>2 DEF AddSat
  <2>2. made' = sats' \cup ({dying'} \ {0})
    BY <1>2, <2>1, LinesType DEF AddSat, Owned
  <2>3. made' \subseteq 1 .. line' - 1
    BY <2>1, LinesType DEF Owned
  <2>4. \A i \in Lines \ made' : Ended(SatLogger(i))'
    BY <2>1, NamesDiffer, ThreadSets DEF Owned, TypeOK
  <2>5. QED
    BY <2>1, <2>2, <2>3, <2>4 DEF Owned
<1>3. CASE AddSatFails
  BY <1>3, LinesType DEF AddSatFails, dataVars, Owned
<1>4. CASE StartThreads
  <2>1. \A i \in Lines : UNCHANGED thread[SatLogger(i)]
    BY <1>4, NamesDiffer, ThreadSets DEF StartThreads, TypeOK
  <2>2. QED
    BY <1>1, <1>4, <2>1 DEF StartThreads, dataVars
<1>5. CASE \E t \in Threads : TestRunning(t) \/ Work(t) \/ Pop(t) \/ Use(t)
  <2>1. PICK t \in Threads : Run(t)
    BY <1>5 DEF Run
  <2>2. \A i \in Lines \ made : UNCHANGED thread[SatLogger(i)]
    BY <2>1, RunFacts, ThreadSets DEF Owned
  <2>3. QED
    BY <1>1, <2>1, <2>2, RunFacts
<1>6. CASE Command \/ Quit \/ StopDying
  BY <1>1, <1>6 DEF Command, Quit, StopDying, dataVars
<1>7. CASE Finish
  BY <1>1, <1>7 DEF Finish, Stop, Join, dataVars
<1>8. CASE DestroySat
  BY <1>8 DEF DestroySat, Owned, TypeOK
<1>9. CASE JoinDying
  <2>1. /\ dying # 0 /\ thread[SatLogger(dying)] = "done"
        /\ made' = made \ {dying} /\ dying' = 0
        /\ UNCHANGED <<main, line, thread, sats>>
    BY <1>9 DEF JoinDying
  <2>2. dying \notin sats
    BY DEF TypeOK
  <2>3. QED
    BY <2>1, <2>2 DEF Owned
<1>10. CASE Exit
  BY <1>10 DEF Exit, dataVars, Owned
<1>11. CASE UNCHANGED vars
  BY <1>1, <1>11 DEF vars, dataVars
<1>12. QED
  BY <1>2, <1>3, <1>4, <1>5, <1>6, <1>7, <1>8, <1>9, <1>10, <1>11 DEF Next, Destroy

LEMMA Shutdown == Spec => [](TypeOK /\ ShutdownInv)
<1>1. Init => TypeOK /\ ShutdownInv
  BY InitType, InitShutdown
<1>2. TypeOK /\ ShutdownInv /\ [Next]_vars => TypeOK' /\ ShutdownInv'
  BY StepType, StepJoined, StepOwned DEF ShutdownInv
<1>3. QED
  BY <1>1, <1>2, PTL DEF Spec

\* Every variable keeps its type; a satellite is in the table at most once,
\* whatever the configuration file says.
THEOREM TypeCorrect == Spec => []TypeOK
BY Shutdown, PTL

\* No thread outlives what it uses, in whatever order threads and main are
\* scheduled and however many satellites there are.
THEOREM NothingIsUsedAfterItsEnd == Spec => []UsedWhileAlive
<1>1. TypeOK /\ ShutdownInv => UsedWhileAlive
  <2> SUFFICES ASSUME TypeOK, ShutdownInv PROVE UsedWhileAlive
    OBVIOUS
  <2> USE DEF Ended
  <2>1. \A i \in Lines \ made : Ended(SatLogger(i))
    BY DEF ShutdownInv, Owned
  <2>2. ASSUME main \in {"destroy", "exited"}
        PROVE  \A t \in Pollers \cup {Display, Sender, Logger} : Ended(t)
    BY <2>2 DEF ShutdownInv, JoinedInOrder, Pollers, PastDisplay, PastListener,
                PastSender, PastUpdate, PastLogger
  <2>3. ASSUME main = "exited" PROVE made = {}
    BY <2>3 DEF ShutdownInv, Owned
  <2>4. QED
    BY <2>1, <2>2, <2>3 DEF UsedWhileAlive, Threads, Poppers
<1>2. QED
  BY <1>1, Shutdown, PTL

================================================================================
