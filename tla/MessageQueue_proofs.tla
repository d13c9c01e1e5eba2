-------------------------- MODULE MessageQueue_proofs --------------------------
(***************************************************************************)
(* Proofs about one message queue, for any finite number of consumers and  *)
(* producers and any bound on the backlog.                                 *)
(***************************************************************************)
EXTENDS MessageQueue, FiniteSetTheorems, TLAPS

\* What main has done so far: running is cleared before the queue is stopped,
\* and after notify_all() nobody sleeps.
MainOrder ==
    /\ running <=> main = "run"
    /\ stopped <=> main \in {"notify", "done"}

\* T{} is handed out only after running was cleared, and what a consumer uses
\* it has taken while running.
TakenWhileRunning ==
    \A c \in Consumers :
        /\ consumer[c] = "use" => element[c] \in Items
        /\ consumer[c] = "check" /\ element[c] = NoItem => ~running

IInv == TypeOK /\ MainOrder /\ TakenWhileRunning /\ WakeUpsSuffice

--------------------------------------------------------------------------------
\* The consumers inside pop() and the producers about to notify are finitely
\* many.
LEMMA FiniteThreads ==
    /\ IsFiniteSet(Popping) /\ Cardinality(Popping) \in Nat
    /\ IsFiniteSet(Notifying) /\ Cardinality(Notifying) \in Nat
<1>1. Popping \subseteq Consumers /\ Notifying \subseteq Producers
  BY DEF Popping, Notifying
<1>2. QED
  BY <1>1, QueueAssumption, FS_Subset, FS_CardinalityType

\* A thread that enters or leaves pop() changes the number of those inside.
LEMMA OneMorePopping ==
    ASSUME NEW c \in Consumers, c \notin Popping, Popping' = Popping \cup {c}
    PROVE  Cardinality(Popping') = Cardinality(Popping) + 1
BY FiniteThreads, FS_AddElement

LEMMA OneLessPopping ==
    ASSUME NEW c \in Consumers, c \in Popping, Popping' = Popping \ {c}
    PROVE  Cardinality(Popping') = Cardinality(Popping) - 1
BY FiniteThreads, FS_RemoveElement

\* How a move of one consumer changes the two sets.
LEMMA Moves ==
    ASSUME TypeOK, NEW c \in Consumers, NEW from, NEW to, At(c, from, to)
    PROVE  /\ Popping' = IF to = "pop" THEN Popping \cup {c} ELSE Popping \ {c}
           /\ Sleepers' = IF to = "wait" THEN Sleepers \cup {c} ELSE Sleepers \ {c}
           /\ c \in Popping <=> from = "pop"
           /\ c \in Sleepers <=> from = "wait"
BY DEF At, Popping, Sleepers, TypeOK

LEMMA InitInv == Init => IInv
<1> SUFFICES ASSUME Init PROVE IInv
  OBVIOUS
<1>1. Sleepers = {}
  BY DEF Init, Sleepers
<1>2. messageQueue \in Seq(Items)
  BY DEF Init
<1>3. QED
  BY <1>1, <1>2
     DEF Init, IInv, TypeOK, MainOrder, TakenWhileRunning, WakeUpsSuffice

LEMMA NextType == TypeOK /\ [Next]_vars => TypeOK'
<1> SUFFICES ASSUME TypeOK, [Next]_vars PROVE TypeOK'
  OBVIOUS
<1> USE DEF TypeOK
<1>1. ASSUME NEW c \in Consumers, Consume(c) \/ Spurious(c) PROVE TypeOK'
  <2>1. CASE Take(c)
    <3>1. messageQueue # <<>> => Head(messageQueue) \in Items /\ Tail(messageQueue) \in Seq(Items)
      OBVIOUS
    <3>2. QED
      BY <2>1, <3>1 DEF Take, Ready, At, clientVars
  <2>2. CASE Loop(c) \/ Wait(c) \/ Check(c) \/ Use(c) \/ Spurious(c)
    BY <2>2 DEF Loop, Wait, Check, Use, Spurious, At, clientVars
  <2>3. QED
    BY <1>1, <2>1, <2>2 DEF Consume
<1>2. ASSUME NEW p \in Producers, Push(p) PROVE TypeOK'
  BY <1>2 DEF Push
<1>3. ASSUME NEW p \in Producers, Notify(p) PROVE TypeOK'
  BY <1>3 DEF Notify, Sleepers, At
<1>4. CASE Quit \/ Shutdown
  BY <1>4 DEF Quit, Shutdown, Stop, NotifyAll
<1>5. CASE UNCHANGED vars
  BY <1>5 DEF vars
<1>6. QED
  BY <1>1, <1>2, <1>3, <1>4, <1>5 DEF Next

LEMMA NextMain == TypeOK /\ MainOrder /\ [Next]_vars => MainOrder'
BY DEF TypeOK, MainOrder, Next, vars, Consume, Loop, Wait, Take, Check, Use,
       Spurious, Push, Notify, Quit, Shutdown, Stop, NotifyAll, clientVars

LEMMA NextTaken ==
    ASSUME TypeOK, TypeOK', MainOrder, TakenWhileRunning, [Next]_vars
    PROVE  TakenWhileRunning'
<1> USE DEF TakenWhileRunning, TypeOK
<1>1. ASSUME NEW c \in Consumers, Take(c) PROVE TakenWhileRunning'
  <2>1. stopped => ~running
    BY DEF MainOrder
  <2>2. ~stopped => element'[c] \in Items
    BY <1>1 DEF Take, Ready
  <2>3. QED
    BY <1>1, <2>1, <2>2, QueueAssumption DEF Take, At, clientVars
<1>2. ASSUME NEW c \in Consumers, Loop(c) \/ Wait(c) \/ Use(c) \/ Spurious(c)
      PROVE  TakenWhileRunning'
  BY <1>2 DEF Loop, Wait, Use, Spurious, At, clientVars
<1>3. ASSUME NEW c \in Consumers, Check(c) PROVE TakenWhileRunning'
  BY <1>3 DEF Check, At, clientVars
<1>4. ASSUME NEW p \in Producers, Push(p) \/ Notify(p) PROVE TakenWhileRunning'
  BY <1>4 DEF Push, Notify, Sleepers, At
<1>5. CASE Quit \/ Shutdown \/ UNCHANGED vars
  BY <1>5 DEF Quit, Shutdown, Stop, NotifyAll, Sleepers, vars
<1>6. QED
  BY <1>1, <1>2, <1>3, <1>4, <1>5 DEF Next, Consume

LEMMA NextWakeUps ==
    ASSUME TypeOK, TypeOK', MainOrder, MainOrder', WakeUpsSuffice, [Next]_vars
    PROVE  WakeUpsSuffice'
<1> SUFFICES ASSUME Sleepers' # {}
             PROVE  IF stopped'
                      THEN main' = "notify"
                      ELSE Len(messageQueue') <= Cardinality(Popping') + Cardinality(Notifying')
  BY DEF WakeUpsSuffice
<1>1. /\ Cardinality(Popping) \in Nat /\ Cardinality(Notifying) \in Nat
      /\ Len(messageQueue) \in Nat
  BY FiniteThreads DEF TypeOK
<1>2. /\ IsFiniteSet(Popping) /\ IsFiniteSet(Notifying)
  BY FiniteThreads
<1>3. Sleepers # {} => IF stopped
                         THEN main = "notify"
                         ELSE Len(messageQueue) <= Cardinality(Popping) + Cardinality(Notifying)
  BY DEF WakeUpsSuffice
<1>4. ASSUME NEW c \in Consumers, Loop(c) \/ Check(c) \/ Use(c) \/ Spurious(c)
      PROVE  /\ Sleepers # {} /\ UNCHANGED <<messageQueue, stopped, main>> /\ Notifying' = Notifying
             /\ Cardinality(Popping') >= Cardinality(Popping)
  <2>1. PICK from, to : /\ At(c, from, to) /\ from # "pop" /\ to # "wait"
    BY <1>4 DEF Loop, Check, Use, Spurious
  <2>2. /\ Sleepers # {}
        /\ Popping' = Popping \/ Popping' = Popping \cup {c}
        /\ c \notin Popping
    BY <2>1, Moves
  <2>3. UNCHANGED <<messageQueue, stopped, main>> /\ Notifying' = Notifying
    BY <1>4 DEF Loop, Check, Use, Spurious, clientVars, Notifying
  <2>4. QED
    BY <1>1, <2>2, <2>3, OneMorePopping
<1>5. ASSUME NEW c \in Consumers, Wait(c) PROVE ~stopped' /\ messageQueue' = <<>>
  BY <1>5 DEF Wait, Ready, clientVars
<1>6. ASSUME NEW c \in Consumers, Take(c)
      PROVE  /\ Sleepers # {} /\ UNCHANGED <<stopped, main>> /\ Notifying' = Notifying
             /\ ~stopped => /\ Len(messageQueue') = Len(messageQueue) - 1
                            /\ Cardinality(Popping') = Cardinality(Popping) - 1
  <2>1. /\ Popping' = Popping \ {c} /\ c \in Popping /\ Sleepers # {}
    BY <1>6, Moves DEF Take
  <2>2. UNCHANGED <<stopped, main>> /\ Notifying' = Notifying
    BY <1>6 DEF Take, clientVars, Notifying
  <2>3. ~stopped => Len(messageQueue') = Len(messageQueue) - 1
    BY <1>6 DEF Take, Ready, TypeOK
  <2>4. QED
    BY <2>1, <2>2, <2>3, OneLessPopping
<1>7. ASSUME NEW p \in Producers, Push(p)
      PROVE  /\ Sleepers # {} /\ UNCHANGED <<stopped, main>> /\ Popping' = Popping
             /\ Len(messageQueue') = Len(messageQueue) + 1
             /\ Cardinality(Notifying') = Cardinality(Notifying) + 1
  <2>1. p \notin Notifying /\ Notifying' = Notifying \cup {p}
    BY <1>7 DEF Push, Notifying, TypeOK
  <2>2. Cardinality(Notifying') = Cardinality(Notifying) + 1
    BY <1>2, <2>1, FS_AddElement
  <2>3. Sleepers' = Sleepers /\ Popping' = Popping
    BY <1>7 DEF Push, Sleepers, Popping
  <2>4. QED
    BY <1>7, <2>2, <2>3 DEF Push, TypeOK
<1>8. ASSUME NEW p \in Producers, Notify(p)
      PROVE  /\ Sleepers # {} /\ UNCHANGED <<messageQueue, stopped, main>>
             /\ Cardinality(Popping') = Cardinality(Popping) + 1
             /\ Cardinality(Notifying') = Cardinality(Notifying) - 1
  <2>1. p \in Notifying /\ Notifying' = Notifying \ {p}
    BY <1>8 DEF Notify, Notifying, TypeOK
  <2>2. Cardinality(Notifying') = Cardinality(Notifying) - 1
    BY <1>2, <2>1, FS_RemoveElement
  <2>3. Sleepers # {}
    BY <1>8 DEF Notify, Sleepers
  <2>4. PICK c \in Sleepers : At(c, "wait", "pop")
    BY <1>8, <2>3 DEF Notify
  <2>5. c \in Consumers /\ c \notin Popping /\ Popping' = Popping \cup {c}
    BY <2>4, Moves DEF Sleepers
  <2>6. QED
    BY <1>8, <2>2, <2>3, <2>5, OneMorePopping DEF Notify
<1>9. CASE Quit \/ UNCHANGED vars
  <2>1. /\ UNCHANGED <<messageQueue, stopped>> /\ Sleepers' = Sleepers
        /\ Popping' = Popping /\ Notifying' = Notifying
    BY <1>9 DEF Quit, Sleepers, Popping, Notifying, vars
  <2>2. main' = main \/ (main = "run" /\ ~stopped)
    BY <1>9 DEF Quit, MainOrder, vars
  <2>3. QED
    BY <1>3, <2>1, <2>2
<1>10. CASE Stop
  BY <1>10 DEF Stop
<1>11. ~NotifyAll
  BY DEF NotifyAll, Sleepers
<1>12. CASE \E c \in Consumers : Consume(c) \/ Spurious(c)
  <2>1. PICK c \in Consumers : Consume(c) \/ Spurious(c)
    BY <1>12
  <2>2. CASE Loop(c) \/ Check(c) \/ Use(c) \/ Spurious(c)
    <3>1. Cardinality(Popping') \in Nat
      <4>1. Popping' \subseteq Consumers
        BY DEF Popping
      <4>2. QED
        BY <4>1, QueueAssumption, FS_Subset, FS_CardinalityType
    <3>2. QED
      BY <1>1, <1>3, <1>4, <2>2, <3>1
  <2>3. CASE Wait(c)
    <3>1. Cardinality(Popping') \in Nat /\ Cardinality(Notifying') \in Nat
      <4>1. Popping' \subseteq Consumers /\ Notifying' \subseteq Producers
        BY DEF Popping, Notifying
      <4>2. QED
        BY <4>1, QueueAssumption, FS_Subset, FS_CardinalityType
    <3>2. Len(messageQueue') = 0
      BY <1>5, <2>3
    <3>3. QED
      BY <1>5, <2>3, <3>1, <3>2
  <2>4. CASE Take(c)
    BY <1>1, <1>3, <1>6, <2>4
  <2>5. QED
    BY <2>1, <2>2, <2>3, <2>4 DEF Consume
<1>13. CASE \E p \in Producers : Push(p) \/ Notify(p)
  <2>1. PICK p \in Producers : Push(p) \/ Notify(p)
    BY <1>13
  <2>2. CASE Push(p)
    BY <1>1, <1>3, <1>7, <2>2
  <2>3. CASE Notify(p)
    BY <1>1, <1>3, <1>8, <2>3
  <2>4. QED
    BY <2>1, <2>2, <2>3
<1>14. QED
  BY <1>9, <1>10, <1>11, <1>12, <1>13 DEF Next, Shutdown

\* The order of the shutdown, the running flag at the time of a pop and the
\* count of wake-ups hold together at every step.
THEOREM Invariant == Spec => []IInv
<1>1. IInv /\ [Next]_vars => IInv'
  BY NextType, NextMain, NextTaken, NextWakeUps DEF IInv
<1>2. QED
  BY <1>1, InitInv, PTL DEF Spec

\* However pushes, notifications, spurious wake-ups and the shutdown interleave,
\* no consumer sleeps on an element nobody will wake it for.
THEOREM NoWakeUpIsLost == Spec => []WakeUpsSuffice
BY Invariant, PTL DEF IInv

\* No consumer uses the default-constructed element of a stopped queue.
THEOREM DefaultIsNeverUsed == Spec => []OnlyPushedElementsUsed
<1>1. IInv => OnlyPushedElementsUsed
  BY DEF IInv, TakenWhileRunning, OnlyPushedElementsUsed
<1>2. QED
  BY <1>1, Invariant, PTL

--------------------------------------------------------------------------------
(* The queue implements a blocking channel (safety).                        *)

Inside == Popping \cup Sleepers

LEMMA MoveInside ==
    ASSUME TypeOK, NEW c \in Consumers, NEW from, NEW to, At(c, from, to)
    PROVE  /\ c \in Inside <=> from \in {"pop", "wait"}
           /\ Inside' = IF to \in {"pop", "wait"} THEN Inside \cup {c} ELSE Inside \ {c}
<1>1. /\ Popping' = IF to = "pop" THEN Popping \cup {c} ELSE Popping \ {c}
      /\ Sleepers' = IF to = "wait" THEN Sleepers \cup {c} ELSE Sleepers \ {c}
      /\ c \in Popping <=> from = "pop"
      /\ c \in Sleepers <=> from = "wait"
  BY Moves
<1>2. QED
  BY <1>1 DEF Inside

LEMMA ChannelStep == TypeOK /\ [Next]_vars => [Channel!Next]_(Channel!vars)
<1> SUFFICES ASSUME TypeOK, [Next]_vars PROVE [Channel!Next]_(Channel!vars)
  OBVIOUS
<1>1. ASSUME UNCHANGED <<messageQueue, stopped, element>>, Inside' = Inside
      PROVE  [Channel!Next]_(Channel!vars)
  BY <1>1 DEF Channel!vars, Inside
<1>2. ASSUME NEW c \in Consumers, Loop(c) PROVE [Channel!Next]_(Channel!vars)
  <2>1. UNCHANGED <<messageQueue, stopped, element>>
    BY <1>2 DEF Loop
  <2>2. CASE At(c, "loop", "pop")
    <3>1. c \notin Inside /\ Inside' = Inside \cup {c}
      BY <2>2, MoveInside
    <3>2. Channel!Ask(c)
      BY <2>1, <3>1 DEF Channel!Ask, Inside
    <3>3. QED
      BY <3>2 DEF Channel!Next
  <2>3. CASE At(c, "loop", "done")
    <3>1. Inside' = Inside
      BY <2>3, MoveInside
    <3>2. QED
      BY <1>1, <2>1, <3>1
  <2>4. QED
    BY <1>2, <2>2, <2>3 DEF Loop
<1>3. ASSUME NEW c \in Consumers, Wait(c) \/ Check(c) \/ Use(c) \/ Spurious(c)
      PROVE  [Channel!Next]_(Channel!vars)
  <2>1. UNCHANGED <<messageQueue, stopped, element>>
    BY <1>3 DEF Wait, Check, Use, Spurious
  <2>2. \/ At(c, "pop", "wait") \/ At(c, "wait", "pop")
        \/ At(c, "check", "use") \/ At(c, "check", "done") \/ At(c, "use", "loop")
    BY <1>3 DEF Wait, Check, Use, Spurious
  <2>3. Inside' = Inside
    <3>1. CASE At(c, "pop", "wait") \/ At(c, "wait", "pop")
      BY <3>1, MoveInside
    <3>2. CASE At(c, "check", "use") \/ At(c, "check", "done") \/ At(c, "use", "loop")
      BY <3>2, MoveInside
    <3>3. QED
      BY <2>2, <3>1, <3>2
  <2>4. QED
    BY <1>1, <2>1, <2>3
<1>4. ASSUME NEW c \in Consumers, Take(c) PROVE [Channel!Next]_(Channel!vars)
  <2>1. c \in Inside /\ Inside' = Inside \ {c}
    BY <1>4, MoveInside DEF Take
  <2>2. CASE stopped
    <3>1. Channel!Release(c)
      BY <1>4, <2>1, <2>2 DEF Take, Channel!Release, Inside, clientVars
    <3>2. QED
      BY <3>1 DEF Channel!Next
  <2>3. CASE ~stopped
    <3>1. Channel!Receive(c)
      BY <1>4, <2>1, <2>3 DEF Take, Ready, Channel!Receive, Inside, clientVars
    <3>2. QED
      BY <3>1 DEF Channel!Next
  <2>4. QED
    BY <2>2, <2>3
<1>5. ASSUME NEW p \in Producers, Push(p) PROVE [Channel!Next]_(Channel!vars)
  <2>1. Inside' = Inside
    BY <1>5 DEF Push, Inside, Popping, Sleepers
  <2>2. Channel!Send
    BY <1>5, <2>1 DEF Push, Channel!Send, Inside
  <2>3. QED
    BY <2>2 DEF Channel!Next
<1>6. ASSUME NEW p \in Producers, Notify(p) PROVE [Channel!Next]_(Channel!vars)
  <2>1. Inside' = Inside
    <3>1. CASE UNCHANGED consumer
      BY <3>1 DEF Inside, Popping, Sleepers
    <3>2. CASE \E c \in Sleepers : At(c, "wait", "pop")
      BY <3>2, MoveInside DEF Sleepers
    <3>3. QED
      BY <1>6, <3>1, <3>2 DEF Notify
  <2>2. QED
    BY <1>1, <1>6, <2>1 DEF Notify
<1>7. CASE Quit \/ UNCHANGED vars
  BY <1>1, <1>7 DEF Quit, vars, Inside, Popping, Sleepers
<1>8. CASE Stop
  <2>1. Inside' = Inside
    BY <1>8 DEF Stop, Inside, Popping, Sleepers
  <2>2. Channel!Close
    BY <1>8, <2>1 DEF Stop, Channel!Close, Inside
  <2>3. QED
    BY <2>2 DEF Channel!Next
<1>9. CASE NotifyAll
  <2>1. Inside' = Inside
    BY <1>9 DEF NotifyAll, Inside, Popping, Sleepers, TypeOK
  <2>2. QED
    BY <1>1, <1>9, <2>1 DEF NotifyAll
<1>10. QED
  BY <1>2, <1>3, <1>4, <1>5, <1>6, <1>7, <1>8, <1>9 DEF Next, Consume, Shutdown

\* The queue with its mutex and its condition variable does nothing a blocking
\* channel does not: an element leaves it once, in the order it came, into the
\* hands of a thread that is inside pop(), and nobody is released before the shutdown.
THEOREM ImplementsChannel == Spec => KeepsSafeChannel
<1>1. Init => Channel!Init
  BY DEF Init, Channel!Init, Popping, Sleepers
<1>2. TypeOK /\ [Next]_vars => [Channel!Next]_(Channel!vars)
  BY ChannelStep
<1>3. QED
  BY <1>1, <1>2, Invariant, PTL DEF Spec, IInv, KeepsSafeChannel, Channel!SafetySpec

================================================================================
