----------------------------- MODULE MessageQueue -----------------------------
(***************************************************************************)
(* The class template MessageQueue with the threads around one queue:      *)
(*                                                                         *)
(*   consumers  while (running) { x = pop(); if (!running) break; use x }  *)
(*              Logger::log, GCConnectionHandler::sendCommand and          *)
(*              Terminal::runQueueThread are all of this form              *)
(*   producers  any thread that calls pushBack()                           *)
(*   main       running = false, then shutdown()                           *)
(*                                                                         *)
(* A definition marked "Fault" is a wrong version of the next one, used to *)
(* show that a property can tell the two apart.                            *)
(*                                                                         *)
(* What is done under queueMutex is one action; notify_one() and           *)
(* notify_all() come after the mutex is released and are actions of their  *)
(* own, so the wake-up of an item may be overtaken.  A waiting thread may  *)
(* also wake up for no reason.                                             *)
(***************************************************************************)
EXTENDS Naturals, Sequences, FiniteSets

CONSTANTS
    Consumers, Producers,
    Items,        \* the elements that are pushed
    NoItem,       \* T{}, what pop() returns once the queue is stopped
    MaxBacklog    \* bound: no push on a longer queue

ASSUME QueueAssumption ==
    /\ IsFiniteSet(Consumers) /\ IsFiniteSet(Producers)
    /\ NoItem \notin Items
    /\ MaxBacklog \in Nat

VARIABLES
    messageQueue,  \* MessageQueue::messageQueue
    stopped,       \* MessageQueue::stopped
    running,       \* the process-wide atomic flag
    consumer,      \* where each consumer is in its loop
    element,       \* what its last pop() returned
    producer,      \* "idle", or "notify" between unlock and notify_one()
    main           \* where the main thread is in shutting down

vars == <<messageQueue, stopped, running, consumer, element, producer, main>>

clientVars == <<running, producer, main>>

-------------------------------------------------------------------------------
At(c, from, to) ==
    /\ consumer[c] = from
    /\ consumer' = [consumer EXCEPT ![c] = to]

\* Fault: the predicate forgets that the queue may have been stopped.
ReadyWhenPushed == messageQueue # <<>>

\* The predicate that pop() waits for.
Ready == messageQueue # <<>> \/ stopped

Init ==
    /\ messageQueue = <<>>
    /\ stopped = FALSE
    /\ running = TRUE
    /\ consumer = [c \in Consumers |-> "loop"]
    /\ element = [c \in Consumers |-> NoItem]
    /\ producer = [p \in Producers |-> "idle"]
    /\ main = "run"

\* while (running->load()): into pop(), or out of the loop.
Loop(c) ==
    /\ \/ running /\ At(c, "loop", "pop")
       \/ ~running /\ At(c, "loop", "done")
    /\ UNCHANGED <<messageQueue, stopped, element, clientVars>>

\* pop(): the predicate is false under the lock, so wait() gives the lock back.
Wait(c) ==
    /\ ~Ready
    /\ At(c, "pop", "wait")
    /\ UNCHANGED <<messageQueue, stopped, element, clientVars>>

\* Fault: the lock is taken, but the predicate is not tested again.
TakeUntested(c) ==
    /\ At(c, "pop", "check")
    /\ IF stopped \/ messageQueue = <<>>
         THEN /\ element' = [element EXCEPT ![c] = NoItem]
              /\ UNCHANGED messageQueue
         ELSE /\ element' = [element EXCEPT ![c] = Head(messageQueue)]
              /\ messageQueue' = Tail(messageQueue)
    /\ UNCHANGED <<stopped, clientVars>>

\* pop(): the predicate holds.  A stopped queue returns T{}, however much is
\* still in it.
Take(c) ==
    /\ Ready
    /\ At(c, "pop", "check")
    /\ IF stopped
         THEN /\ element' = [element EXCEPT ![c] = NoItem]
              /\ UNCHANGED messageQueue
         ELSE /\ element' = [element EXCEPT ![c] = Head(messageQueue)]
              /\ messageQueue' = Tail(messageQueue)
    /\ UNCHANGED <<stopped, clientVars>>

\* Fault: running is not tested after pop().
CheckNothing(c) ==
    /\ At(c, "check", "use")
    /\ UNCHANGED <<messageQueue, stopped, element, clientVars>>

\* if (!running->load()) break.
Check(c) ==
    /\ \/ running /\ At(c, "check", "use")
       \/ ~running /\ At(c, "check", "done")
    /\ UNCHANGED <<messageQueue, stopped, element, clientVars>>

Use(c) ==
    /\ At(c, "use", "loop")
    /\ UNCHANGED <<messageQueue, stopped, element, clientVars>>

\* A spurious wake-up; wait() tests the predicate again.
Spurious(c) ==
    /\ At(c, "wait", "pop")
    /\ UNCHANGED <<messageQueue, stopped, element, clientVars>>

Consume(c) == Loop(c) \/ Wait(c) \/ Take(c) \/ Check(c) \/ Use(c)

-------------------------------------------------------------------------------
Sleepers == {c \in Consumers : consumer[c] = "wait"}

\* Fault: only a push on an empty queue is followed by a notification.
PushWhenEmpty(p) ==
    /\ producer[p] = "idle"
    /\ Len(messageQueue) < MaxBacklog
    /\ \E i \in Items : messageQueue' = Append(messageQueue, i)
    /\ producer' = [producer EXCEPT ![p] = IF messageQueue = <<>> THEN "notify" ELSE @]
    /\ UNCHANGED <<stopped, running, consumer, element, main>>

\* Fault: an element is pushed at the end that pop() takes from.
PushInFront(p) ==
    /\ producer[p] = "idle"
    /\ Len(messageQueue) < MaxBacklog
    /\ \E i \in Items : messageQueue' = <<i>> \o messageQueue
    /\ producer' = [producer EXCEPT ![p] = "notify"]
    /\ UNCHANGED <<stopped, running, consumer, element, main>>

\* pushBack(), up to the end of the block that holds the lock.
Push(p) ==
    /\ producer[p] = "idle"
    /\ Len(messageQueue) < MaxBacklog
    /\ \E i \in Items : messageQueue' = Append(messageQueue, i)
    /\ producer' = [producer EXCEPT ![p] = "notify"]
    /\ UNCHANGED <<stopped, running, consumer, element, main>>

\* cv.notify_one(): some waiting thread, if there is one.
Notify(p) ==
    /\ producer[p] = "notify"
    /\ producer' = [producer EXCEPT ![p] = "idle"]
    /\ \/ Sleepers = {} /\ UNCHANGED consumer
       \/ \E c \in Sleepers : At(c, "wait", "pop")
    /\ UNCHANGED <<messageQueue, stopped, running, element, main>>

\* The operator quits.
Quit ==
    /\ main = "run"
    /\ main' = "stop"
    /\ running' = FALSE
    /\ UNCHANGED <<messageQueue, stopped, consumer, element, producer>>

\* shutdown(), under the lock.
Stop ==
    /\ main = "stop"
    /\ main' = "notify"
    /\ stopped' = TRUE
    /\ UNCHANGED <<messageQueue, running, consumer, element, producer>>

\* Fault: notify_one() instead of notify_all().
NotifyOneOfAll ==
    /\ main = "notify"
    /\ main' = "done"
    /\ \/ Sleepers = {} /\ UNCHANGED consumer
       \/ \E c \in Sleepers : At(c, "wait", "pop")
    /\ UNCHANGED <<messageQueue, stopped, running, element, producer>>

\* shutdown(): cv.notify_all().
NotifyAll ==
    /\ main = "notify"
    /\ main' = "done"
    /\ consumer' = [c \in Consumers |-> IF c \in Sleepers THEN "pop" ELSE consumer[c]]
    /\ UNCHANGED <<messageQueue, stopped, running, element, producer>>

Shutdown == Stop \/ NotifyAll

-------------------------------------------------------------------------------
Next ==
    \/ \E c \in Consumers : Consume(c) \/ Spurious(c)
    \/ \E p \in Producers : Push(p) \/ Notify(p)
    \/ Quit
    \/ Shutdown

Spec == Init /\ [][Next]_vars

\* Every thread runs; nothing is pushed, and the operator does not quit, unless
\* they please.
Fairness ==
    /\ \A c \in Consumers : WF_vars(Consume(c))
    /\ \A p \in Producers : WF_vars(Notify(p))
    /\ WF_vars(Shutdown)

FairSpec == Spec /\ Fairness

-------------------------------------------------------------------------------
(* Properties                                                              *)

\* The type of every variable.
TypeOK ==
    /\ messageQueue \in Seq(Items)
    /\ stopped \in BOOLEAN /\ running \in BOOLEAN
    /\ consumer \in [Consumers -> {"loop", "pop", "wait", "check", "use", "done"}]
    /\ element \in [Consumers -> Items \cup {NoItem}]
    /\ producer \in [Producers -> {"idle", "notify"}]
    /\ main \in {"run", "stop", "notify", "done"}

Popping == {c \in Consumers : consumer[c] = "pop"}

Notifying == {p \in Producers : producer[p] = "notify"}

\* No wake-up is lost.  While a thread waits, every element in the queue has a
\* thread that is awake inside pop() or a notify_one() still to come; once the
\* queue is stopped, the notify_all() is still to come.
WakeUpsSuffice ==
    Sleepers # {} =>
        IF stopped
          THEN main = "notify"
          ELSE Len(messageQueue) <= Cardinality(Popping) + Cardinality(Notifying)

\* No thread ever uses the T{} of a stopped queue: a command with indeterminate
\* fields is never sent, because running is cleared before the queue is stopped
\* and tested after every pop().
OnlyPushedElementsUsed ==
    \A c \in Consumers : consumer[c] = "use" => element[c] \in Items

\* The queue as a blocking channel; the condition variable does not show.
Channel == INSTANCE BlockingChannel
             WITH items    <- messageQueue,
                  closed   <- stopped,
                  asking   <- Popping \cup Sleepers,
                  received <- element

\* Elements come out once, in the order they went in, each for one thread inside
\* pop(), and nobody is released before the queue is stopped.
KeepsSafeChannel == Channel!SafetySpec

\* With fairness, an element that is queued while someone asks is received, and
\* whoever asks when the queue is stopped is released.
KeepsChannel == Channel!Spec

\* Once the operator has quit every consumer leaves its loop.
QuitEndsConsumers ==
    ~running ~> \A c \in Consumers : consumer[c] = "done"

===============================================================================
