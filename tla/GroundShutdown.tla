----------------------------- MODULE GroundShutdown -----------------------------
(***************************************************************************)
(* How ground control starts, quits and takes itself apart: the flag       *)
(* running, the shutdown of the queues, the joins and the destructors.     *)
(*                                                                         *)
(*   main      connectToSatellites, Terminal::run, the end of main         *)
(*   pollers   listener and update thread: test running, work, sleep       *)
(*   poppers   display, sender, logger and one logger thread for each      *)
(*             SatelliteData: test running, pop, test running, use         *)
(*                                                                         *)
(* A queue is named for the thread that pops from it and is a number of    *)
(* elements and a flag (MessageQueue implements just that, BlockingChannel)*)
(* A SatelliteData object is named by the line of the file it was made for.*)
(***************************************************************************)
EXTENDS Naturals, Sequences

CONSTANTS
    Setup,         \* the satellite ids in the file, line by line
    FilesMayFail,  \* the log file of a SatelliteData may fail to open
    MaxQueued      \* bound: nothing is pushed on a queue that holds as much

ASSUME ShutdownAssumption ==
    /\ Setup \in Seq(Nat)
    /\ FilesMayFail \in BOOLEAN
    /\ MaxQueued \in Nat

Lines == 1 .. Len(Setup)

Listener == <<"listener", 0>>
Updater  == <<"update", 0>>
Display  == <<"display", 0>>
Sender   == <<"sender", 0>>
Logger   == <<"logger", 0>>
SatLogger(i) == <<"satellite", i>>

Pollers == {Listener, Updater}
Poppers == {Display, Sender, Logger} \cup {SatLogger(i) : i \in Lines}
Threads == Pollers \cup Poppers

VARIABLES
    main,     \* what the main thread is about to do
    line,     \* the line of the file it is at
    running,  \* the flag all threads look at
    thread,   \* where each thread is
    queued,   \* elements in the queue of each popper
    stopped,  \* its flag stopped
    made,     \* SatelliteData objects that exist
    sats,     \* those in Terminal::sats
    dying     \* the object whose destructor main is in, 0 for none

vars == <<main, line, running, thread, queued, stopped, made, sats, dying>>

dataVars  == <<made, sats, dying>>
queueVars == <<queued, stopped>>

Ids(S) == {Setup[i] : i \in S}

Init ==
    /\ main = "setup"
    /\ line = 1
    /\ running = TRUE
    /\ thread = [t \in Threads |-> "none"]
    /\ queued = [t \in Poppers |-> 0]
    /\ stopped = [t \in Poppers |-> FALSE]
    /\ made = {}
    /\ sats = {}
    /\ dying = 0

--------------------------------------------------------------------------------
(* Start-up.                                                                *)

\* Fault: a second object for the same satellite is kept as well.
AddSatTwice ==
    /\ main = "setup" /\ dying = 0 /\ line \in Lines
    /\ line' = line + 1
    /\ made' = made \cup {line}
    /\ thread' = [thread EXCEPT ![SatLogger(line)] = "test"]
    /\ sats' = sats \cup {line}
    /\ UNCHANGED <<main, running, queueVars, dying>>

\* connectToSatellites: one line.  The object is made, its logger thread started;
\* addSat keeps it, or destroys it if the map has one for this id.
AddSat ==
    /\ main = "setup" /\ dying = 0 /\ line \in Lines
    /\ line' = line + 1
    /\ made' = made \cup {line}
    /\ thread' = [thread EXCEPT ![SatLogger(line)] = "test"]
    /\ IF Setup[line] \in Ids(sats)
         THEN dying' = line /\ UNCHANGED sats
         ELSE sats' = sats \cup {line} /\ UNCHANGED dying
    /\ UNCHANGED <<main, running, queueVars>>

\* The constructor of its Logger throws; the next line is read.
AddSatFails ==
    /\ FilesMayFail
    /\ main = "setup" /\ dying = 0 /\ line \in Lines
    /\ line' = line + 1
    /\ UNCHANGED <<main, running, thread, queueVars, dataVars>>

\* The other threads, and Terminal::run, which asserts that it has a satellite
\* before it starts the display thread.
StartThreads ==
    /\ main = "setup" /\ dying = 0 /\ line \notin Lines
    /\ IF sats = {}
         THEN main' = "aborted" /\ UNCHANGED thread
         ELSE /\ main' = "terminal"
              /\ thread' = [t \in Threads |->
                              IF t \in Pollers \cup {Display, Sender, Logger}
                                THEN "test" ELSE thread[t]]
    /\ UNCHANGED <<line, running, queueVars, dataVars>>

--------------------------------------------------------------------------------
(* The threads.                                                             *)

Alive == main \notin {"aborted", "exited"}

Goes(t, from, to) ==
    /\ Alive
    /\ thread[t] = from
    /\ thread' = [thread EXCEPT ![t] = to]
    /\ UNCHANGED <<main, line, running, dataVars>>

\* while (running->load())
TestRunning(t) ==
    /\ \/ running /\ Goes(t, "test", IF t \in Pollers THEN "work" ELSE "pop")
       \/ ~running /\ Goes(t, "test", "done")
    /\ UNCHANGED queueVars

\* Elements are pushed on some of the queues in Q.
PushSome(Q) ==
    /\ \E P \in SUBSET {t \in Q : queued[t] < MaxQueued} :
          queued' = [t \in Poppers |-> IF t \in P THEN queued[t] + 1 ELSE queued[t]]
    /\ UNCHANGED stopped

\* A datagram or a sweep: status events and log lines.
Work(t) ==
    /\ t \in Pollers
    /\ Goes(t, "work", "test")
    /\ PushSome({Display, Logger})

\* MessageQueue::pop: an element, or the default element of a stopped queue,
\* whatever is left in it; a logger thread skips it.
Pop(t) ==
    /\ t \in Poppers
    /\ \/ /\ queued[t] > 0 /\ ~stopped[t]
          /\ Goes(t, "pop", "use")
          /\ queued' = [queued EXCEPT ![t] = @ - 1]
       \/ /\ stopped[t]
          /\ Goes(t, "pop", IF running THEN "test" ELSE "done")
          /\ UNCHANGED queued
    /\ UNCHANGED stopped

\* What a popper does with an element; running has been tested once more.  The
\* display pushes lines to the loggers of the satellites, the sender a log line.
Use(t) ==
    /\ t \in Poppers
    /\ \/ /\ ~running
          /\ Goes(t, "use", "done")
          /\ UNCHANGED queueVars
       \/ /\ running
          /\ Goes(t, "use", "test")
          /\ PushSome(CASE t = Display -> {SatLogger(i) : i \in sats}
                        [] t = Sender  -> {Logger}
                        [] OTHER       -> {})

--------------------------------------------------------------------------------
(* The main thread: the terminal and the end.                               *)

\* Terminal::run: a command.
Command ==
    /\ main = "terminal" /\ queued[Sender] < MaxQueued
    /\ queued' = [queued EXCEPT ![Sender] = @ + 1]
    /\ UNCHANGED <<main, line, running, thread, stopped, dataVars>>

\* Terminal::run: "quit".
Quit ==
    /\ main = "terminal"
    /\ running' = FALSE
    /\ main' = "stop output"
    /\ UNCHANGED <<line, thread, queueVars, dataVars>>

Stop(at, t, next) ==
    /\ main = at
    /\ stopped' = [stopped EXCEPT ![t] = TRUE]
    /\ main' = next
    /\ UNCHANGED <<line, running, thread, queued, dataVars>>

Join(at, t, next) ==
    /\ main = at
    /\ thread[t] = "done"
    /\ main' = next
    /\ UNCHANGED <<line, running, thread, queueVars, dataVars>>

\* Fault: the queue of the commands is not shut down.
FinishInputOpen ==
    \/ Stop("stop output", Display, "join display")
    \/ Join("join display", Display, "stop logger")
    \/ Stop("stop logger", Logger, "join listener")
    \/ Join("join listener", Listener, "join sender")
    \/ Join("join sender", Sender, "join update")
    \/ Join("join update", Updater, "join logger")
    \/ Join("join logger", Logger, "destroy")

\* The end of Terminal::run, then of main.
Finish ==
    \/ Stop("stop output", Display, "stop input")
    \/ Stop("stop input", Sender, "join display")
    \/ Join("join display", Display, "stop logger")
    \/ Stop("stop logger", Logger, "join listener")
    \/ Join("join listener", Listener, "join sender")
    \/ Join("join sender", Sender, "join update")
    \/ Join("join update", Updater, "join logger")
    \/ Join("join logger", Logger, "destroy")

\* The locals of main are destroyed, the terminal and its satellites with them.
DestroySat ==
    /\ main = "destroy" /\ dying = 0
    /\ \E i \in sats :
          /\ dying' = i
          /\ sats' = sats \ {i}
    /\ UNCHANGED <<main, line, running, thread, queueVars, made>>

\* ~SatelliteData: loggerQueue.shutdown() ...
StopDying ==
    /\ dying # 0 /\ ~stopped[SatLogger(dying)]
    /\ stopped' = [stopped EXCEPT ![SatLogger(dying)] = TRUE]
    /\ UNCHANGED <<main, line, running, thread, queued, dataVars>>

\* Fault: the thread is not waited for.
JoinDyingDetached ==
    /\ dying # 0 /\ stopped[SatLogger(dying)]
    /\ made' = made \ {dying}
    /\ dying' = 0
    /\ UNCHANGED <<main, line, running, thread, queueVars, sats>>

\* ... and loggerThread.join(), after which the object is gone.
JoinDying ==
    /\ dying # 0 /\ stopped[SatLogger(dying)]
    /\ thread[SatLogger(dying)] = "done"
    /\ made' = made \ {dying}
    /\ dying' = 0
    /\ UNCHANGED <<main, line, running, thread, queueVars, sats>>

Exit ==
    /\ main = "destroy" /\ dying = 0 /\ sats = {}
    /\ main' = "exited"
    /\ UNCHANGED <<line, running, thread, queueVars, dataVars>>

Destroy == DestroySat \/ StopDying \/ JoinDying \/ Exit

--------------------------------------------------------------------------------
Next ==
    \/ AddSat
    \/ AddSatFails
    \/ StartThreads
    \/ \E t \in Threads : TestRunning(t)
    \/ \E t \in Threads : Work(t)
    \/ \E t \in Threads : Pop(t)
    \/ \E t \in Threads : Use(t)
    \/ Command
    \/ Quit
    \/ Finish
    \/ Destroy

Spec == Init /\ [][Next]_vars

Run(t) == TestRunning(t) \/ Work(t) \/ Pop(t) \/ Use(t)

\* Every thread runs.  Nothing is assumed of the operator, or of what arrives.
Fairness ==
    /\ WF_vars(AddSat \/ AddSatFails \/ StartThreads)
    /\ \A t \in Threads : WF_vars(Run(t))
    /\ WF_vars(Finish)
    /\ WF_vars(Destroy)

FairSpec == Spec /\ Fairness

--------------------------------------------------------------------------------
(* Properties                                                               *)

MainStates ==
    {"setup", "aborted", "terminal", "stop output", "stop input", "join display",
     "stop logger", "join listener", "join sender", "join update", "join logger",
     "destroy", "exited"}

\* A satellite is in the table at most once, a thread of its own belongs to each
\* object, and a queue is shut down by the one that owns it only.
TypeOK ==
    /\ main \in MainStates
    /\ line \in 1 .. Len(Setup) + 1
    /\ running \in BOOLEAN
    /\ thread \in [Threads -> {"none", "test", "work", "pop", "use", "done"}]
    /\ queued \in [Poppers -> 0 .. MaxQueued]
    /\ stopped \in [Poppers -> BOOLEAN]
    /\ made \subseteq Lines /\ sats \subseteq made
    /\ dying \in made \cup {0} /\ dying \notin sats
    /\ \A i, j \in sats : Setup[i] = Setup[j] => i = j

Ended(t) == thread[t] \in {"none", "done"}

\* No object is used after its destruction: a SatelliteData is not gone while its
\* logger thread runs, the table of satellites is not taken apart while the
\* display thread may look at it, nor the queues and handlers of main while any
\* thread runs.
UsedWhileAlive ==
    /\ \A i \in Lines \ made : Ended(SatLogger(i))
    /\ main \in {"destroy", "exited"} =>
          \A t \in Pollers \cup {Display, Sender, Logger} : Ended(t)
    /\ main = "exited" => \A t \in Threads : Ended(t)

\* Why: main passes a join only when the thread is done, the objects that exist are
\* those in the table and the one being destroyed, and none is made for a line
\* that has not been read.
PastLogger   == {"destroy", "exited"}
PastUpdate   == {"join logger"} \cup PastLogger
PastSender   == {"join update"} \cup PastUpdate
PastListener == {"join sender"} \cup PastSender
PastDisplay  == {"stop logger", "join listener"} \cup PastListener

JoinedInOrder ==
    /\ main \in PastDisplay  => thread[Display] = "done"
    /\ main \in PastListener => thread[Listener] = "done"
    /\ main \in PastSender   => thread[Sender] = "done"
    /\ main \in PastUpdate   => thread[Updater] = "done"
    /\ main \in PastLogger   => thread[Logger] = "done"

Owned ==
    /\ made = sats \cup ({dying} \ {0})
    /\ made \subseteq 1 .. line - 1
    /\ \A i \in Lines \ made : Ended(SatLogger(i))
    /\ main = "exited" => sats = {} /\ dying = 0

ShutdownInv == JoinedInOrder /\ Owned

\* "quit" ends the process ("quit  # graceful shutdown of all threads", README):
\* no thread is left waiting on a queue, and main is left waiting for none.
QuitEndsProcess == (~running) ~> (main = "exited")

\* What the comment of ~SatelliteData says it does, "turns off the running
\* boolean, shutsdown the logger queue and joins the logger thread": it ends.
DestructorEnds == \A i \in Lines : (dying = i) ~> (dying # i)

================================================================================
