--------------------------------- MODULE Motion ---------------------------------
(***************************************************************************)
(* Where a satellite is and how fast it moves: six doubles without a lock. *)
(*                                                                         *)
(*   simulation thread   update: x, y, z in turn                           *)
(*   listener            handleCommand: x, y, z, vx, vy, vz in turn        *)
(*                                                                         *)
(* A step is one load or one store of one double.  Statements are in the   *)
(* order of the source, which a build without optimisation keeps; operands *)
(* are in any order: the language leaves open which of x and vx is loaded  *)
(* first.  A double is loaded and stored whole on the machines the program *)
(* runs on.  One second of motion adds the velocity (TIME_STEP is the      *)
(* unit); positions are integers.  print, which follows update, only reads.*)
(* What update and handleCommand do to the links is in Downlink and        *)
(* Constellation.                                                          *)
(***************************************************************************)
EXTENDS Integers

CONSTANTS
    Start,     \* the motion given on the command line: [pos, vel]
    Commands,  \* the motions an operator may command
    MaxPos     \* bound: no update is started that would end beyond it

Axis == 1 .. 3

Motions == [pos : [Axis -> Int], vel : [Axis -> Int]]

ASSUME MotionAssumption ==
    /\ Start \in Motions
    /\ Commands \subseteq Motions
    /\ MaxPos \in Nat

VARIABLES
    pos, vel,    \* x, y, z and vx, vy, vz
    sim,         \* what the simulation thread is about to do, on which axis
    velocity,    \* the velocity it has loaded
    position,    \* the position it has loaded
    command,     \* the command handleCommand is at; Start outside
    written,     \* how many of the six doubles it has written; 6 outside
    exact,       \* history: the motion, were updates and commands atomic
    disturbed    \* history: the axes on which an update got in the way of the
                 \* last command

simVars     == <<sim, velocity, position>>
commandVars == <<command, written>>
vars == <<pos, vel, simVars, commandVars, exact, disturbed>>

Commanding == written < 6
Updating   == sim.at # "sleep"

At(step, axis) == [at |-> step, axis |-> axis]

Sleeping == At("sleep", 1)

Init ==
    /\ pos = Start.pos
    /\ vel = Start.vel
    /\ sim = Sleeping
    /\ velocity = 0
    /\ position = 0
    /\ command = Start
    /\ written = 6
    /\ exact = Start
    /\ disturbed = {}

--------------------------------------------------------------------------------
(* The simulation thread.                                                   *)

Moved(m) == [m EXCEPT !.pos = [a \in Axis |-> m.pos[a] + m.vel[a]]]

InBounds(p) == \A a \in Axis : p[a] + vel[a] \in -MaxPos .. MaxPos

\* Simulation::run calls Satellite::update, while a command may have come as far
\* as some of the doubles: an axis is disturbed if its velocity is yet to come.
StartUpdate ==
    /\ sim = Sleeping
    /\ InBounds(pos) /\ InBounds(exact.pos)
    /\ sim' = At("load", 1)
    /\ exact' = Moved(exact)
    /\ disturbed' = disturbed \cup {a \in Axis : written < a + 3}
    /\ UNCHANGED <<pos, vel, velocity, position, commandVars>>

\* x += vx * dt: vx and x are loaded, in either order ...
LoadVelocity ==
    /\ sim.at \in {"load", "load velocity"}
    /\ velocity' = vel[sim.axis]
    /\ sim' = At(IF sim.at = "load" THEN "load position" ELSE "store", sim.axis)
    /\ UNCHANGED <<pos, vel, position, commandVars, exact, disturbed>>

LoadPosition ==
    /\ sim.at \in {"load", "load position"}
    /\ position' = pos[sim.axis]
    /\ sim' = At(IF sim.at = "load" THEN "load velocity" ELSE "store", sim.axis)
    /\ UNCHANGED <<pos, vel, velocity, commandVars, exact, disturbed>>

\* Fault: after z comes another axis.
StoreBeyond ==
    /\ sim.at = "store"
    /\ pos' = [pos EXCEPT ![sim.axis] = position + velocity]
    /\ sim' = IF sim.axis <= 3 THEN At("load", sim.axis + 1) ELSE Sleeping
    /\ velocity' = 0 /\ position' = 0
    /\ UNCHANGED <<vel, commandVars, exact, disturbed>>

\* ... and x is stored, then y, then z.
Store ==
    /\ sim.at = "store"
    /\ pos' = [pos EXCEPT ![sim.axis] = position + velocity]
    /\ sim' = IF sim.axis < 3 THEN At("load", sim.axis + 1) ELSE Sleeping
    /\ velocity' = 0 /\ position' = 0
    /\ UNCHANGED <<vel, commandVars, exact, disturbed>>

--------------------------------------------------------------------------------
(* The listener.                                                            *)

\* A command arrives; it sets all that went wrong before to rights, or goes wrong
\* itself: the update that is under way gets in its way on the axes to come.
StartCommand ==
    /\ ~Commanding
    /\ \E c \in Commands :
          /\ command' = c
          /\ exact' = c
    /\ written' = 0
    /\ disturbed' = {a \in Axis : Updating /\ sim.axis <= a}
    /\ UNCHANGED <<pos, vel, simVars>>

\* Fault: vz is forgotten.
WriteFieldShort ==
    /\ Commanding
    /\ IF written < 3
         THEN /\ pos' = [pos EXCEPT ![written + 1] = command.pos[written + 1]]
              /\ UNCHANGED vel
         ELSE /\ vel' = [vel EXCEPT ![written - 2] = command.vel[written - 2]]
              /\ UNCHANGED pos
    /\ written' = IF written = 4 THEN 6 ELSE written + 1
    /\ command' = IF written = 4 THEN Start ELSE command
    /\ UNCHANGED <<simVars, exact, disturbed>>

\* handleCommand: the next of the six assignments.
WriteField ==
    /\ Commanding
    /\ IF written < 3
         THEN /\ pos' = [pos EXCEPT ![written + 1] = command.pos[written + 1]]
              /\ UNCHANGED vel
         ELSE /\ vel' = [vel EXCEPT ![written - 2] = command.vel[written - 2]]
              /\ UNCHANGED pos
    /\ written' = written + 1
    /\ command' = IF written = 5 THEN Start ELSE command
    /\ UNCHANGED <<simVars, exact, disturbed>>

--------------------------------------------------------------------------------
Next ==
    \/ StartUpdate
    \/ LoadVelocity
    \/ LoadPosition
    \/ Store
    \/ StartCommand
    \/ WriteField

Spec == Init /\ [][Next]_vars

--------------------------------------------------------------------------------
(* Properties                                                               *)

TypeOK ==
    /\ pos \in [Axis -> Int] /\ vel \in [Axis -> Int]
    /\ sim \in [at : {"sleep", "load", "load velocity", "load position", "store"},
               axis : Axis]
    /\ velocity \in Int /\ position \in Int
    /\ command \in Commands \cup {Start} /\ written \in 0 .. 6
    /\ exact \in Motions
    /\ disturbed \subseteq Axis

Idle == sim = Sleeping /\ ~Commanding

\* The commanded velocity always takes effect, even while the satellite moves.  So
\* does the commanded position, whatever an earlier command has left behind, on
\* every axis that the update has behind it when the command comes, or that the
\* command has behind it when the update starts: the two may overlap.
UndisturbedIsExact ==
    /\ ~Commanding => vel = exact.vel
    /\ Idle => \A a \in Axis \ disturbed : pos[a] = exact.pos[a]

================================================================================
