----------------------------- MODULE Motion_proofs -----------------------------
(***************************************************************************)
(* Theorems about Motion, for every start, every set of commands and any   *)
(* number of updates.                                                      *)
(***************************************************************************)
EXTENDS Motion, TLAPS

--------------------------------------------------------------------------------
(* Type correctness.                                                        *)

LEMMA StartIsMotion ==
    /\ Start \in Motions
    /\ Start.pos \in [Axis -> Int] /\ Start.vel \in [Axis -> Int]
    /\ Start = [pos |-> Start.pos, vel |-> Start.vel]
BY MotionAssumption DEF Motions

LEMMA MotionParts ==
    ASSUME NEW m \in Motions
    PROVE  /\ m.pos \in [Axis -> Int] /\ m.vel \in [Axis -> Int]
           /\ \A a \in Axis : m.pos[a] \in Int /\ m.vel[a] \in Int
BY DEF Motions

\* What the position is after an update.
LEMMA MovedParts ==
    ASSUME NEW m \in Motions
    PROVE  /\ Moved(m) \in Motions
           /\ Moved(m).vel = m.vel
           /\ \A a \in Axis : Moved(m).pos[a] = m.pos[a] + m.vel[a]
<1> DEFINE p == [a \in Axis |-> m.pos[a] + m.vel[a]]
<1>1. p \in [Axis -> Int]
  BY MotionParts
<1>2. Moved(m) = [pos |-> p, vel |-> m.vel]
  BY DEF Moved, Motions
<1> HIDE DEF p
<1>3. Moved(m).pos = p /\ Moved(m).vel = m.vel /\ Moved(m) \in Motions
  BY <1>1, <1>2, MotionParts DEF Motions
<1>4. QED
  BY <1>3 DEF p

LEMMA InitType == Init => TypeOK
<1> SUFFICES ASSUME Init PROVE TypeOK
  OBVIOUS
<1>1. sim = [at |-> "sleep", axis |-> 1]
  BY DEF Init, Sleeping, At
<1>2. sim \in [at : {"sleep", "load", "load velocity", "load position", "store"},
              axis : Axis]
  BY <1>1 DEF Axis
<1>3. /\ pos \in [Axis -> Int] /\ vel \in [Axis -> Int]
      /\ exact \in Motions /\ disturbed \subseteq Axis
  BY StartIsMotion DEF Init
<1>4. /\ velocity \in Int /\ position \in Int
      /\ command \in Commands \cup {Start} /\ written \in 0 .. 6
  BY DEF Init
<1>5. QED
  BY <1>2, <1>3, <1>4 DEF TypeOK

LEMMA StoreParts ==
    ASSUME TypeOK, Store
    PROVE  /\ sim.axis \in Axis
           /\ position + velocity \in Int
           /\ pos' = [pos EXCEPT ![sim.axis] = position + velocity]
           /\ pos' \in [Axis -> Int]
           /\ \A a \in Axis :
                 pos'[a] = IF a = sim.axis THEN position + velocity ELSE pos[a]
           /\ vel' = vel /\ exact' = exact /\ disturbed' = disturbed
           /\ command' = command /\ written' = written
<1>1. sim.axis \in Axis
  BY DEF TypeOK
<1>2. position + velocity \in Int /\ pos \in [Axis -> Int]
  <2>1. position \in Int /\ velocity \in Int /\ pos \in [Axis -> Int]
    BY DEF TypeOK
  <2>2. QED
    BY <2>1
<1>3. pos' = [pos EXCEPT ![sim.axis] = position + velocity]
  BY DEF Store
<1>4. /\ pos' \in [Axis -> Int]
      /\ \A a \in Axis :
            pos'[a] = IF a = sim.axis THEN position + velocity ELSE pos[a]
  BY <1>1, <1>2, <1>3
<1>5. QED
  BY <1>1, <1>2, <1>3, <1>4 DEF Store, commandVars

\* Store goes on to the next axis, or the update is over.
LEMMA StoreGoesOn ==
    ASSUME TypeOK, Store
    PROVE  \/ sim.axis < 3 /\ sim' = [at |-> "load", axis |-> sim.axis + 1]
           \/ sim.axis = 3 /\ sim' = [at |-> "sleep", axis |-> 1]
<1>1. sim.axis \in 1 .. 3
  BY StoreParts DEF Axis
<1>2. CASE sim.axis < 3
  BY <1>2 DEF Store, At
<1>3. CASE sim.axis = 3
  BY <1>3 DEF Store, At, Sleeping
<1>4. QED
  BY <1>1, <1>2, <1>3

LEMMA StoreType ==
    ASSUME TypeOK, Store
    PROVE  TypeOK'
<1>1. sim' \in [at : {"sleep", "load", "load velocity", "load position", "store"},
               axis : Axis]
  <2>1. CASE sim.axis < 3 /\ sim' = [at |-> "load", axis |-> sim.axis + 1]
    <3>1. sim.axis + 1 \in Axis
      BY <2>1, StoreParts DEF Axis
    <3>2. QED
      BY <2>1, <3>1
  <2>2. CASE sim' = [at |-> "sleep", axis |-> 1]
    BY <2>2 DEF Axis
  <2>3. QED
    BY <2>1, <2>2, StoreGoesOn
<1>2. velocity' \in Int /\ position' \in Int
  BY DEF Store
<1>3. QED
  BY <1>1, <1>2, StoreParts DEF TypeOK, Store

\* What is written, and where.
LEMMA WriteParts ==
    ASSUME TypeOK, WriteField
    PROVE  /\ written \in 0 .. 5 /\ written' = written + 1
           /\ pos' \in [Axis -> Int] /\ vel' \in [Axis -> Int]
           /\ \A a \in Axis :
                 /\ pos'[a] = IF written + 1 = a THEN command.pos[a] ELSE pos[a]
                 /\ vel'[a] = IF written = a + 2 THEN command.vel[a] ELSE vel[a]
<1>1. written \in 0 .. 5 /\ written' = written + 1
  <2>1. written \in 0 .. 6 /\ written < 6 /\ written' = written + 1
    BY DEF TypeOK, WriteField, Commanding
  <2>2. QED
    BY <2>1
<1>2. command \in Motions
  BY MotionAssumption DEF TypeOK
<1>3. pos \in [Axis -> Int] /\ vel \in [Axis -> Int]
  BY DEF TypeOK
<1>4. CASE written \in 0 .. 2
  <2> DEFINE b == written + 1
  <2>1. b \in Axis /\ \A a \in Axis : written # a + 2
    BY <1>4 DEF Axis
  <2>2. pos' = [pos EXCEPT ![b] = command.pos[b]] /\ vel' = vel
    BY <1>4 DEF WriteField
  <2>3. command.pos[b] \in Int
    BY <1>2, <2>1, MotionParts
  <2> HIDE DEF b
  <2>4. /\ pos' \in [Axis -> Int]
        /\ \A a \in Axis : pos'[a] = IF b = a THEN command.pos[a] ELSE pos[a]
    BY <1>3, <2>1, <2>2, <2>3
  <2>5. QED
    BY <1>1, <1>3, <2>1, <2>2, <2>4 DEF b
<1>5. CASE written \in 3 .. 5
  <2> DEFINE b == written - 2
  <2>1. b \in Axis /\ \A a \in Axis : written + 1 # a /\ (b = a <=> written = a + 2)
    BY <1>5 DEF Axis
  <2>2. vel' = [vel EXCEPT ![b] = command.vel[b]] /\ pos' = pos
    BY <1>5 DEF WriteField
  <2>3. command.vel[b] \in Int
    BY <1>2, <2>1, MotionParts
  <2> HIDE DEF b
  <2>4. /\ vel' \in [Axis -> Int]
        /\ \A a \in Axis : vel'[a] = IF b = a THEN command.vel[a] ELSE vel[a]
    BY <1>3, <2>1, <2>2, <2>3
  <2>5. QED
    BY <1>1, <1>3, <2>1, <2>2, <2>4
<1>6. QED
  BY <1>1, <1>4, <1>5

LEMMA WriteType ==
    ASSUME TypeOK, WriteField
    PROVE  TypeOK'
<1>1. command' \in Commands \cup {Start} /\ written' \in 0 .. 6
  <2>1. command' \in Commands \cup {Start}
    BY DEF TypeOK, WriteField
  <2>2. QED
    BY <2>1, WriteParts
<1>2. QED
  BY <1>1, WriteParts DEF TypeOK, WriteField, simVars

LEMMA NextType == TypeOK /\ [Next]_vars => TypeOK'
<1> SUFFICES ASSUME TypeOK, [Next]_vars PROVE TypeOK'
  OBVIOUS
<1>1. CASE StartUpdate
  <2>1. sim' \in [at : {"sleep", "load", "load velocity", "load position", "store"},
                 axis : Axis]
    BY <1>1 DEF StartUpdate, At, Axis
  <2>2. exact' \in Motions
    BY <1>1, MovedParts DEF StartUpdate, TypeOK
  <2>3. disturbed' \subseteq Axis
    BY <1>1 DEF StartUpdate, TypeOK
  <2>4. QED
    BY <1>1, <2>1, <2>2, <2>3 DEF StartUpdate, TypeOK, commandVars
<1>2. CASE LoadVelocity
  BY <1>2 DEF LoadVelocity, TypeOK, At, commandVars
<1>3. CASE LoadPosition
  BY <1>3 DEF LoadPosition, TypeOK, At, commandVars
<1>4. CASE Store
  BY <1>4, StoreType
<1>5. CASE StartCommand
  <2>1. command' \in Commands \cup {Start} /\ exact' \in Motions
    BY <1>5, MotionAssumption DEF StartCommand
  <2>2. disturbed' \subseteq Axis /\ written' \in 0 .. 6
    BY <1>5 DEF StartCommand
  <2>3. QED
    BY <1>5, <2>1, <2>2 DEF StartCommand, TypeOK, simVars
<1>6. CASE WriteField
  BY <1>6, WriteType
<1>7. CASE UNCHANGED vars
  BY <1>7 DEF vars, simVars, commandVars, TypeOK
<1>8. QED
  BY <1>1, <1>2, <1>3, <1>4, <1>5, <1>6, <1>7 DEF Next

\* The state keeps its type: an update is always at one of the three axes.
THEOREM TypeCorrect == Spec => []TypeOK
BY InitType, NextType, PTL DEF Spec

--------------------------------------------------------------------------------
(* What a command does.                                                     *)

\* A double that a command has written, and its velocity outside of commands, is
\* what it would be if the command were atomic.
VelocityInv ==
    /\ Commanding => exact.vel = command.vel
    /\ \A a \in Axis : written > a + 2 => vel[a] = exact.vel[a]

\* The axes that the update under way has before it.
Ahead(a) == Updating /\ sim.axis <= a

\* What the update has loaded is still what it found.
Loaded ==
    /\ sim.at \in {"load position", "store"} => velocity = vel[sim.axis]
    /\ sim.at \in {"load velocity", "store"} => position = pos[sim.axis]

\* An axis that is not disturbed: either the command has yet to write it, and the
\* update has it behind it; or it is where it would be if both were atomic, but
\* for a motion that is still to be added, with the commanded velocity.
OnItsWay(a) ==
    /\ written < a => exact.pos[a] = command.pos[a]
    /\ Ahead(a) => written >= a + 3 /\ pos[a] + vel[a] = exact.pos[a]
    /\ ~Ahead(a) /\ written >= a => pos[a] = exact.pos[a]

PositionInv ==
    /\ Updating /\ sim.axis \notin disturbed => Loaded
    /\ \A a \in Axis \ disturbed : OnItsWay(a)

MotionInv == TypeOK /\ VelocityInv /\ PositionInv

LEMMA InitInv == Init => VelocityInv /\ PositionInv
<1> SUFFICES ASSUME Init PROVE VelocityInv /\ PositionInv
  OBVIOUS
<1>1. ~Updating /\ written = 6
  BY DEF Init, Updating, Sleeping, At
<1>2. \A a \in Axis : OnItsWay(a)
  BY <1>1 DEF Init, OnItsWay, Ahead, Axis
<1>3. VelocityInv
  BY <1>1 DEF Init, VelocityInv, Commanding
<1>4. QED
  BY <1>1, <1>2, <1>3 DEF PositionInv

\* Outside of a command all its doubles are written.
LEMMA WrittenOutside ==
    ASSUME TypeOK, ~Commanding
    PROVE  \A a \in Axis : written > a + 2 /\ written >= a
<1>1. written = 6
  <2>1. written \in 0 .. 6 /\ ~(written < 6)
    BY DEF TypeOK, Commanding
  <2>2. QED
    BY <2>1
<1>2. QED
  BY <1>1 DEF Axis

\* The numbers there are.
LEMMA Numbers ==
    ASSUME TypeOK
    PROVE  /\ sim.axis \in 1 .. 3
           /\ \A a \in Axis : pos[a] \in Int /\ vel[a] \in Int /\ exact.pos[a] \in Int
<1>1. sim.axis \in Axis
  BY DEF TypeOK
<1>2. exact.pos \in [Axis -> Int]
  BY MotionParts DEF TypeOK
<1>3. pos \in [Axis -> Int] /\ vel \in [Axis -> Int]
  BY DEF TypeOK
<1>4. QED
  BY <1>1, <1>2, <1>3 DEF Axis

LEMMA VelocityStep == TypeOK /\ VelocityInv /\ [Next]_vars => VelocityInv'
<1> SUFFICES ASSUME TypeOK, VelocityInv, [Next]_vars PROVE VelocityInv'
  OBVIOUS
<1>1. CASE StartUpdate
  <2>1. exact'.vel = exact.vel
    BY <1>1, MovedParts DEF StartUpdate, TypeOK
  <2>2. QED
    BY <1>1, <2>1 DEF StartUpdate, VelocityInv, Commanding, commandVars
<1>2. CASE LoadVelocity \/ LoadPosition \/ Store
  BY <1>2 DEF LoadVelocity, LoadPosition, Store, VelocityInv, Commanding, commandVars
<1>3. CASE StartCommand
  <2>1. exact' = command' /\ written' = 0
    BY <1>3 DEF StartCommand
  <2>2. \A a \in Axis : ~(written' > a + 2)
    BY <2>1 DEF Axis
  <2>3. QED
    BY <2>1, <2>2 DEF VelocityInv
<1>4. CASE WriteField
  <2>1. written \in 0 .. 5 /\ exact' = exact /\ written' = written + 1
    BY <1>4, WriteParts DEF WriteField
  <2>2. Commanding' => exact'.vel = command'.vel
    BY <1>4, <2>1 DEF WriteField, VelocityInv, Commanding
  <2>3. ASSUME NEW a \in Axis, written' > a + 2
        PROVE  vel'[a] = exact'.vel[a]
    <3>1. /\ vel'[a] = IF written = a + 2 THEN command.vel[a] ELSE vel[a]
          /\ a \in 1 .. 3
      BY <1>4, WriteParts DEF Axis
    <3>2. exact.vel = command.vel /\ (written > a + 2 => vel[a] = exact.vel[a])
      BY <2>1 DEF VelocityInv, Commanding
    <3>3. QED
      BY <2>1, <2>3, <3>1, <3>2
  <2>4. QED
    BY <2>2, <2>3 DEF VelocityInv
<1>5. CASE UNCHANGED vars
  BY <1>5 DEF vars, commandVars, VelocityInv, Commanding
<1>6. QED
  BY <1>1, <1>2, <1>3, <1>4, <1>5 DEF Next

LEMMA PositionStep == MotionInv /\ [Next]_vars => PositionInv'
<1> SUFFICES ASSUME MotionInv, [Next]_vars PROVE PositionInv'
  OBVIOUS
<1> USE DEF MotionInv
<1>0. written \in 0 .. 6 /\ \A a \in Axis : a \in 1 .. 3
  BY DEF TypeOK, Axis
<1>1. CASE StartUpdate
  <2>1. ~Updating /\ sim' = [at |-> "load", axis |-> 1]
    BY <1>1 DEF StartUpdate, Updating, Sleeping, At
  <2>2. Loaded'
    BY <2>1 DEF Loaded
  <2>3. ASSUME NEW a \in Axis, a \notin disturbed'
        PROVE  OnItsWay(a)'
    <3>1. a \notin disturbed /\ ~(written < a + 3)
      BY <1>1, <2>3 DEF StartUpdate
    <3>2. written >= a + 3 /\ written > a + 2 /\ written >= a /\ ~(written < a)
      BY <1>0, <3>1
    <3>3. pos[a] = exact.pos[a] /\ vel[a] = exact.vel[a]
      BY <2>1, <3>1, <3>2 DEF PositionInv, OnItsWay, Ahead, VelocityInv
    <3>4. exact'.pos[a] = exact.pos[a] + exact.vel[a]
      BY <1>1, MovedParts DEF StartUpdate, TypeOK
    <3>5. pos' = pos /\ vel' = vel /\ written' = written
      BY <1>1 DEF StartUpdate, commandVars
    <3>6. Ahead(a)'
      BY <1>0, <2>1 DEF Ahead, Updating
    <3>7. QED
      BY <3>2, <3>3, <3>4, <3>5, <3>6 DEF OnItsWay
  <2>4. QED
    BY <2>2, <2>3 DEF PositionInv
<1>2. CASE LoadVelocity \/ LoadPosition
  <2>1. /\ disturbed' = disturbed /\ pos' = pos /\ vel' = vel /\ exact' = exact
        /\ written' = written /\ command' = command /\ sim'.axis = sim.axis
        /\ Updating /\ Updating'
    <3>1. CASE LoadVelocity
      BY <3>1 DEF LoadVelocity, commandVars, Updating, At
    <3>2. CASE LoadPosition
      BY <3>2 DEF LoadPosition, commandVars, Updating, At
    <3>3. QED
      BY <1>2, <3>1, <3>2
  <2>2. ASSUME Loaded PROVE Loaded'
    <3>1. CASE LoadVelocity
      <4>1. velocity' = vel[sim.axis] /\ position' = position
        BY <3>1 DEF LoadVelocity
      <4>2. \/ sim.at = "load" /\ sim'.at = "load position"
            \/ sim.at = "load velocity" /\ sim'.at = "store"
        BY <3>1 DEF LoadVelocity, At
      <4>3. QED
        BY <2>1, <2>2, <4>1, <4>2 DEF Loaded
    <3>2. CASE LoadPosition
      <4>1. position' = pos[sim.axis] /\ velocity' = velocity
        BY <3>2 DEF LoadPosition
      <4>2. \/ sim.at = "load" /\ sim'.at = "load velocity"
            \/ sim.at = "load position" /\ sim'.at = "store"
        BY <3>2 DEF LoadPosition, At
      <4>3. QED
        BY <2>1, <2>2, <4>1, <4>2 DEF Loaded
    <3>3. QED
      BY <1>2, <3>1, <3>2
  <2>3. \A a \in Axis \ disturbed : OnItsWay(a)'
    BY <2>1 DEF PositionInv, OnItsWay, Ahead
  <2>4. QED
    BY <2>1, <2>2, <2>3 DEF PositionInv
<1>3. CASE Store
  <2>1. /\ disturbed' = disturbed /\ vel' = vel /\ exact' = exact /\ written' = written
        /\ command' = command /\ Updating /\ sim.axis \in 1 .. 3 /\ sim.axis \in Axis
    BY <1>3, StoreParts, Numbers DEF Store, Updating
  <2>2. sim' = [at |-> "load", axis |-> sim.axis + 1] \/ sim' = [at |-> "sleep", axis |-> 1]
    BY <1>3, StoreGoesOn
  <2>3. Loaded'
    <3>1. sim'.at \in {"load", "sleep"}
      BY <2>2
    <3>2. QED
      BY <3>1 DEF Loaded
  <2>4. ASSUME NEW a \in Axis
        PROVE  Ahead(a)' <=> a > sim.axis
    <3>1. CASE sim.axis < 3 /\ sim' = [at |-> "load", axis |-> sim.axis + 1]
      <4>1. Updating' /\ sim'.axis = sim.axis + 1
        BY <3>1 DEF Updating
      <4>2. QED
        BY <1>0, <2>1, <4>1 DEF Ahead
    <3>2. CASE sim.axis = 3 /\ sim' = [at |-> "sleep", axis |-> 1]
      <4>1. ~Updating'
        BY <3>2 DEF Updating
      <4>2. QED
        BY <1>0, <3>2, <4>1 DEF Ahead
    <3>3. QED
      BY <1>3, <3>1, <3>2, StoreGoesOn
  <2>5. ASSUME NEW a \in Axis, a \notin disturbed
        PROVE  OnItsWay(a)'
    <3>1. OnItsWay(a)
      BY <2>5 DEF PositionInv
    <3>2. CASE a = sim.axis
      <4>1. position = pos[a] /\ velocity = vel[a]
        BY <1>3, <2>1, <2>5, <3>2 DEF Store, PositionInv, Loaded
      <4>2. pos'[a] = pos[a] + vel[a]
        BY <1>3, <3>2, <4>1, StoreParts
      <4>3. Ahead(a) /\ ~Ahead(a)'
        BY <2>1, <2>4, <3>2 DEF Ahead
      <4>4. QED
        BY <1>0, <2>1, <3>1, <4>2, <4>3 DEF OnItsWay
    <3>3. CASE a # sim.axis
      <4>1. pos'[a] = pos[a]
        BY <1>3, <3>3, StoreParts
      <4>2. Ahead(a)' <=> Ahead(a)
        BY <1>0, <2>1, <2>4, <3>3 DEF Ahead
      <4>3. QED
        BY <2>1, <3>1, <4>1, <4>2 DEF OnItsWay
    <3>4. QED
      BY <3>2, <3>3
  <2>6. QED
    BY <2>1, <2>3, <2>5 DEF PositionInv
<1>4. CASE StartCommand
  <2>1. /\ exact' = command' /\ written' = 0 /\ sim' = sim
        /\ disturbed' = {a \in Axis : Updating /\ sim.axis <= a}
    BY <1>4 DEF StartCommand, simVars
  <2>2. Updating' <=> Updating
    BY <2>1 DEF Updating
  <2>3. Updating => sim.axis \in disturbed'
    <3>1. sim.axis \in 1 .. 3 /\ sim.axis \in Axis
      BY Numbers DEF Axis
    <3>2. QED
      BY <2>1, <3>1
  <2>4. ASSUME NEW a \in Axis, a \notin disturbed'
        PROVE  OnItsWay(a)'
    <3>1. ~Ahead(a)'
      BY <2>1, <2>2, <2>4 DEF Ahead
    <3>2. ~(written' >= a)
      BY <1>0, <2>1
    <3>3. QED
      BY <2>1, <3>1, <3>2 DEF OnItsWay
  <2>5. QED
    BY <2>1, <2>2, <2>3, <2>4 DEF PositionInv
<1>5. CASE WriteField
  <2>1. /\ written \in 0 .. 5 /\ written' = written + 1 /\ Commanding
        /\ exact' = exact /\ sim' = sim /\ disturbed' = disturbed
        /\ velocity' = velocity /\ position' = position
    BY <1>5, WriteParts DEF WriteField, simVars
  <2>2. \A a \in Axis : Ahead(a)' <=> Ahead(a)
    BY <2>1 DEF Ahead, Updating
  <2>3. written' < 6 => command' = command
    BY <1>5, <2>1 DEF WriteField
  <2>4. ASSUME NEW a \in Axis
        PROVE  /\ pos'[a] = IF written + 1 = a THEN command.pos[a] ELSE pos[a]
               /\ vel'[a] = IF written = a + 2 THEN command.vel[a] ELSE vel[a]
    BY <1>5, WriteParts
  <2>5. ASSUME NEW a \in Axis, a \notin disturbed
        PROVE  OnItsWay(a)'
    <3>1. OnItsWay(a)
      BY <2>5 DEF PositionInv
    <3>2. CASE Ahead(a)
      <4>1. written >= a + 3 /\ pos[a] + vel[a] = exact.pos[a]
        BY <3>1, <3>2 DEF OnItsWay
      <4>2. pos'[a] = pos[a] /\ vel'[a] = vel[a]
        BY <1>0, <2>1, <2>4, <4>1
      <4>3. written' >= a + 3 /\ ~(written' < a)
        BY <1>0, <2>1, <4>1
      <4>4. QED
        BY <2>1, <2>2, <3>2, <4>1, <4>2, <4>3 DEF OnItsWay
    <3>3. CASE ~Ahead(a)
      <4>1. CASE written' < a
        <5>1. written < a /\ written' < 6 /\ ~(written' >= a)
          BY <1>0, <2>1, <4>1
        <5>2. QED
          BY <2>1, <2>2, <2>3, <3>1, <3>3, <5>1 DEF OnItsWay
      <4>2. CASE written' = a
        <5>1. written < a /\ written + 1 = a /\ ~(written' < a)
          BY <1>0, <2>1, <4>2
        <5>2. pos'[a] = exact.pos[a]
          BY <2>4, <3>1, <5>1 DEF OnItsWay
        <5>3. QED
          BY <2>1, <2>2, <3>3, <5>1, <5>2 DEF OnItsWay
      <4>3. CASE written' > a
        <5>1. written >= a /\ written + 1 # a /\ ~(written' < a)
          BY <1>0, <2>1, <4>3
        <5>2. pos'[a] = exact.pos[a]
          BY <2>4, <3>1, <3>3, <5>1 DEF OnItsWay
        <5>3. QED
          BY <2>1, <2>2, <3>3, <5>1, <5>2 DEF OnItsWay
      <4>4. QED
        BY <1>0, <2>1, <4>1, <4>2, <4>3
    <3>4. QED
      BY <3>2, <3>3
  <2>6. ASSUME Updating, sim.axis \notin disturbed
        PROVE  Loaded'
    <3>1. sim.axis \in Axis /\ sim.axis \in 1 .. 3 /\ Ahead(sim.axis)
      BY <2>6, Numbers DEF Ahead, Axis
    <3>2. written >= sim.axis + 3
      BY <2>6, <3>1 DEF PositionInv, OnItsWay
    <3>3. pos'[sim.axis] = pos[sim.axis] /\ vel'[sim.axis] = vel[sim.axis]
      BY <2>1, <2>4, <3>1, <3>2
    <3>4. QED
      BY <2>1, <2>6, <3>3 DEF PositionInv, Loaded
  <2>7. Updating' <=> Updating
    BY <2>1 DEF Updating
  <2>8. QED
    BY <2>1, <2>5, <2>6, <2>7 DEF PositionInv
<1>6. CASE UNCHANGED vars
  BY <1>6 DEF vars, simVars, commandVars, PositionInv, Updating, Ahead, Loaded, OnItsWay
<1>7. QED
  BY <1>1, <1>2, <1>3, <1>4, <1>5, <1>6 DEF Next

LEMMA InvImpliesExact == MotionInv => UndisturbedIsExact
<1> SUFFICES ASSUME MotionInv PROVE UndisturbedIsExact
  OBVIOUS
<1>1. vel \in [Axis -> Int] /\ exact.vel \in [Axis -> Int]
  BY MotionParts DEF MotionInv, TypeOK
<1>2. ASSUME ~Commanding PROVE vel = exact.vel
  <2>1. \A a \in Axis : vel[a] = exact.vel[a]
    BY <1>2, WrittenOutside DEF MotionInv, VelocityInv
  <2>2. QED
    BY <1>1, <2>1
<1>3. ASSUME Idle, NEW a \in Axis \ disturbed PROVE pos[a] = exact.pos[a]
  <2>1. ~Commanding /\ ~Updating
    BY <1>3 DEF Idle, Updating, Sleeping, At
  <2>2. written >= a /\ ~Ahead(a)
    BY <2>1, WrittenOutside DEF MotionInv, Ahead
  <2>3. QED
    BY <2>2 DEF MotionInv, PositionInv, OnItsWay
<1>4. QED
  BY <1>2, <1>3 DEF UndisturbedIsExact

\* Whatever update and handleCommand do at the same time: the commanded velocity
\* takes effect, and so does the commanded position on every axis that one of the
\* two has behind it when the other starts.
THEOREM UndisturbedCommandsTakeEffect == Spec => []UndisturbedIsExact
<1>1. Init => MotionInv
  BY InitType, InitInv DEF MotionInv
<1>2. MotionInv /\ [Next]_vars => MotionInv'
  BY NextType, VelocityStep, PositionStep DEF MotionInv
<1>3. QED
  BY <1>1, <1>2, InvImpliesExact, PTL DEF Spec

================================================================================
