----------------------------- MODULE LoopProofs -----------------------------
(***************************************************************************)
(* What holds of the two loops of the GUI that wait: the UI loop with its  *)
(* idle clock (IdleWipe) and the scanner goroutines with their chip        *)
(* (NfcReader). For every idleTimeout, wipeWarningDelay and length of a    *)
(* derivation the wipe comes in time, never in a cut and never without its *)
(* warning; for any number of screens and any records the scanner delivers *)
(* whole objects and a closed poller stays off the chip. The two share a   *)
(* module and nothing else.                                                *)
(***************************************************************************)
EXTENDS IdleWipe, NfcReader, SequenceTheorems, TLAPS

(* Time until the wakeup. *)
Due == IF due > 0 THEN due ELSE 0

(* The flow is let go before the timeout, and with time for a unit of      *)
(* work; a session starts with no wakeup.                                  *)
FlowInTime ==
  loop = "flow" /\ ~done =>
    /\ ~active
    /\ age + Due <= Idle
    /\ ~worked => age < Idle
    /\ due = Unset => age <= IF worked THEN 1 ELSE 0

(* The loop wakes before the timeout, or, once it has passed, every unit.  *)
LoopInTime ==
  /\ loop # "flow" => ~done
  /\ loop # "flow" \/ done => ~worked
  /\ loop # "flow" /\ ~active => age + Due <= Idle
  /\ loop # "flow" /\ active => due <= 1

(* An armed loop wakes before the wipe, and has shown the warning ever     *)
(* since the timeout; the screensaver may only be up in the first unit of  *)
(* a window.                                                               *)
WarnsInTime ==
  loop # "flow" /\ active /\ armed =>
    /\ age + Due <= Idle + Warning
    /\ shown = "warning" => warned + Idle >= age
    /\ shown # "warning" => age + Due <= 1

(* What has happened that the clock does not know of is at most one unit   *)
(* old, and the loop is about to see it.                                   *)
Fresh == quiet <= 1 /\ (loop = "flow" /\ ~worked => quiet = 0)
TouchSeen == pressed = last /\ (finger # last => int /\ Fresh)
EdgeSeen == Armed /\ ~armed => Fresh /\ (loop = "parked" => ringing \/ wake)
AgeIsQuiet == Armed /\ armed => quiet <= age + 1

(* The clocks, and the other variables that are not truth values. *)
Clocks ==
  /\ age \in 0 .. Idle + Warning /\ due \in Unset .. Idle
  /\ quiet \in 0 .. Idle + Warning + 2 /\ warned \in 0 .. Warning
  /\ kdf \in 0 .. Slices /\ job \in JobStates
  /\ loop \in {"flow", "yielded", "parked"}
  /\ shown \in {"content", "saver", "warning"}

WindowInv ==
  /\ Clocks
  /\ FlowInTime /\ LoopInTime /\ WarnsInTime
  /\ TouchSeen /\ EdgeSeen /\ AgeIsQuiet

(* A session starts with its clock at nought and nothing guarded. *)
LEMMA InitWindow == Init => WindowInv
<1> SUFFICES ASSUME Init PROVE WindowInv
  OBVIOUS
<1> USE ClockAssumption
    DEF ClockAssumption, Init, Unset, Due, Fresh, Armed, Cutting, JobStates
<1>1. Clocks
  BY DEF Clocks
<1>2. FlowInTime /\ LoopInTime /\ WarnsInTime
  BY DEF FlowInTime, LoopInTime, WarnsInTime
<1>3. TouchSeen /\ EdgeSeen /\ AgeIsQuiet
  BY DEF TouchSeen, EdgeSeen, AgeIsQuiet
<1> QED
  BY <1>1, <1>2, <1>3 DEF WindowInv

(* Steps of the flow. *)
LEMMA FlowWindow ==
  ASSUME WindowInv, Flow
  PROVE  WindowInv'
<1> USE ClockAssumption
    DEF ClockAssumption, WindowInv, Clocks, FlowInTime, LoopInTime, WarnsInTime, TouchSeen, EdgeSeen,
        AgeIsQuiet, Due, Fresh, Armed, Cutting,
        Unset, JobStates, InFlow, flow, clock, input, signals, panel
<1>1. CASE OpenBracket
  <2> USE <1>1 DEF OpenBracket
  <2>1. Clocks' /\ FlowInTime' /\ LoopInTime' /\ WarnsInTime'
    OBVIOUS
  <2>2. TouchSeen' /\ EdgeSeen' /\ AgeIsQuiet'
    OBVIOUS
  <2> QED
    BY <2>1, <2>2
<1>2. CASE CloseBracket
  <2> USE <1>2 DEF CloseBracket, Scrub
  <2>1. Clocks' /\ FlowInTime' /\ LoopInTime' /\ WarnsInTime'
    OBVIOUS
  <2>2. TouchSeen' /\ EdgeSeen' /\ AgeIsQuiet'
    OBVIOUS
  <2> QED
    BY <2>1, <2>2
<1>3. CASE RegisterJob
  <2> USE <1>3 DEF RegisterJob
  <2>1. Clocks' /\ FlowInTime' /\ LoopInTime' /\ WarnsInTime'
    OBVIOUS
  <2>2. TouchSeen' /\ EdgeSeen' /\ AgeIsQuiet'
    OBVIOUS
  <2> QED
    BY <2>1, <2>2
<1>4. CASE ForgetJob
  <2> USE <1>4 DEF ForgetJob
  <2>1. Clocks' /\ FlowInTime' /\ LoopInTime' /\ WarnsInTime'
    OBVIOUS
  <2>2. TouchSeen' /\ EdgeSeen' /\ AgeIsQuiet'
    OBVIOUS
  <2> QED
    BY <2>1, <2>2
<1>5. CASE StartJob
  <2> USE <1>5 DEF StartJob
  <2>1. Clocks' /\ FlowInTime' /\ LoopInTime' /\ WarnsInTime'
    OBVIOUS
  <2>2. TouchSeen' /\ EdgeSeen' /\ AgeIsQuiet'
    OBVIOUS
  <2> QED
    BY <2>1, <2>2
<1>6. CASE StopJob
  <2> USE <1>6 DEF StopJob
  <2>1. Clocks' /\ FlowInTime' /\ LoopInTime' /\ WarnsInTime'
    OBVIOUS
  <2>2. TouchSeen' /\ EdgeSeen' /\ AgeIsQuiet'
    OBVIOUS
  <2> QED
    BY <2>1, <2>2
<1>7. CASE StartDerivation
  <2> USE <1>7 DEF StartDerivation
  <2>1. Clocks' /\ FlowInTime' /\ LoopInTime' /\ WarnsInTime'
    OBVIOUS
  <2>2. TouchSeen' /\ EdgeSeen' /\ AgeIsQuiet'
    OBVIOUS
  <2> QED
    BY <2>1, <2>2
<1>8. CASE Frame
  <2> USE <1>8 DEF Frame, HandOver, WakeupAt
  <2>1. Clocks'
    OBVIOUS
  <2>2. FlowInTime'
    OBVIOUS
  <2>3. LoopInTime'
    <3>1. /\ loop' = "yielded" /\ ~done' /\ ~worked'
          /\ age' = age /\ active' = active /\ ~active
      OBVIOUS
    <3>2. CASE due' = due
      BY <3>1, <3>2
    <3>3. CASE due' = 0
      BY <3>1, <3>3
    <3>4. CASE due' = 1 /\ (due = Unset \/ due > 1)
      BY <3>1, <3>4
    <3> QED
      BY <3>2, <3>3, <3>4
  <2>4. WarnsInTime'
    OBVIOUS
  <2>5. TouchSeen'
    OBVIOUS
  <2>6. EdgeSeen'
    OBVIOUS
  <2>7. AgeIsQuiet'
    OBVIOUS
  <2> QED
    BY <2>1, <2>2, <2>3, <2>4, <2>5, <2>6, <2>7
<1>9. CASE DeriveSlice
  <2> USE <1>9 DEF DeriveSlice, HandOver, WakeupAt
  <2>1. Clocks' /\ FlowInTime' /\ LoopInTime' /\ WarnsInTime'
    OBVIOUS
  <2>2. TouchSeen' /\ EdgeSeen' /\ AgeIsQuiet'
    OBVIOUS
  <2> QED
    BY <2>1, <2>2
<1>10. CASE LeaveDerivation
  <2> USE <1>10 DEF LeaveDerivation
  <2>1. Clocks' /\ FlowInTime' /\ LoopInTime' /\ WarnsInTime'
    OBVIOUS
  <2>2. TouchSeen' /\ EdgeSeen' /\ AgeIsQuiet'
    OBVIOUS
  <2> QED
    BY <2>1, <2>2
<1>11. CASE Unwind
  <2> USE <1>11 DEF Unwind, Scrub
  <2>1. Clocks'
    OBVIOUS
  <2>2. FlowInTime'
    OBVIOUS
  <2>3. LoopInTime'
    OBVIOUS
  <2>4. WarnsInTime'
    OBVIOUS
  <2>5. TouchSeen'
    OBVIOUS
  <2>6. EdgeSeen'
    OBVIOUS
  <2>7. AgeIsQuiet'
    OBVIOUS
  <2> QED
    BY <2>1, <2>2, <2>3, <2>4, <2>5, <2>6, <2>7
<1> QED
  BY <1>1, <1>2, <1>3, <1>4, <1>5, <1>6, <1>7, <1>8, <1>9, <1>10, <1>11 DEF Flow

(* A turn never lets the clock grow, and resets it when a window opens. *)
LEMMA SinceRange ==
  ASSUME Clocks, NEW e
  PROVE  /\ Since(e) \in {0, age} /\ Since(e) \in 0 .. age
         /\ ArmEdge => Since(e) = 0
BY DEF Clocks, Since

(* After a turn the loop wakes in time again. *)
LEMMA TurnInTime ==
  ASSUME WindowInv, NEW e, Turn(e)
  PROVE  /\ age' \in 0 .. Idle + Warning /\ due' \in Unset .. Idle
         /\ warned' \in 0 .. Warning
         /\ loop' \in {"flow", "yielded", "parked"}
         /\ shown' \in {"content", "saver", "warning"}
         /\ FlowInTime' /\ LoopInTime' /\ WarnsInTime'
<1>0. /\ Since(e) \in {0, age} /\ Since(e) \in 0 .. age
      /\ ArmEdge => Since(e) = 0
  BY SinceRange DEF WindowInv
<1> USE ClockAssumption, <1>0
    DEF ClockAssumption, WindowInv, Clocks, FlowInTime, LoopInTime, Unset
<1>1. CASE BackToFlow(e)
  <2>1. loop' = "flow" /\ ~active' /\ ~done' /\ ~worked' /\ loop = "parked"
    BY <1>1 DEF Turn, BackToFlow
  <2>2. age' \in 0 .. Idle - 1 /\ age' = Since(e)
    BY <1>1 DEF Turn, BackToFlow
  <2>3. due' = 0 \/ due' = Idle - age'
    BY <1>1, <2>2 DEF BackToFlow, Sleep, IdleWakeup
  <2>4. due' \in 0 .. Idle /\ age' + Due' <= Idle
    BY <2>2, <2>3 DEF Due
  <2> QED
    BY <1>1, <2>1, <2>2, <2>4 DEF BackToFlow, WarnsInTime
<1>2. CASE Wipe(e)
  <2>1. loop' = "flow" /\ done' /\ ~worked'
    BY <1>2 DEF Turn, Wipe, FrameDone
  <2>2. age' = Since(e) /\ due' \in {Unset, 0} /\ warned' = warned /\ shown' = shown
    BY <1>2 DEF Turn, Wipe, Sleep
  <2> QED
    BY <2>1, <2>2 DEF WarnsInTime
<1>3. CASE Warn(e)
  <2>1. loop' = "yielded" /\ ~done' /\ ~worked' /\ active' /\ shown' = "warning"
    BY <1>3 DEF Turn, Warn
  <2>2. age' = Since(e) /\ age' = age /\ age >= Idle /\ age < Idle + Warning
    BY <1>3 DEF Turn, Warn, WipeAge
  <2>3. (due' = 0 \/ due' = 1) /\ warned' = IF shown = "warning" THEN warned ELSE 0
    BY <1>3 DEF Warn, Sleep
  <2>4. armed /\ loop = "parked"
    <3>1. ~ArmEdge
      BY <2>2
    <3>2. armed
      BY <1>3, <3>1, Zenon DEF Warn, ArmEdge
    <3> QED
      BY <3>2 DEF Turn
  <2>5. warned' + Idle >= age'
    BY <2>2, <2>3, <2>4 DEF WarnsInTime, Due
  <2>6. age' + Due' <= Idle + Warning
    <3>1. Due' = 0 \/ Due' = 1
      BY <2>3 DEF Due
    <3> QED
      BY <2>2, <3>1
  <2> QED
    BY <2>1, <2>2, <2>3, <2>5, <2>6 DEF WarnsInTime
<1>4. CASE Save(e)
  <2>1. loop' = "yielded" /\ ~done' /\ ~worked' /\ active' /\ ~armed' /\ shown' = "saver"
    BY <1>4 DEF Turn, Save
  <2>2. age' = Since(e) /\ due' \in {0, 1} /\ warned' = warned
    BY <1>4 DEF Turn, Save, Sleep
  <2> QED
    BY <2>1, <2>2 DEF WarnsInTime
<1> QED
  BY <1>1, <1>2, <1>3, <1>4 DEF Turn

(* Steps of the loop. *)
LEMMA LoopWindow ==
  ASSUME WindowInv, Loop
  PROVE  WindowInv'
<1> USE ClockAssumption
    DEF ClockAssumption, WindowInv, Clocks, FlowInTime, LoopInTime, WarnsInTime, TouchSeen, EdgeSeen,
        AgeIsQuiet, Due, Fresh, Armed, Cutting,
        Unset, JobStates, InFlow, flow, clock, input, signals, panel
<1>1. CASE SyncArmed
  <2> USE <1>1 DEF SyncArmed, ArmEdge
  <2>1. Clocks'
    OBVIOUS
  <2>2. FlowInTime'
    OBVIOUS
  <2>3. LoopInTime'
    OBVIOUS
  <2>4. WarnsInTime'
    <3>1. /\ due' = due /\ shown' = shown /\ warned' = warned
          /\ active' = active /\ Due' = Due /\ Due \in 0 .. Idle
      OBVIOUS
    <3> HIDE DEF Due, Armed
    <3>2. CASE ArmEdge
      <4>1. age' = 0
        BY <3>2
      <4>2. CASE active
        <5>1. Due <= 1
          BY <4>2 DEF Due
        <5> QED
          BY <3>1, <4>1, <5>1
      <4> QED
        BY <3>1, <4>2
    <3>3. CASE ~ArmEdge
      <4>1. age' = age
        BY <3>3
      <4>2. armed' => armed
        BY <3>3, Zenon DEF ArmEdge
      <4> QED
        BY <3>1, <4>1, <4>2
    <3> QED
      BY <3>2, <3>3
  <2>5. TouchSeen'
    OBVIOUS
  <2>6. EdgeSeen'
    OBVIOUS
  <2>7. AgeIsQuiet'
    OBVIOUS
  <2> QED
    BY <2>1, <2>2, <2>3, <2>4, <2>5, <2>6, <2>7
<1>2. CASE Touch
  <2>1. Turn("touch")
    BY <1>2 DEF Touch
  <2> HIDE DEF FlowInTime, LoopInTime, WarnsInTime
  <2>2. /\ age' \in 0 .. Idle + Warning /\ due' \in Unset .. Idle
        /\ warned' \in 0 .. Warning
        /\ loop' \in {"flow", "yielded", "parked"}
        /\ shown' \in {"content", "saver", "warning"}
        /\ FlowInTime' /\ LoopInTime' /\ WarnsInTime'
    BY <2>1, TurnInTime
  <2>6. Clocks'
    BY <1>2, <2>2 DEF Touch, Turn
  <2>3. TouchSeen'
    BY <1>2 DEF Touch, Turn, Since, Effective, KeptAwake, ArmEdge
  <2>4. EdgeSeen'
    BY <1>2 DEF Touch, Turn, Since, Effective, KeptAwake, ArmEdge
  <2>5. AgeIsQuiet'
    BY <1>2 DEF Touch, Turn, Since, Effective, KeptAwake, ArmEdge
  <2> QED
    BY <2>2, <2>3, <2>4, <2>5, <2>6
<1>3. CASE Key
  <2>1. Turn("key")
    BY <1>3 DEF Key
  <2> HIDE DEF FlowInTime, LoopInTime, WarnsInTime
  <2>2. /\ age' \in 0 .. Idle + Warning /\ due' \in Unset .. Idle
        /\ warned' \in 0 .. Warning
        /\ loop' \in {"flow", "yielded", "parked"}
        /\ shown' \in {"content", "saver", "warning"}
        /\ FlowInTime' /\ LoopInTime' /\ WarnsInTime'
    BY <2>1, TurnInTime
  <2>6. Clocks'
    BY <1>3, <2>2 DEF Key, Turn
  <2>3. TouchSeen'
    BY <1>3 DEF Key, Turn, Since, Effective, KeptAwake, ArmEdge
  <2>4. EdgeSeen'
    BY <1>3 DEF Key, Turn, Since, Effective, KeptAwake, ArmEdge
  <2>5. AgeIsQuiet'
    BY <1>3 DEF Key, Turn, Since, Effective, KeptAwake, ArmEdge
  <2> QED
    BY <2>2, <2>3, <2>4, <2>5, <2>6
<1>4. CASE SameReading
  <2> USE <1>4 DEF SameReading
  <2>1. Clocks' /\ FlowInTime' /\ LoopInTime' /\ WarnsInTime'
    OBVIOUS
  <2>2. TouchSeen' /\ EdgeSeen' /\ AgeIsQuiet'
    OBVIOUS
  <2> QED
    BY <2>1, <2>2
<1>5. CASE Woken
  <2>1. Turn("none")
    BY <1>5 DEF Woken
  <2> HIDE DEF FlowInTime, LoopInTime, WarnsInTime
  <2>2. /\ age' \in 0 .. Idle + Warning /\ due' \in Unset .. Idle
        /\ warned' \in 0 .. Warning
        /\ loop' \in {"flow", "yielded", "parked"}
        /\ shown' \in {"content", "saver", "warning"}
        /\ FlowInTime' /\ LoopInTime' /\ WarnsInTime'
    BY <2>1, TurnInTime
  <2>6. Clocks'
    BY <1>5, <2>2 DEF Woken, Turn
  <2>3. TouchSeen'
    BY <1>5 DEF Woken, Turn, Since, Effective, KeptAwake, ArmEdge
  <2>4. EdgeSeen'
    BY <1>5 DEF Woken, Turn, Since, Effective, KeptAwake, ArmEdge
  <2>5. AgeIsQuiet'
    BY <1>5 DEF Woken, Turn, Since, Effective, KeptAwake, ArmEdge
  <2> QED
    BY <2>2, <2>3, <2>4, <2>5, <2>6
<1>6. CASE Timer
  <2>1. Turn("none")
    BY <1>6 DEF Timer
  <2> HIDE DEF FlowInTime, LoopInTime, WarnsInTime
  <2>2. /\ age' \in 0 .. Idle + Warning /\ due' \in Unset .. Idle
        /\ warned' \in 0 .. Warning
        /\ loop' \in {"flow", "yielded", "parked"}
        /\ shown' \in {"content", "saver", "warning"}
        /\ FlowInTime' /\ LoopInTime' /\ WarnsInTime'
    BY <2>1, TurnInTime
  <2>6. Clocks'
    BY <1>6, <2>2 DEF Timer, Turn
  <2>3. TouchSeen'
    BY <1>6 DEF Timer, Turn, Since, Effective, KeptAwake, ArmEdge
  <2>4. EdgeSeen'
    BY <1>6 DEF Timer, Turn, Since, Effective, KeptAwake, ArmEdge
  <2>5. AgeIsQuiet'
    BY <1>6 DEF Timer, Turn, Since, Effective, KeptAwake, ArmEdge
  <2> QED
    BY <2>2, <2>3, <2>4, <2>5, <2>6
<1> QED
  BY <1>1, <1>2, <1>3, <1>4, <1>5, <1>6 DEF Loop

(* Steps of the worker, of the panel and of time. *)
LEMMA WorldWindow ==
  ASSUME WindowInv, World
  PROVE  WindowInv'
<1> USE ClockAssumption
    DEF ClockAssumption, WindowInv, Clocks, FlowInTime, LoopInTime, WarnsInTime, TouchSeen, EdgeSeen,
        AgeIsQuiet, Due, Fresh, Armed, Cutting,
        Unset, JobStates, InFlow, flow, clock, input, signals, panel
<1>1. CASE JobEnds
  <2> USE <1>1 DEF JobEnds
  <2>1. Clocks' /\ FlowInTime' /\ LoopInTime' /\ WarnsInTime'
    OBVIOUS
  <2>2. TouchSeen' /\ EdgeSeen' /\ AgeIsQuiet'
    OBVIOUS
  <2> QED
    BY <2>1, <2>2
<1>2. CASE Ring
  <2> USE <1>2 DEF Ring
  <2>1. Clocks' /\ FlowInTime' /\ LoopInTime' /\ WarnsInTime'
    OBVIOUS
  <2>2. TouchSeen' /\ EdgeSeen' /\ AgeIsQuiet'
    OBVIOUS
  <2> QED
    BY <2>1, <2>2
<1>3. CASE Finger
  <2> USE <1>3 DEF Finger
  <2>1. Clocks' /\ FlowInTime' /\ LoopInTime' /\ WarnsInTime'
    OBVIOUS
  <2>2. TouchSeen' /\ EdgeSeen' /\ AgeIsQuiet'
    OBVIOUS
  <2> QED
    BY <2>1, <2>2
<1>4. CASE Drift
  <2> USE <1>4 DEF Drift
  <2>1. Clocks' /\ FlowInTime' /\ LoopInTime' /\ WarnsInTime'
    OBVIOUS
  <2>2. TouchSeen' /\ EdgeSeen' /\ AgeIsQuiet'
    OBVIOUS
  <2> QED
    BY <2>1, <2>2
<1>5. CASE Pass
  <2> USE <1>5 DEF Pass, Ready, Later, WipeAge
  <2>1. Clocks'
    OBVIOUS
  <2>2. FlowInTime'
    OBVIOUS
  <2>3. LoopInTime'
    OBVIOUS
  <2>4. WarnsInTime'
    OBVIOUS
  <2>5. TouchSeen'
    OBVIOUS
  <2>6. EdgeSeen'
    OBVIOUS
  <2>7. AgeIsQuiet'
    OBVIOUS
  <2> QED
    BY <2>1, <2>2, <2>3, <2>4, <2>5, <2>6, <2>7
<1> QED
  BY <1>1, <1>2, <1>3, <1>4, <1>5 DEF World

(* The clock of the loop and what really happened stay in step. *)
THEOREM Window == Spec => []WindowInv
<1>1. WindowInv /\ [Next]_vars => WindowInv'
  <2> SUFFICES ASSUME WindowInv, [Next]_vars
               PROVE  WindowInv'
    OBVIOUS
  <2>1. CASE Next
    BY <2>1, FlowWindow, LoopWindow, WorldWindow DEF Next
  <2>2. CASE UNCHANGED vars
    BY <2>2
       DEF vars, flow, clock, input, signals, panel, WindowInv, Clocks,
           FlowInTime, LoopInTime, WarnsInTime, TouchSeen, EdgeSeen,
           AgeIsQuiet, Due, Fresh, Armed, Cutting
  <2> QED
    BY <2>1, <2>2
<1> QED
  BY InitWindow, <1>1, PTL DEF Spec

(* A secret never outlives its window by more than the unit of work of the *)
(* flow: the loop's clock lags what happened by at most that, and it never *)
(* goes past the wipe.                                                     *)
THEOREM WipeComesInTime == Spec => []WipedInTime
<1>1. WindowInv => WipedInTime
  BY ClockAssumption
     DEF ClockAssumption, WindowInv, Clocks, EdgeSeen, AgeIsQuiet, Fresh,
         WipedInTime
<1> QED
  BY Window, <1>1, PTL

(* Only a turn of the loop decides a wipe. *)
LEMMA DoneByWipe ==
  ASSUME WindowInv, [Next]_vars, done', ~done
  PROVE  \E e \in {"touch", "key", "none"} : Turn(e) /\ Wipe(e)
<1>1. ~Flow
  BY DEF Flow, OpenBracket, CloseBracket, RegisterJob, ForgetJob, StartJob,
         StopJob, StartDerivation, Frame, DeriveSlice, LeaveDerivation, Unwind
<1>2. ~World
  BY DEF World, JobEnds, Ring, Finger, Drift, Pass, flow
<1>3. ~SyncArmed /\ ~SameReading /\ ~UNCHANGED vars
  BY DEF SyncArmed, SameReading, vars, flow
<1>4. \E e \in {"touch", "key", "none"} : Turn(e)
  BY <1>1, <1>2, <1>3 DEF Next, Loop, Touch, Key, Woken, Timer
<1>5. ASSUME NEW e, Turn(e) PROVE Wipe(e)
  BY <1>5 DEF Turn, BackToFlow, Warn, Save
<1> QED
  BY <1>4, <1>5

(* A wipe finds the session armed since before the loop slept: no job of   *)
(* it is cutting.                                                          *)
LEMMA WipeIsArmed ==
  ASSUME WindowInv, NEW e, Turn(e), Wipe(e)
  PROVE  /\ guard /\ ~Cutting /\ armed
         /\ loop = "parked" /\ age = Idle + Warning
<1>1. /\ Since(e) \in {0, age}
      /\ ArmEdge => Since(e) = 0
  BY SinceRange DEF WindowInv
<1>2. Since(e) # 0
  BY <1>1, ClockAssumption DEF ClockAssumption, Wipe, WipeAge
<1>3. ~ArmEdge
  BY <1>1, <1>2
<1>4. age = Idle + Warning
  BY <1>1, <1>2, ClockAssumption
     DEF ClockAssumption, Wipe, WipeAge, WindowInv, Clocks
<1>5. guard /\ ~Cutting
  BY DEF Wipe, Armed
<1>6. armed
  BY <1>3, Zenon DEF ArmEdge, Wipe
<1> QED
  BY <1>4, <1>5, <1>6 DEF Turn

(* A wipe never comes in the middle of a plate: the guard looks at the job *)
(* of its own screen in the very turn that wipes, and an arm edge in that  *)
(* turn would have started a fresh window.                                 *)
THEOREM NeverMidCut == Spec => NoWipeMidCut
<1>1. WindowInv /\ [Next]_vars => [done' /\ ~done => guard /\ ~Cutting /\ armed]_vars
  BY DoneByWipe, WipeIsArmed
<1> QED
  BY Window, <1>1, PTL DEF Spec, NoWipeMidCut

(* The wipe comes at age Idle + Warning; by then the warning has been up   *)
(* for Warning.                                                            *)
THEOREM NeverUnwarned == Spec => WarnedBeforeWipe
<1>1. ASSUME WindowInv, NEW e, Turn(e), Wipe(e)
      PROVE  shown = "warning" /\ warned >= Warning
  <2>1. armed /\ loop = "parked" /\ age = Idle + Warning
    BY <1>1, WipeIsArmed
  <2> HIDE DEF Due
  <2>2. Due \in Nat
    BY <1>1, ClockAssumption DEF ClockAssumption, WindowInv, Clocks, Due, Unset
  <2>3. active
    BY <1>1, <2>1, <2>2, ClockAssumption
       DEF ClockAssumption, WindowInv, LoopInTime
  <2> QED
    BY <1>1, <2>1, <2>2, <2>3, ClockAssumption
       DEF ClockAssumption, WindowInv, Clocks, WarnsInTime
<1>2. WindowInv /\ [Next]_vars => [done' /\ ~done => shown = "warning" /\ warned >= Warning]_vars
  BY DoneByWipe, <1>1
<1> QED
  BY Window, <1>2, PTL DEF Spec, WarnedBeforeWipe

(* Nothing secret is left to draw outside a bracket, and while the loop    *)
(* waits in an active session the flow's own frame is on the panel.        *)
PanelInv ==
  /\ ScrubbedOutside
  /\ loop # "flow" /\ ~active => shown = "content"

(* A turn leaves the glyphs to the flow, and shows something of its own    *)
(* only when the router is shut.                                           *)
LEMMA TurnPanel ==
  ASSUME PanelInv, NEW e, Turn(e)
  PROVE  /\ PanelInv'
         /\ inbox' /\ ~inbox => shown = "content"
<1>1. PanelInv'
  BY DEF PanelInv, ScrubbedOutside, Turn, BackToFlow, Wipe, Warn, Save
<1>2. ASSUME inbox', ~inbox PROVE shown = "content"
  <2>1. \E t : Sleep(e, t)
    BY Zenon DEF Turn, BackToFlow, Wipe, Warn, Save
  <2>2. Routed(e)
    <3>1. PICK kept \in {inbox, FALSE} : inbox' = (kept \/ Routed(e))
      BY <2>1, Zenon DEF Sleep
    <3> QED
      BY <1>2, <3>1, Zenon
  <2>3. loop = "parked" /\ ~active
    BY <2>2 DEF Turn, Routed
  <2> QED
    BY <2>3 DEF PanelInv
<1> QED
  BY <1>1, <1>2

(* The other steps hand the router no event, and the flow scrubs what it   *)
(* closes.                                                                 *)
LEMMA StepPanel ==
  ASSUME PanelInv, [Next]_vars
  PROVE  /\ PanelInv'
         /\ inbox' /\ ~inbox => shown = "content"
<1> USE DEF PanelInv, ScrubbedOutside, flow, clock, input, signals, panel
<1>1. CASE Flow
  <2>1. CASE OpenBracket \/ CloseBracket \/ RegisterJob \/ ForgetJob \/ StartJob
    BY <2>1 DEF InFlow, OpenBracket, CloseBracket, RegisterJob, ForgetJob, StartJob, Scrub
  <2>2. CASE StopJob \/ StartDerivation \/ LeaveDerivation
    BY <2>2 DEF InFlow, StopJob, StartDerivation, LeaveDerivation
  <2>3. CASE Frame
    BY <2>3 DEF Frame, HandOver
  <2>4. CASE DeriveSlice
    BY <2>4 DEF DeriveSlice, HandOver
  <2>5. CASE Unwind
    BY <2>5 DEF Unwind, Scrub
  <2> QED
    BY <1>1, <2>1, <2>2, <2>3, <2>4, <2>5 DEF Flow
<1>2. CASE Loop
  <2>1. CASE SyncArmed
    BY <2>1 DEF SyncArmed
  <2>2. CASE SameReading
    BY <2>2 DEF SameReading
  <2>3. CASE Touch \/ Key \/ Woken \/ Timer
    BY <2>3, TurnPanel DEF Touch, Key, Woken, Timer
  <2> QED
    BY <1>2, <2>1, <2>2, <2>3 DEF Loop
<1>3. CASE World
  BY <1>3 DEF World, JobEnds, Ring, Finger, Drift, Pass
<1>4. CASE UNCHANGED vars
  BY <1>4 DEF vars
<1> QED
  BY <1>1, <1>2, <1>3, <1>4 DEF Next

(* For every value of the clocks the panel is true to the session: an      *)
(* armed session that has timed out shows its warning, a closed bracket    *)
(* leaves no glyph, and no touch reaches a frame that is not shown         *)
(* (run_flow.go, wipe_guard.go, F-107).                                    *)
THEOREM PanelStaysTrue == Spec => PanelIsTrue
<1>1. WindowInv => WarningShown
  <2> SUFFICES ASSUME WindowInv, Armed, loop = "parked", quiet > Idle + 1
               PROVE  shown = "warning"
    BY DEF WarningShown
  <2> USE ClockAssumption DEF ClockAssumption, WindowInv, Clocks
  <2>1. armed
    <3>1. ~Fresh
      BY DEF Fresh
    <3> QED
      BY <3>1 DEF EdgeSeen
  <2>2. age > Idle
    BY <2>1 DEF AgeIsQuiet
  <2>3. Due \in Nat
    BY DEF Due, Unset
  <2> HIDE DEF Due
  <2>4. active
    BY <2>2, <2>3 DEF LoopInTime
  <2> QED
    BY <2>1, <2>2, <2>3, <2>4 DEF WarnsInTime
<1>2. Init => PanelInv
  BY DEF Init, PanelInv, ScrubbedOutside
<1>3. PanelInv /\ [Next]_vars => PanelInv' /\ [inbox' /\ ~inbox => shown = "content"]_vars
  BY StepPanel
<1>4. PanelInv => ScrubbedOutside
  BY DEF PanelInv
<1> QED
  BY Window, <1>1, <1>2, <1>3, <1>4, PTL DEF Spec, PanelIsTrue, RoutedToFrame

-----------------------------------------------------------------------------
Objs    == {"none", "whole", "torn"}
Results == [obj : Objs, status : 0 .. 2]
Reads   == [got : Nat, of : Nat, err : {"nil", "eof", "fail"}]
Waits   == {"detect", "park", "field", "select5", "select2"}

(* The variables of the screens are functions on them. *)
Fields ==
  /\ pc \in [S -> Waits \cup {"none", "top", "read", "data", "scan", "merge", "send", "sleep", "exit"}]
  /\ token \in [S -> {"free", "read", "close"}]
  /\ src \in [S -> {"none", "type5", "type2", "emulated"}]
  /\ at \in [S -> Nat] /\ len \in [S -> Nat] /\ records \in [S -> Nat]
  /\ read \in [S -> Reads] /\ buf \in [S -> Seq(Nat)]
  /\ scan \in [S -> Results] /\ slot \in [S -> Seq(Results)]
  /\ overflow \in [S -> BOOLEAN] /\ idle \in [S -> BOOLEAN]
  /\ owed \in [S -> BOOLEAN] /\ restless \in [S -> BOOLEAN]
  /\ cancel \in BOOLEAN /\ closer \subseteq S

(* The UI is on a screen it has opened; past Close it holds the token. *)
UiInv ==
  /\ screen \in 0 .. Screens
  /\ ui \in {"none", "shown", "close", "wait", "chip", "join", "left"}
  /\ ui # "none" => screen \in S
  /\ ui \in {"chip", "join"} => token[screen] = "close"
  /\ \A s \in S : pc[s] # "none" => s <= screen

(* A goroutine is in the chip while it holds the token, and only then. *)
TokenInv(s) == token[s] = "read" <=> pc[s] \in Waits \cup {"data"}

(* A record is read through one active reader. *)
ChunkInv(s) ==
  /\ at[s] <= len[s] /\ (at[s] = len[s] => len[s] = 0) /\ len[s] \in {0} \cup RecordLens /\ records[s] <= MaxRecords
  /\ src[s] = "none" => len[s] = 0
  /\ pc[s] \in Waits => src[s] = "none"
  /\ pc[s] = "data" => src[s] # "none"

(* Unless it has overflown, the buffer holds the chunks of the record that *)
(* were read before: all of them but the one the last Read returned.       *)
Chunks(n) == [i \in 1 .. n |-> i]
ReadInv(s) ==
  LET r == read[s] IN
  /\ r.err = "nil"  => r.got = at[s] /\ r.got # 0 /\ buf[s] = Chunks(at[s] - 1)
  /\ r.err = "eof"  => /\ at[s] = 0 /\ r.of = r.got
                       /\ buf[s] = IF r.got = 0 THEN <<>> ELSE Chunks(r.got - 1)
  /\ r.err = "fail" => at[s] = 0 /\ r.got = 0
BufInv(s) ==
  /\ Len(buf[s]) < BufChunks
  /\ ~overflow[s] => IF pc[s] = "scan" THEN ReadInv(s) ELSE buf[s] = Chunks(at[s])

(* Nothing is torn, and nothing found is lost. *)
ResultInv(s) ==
  /\ scan[s].obj # "torn" /\ Len(slot[s]) <= 1
  /\ slot[s] # <<>> => slot[s][1].obj # "torn"
  /\ owed[s] =>
        \/ pc[s] \in {"merge", "send"} /\ scan[s].obj # "none"
        \/ slot[s] # <<>> /\ slot[s][1].obj # "none"

(* What is owed a rest gets one before the next read. *)
RestInv(s) ==
  restless[s] => \/ pc[s] = "sleep"
                 \/ pc[s] \in {"merge", "send"} /\ (idle[s] \/ scan[s].status = Status.failed)

ScreenInv(s) == TokenInv(s) /\ ChunkInv(s) /\ BufInv(s) /\ ResultInv(s) /\ RestInv(s)
ReaderInv == Fields /\ UiInv /\ \A s \in S : ScreenInv(s)

(* A step of one screen's goroutine leaves the other screens alone. *)
Same(t) ==
  /\ pc'[t] = pc[t] /\ token'[t] = token[t] /\ src'[t] = src[t] /\ at'[t] = at[t] /\ len'[t] = len[t]
  /\ records'[t] = records[t] /\ read'[t] = read[t] /\ buf'[t] = buf[t] /\ scan'[t] = scan[t]
  /\ slot'[t] = slot[t] /\ overflow'[t] = overflow[t] /\ idle'[t] = idle[t] /\ owed'[t] = owed[t]
  /\ restless'[t] = restless[t]

(* A screen nothing happens to keeps its invariant.                        *)
LEMMA ScreenStays ==
  ASSUME NEW t \in S, ScreenInv(t), Same(t)
  PROVE  ScreenInv(t)'
BY DEF ScreenInv, Same, TokenInv, ChunkInv, BufInv, ReadInv, ResultInv, RestInv

(* It is enough to look at the screen whose goroutine made the step.       *)
LEMMA OneScreen ==
  ASSUME ReaderInv, NEW s \in S, Fields', \A t \in S \ {s} : Same(t), ScreenInv(s)',
         UNCHANGED <<screen, ui>>, pc[s] # "none", token[s] = "close" => token'[s] = "close"
  PROVE  ReaderInv'
<1>1. \A t \in S : ScreenInv(t)'
  BY ScreenStays DEF ReaderInv
<1>2. UiInv'
  <2>1. screen \in S => (token[screen] = "close" => token'[screen] = "close")
    BY DEF Same
  <2>2. \A t \in S : pc'[t] # "none" => t <= screen
    BY DEF ReaderInv, UiInv, Same
  <2> QED BY <2>1, <2>2 DEF ReaderInv, UiInv
<1> QED BY <1>1, <1>2 DEF ReaderInv

(* The first chunks of a record, as a sequence.                            *)
LEMMA ChunksAre ==
  ASSUME NEW n \in Nat
  PROVE  Chunks(n) \in Seq(Nat) /\ Len(Chunks(n)) = n /\ Append(Chunks(n), n + 1) = Chunks(n + 1)
<1>1. Chunks(n) \in Seq(Nat) /\ Len(Chunks(n)) = n
  BY DEF Chunks
<1>2. Chunks(n + 1) \in Seq(Nat) /\ Len(Chunks(n + 1)) = n + 1
  BY DEF Chunks
<1>3. Append(Chunks(n), n + 1) = Chunks(n + 1)
  <2> DEFINE a == Append(Chunks(n), n + 1)
             b == Chunks(n + 1)
  <2>1. a \in Seq(Nat) /\ Len(a) = n + 1
    BY <1>1, AppendProperties
  <2>2. ASSUME NEW i \in 1 .. Len(a) PROVE a[i] = b[i]
    BY <1>1, <2>1, <2>2, AppendProperties DEF Chunks
  <2> HIDE DEF a, b
  <2>3. b \in Seq(Nat) /\ Len(b) = n + 1
    BY <1>2 DEF b
  <2>4. a = b
    BY <2>1, <2>2, <2>3, SeqEqual
  <2> QED BY <2>4 DEF a, b
<1> QED BY <1>1, <1>3

(* No screen is open at first.                                             *)
LEMMA InitReader == ReaderInit => ReaderInv
<1> SUFFICES ASSUME ReaderInit PROVE ReaderInv
  OBVIOUS
<1> USE ReaderAssumption DEF ReaderInit
<1>1. Fields
  <2>1. NoRead \in Reads /\ Nothing \in Results
    BY DEF Results, Reads, Objs, NoRead, Nothing
  <2>2. <<>> \in Seq(Nat) /\ <<>> \in Seq(Results)
    OBVIOUS
  <2> QED BY <2>1, <2>2 DEF Fields
<1>2. UiInv
  BY DEF UiInv, S
<1>3. ASSUME NEW s \in S PROVE ScreenInv(s)
  <2>1. Chunks(0) = <<>>
    BY DEF Chunks
  <2>2. pc[s] = "none" /\ token[s] = "free" /\ at[s] = 0 /\ len[s] = 0 /\ src[s] = "none" /\ records[s] = 0
        /\ buf[s] = <<>> /\ scan[s].obj = "none" /\ slot[s] = <<>> /\ ~owed[s] /\ ~restless[s]
    BY DEF Nothing
  <2>3. TokenInv(s) /\ ChunkInv(s) /\ ResultInv(s) /\ RestInv(s)
    BY <2>2 DEF TokenInv, ChunkInv, ResultInv, RestInv, Waits
  <2>4. BufInv(s)
    BY <2>1, <2>2 DEF BufInv
  <2> QED BY <2>3, <2>4 DEF ScreenInv
<1> QED BY <1>1, <1>2, <1>3 DEF ReaderInv

(* The steps of the UI. *)
LEMMA OpenScreenReader ==
  ASSUME ReaderInv, OpenScreen
  PROVE  ReaderInv'
<1> USE ReaderAssumption
<1>1. screen + 1 \in S /\ screen' = screen + 1 /\ ui' = "shown"
  BY DEF OpenScreen, ReaderInv, UiInv, S
<1> DEFINE n == screen + 1
<1>2. /\ pc' = [pc EXCEPT ![n] = "top"]
      /\ UNCHANGED <<closer, token, src, at, len, cancel, records, read, buf, overflow, idle, scan, slot, owed, restless>>
  BY DEF OpenScreen, chip, scanner, history
<1> HIDE DEF n
<1>3. Fields'
  BY <1>2 DEF ReaderInv, Fields
<1>4. ASSUME NEW s \in S PROVE ScreenInv(s)'
  <2>1. CASE s # n
    BY <1>2, <1>3, <2>1, ScreenStays DEF ReaderInv, Fields, Same
  <2>2. CASE s = n
    <3>1. pc[n] = "none" /\ pc'[n] = "top"
      BY <1>1, <1>2, <2>2 DEF ReaderInv, Fields, UiInv, S, n
    <3>2. ScreenInv(n)
      BY <2>2 DEF ReaderInv
    <3> QED BY <1>2, <2>2, <3>1, <3>2
         DEF ScreenInv, TokenInv, ChunkInv, BufInv, ResultInv, RestInv, Waits
  <2> QED BY <2>1, <2>2
<1>5. UiInv'
  <2>1. \A t \in S : pc'[t] # "none" => t <= n
    BY <1>1, <1>2 DEF ReaderInv, Fields, UiInv, n, S
  <2> QED BY <1>1, <2>1 DEF UiInv, n, S
<1> QED BY <1>3, <1>4, <1>5 DEF ReaderInv

(* What the screen takes from the slot is no longer owed to it.            *)
LEMMA ReceiveReader ==
  ASSUME ReaderInv, Receive
  PROVE  ReaderInv'
<1>1. ui = "shown" /\ screen \in S /\ slot[screen] # <<>>
  BY DEF Receive, ReaderInv, UiInv
<1> DEFINE n == screen
<1>2. /\ slot' = [slot EXCEPT ![n] = <<>>]
      /\ owed' = [owed EXCEPT ![n] = owed[n] /\ slot[n][1].obj = "none"]
      /\ UNCHANGED <<screen, ui, closer, pc, token, src, at, len, cancel, records, read, buf, overflow, idle, scan, restless>>
  BY DEF Receive, chip, scanner
<1> HIDE DEF n
<1>3. n \in S /\ slot[n] # <<>>
  BY <1>1 DEF n
<1>4. Fields'
  <2>1. (owed[n] /\ slot[n][1].obj = "none") \in BOOLEAN /\ <<>> \in Seq(Results)
    OBVIOUS
  <2> QED BY <1>2, <1>3, <2>1 DEF ReaderInv, Fields
<1>5. ASSUME NEW s \in S PROVE ScreenInv(s)'
  <2>1. CASE s # n
    BY <1>2, <1>4, <2>1, ScreenStays DEF ReaderInv, Fields, Same
  <2>2. CASE s = n
    <3>1. slot'[s] = <<>> /\ (owed'[s] => owed[s] /\ slot[s][1].obj = "none")
      BY <1>2, <1>3, <2>2 DEF ReaderInv, Fields
    <3>2. ScreenInv(s) /\ slot[s] # <<>>
      BY <1>3, <2>2 DEF ReaderInv
    <3>3. ResultInv(s)'
      BY <1>2, <3>1, <3>2 DEF ScreenInv, ResultInv
    <3>4. TokenInv(s)' /\ ChunkInv(s)' /\ BufInv(s)' /\ RestInv(s)'
      BY <1>2, <3>2 DEF ScreenInv, TokenInv, ChunkInv, BufInv, ReadInv, RestInv
    <3> QED BY <3>3, <3>4 DEF ScreenInv
  <2> QED BY <2>1, <2>2
<1>6. UiInv'
  BY <1>2 DEF ReaderInv, UiInv
<1> QED BY <1>4, <1>5, <1>6 DEF ReaderInv

(* The stop takes the reading token only when it is free: a read that is   *)
(* in the chip keeps it.                                                   *)
LEMMA StopReader ==
  ASSUME ReaderInv, Stop \/ ClosePoller \/ ReadEnded \/ CloseTimeout \/ CloseChip \/ Join
  PROVE  ReaderInv'
<1> DEFINE n == screen
<1>1. n \in S /\ ui # "none"
  BY DEF ReaderInv, UiInv, Stop, ClosePoller, ReadEnded, CloseTimeout, CloseChip, Join
<1>2. /\ UNCHANGED <<screen, pc, src, at, len, records, read, buf, overflow, idle, scan, slot, owed, restless>>
      /\ cancel' \in BOOLEAN /\ closer' \subseteq S
      /\ \/ token' = token
         \/ token[n] = "free" /\ token' = [token EXCEPT ![n] = "close"]
      /\ ui' \in {"close", "wait", "chip", "join", "left"}
      /\ ui' \in {"chip", "join"} => token'[n] = "close"
  <2>1. CASE Stop
    BY <1>1, <2>1 DEF Stop, ReaderInv, Fields, chip, scanner, history
  <2>2. CASE ClosePoller
    BY <1>1, <2>2 DEF ClosePoller, Interrupt, ReaderInv, Fields, scanner, history
  <2>3. CASE ReadEnded
    BY <1>1, <2>3 DEF ReadEnded, ReaderInv, Fields, chip, scanner, history
  <2>4. CASE CloseTimeout \/ Join
    BY <1>1, <2>4 DEF CloseTimeout, Join, ReaderInv, Fields, chip, scanner, history
  <2>5. CASE CloseChip
    BY <1>1, <2>5 DEF CloseChip, ReaderInv, UiInv, Fields, chip, scanner, history
  <2> QED BY <2>1, <2>2, <2>3, <2>4, <2>5
<1> HIDE DEF n
<1>3. Fields'
  BY <1>1, <1>2 DEF ReaderInv, Fields
<1>4. ASSUME NEW s \in S PROVE ScreenInv(s)'
  <2>1. ScreenInv(s)
    BY DEF ReaderInv
  <2>2. token'[s] = token[s] \/ (token[s] = "free" /\ token'[s] = "close")
    BY <1>1, <1>2 DEF ReaderInv, Fields
  <2>3. TokenInv(s)'
    BY <1>2, <2>1, <2>2 DEF ScreenInv, TokenInv
  <2>4. ChunkInv(s)' /\ BufInv(s)' /\ ResultInv(s)' /\ RestInv(s)'
    BY <1>2, <2>1 DEF ScreenInv, ChunkInv, BufInv, ReadInv, ResultInv, RestInv
  <2> QED BY <2>3, <2>4 DEF ScreenInv
<1>5. UiInv'
  BY <1>1, <1>2 DEF ReaderInv, UiInv, n
<1> QED BY <1>3, <1>4, <1>5 DEF ReaderInv

(* The steps of a goroutine that reads. *)
LEMMA TopReader ==
  ASSUME ReaderInv, NEW s \in S, Top(s) \/ Exit(s)
  PROVE  ReaderInv'
<1> USE ReaderAssumption
<1>1. ScreenInv(s) /\ Fields
  BY DEF ReaderInv
<1>2. CASE Top(s)
  <2>1. /\ pc[s] = "top" /\ pc' = [pc EXCEPT ![s] = "read"]
        /\ UNCHANGED <<screen, ui, closer, token, src, at, len, cancel, records, read, buf, overflow, idle, scan, slot, owed, restless>>
    BY <1>2 DEF Top, chip, scanner, history
  <2>2. Fields' /\ \A t \in S \ {s} : Same(t)
    BY <1>1, <2>1 DEF Fields, Same
  <2>3. pc'[s] = "read"
    BY <1>1, <2>1 DEF Fields
  <2>4. ScreenInv(s)'
    BY <1>1, <2>1, <2>3 DEF ScreenInv, TokenInv, ChunkInv, BufInv, ResultInv, RestInv, Waits
  <2> QED BY <2>1, <2>2, <2>4, OneScreen
<1>3. CASE Exit(s)
  <2>1. /\ pc[s] = "top" /\ pc' = [pc EXCEPT ![s] = "exit"]
        /\ src' = [src EXCEPT ![s] = "none"] /\ records' = [records EXCEPT ![s] = 0]
        /\ at' = [at EXCEPT ![s] = 0] /\ len' = [len EXCEPT ![s] = 0]
        /\ buf' = [buf EXCEPT ![s] = <<>>] /\ overflow' = [overflow EXCEPT ![s] = FALSE]
        /\ slot' = [slot EXCEPT ![s] = <<>>] /\ owed' = [owed EXCEPT ![s] = FALSE]
        /\ UNCHANGED <<screen, ui, closer, token, cancel, read, idle, scan, restless>>
    BY <1>3 DEF Exit
  <2>2. Fields' /\ \A t \in S \ {s} : Same(t)
    <3>1. <<>> \in Seq(Nat) /\ <<>> \in Seq(Results)
      OBVIOUS
    <3>2. Fields'
      BY <1>1, <2>1, <3>1 DEF Fields
    <3> QED BY <1>1, <2>1, <3>2 DEF Fields, Same
  <2>3. pc'[s] = "exit" /\ src'[s] = "none" /\ records'[s] = 0 /\ at'[s] = 0 /\ len'[s] = 0 /\ buf'[s] = <<>>
        /\ slot'[s] = <<>> /\ ~owed'[s]
    BY <1>1, <2>1 DEF Fields
  <2>4. TokenInv(s)' /\ ChunkInv(s)' /\ ResultInv(s)' /\ RestInv(s)'
    BY <1>1, <2>1, <2>3 DEF ScreenInv, TokenInv, ChunkInv, ResultInv, RestInv, Waits
  <2>5. BufInv(s)'
    BY <2>3, ChunksAre DEF BufInv, Chunks
  <2>6. ScreenInv(s)'
    BY <2>4, <2>5 DEF ScreenInv
  <2> QED BY <2>1, <2>2, <2>6, OneScreen
<1> QED BY <1>2, <1>3

(* The read takes the free token, and with it the chip.                    *)
LEMMA BeginReadReader ==
  ASSUME ReaderInv, NEW s \in S, BeginRead(s)
  PROVE  ReaderInv'
<1>1. ScreenInv(s) /\ Fields
  BY DEF ReaderInv
<1>2. /\ pc[s] = "read" /\ token[s] = "free" /\ token' = [token EXCEPT ![s] = "read"]
      /\ pc' = [pc EXCEPT ![s] = IF src[s] = "none" THEN "detect" ELSE "data"]
      /\ UNCHANGED <<screen, ui, closer, src, at, len, cancel, records, read, buf, overflow, idle, scan, slot, owed, restless>>
  BY DEF BeginRead, TokenFree, chip, scanner, history
<1>3. Fields' /\ \A t \in S \ {s} : Same(t)
  BY <1>1, <1>2 DEF Fields, Same, Waits
<1>4. token'[s] = "read" /\ pc'[s] = IF src[s] = "none" THEN "detect" ELSE "data"
  BY <1>1, <1>2 DEF Fields
<1>5. ScreenInv(s)'
  BY <1>1, <1>2, <1>4 DEF ScreenInv, TokenInv, ChunkInv, BufInv, ResultInv, RestInv, Waits
<1> QED BY <1>2, <1>3, <1>5, OneScreen

(* A Read that returns no chunk leaves no record begun. *)
LEMMA ReturnReader ==
  ASSUME ReaderInv, NEW s \in S, NEW e \in {"eof", "fail"}, Return(s, 0, 0, e),
         pc[s] \in Waits \cup {"data"},
         src' \in [S -> {"none", "type5", "type2", "emulated"}],
         at' \in [S -> Nat], len' \in [S -> Nat], cancel' \in BOOLEAN,
         src'[s] = "none", len'[s] = 0, at'[s] = 0, e = "eof" => at[s] = 0,
         \A t \in S \ {s} : src'[t] = src[t] /\ at'[t] = at[t] /\ len'[t] = len[t],
         UNCHANGED <<screen, ui, closer, records, buf, overflow, idle, scan, slot, owed, restless>>
  PROVE  ReaderInv'
<1>1. ScreenInv(s) /\ Fields
  BY DEF ReaderInv
<1>2. /\ read' = [read EXCEPT ![s] = [got |-> 0, of |-> 0, err |-> e]]
      /\ token' = [token EXCEPT ![s] = "free"] /\ pc' = [pc EXCEPT ![s] = "scan"]
  BY DEF Return
<1>3. Fields' /\ \A t \in S \ {s} : Same(t)
  <2>1. [got |-> 0, of |-> 0, err |-> e] \in Reads
    BY DEF Reads
  <2>2. Fields'
    BY <1>1, <1>2, <2>1 DEF Fields
  <2> QED BY <1>1, <1>2, <2>2 DEF Fields, Same
<1>4. /\ read'[s] = [got |-> 0, of |-> 0, err |-> e] /\ token'[s] = "free" /\ pc'[s] = "scan"
      /\ token[s] = "read"
  BY <1>1, <1>2 DEF Fields, ScreenInv, TokenInv
<1>5. TokenInv(s)' /\ ChunkInv(s)' /\ ResultInv(s)' /\ RestInv(s)'
  BY <1>1, <1>4 DEF ScreenInv, TokenInv, ChunkInv, ResultInv, RestInv, Waits
<1>6. BufInv(s)'
  <2>1. ~overflow[s] => buf[s] = Chunks(at[s]) /\ Len(buf[s]) < BufChunks
    BY <1>1 DEF ScreenInv, BufInv, Waits
  <2>2. Chunks(0) = <<>>
    BY DEF Chunks
  <2>3. ~overflow[s] => ReadInv(s)'
    BY <1>4, <2>1, <2>2 DEF ReadInv
  <2> QED BY <1>1, <1>4, <2>3 DEF BufInv, ScreenInv
<1>7. ScreenInv(s)'
  BY <1>5, <1>6 DEF ScreenInv
<1> QED BY <1>3, <1>4, <1>7, OneScreen DEF Waits

(* A wait that goes on. *)
LEMMA GoReader ==
  ASSUME ReaderInv, NEW s \in S, NEW to \in Waits \cup {"data"}, Go(s, to),
         pc[s] \in Waits, cancel' \in BOOLEAN,
         src' \in [S -> {"none", "type5", "type2", "emulated"}],
         to = "data" <=> src'[s] # "none",
         \A t \in S \ {s} : src'[t] = src[t],
         UNCHANGED <<screen, ui, closer, at, len, records, buf, overflow, idle, scan, slot, owed, restless>>
  PROVE  ReaderInv'
<1>1. ScreenInv(s) /\ Fields
  BY DEF ReaderInv
<1>2. pc' = [pc EXCEPT ![s] = to] /\ token' = token /\ read' = read
  BY DEF Go
<1>3. Fields' /\ \A t \in S \ {s} : Same(t)
  <2>1. Fields'
    BY <1>1, <1>2 DEF Fields
  <2> QED BY <1>1, <1>2, <2>1 DEF Fields, Same
<1>4. pc'[s] = to
  BY <1>1, <1>2 DEF Fields
<1>5. src[s] = "none" /\ len[s] = 0
  BY <1>1 DEF ScreenInv, ChunkInv
<1>6. TokenInv(s)' /\ ChunkInv(s)' /\ ResultInv(s)' /\ RestInv(s)' /\ BufInv(s)'
  BY <1>1, <1>2, <1>4, <1>5 DEF ScreenInv, TokenInv, ChunkInv, ResultInv, RestInv, BufInv, Waits
<1>7. ScreenInv(s)'
  BY <1>6 DEF ScreenInv
<1>8. pc[s] # "none"
  BY DEF Waits
<1> QED BY <1>2, <1>3, <1>7, <1>8, OneScreen

(* No record is begun while the goroutine waits for a tag.                 *)
LEMMA NoChunkYet ==
  ASSUME ReaderInv, NEW s \in S, pc[s] \in Waits
  PROVE  src[s] = "none" /\ len[s] = 0 /\ at[s] = 0
BY DEF ReaderInv, Fields, ScreenInv, ChunkInv

(* The waits of Detect, with the cancellation and the failures.            *)
LEMMA DetectReader ==
  ASSUME ReaderInv, NEW s \in S, Detect(s)
  PROVE  ReaderInv'
<1>1. Fields
  BY DEF ReaderInv
<1>2. UNCHANGED <<screen, ui, closer, at, len, records, buf, overflow, idle, scan, slot, owed, restless>>
  BY DEF Detect, scanner, history
<1>3. pc[s] \in Waits
  BY DEF Detect, Waits
<1>4. src[s] = "none" /\ len[s] = 0 /\ at[s] = 0
  BY <1>3, NoChunkYet
<1>5. cancel' \in BOOLEAN
  BY <1>1 DEF Detect, TakesCancel, Fields
<1>6. ASSUME NEW e \in {"eof", "fail"}, Return(s, 0, 0, e), UNCHANGED src PROVE ReaderInv'
  BY <1>1, <1>2, <1>3, <1>4, <1>5, <1>6, ReturnReader DEF Fields
<1>7. ASSUME NEW to \in {"park", "field", "select5"}, Go(s, to), UNCHANGED src PROVE ReaderInv'
  <2>1. to \in Waits
    BY DEF Waits
  <2> QED BY <1>1, <1>2, <1>3, <1>4, <1>5, <1>7, <2>1, GoReader DEF Fields
<1>8. ASSUME Go(s, "data"), src' = [src EXCEPT ![s] = "emulated"] PROVE ReaderInv'
  BY <1>1, <1>2, <1>3, <1>5, <1>8, GoReader DEF Fields
<1> QED BY <1>6, <1>7, <1>8 DEF Detect

(* The selection of a tag.                                                 *)
LEMMA SelectReader ==
  ASSUME ReaderInv, NEW s \in S, Select(s)
  PROVE  ReaderInv'
<1>1. Fields
  BY DEF ReaderInv
<1>2. UNCHANGED <<screen, ui, closer, at, len, records, buf, overflow, idle, scan, slot, owed, restless>>
  BY DEF Select, scanner, history
<1>3. pc[s] \in Waits
  BY DEF Select, Waits
<1>4. src[s] = "none" /\ len[s] = 0 /\ at[s] = 0
  BY <1>3, NoChunkYet
<1>5. cancel' \in BOOLEAN
  BY <1>1 DEF Select, TakesCancel, Fields
<1>6. ASSUME Go(s, Next5or2(s)), UNCHANGED src PROVE ReaderInv'
  <2>1. Next5or2(s) \in Waits /\ Next5or2(s) # "data"
    BY DEF Waits, Next5or2
  <2> QED BY <1>1, <1>2, <1>3, <1>4, <1>5, <1>6, <2>1, GoReader DEF Fields
<1>7. ASSUME Go(s, "data"), src' = [src EXCEPT ![s] = IF pc[s] = "select5" THEN "type5" ELSE "type2"] PROVE ReaderInv'
  BY <1>1, <1>2, <1>3, <1>5, <1>7, GoReader DEF Fields
<1> QED BY <1>6, <1>7 DEF Select

(* The active reader is given up, with its record.                         *)
LEMMA DataEndsReader ==
  ASSUME ReaderInv, NEW s \in S, DataEnds(s)
  PROVE  ReaderInv'
<1>1. Fields /\ ScreenInv(s)
  BY DEF ReaderInv
<1>2. pc[s] = "data" /\ UNCHANGED <<screen, ui, closer, records, buf, overflow, idle, scan, slot, owed, restless>>
  BY DEF DataEnds, scanner, history
<1>3. cancel' \in BOOLEAN
  BY <1>1 DEF DataEnds, TakesCancel, Fields
<1>4. PICK e \in {"eof", "fail"} : GiveUp(s, e) /\ (e = "eof" => len[s] = 0)
  BY DEF DataEnds
<1>5. /\ Return(s, 0, 0, e) /\ src' = [src EXCEPT ![s] = "none"]
      /\ at' = [at EXCEPT ![s] = 0] /\ len' = [len EXCEPT ![s] = 0]
  BY <1>4 DEF GiveUp
<1>6. e = "eof" => at[s] = 0
  BY <1>1, <1>4 DEF Fields, ScreenInv, ChunkInv
<1>7. /\ src' \in [S -> {"none", "type5", "type2", "emulated"}] /\ at' \in [S -> Nat] /\ len' \in [S -> Nat]
      /\ src'[s] = "none" /\ len'[s] = 0 /\ at'[s] = 0
      /\ \A t \in S \ {s} : src'[t] = src[t] /\ at'[t] = at[t] /\ len'[t] = len[t]
  BY <1>1, <1>5 DEF Fields
<1> QED BY <1>2, <1>3, <1>5, <1>6, <1>7, ReturnReader

(* A cancellation that a type 2 tag swallows changes nothing.              *)
LEMMA SwallowedReader ==
  ASSUME ReaderInv, NEW s \in S, CancelSwallowed(s)
  PROVE  ReaderInv'
<1>1. /\ UNCHANGED <<screen, ui, closer, pc, token, src, at, len, records, read, buf, overflow, idle, scan, slot, owed, restless>>
      /\ cancel' = FALSE
  BY DEF CancelSwallowed, TakesCancel, scanner, history
<1>2. Fields' /\ UiInv'
  BY <1>1 DEF ReaderInv, Fields, UiInv
<1>3. ASSUME NEW t \in S PROVE ScreenInv(t)'
  BY <1>1, ScreenStays DEF ReaderInv, Same
<1> QED BY <1>2, <1>3 DEF ReaderInv

(* A Read that returns a chunk. *)
LEMMA ChunkReader ==
  ASSUME ReaderInv, NEW s \in S, Chunk(s)
  PROVE  ReaderInv'
<1> USE ReaderAssumption
<1>1. Fields /\ ScreenInv(s)
  BY DEF ReaderInv
<1>2. /\ pc[s] = "data" /\ (len[s] = 0 => records[s] < MaxRecords)
      /\ records' = [records EXCEPT ![s] = IF len[s] = 0 THEN records[s] + 1 ELSE records[s]]
      /\ UNCHANGED <<screen, ui, closer, src, cancel, buf, overflow, idle, scan, slot, owed, restless>>
  BY DEF Chunk, scanner, history
<1>3. PICK l \in IF len[s] = 0 THEN RecordLens ELSE {len[s]} :
        /\ Return(s, at[s] + 1, l, IF at[s] + 1 = l THEN "eof" ELSE "nil")
        /\ at' = [at EXCEPT ![s] = IF at[s] + 1 = l THEN 0 ELSE at[s] + 1]
        /\ len' = [len EXCEPT ![s] = IF at[s] + 1 = l THEN 0 ELSE l]
  BY DEF Chunk
<1> DEFINE ending == at[s] + 1 = l
           e == IF ending THEN "eof" ELSE "nil"
           k == at[s] + 1
<1>4. at[s] \in Nat /\ len[s] \in Nat /\ records[s] \in Nat /\ at[s] <= len[s] /\ len[s] \in {0} \cup RecordLens
      /\ records[s] <= MaxRecords /\ src[s] # "none"
  BY <1>1, <1>2 DEF Fields, ScreenInv, ChunkInv
<1>5. l \in RecordLens /\ l \in Nat /\ l # 0
  BY <1>3, <1>4
<1>6. /\ read' = [read EXCEPT ![s] = [got |-> k, of |-> l, err |-> e]]
      /\ token' = [token EXCEPT ![s] = "free"] /\ pc' = [pc EXCEPT ![s] = "scan"]
  BY <1>3 DEF Return
<1>7. Fields' /\ \A t \in S \ {s} : Same(t)
  <2>1. [got |-> k, of |-> l, err |-> e] \in Reads
    BY <1>4, <1>5 DEF Reads
  <2>2. Fields'
    BY <1>1, <1>2, <1>3, <1>4, <1>5, <1>6, <2>1 DEF Fields
  <2> QED BY <1>1, <1>2, <1>3, <1>6, <2>2 DEF Fields, Same
<1>8. /\ read'[s] = [got |-> k, of |-> l, err |-> e] /\ token'[s] = "free" /\ pc'[s] = "scan"
      /\ at'[s] = (IF ending THEN 0 ELSE k) /\ len'[s] = (IF ending THEN 0 ELSE l)
      /\ records'[s] = IF len[s] = 0 THEN records[s] + 1 ELSE records[s]
  BY <1>1, <1>2, <1>3, <1>6 DEF Fields
<1>9. TokenInv(s)' /\ ResultInv(s)' /\ RestInv(s)'
  BY <1>1, <1>2, <1>8 DEF ScreenInv, TokenInv, ResultInv, RestInv, Waits
<1>10. ChunkInv(s)'
  <2>1. k <= l
    <3>1. CASE len[s] = 0
      BY <1>4, <1>5, <3>1
    <3>2. CASE len[s] # 0
      <4>1. l = len[s] /\ at[s] # l
        BY <1>1, <1>3, <3>2 DEF ScreenInv, ChunkInv
      <4> QED BY <1>4, <4>1
    <3> QED BY <3>1, <3>2
  <2>2. records'[s] <= MaxRecords
    BY <1>2, <1>4, <1>8
  <2>3. at'[s] <= len'[s] /\ (at'[s] = len'[s] => len'[s] = 0) /\ len'[s] \in {0} \cup RecordLens
    BY <1>4, <1>5, <1>8, <2>1
  <2> QED BY <1>2, <1>4, <1>8, <2>2, <2>3 DEF ChunkInv, Waits
<1>11. BufInv(s)'
  <2>1. Len(buf[s]) < BufChunks /\ (~overflow[s] => buf[s] = Chunks(at[s]))
    BY <1>1, <1>2 DEF ScreenInv, BufInv
  <2>2. k - 1 = at[s] /\ k # 0
    BY <1>4
  <2>3. ~overflow[s] => ReadInv(s)'
    BY <1>2, <1>8, <2>1, <2>2 DEF ReadInv
  <2> QED BY <1>2, <1>8, <2>1, <2>3 DEF BufInv
<1>12. ScreenInv(s)'
  BY <1>9, <1>10, <1>11 DEF ScreenInv
<1>13. token[s] = "read"
  BY <1>1, <1>2 DEF ScreenInv, TokenInv
<1> QED BY <1>2, <1>7, <1>12, <1>13, OneScreen

(* What Scan makes of the Read: an object only from a whole record, and    *)
(* the buffer in step with the record again.                               *)
LEMMA ScanReader ==
  ASSUME ReaderInv, NEW s \in S, Scan(s)
  PROVE  ReaderInv'
<1> USE ReaderAssumption
<1> DEFINE r  == read[s]
           b  == buf[s] \o (IF r.got = 0 THEN <<>> ELSE <<r.got>>)
           ov == overflow[s] \/ Full(b)
<1>1. Fields /\ ScreenInv(s)
  BY DEF ReaderInv
<1>2. /\ pc[s] = "scan" /\ pc' = [pc EXCEPT ![s] = "merge"]
      /\ read' = [read EXCEPT ![s] = NoRead] /\ overflow' = [overflow EXCEPT ![s] = ov]
      /\ idle' = [idle EXCEPT ![s] = scan'[s] = Nothing]
      /\ restless' = [restless EXCEPT ![s] = scan'[s].obj = "none" /\ scan'[s].status \in {Status.idle, Status.failed}]
      /\ owed' = [owed EXCEPT ![s] = owed[s] \/ scan'[s].obj # "none"]
      /\ UNCHANGED <<screen, ui, closer, token, src, at, len, cancel, records, slot>>
  BY DEF Scan, chip
<1>3. PICK o \in Objs, st \in 0 .. 2 :
        /\ scan' = [scan EXCEPT ![s] = [obj |-> o, status |-> st]]
        /\ o # "none" => ~ov /\ r.err = "eof" /\ b # <<>> /\ (o = "torn" => ~Whole(b, r.of))
  <2>1. /\ Status.failed \in 0 .. 2 /\ Status.seen \in 0 .. 2 /\ Status.idle \in 0 .. 2
        /\ "none" \in Objs /\ "whole" \in Objs /\ "torn" \in Objs
    BY DEF Status, Objs
  <2> DEFINE found(o, st) == scan' = [scan EXCEPT ![s] = [obj |-> o, status |-> st]]
  <2>2. \/ \E st \in 0 .. 2 : found("none", st)
        \/ ~ov /\ r.err = "eof" /\ b # <<>> /\ \E st \in 0 .. 2 : found(IF Whole(b, r.of) THEN "whole" ELSE "torn", st)
    <3> HIDE DEF b, r
    <3> SUFFICES ASSUME \A st \in 0 .. 2 : ~found("none", st)
                 PROVE  ~ov /\ r.err = "eof" /\ b # <<>> /\ \E st \in 0 .. 2 : found(IF Whole(b, r.of) THEN "whole" ELSE "torn", st)
      OBVIOUS
    <3> QED BY <2>1 DEF Scan, b, r
  <2> QED BY <2>1, <2>2
<1>4. r \in Reads /\ buf[s] \in Seq(Nat) /\ at[s] \in Nat /\ len[s] \in Nat /\ r.got \in Nat /\ r.of \in Nat
      /\ r.err \in {"nil", "eof", "fail"}
  <2>1. r \in Reads
    BY <1>1 DEF Fields
  <2> QED BY <1>1, <2>1 DEF Fields, Reads
<1>5. b \in Seq(Nat) /\ Len(b) \in Nat /\ (Len(b) = Len(buf[s]) \/ Len(b) = Len(buf[s]) + 1)
  <2> DEFINE c == IF r.got = 0 THEN <<>> ELSE <<r.got>>
  <2>1. c \in Seq(Nat) /\ Len(c) \in {0, 1}
    BY <1>4
  <2> HIDE DEF c
  <2>2. buf[s] \o c \in Seq(Nat) /\ Len(buf[s] \o c) = Len(buf[s]) + Len(c)
    BY <1>4, <2>1, ConcatProperties
  <2>3. Len(buf[s]) \in Nat
    BY <1>4, LenProperties
  <2>4. b = buf[s] \o c
    BY DEF c
  <2> HIDE DEF b
  <2> QED BY <2>1, <2>2, <2>3, <2>4
<1>6. ~overflow[s] =>
        /\ r.err = "nil"  => b = Chunks(at[s])
        /\ r.err = "eof"  => at[s] = 0 /\ r.of = r.got /\ b = Chunks(r.got)
        /\ r.err = "fail" => at[s] = 0
  <2> SUFFICES ASSUME ~overflow[s]
               PROVE  /\ r.err = "nil"  => b = Chunks(at[s])
                      /\ r.err = "eof"  => at[s] = 0 /\ r.of = r.got /\ b = Chunks(r.got)
                      /\ r.err = "fail" => at[s] = 0
    OBVIOUS
  <2>1. ReadInv(s)
    BY <1>1, <1>2 DEF ScreenInv, BufInv
  <2>2. ASSUME r.got # 0, buf[s] = Chunks(r.got - 1) PROVE b = Chunks(r.got)
    <3> DEFINE g == r.got
    <3>1. g \in Nat /\ g # 0
      BY <1>4, <2>2
    <3>2. b = Append(Chunks(g - 1), g)
      BY <1>4, <2>2
    <3> HIDE DEF g, b
    <3>3. g - 1 \in Nat /\ (g - 1) + 1 = g
      BY <3>1
    <3>4. Append(Chunks(g - 1), g) = Chunks(g)
      BY <3>3, ChunksAre
    <3> QED BY <3>2, <3>4 DEF g
  <2>3. ASSUME r.got = 0, buf[s] = <<>> PROVE b = Chunks(r.got)
    <3>1. b = <<>>
      BY <2>3
    <3> QED BY <2>3, <3>1 DEF Chunks
  <2>4. r.err = "nil" => b = Chunks(at[s])
    BY <2>1, <2>2 DEF ReadInv
  <2>5. r.err = "eof" => b = Chunks(r.got)
    <3> SUFFICES ASSUME r.err = "eof" PROVE b = Chunks(r.got)
      OBVIOUS
    <3>1. r.got = 0 => buf[s] = <<>>
      BY <2>1 DEF ReadInv
    <3>2. r.got # 0 => buf[s] = Chunks(r.got - 1)
      BY <2>1 DEF ReadInv
    <3> QED BY <2>2, <2>3, <3>1, <3>2
  <2>6. (r.err = "eof" => at[s] = 0 /\ r.of = r.got) /\ (r.err = "fail" => at[s] = 0)
    BY <2>1 DEF ReadInv
  <2> QED BY <2>4, <2>5, <2>6
<1>7. o # "torn"
  <2> SUFFICES ASSUME o = "torn" PROVE FALSE
    OBVIOUS
  <2>1. ~overflow[s] /\ r.err = "eof" /\ ~Whole(b, r.of)
    BY <1>3
  <2>2. b = Chunks(r.got) /\ r.of = r.got
    BY <1>6, <2>1
  <2> QED BY <2>1, <2>2 DEF Whole, Chunks
<1> DEFINE nb == IF ov THEN <<>> ELSE CASE r.err = "nil" -> b [] r.err = "fail" -> Discarded(b) [] r.err = "eof" -> <<>>
<1>8. nb \in Seq(Nat) /\ Len(nb) < BufChunks /\ (~ov => nb = Chunks(at[s]))
  <2>1. Len(buf[s]) < BufChunks
    BY <1>1 DEF ScreenInv, BufInv
  <2>2. Len(b) <= BufChunks
    <3>1. Len(buf[s]) \in Nat
      BY <1>4, LenProperties
    <3> HIDE DEF b
    <3> QED BY <1>5, <2>1, <3>1
  <2>3. ~ov => Len(b) < BufChunks /\ ~overflow[s]
    <3> HIDE DEF b
    <3> QED BY <1>5, <2>2 DEF Full
  <2>4. <<>> \in Seq(Nat) /\ Len(<<>>) = 0 /\ 0 < BufChunks /\ Chunks(0) = <<>>
    BY DEF Chunks
  <2>5. nb = <<>> \/ (~ov /\ r.err = "nil" /\ nb = b)
    <3> HIDE DEF b, r, ov
    <3>1. CASE ov
      BY <3>1
    <3>2. CASE ~ov /\ r.err = "nil"
      BY <3>2
    <3>3. CASE ~ov /\ r.err = "fail"
      BY <3>3 DEF Discarded
    <3>4. CASE ~ov /\ r.err = "eof"
      BY <3>4
    <3> QED BY <1>4, <3>1, <3>2, <3>3, <3>4
  <2>6. ~ov => nb = Chunks(at[s])
    <3> SUFFICES ASSUME ~ov PROVE nb = Chunks(at[s])
      OBVIOUS
    <3>1. CASE r.err = "nil"
      BY <1>6, <2>3, <3>1
    <3>2. CASE r.err # "nil"
      <4>1. nb = <<>>
        BY <2>5, <3>2
      <4>2. at[s] = 0
        BY <1>4, <1>6, <2>3, <3>2
      <4> QED BY <2>4, <4>1, <4>2
    <3> QED BY <3>1, <3>2
  <2> HIDE DEF nb, b
  <2> QED BY <1>5, <2>3, <2>4, <2>5, <2>6
<1>9. buf' = [buf EXCEPT ![s] = nb]
  BY DEF Scan
<1> HIDE DEF r, b, ov, nb
<1>10. scan' \in [S -> Results] /\ scan'[s] = [obj |-> o, status |-> st]
  <2>1. [obj |-> o, status |-> st] \in Results
    BY <1>3 DEF Results
  <2> QED BY <1>1, <1>3, <2>1 DEF Fields
<1>11. Fields' /\ \A t \in S \ {s} : Same(t)
  <2>1. NoRead \in Reads /\ ov \in BOOLEAN
    BY <1>1 DEF NoRead, Reads, ov, Fields, Full
  <2>2. Fields'
    <3>1. pc' \in [S -> Waits \cup {"none", "top", "read", "data", "scan", "merge", "send", "sleep", "exit"}]
      BY <1>1, <1>2 DEF Fields
    <3>2. overflow' \in [S -> BOOLEAN] /\ buf' \in [S -> Seq(Nat)] /\ read' \in [S -> Reads]
      BY <1>1, <1>2, <1>8, <1>9, <2>1 DEF Fields
    <3>3. idle' \in [S -> BOOLEAN] /\ owed' \in [S -> BOOLEAN] /\ restless' \in [S -> BOOLEAN]
      <4>1. /\ (scan'[s] = Nothing) \in BOOLEAN /\ (owed[s] \/ scan'[s].obj # "none") \in BOOLEAN
            /\ (scan'[s].obj = "none" /\ scan'[s].status \in {Status.idle, Status.failed}) \in BOOLEAN
        OBVIOUS
      <4>2. idle \in [S -> BOOLEAN] /\ owed \in [S -> BOOLEAN] /\ restless \in [S -> BOOLEAN]
        BY <1>1 DEF Fields
      <4> QED BY <1>2, <4>1, <4>2, Zenon
    <3> QED BY <1>1, <1>2, <1>10, <3>1, <3>2, <3>3 DEF Fields
  <2> QED BY <1>1, <1>2, <1>3, <1>9, <2>2 DEF Fields, Same
<1>12. /\ pc'[s] = "merge" /\ overflow'[s] = ov /\ buf'[s] = nb
       /\ idle'[s] = (scan'[s] = Nothing)
       /\ restless'[s] = (scan'[s].obj = "none" /\ scan'[s].status \in {Status.idle, Status.failed})
       /\ owed'[s] = (owed[s] \/ scan'[s].obj # "none")
  BY <1>1, <1>2, <1>9 DEF Fields
<1>13. TokenInv(s)' /\ ChunkInv(s)'
  BY <1>1, <1>2, <1>12 DEF ScreenInv, TokenInv, ChunkInv, Waits
<1>14. BufInv(s)'
  BY <1>2, <1>8, <1>12 DEF BufInv
<1>15. ResultInv(s)'
  <2>1. scan'[s].obj = o
    BY <1>10
  <2>2. ResultInv(s)
    BY <1>1 DEF ScreenInv
  <2>3. slot'[s] = slot[s]
    BY <1>2
  <2>4. scan'[s].obj # "torn" /\ Len(slot'[s]) <= 1 /\ (slot'[s] # <<>> => slot'[s][1].obj # "torn")
    BY <1>7, <2>1, <2>2, <2>3 DEF ResultInv
  <2>5. pc[s] = "scan"
    BY <1>2
  <2>6. owed'[s] => scan'[s].obj # "none" \/ (slot'[s] # <<>> /\ slot'[s][1].obj # "none")
    <3>1. owed[s] => slot[s] # <<>> /\ slot[s][1].obj # "none"
      BY <2>2, <2>5 DEF ResultInv
    <3> QED BY <1>12, <2>3, <3>1, Zenon
  <2>7. pc'[s] \in {"merge", "send"}
    BY <1>12
  <2>8. owed'[s] =>
        \/ pc'[s] \in {"merge", "send"} /\ scan'[s].obj # "none"
        \/ slot'[s] # <<>> /\ slot'[s][1].obj # "none"
    BY <2>6, <2>7, Zenon
  <2> QED BY <2>4, <2>8, Zenon DEF ResultInv
<1>16. RestInv(s)'
  <2>1. restless'[s] => scan'[s] = Nothing \/ scan'[s].status = Status.failed
    BY <1>10, <1>12 DEF Nothing, Status
  <2> QED BY <1>12, <2>1 DEF RestInv
<1>17. ScreenInv(s)'
  BY <1>13, <1>14, <1>15, <1>16 DEF ScreenInv
<1> QED BY <1>2, <1>11, <1>17, OneScreen

(* The merge keeps what was found, by the old poll or the new one.         *)
LEMMA MergeReader ==
  ASSUME ReaderInv, NEW s \in S, Merge(s)
  PROVE  ReaderInv'
<1>1. Fields /\ ScreenInv(s)
  BY DEF ReaderInv
<1> DEFINE m == IF slot[s] = <<>> THEN scan[s]
                ELSE [obj |-> MergedObj(scan[s], slot[s][1]), status |-> MaxStatus(scan[s].status, slot[s][1].status)]
<1>2. /\ pc[s] = "merge" /\ pc' = [pc EXCEPT ![s] = "send"] /\ slot' = [slot EXCEPT ![s] = <<>>]
      /\ scan' = [scan EXCEPT ![s] = m]
      /\ UNCHANGED <<screen, ui, closer, token, src, at, len, cancel, records, read, buf, overflow, idle, owed, restless>>
  BY DEF Merge, Go, chip, history
<1>3. scan[s] \in Results /\ slot[s] \in Seq(Results)
  BY <1>1 DEF Fields
<1>4. m \in Results /\ (scan[s].status = 2 => m.status = 2)
      /\ m.obj # "torn" /\ (owed[s] => m.obj # "none")
  <2>1. CASE slot[s] = <<>>
    BY <1>1, <1>2, <1>3, <2>1 DEF ScreenInv, ResultInv
  <2>2. CASE slot[s] # <<>>
    <3> DEFINE old == slot[s][1]
    <3>1. old \in Results
      <4>1. Len(slot[s]) \in Nat /\ Len(slot[s]) # 0
        BY <1>3, <2>2, EmptySeq
      <4> QED BY <1>3, <4>1
    <3>2. old.obj # "torn" /\ scan[s].obj # "torn" /\ (owed[s] => scan[s].obj # "none" \/ old.obj # "none")
      BY <1>1, <1>2, <2>2 DEF ScreenInv, ResultInv
    <3> HIDE DEF old
    <3>3. m = [obj |-> MergedObj(scan[s], old), status |-> MaxStatus(scan[s].status, old.status)]
      BY <2>2 DEF old
    <3> QED BY <1>3, <3>1, <3>2, <3>3 DEF Results, MergedObj, MaxStatus
  <2> QED BY <2>1, <2>2
<1> HIDE DEF m
<1>5. Fields' /\ \A t \in S \ {s} : Same(t)
  <2>1. <<>> \in Seq(Results)
    OBVIOUS
  <2>2. Fields'
    BY <1>1, <1>2, <1>4, <2>1 DEF Fields
  <2> QED BY <1>1, <1>2, <2>2 DEF Fields, Same
<1>6. pc'[s] = "send" /\ slot'[s] = <<>> /\ scan'[s] = m
  BY <1>1, <1>2 DEF Fields
<1>7. TokenInv(s)' /\ ChunkInv(s)' /\ BufInv(s)'
  BY <1>1, <1>2, <1>6 DEF ScreenInv, TokenInv, ChunkInv, BufInv, Waits
<1>8. ResultInv(s)' /\ RestInv(s)'
  <2>1. ResultInv(s)'
    <3>1. scan'[s].obj # "torn" /\ (owed'[s] => scan'[s].obj # "none")
      BY <1>2, <1>4, <1>6
    <3>2. owed'[s] => pc'[s] \in {"merge", "send"} /\ scan'[s].obj # "none"
      BY <1>6, <3>1
    <3>3. Len(slot'[s]) <= 1 /\ ~(slot'[s] # <<>>)
      BY <1>6
    <3> QED BY <3>1, <3>2, <3>3, Zenon DEF ResultInv
  <2>2. restless'[s] = restless[s] /\ idle'[s] = idle[s]
    BY <1>2
  <2>3. restless[s] => idle[s] \/ scan[s].status = 2
    BY <1>1, <1>2 DEF ScreenInv, RestInv, Status
  <2>4. scan[s].status = 2 => scan'[s].status = Status.failed
    BY <1>4, <1>6 DEF Status
  <2>5. pc'[s] \in {"merge", "send"}
    BY <1>6
  <2> QED BY <2>1, <2>2, <2>3, <2>4, <2>5, Zenon DEF RestInv
<1>9. ScreenInv(s)'
  BY <1>7, <1>8 DEF ScreenInv
<1> QED BY <1>2, <1>5, <1>9, OneScreen

(* The result is sent, and the goroutine rests or reads on.                *)
LEMMA SendReader ==
  ASSUME ReaderInv, NEW s \in S, Send(s) \/ Rest(s)
  PROVE  ReaderInv'
<1>1. Fields /\ ScreenInv(s)
  BY DEF ReaderInv
<1>2. CASE Send(s)
  <2>1. /\ pc[s] = "send" /\ slot[s] = <<>> /\ slot' = [slot EXCEPT ![s] = <<scan[s]>>]
        /\ scan' = [scan EXCEPT ![s] = Nothing] /\ idle' = [idle EXCEPT ![s] = FALSE]
        /\ pc' = [pc EXCEPT ![s] = IF RestAfter(s) THEN "sleep" ELSE "top"]
        /\ UNCHANGED <<screen, ui, closer, token, src, at, len, cancel, records, read, buf, overflow, owed, restless>>
    BY <1>2 DEF Send, Go, chip, history
  <2>2. Fields' /\ \A t \in S \ {s} : Same(t)
    <3>1. <<scan[s]>> \in Seq(Results) /\ Nothing \in Results
      BY <1>1 DEF Fields, Nothing, Results, Objs
    <3>2. Fields'
      BY <1>1, <2>1, <3>1 DEF Fields
    <3> QED BY <1>1, <2>1, <3>2 DEF Fields, Same
  <2>3. /\ pc'[s] = (IF RestAfter(s) THEN "sleep" ELSE "top") /\ slot'[s] = <<scan[s]>> /\ scan'[s] = Nothing
    BY <1>1, <2>1 DEF Fields
  <2>4. TokenInv(s)' /\ ChunkInv(s)' /\ BufInv(s)'
    BY <1>1, <2>1, <2>3 DEF ScreenInv, TokenInv, ChunkInv, BufInv, Waits
  <2>5. ResultInv(s)'
    <3>1. Nothing.obj = "none" /\ Len(<<scan[s]>>) = 1 /\ <<scan[s]>>[1] = scan[s] /\ <<scan[s]>> # <<>>
      BY DEF Nothing
    <3>2. owed[s] => scan[s].obj # "none"
      BY <1>1, <2>1 DEF ScreenInv, ResultInv
    <3> QED BY <1>1, <2>1, <2>3, <3>1, <3>2 DEF ScreenInv, ResultInv
  <2>6. RestInv(s)'
    BY <1>1, <2>1, <2>3 DEF ScreenInv, RestInv, RestAfter
  <2>7. ScreenInv(s)'
    BY <2>4, <2>5, <2>6 DEF ScreenInv
  <2> QED BY <2>1, <2>2, <2>7, OneScreen
<1>3. CASE Rest(s)
  <2>1. /\ pc[s] = "sleep" /\ pc' = [pc EXCEPT ![s] = "top"] /\ restless' = [restless EXCEPT ![s] = FALSE]
        /\ UNCHANGED <<screen, ui, closer, token, src, at, len, cancel, records, read, buf, overflow, idle, scan, slot, owed>>
    BY <1>3 DEF Rest, Go, chip, scanner
  <2>2. Fields' /\ \A t \in S \ {s} : Same(t)
    <3>1. Fields'
      BY <1>1, <2>1 DEF Fields
    <3> QED BY <1>1, <2>1, <3>1 DEF Fields, Same
  <2>3. pc'[s] = "top" /\ ~restless'[s]
    BY <1>1, <2>1 DEF Fields
  <2>4. ScreenInv(s)'
    BY <1>1, <2>1, <2>3 DEF ScreenInv, TokenInv, ChunkInv, BufInv, ResultInv, RestInv, Waits
  <2> QED BY <2>1, <2>2, <2>4, OneScreen
<1> QED BY <1>2, <1>3

(* Every step of the UI and of a goroutine keeps the invariant.            *)
LEMMA StepReader == ReaderInv /\ [ReaderNext]_readerVars => ReaderInv'
<1> SUFFICES ASSUME ReaderInv, [ReaderNext]_readerVars PROVE ReaderInv'
  OBVIOUS
<1>1. CASE OpenScreen \/ Receive
  BY <1>1, OpenScreenReader, ReceiveReader
<1>2. CASE Stop \/ Stopping
  BY <1>2, StopReader DEF Stopping
<1>3. ASSUME NEW s \in S, Scanner(s) PROVE ReaderInv'
  BY <1>3, TopReader, BeginReadReader, DetectReader, SelectReader, ChunkReader, DataEndsReader, SwallowedReader,
     ScanReader, MergeReader, SendReader DEF Scanner
<1>4. CASE UNCHANGED readerVars
  <2>1. UNCHANGED <<screen, ui, closer, pc, token, src, at, len, cancel, records, read, buf, overflow, idle, scan, slot, owed, restless>>
    BY <1>4 DEF readerVars, chip, scanner, history
  <2>2. Fields' /\ UiInv'
    BY <2>1 DEF ReaderInv, Fields, UiInv
  <2>3. ASSUME NEW t \in S PROVE ScreenInv(t)'
    BY <2>1, ScreenStays DEF ReaderInv, Same
  <2> QED BY <2>2, <2>3 DEF ReaderInv
<1> QED BY <1>1, <1>2, <1>3, <1>4 DEF ReaderNext

(* The invariant of screens, scanners and chip holds for any number of     *)
(* screens.                                                                *)
THEOREM ReaderHolds == ReaderSpec => []ReaderInv
BY InitReader, StepReader, PTL DEF ReaderSpec

(* The type invariant: the buffer never fills, the slot holds one result   *)
(* at most (scanner.Scan, startScanner).                                   *)
THEOREM ReaderTypes == ReaderSpec => []TypeOK
<1>1. ReaderInv => TypeOK
  <2> SUFFICES ASSUME ReaderInv PROVE TypeOK
    OBVIOUS
  <2>1. Fields /\ UiInv /\ \A s \in S : ScreenInv(s)
    BY DEF ReaderInv
  <2>2. ASSUME NEW s \in S
        PROVE  /\ at[s] \in 0 .. len[s] /\ len[s] \in {0} \cup RecordLens
               /\ read[s].err \in {"nil", "eof", "fail"} /\ Len(buf[s]) < BufChunks
               /\ scan[s].obj \in {"none", "whole", "torn"} /\ scan[s].status \in 0 .. 2
               /\ Len(slot[s]) <= 1 /\ records[s] \in 0 .. MaxRecords
    <3>1. read[s] \in Reads /\ scan[s] \in Results /\ at[s] \in Nat /\ len[s] \in Nat /\ records[s] \in Nat
      BY <2>1 DEF Fields
    <3> QED BY <2>1, <3>1, ReaderAssumption DEF ScreenInv, ChunkInv, BufInv, ResultInv, Reads, Results, Objs
  <2>3. {overflow, idle, owed, restless} \subseteq [S -> BOOLEAN]
    BY <2>1 DEF Fields
  <2> QED BY <2>1, <2>2, <2>3 DEF TypeOK, Fields, UiInv, Waits
<1> QED BY <1>1, ReaderHolds, PTL

(* No object that reaches a screen was put together from two records       *)
(* (scanner.Scan).                                                         *)
THEOREM ObjectsStayWhole == ReaderSpec => []DeliveredWhole
<1>1. ReaderInv => DeliveredWhole
  BY DEF ReaderInv, ScreenInv, ResultInv, DeliveredWhole
<1> QED BY <1>1, ReaderHolds, PTL

(* The merge loses no object, and a fruitless poll is followed by a rest   *)
(* (startScanner, F-126).                                                  *)
THEOREM ScannerStaysInPace == ReaderSpec => []ScannerKeepsPace
<1>1. ReaderInv => ScannerKeepsPace
  BY DEF ReaderInv, ScreenInv, ResultInv, RestInv, ScannerKeepsPace, LatestKept, NoSpin
<1> QED BY <1>1, ReaderHolds, PTL

(* A closed poller stays off the chip (Poller.Close, startScanner).        *)
THEOREM ClosedStaysOff == ReaderSpec => []NoTouchAfterClose
<1>1. ReaderInv => NoTouchAfterClose
  BY DEF ReaderInv, ScreenInv, UiInv, TokenInv, NoTouchAfterClose, InChip, Waits
<1> QED BY <1>1, ReaderHolds, PTL
=============================================================================
