------------------------------- MODULE IdleWipe -------------------------------
(***************************************************************************)
(* The UI loop's one idle clock (gui/run_flow.go) and the residency seam   *)
(* that arms it (gui/wipe_guard.go).                                       *)
(*                                                                         *)
(* Three actors share them.  The flow is the program of screens: between   *)
(* two frames it installs and removes the guard of a secret session,       *)
(* registers, starts, stops and forgets an engrave job, or derives a key;  *)
(* it hands each frame to the loop and is parked in it until the loop lets *)
(* it go.  The loop sleeps until a wakeup time, a touch or a Wakeup, and   *)
(* then decides: back to the flow, the screensaver, the warning, or the    *)
(* wipe, which unwinds the flow.  The worker of the job ends when it ends, *)
(* and the operator's finger (or an object on the panel) moves as it will. *)
(*                                                                         *)
(* Times are relative and in a unit of which idleTimeout is Idle and       *)
(* wipeWarningDelay is Warning: age is now - a.idle.start and due is       *)
(* ctx.Wakeup - now.  Time passes while the loop sleeps, and for at most   *)
(* one unit while the flow works between two frames.  A clock stops at the *)
(* last value a comparison tells apart.                                    *)
(***************************************************************************)
EXTENDS Integers

CONSTANTS
  Idle,     (* idleTimeout                                                 *)
  Warning,  (* wipeWarningDelay                                            *)
  Slices    (* units of time a derivation takes                            *)

ASSUME ClockAssumption ==
  /\ Idle \in Nat /\ Idle >= 2
  /\ Warning \in Nat /\ Warning >= 1
  /\ Slices \in Nat

VARIABLES
  (* the flow *)
  done,       (* ctx.Done: the wipe has been decided                       *)
  guard,      (* ctx.wipe # nil                                            *)
  job,        (* ctx.wipe.job: "nil" or its state                          *)
  kdf,        (* slices of a derivation still to do, 0: none               *)
  keepAwake,  (* ctx.keepAwake                                             *)
  glyphs,     (* ctx.B holds glyphs drawn under a guard                    *)
  worked,     (* a unit of time has passed since the loop let the flow go  *)
  (* the loop *)
  loop,       (* "flow", "yielded" (a frame was handed over) or "parked"   *)
  age,        (* now - a.idle.start                                        *)
  due,        (* ctx.Wakeup - now, or Unset                                *)
  active,     (* a.idle.active                                             *)
  armed,      (* a.armed                                                   *)
  pressed,    (* a.pressed                                                 *)
  inbox,      (* the router holds an event                                 *)
  shown,      (* what the panel shows: "content", "saver" or "warning"     *)
  (* the platform *)
  wake,       (* the wakeups channel holds a signal                        *)
  ringing,    (* the worker has sent its result and has yet to call Wakeup *)
  finger,     (* the panel is touched                                      *)
  moved,      (* ... at another place than the last reading's              *)
  last,       (* contact at the last reading                               *)
  int,        (* the touch interrupt channel holds a signal                *)
  (* history variables *)
  quiet,      (* time since the operator or a new window last showed       *)
  warned      (* time the warning has been on the panel                    *)

flow  == <<done, guard, job, kdf, glyphs>>
clock == <<age, due, active, armed>>
panel == <<finger, moved, last, int>>
input == <<pressed, inbox>>
signals == <<wake, ringing>>
vars == <<flow, keepAwake, worked, loop, clock, input, shown, signals, panel,
          quiet, warned>>

Unset == -1
JobStates == {"nil", "idle", "running", "stopping", "over"}

(* wipeGuard.armed.  Its call of Status sees the result of a worker that   *)
(* has sent it.                                                            *)
Cutting == job \in {"running", "stopping"}
ArmedWhileCutting == guard                             (* a mutant of Armed *)
Armed == guard /\ ~Cutting

Init ==
  /\ done = FALSE /\ guard = FALSE /\ job = "nil" /\ kdf = 0
  /\ keepAwake = FALSE /\ glyphs = FALSE /\ worked = FALSE
  /\ loop = "flow" /\ age = 0 /\ due = Unset
  /\ active = FALSE /\ armed = FALSE /\ pressed = FALSE /\ inbox = FALSE
  /\ shown = "content" /\ wake = FALSE /\ ringing = FALSE
  /\ finger = FALSE /\ moved = FALSE /\ last = FALSE /\ int = FALSE
  /\ quiet = 0 /\ warned = 0

-----------------------------------------------------------------------------
(* The flow between two frames. *)
InFlow == loop = "flow" /\ ~done

(* A bracket opens (unlockSecretSession, unlockPassphraseFlow) ... *)
OpenBracket ==
  /\ InFlow /\ ~guard /\ kdf = 0
  /\ guard' = TRUE /\ quiet' = 0
  /\ UNCHANGED <<done, job, kdf, glyphs, keepAwake, worked, loop, clock, input,
                 shown, signals, panel, warned>>

(* ... and closes: the guard goes and the buffer is scrubbed. *)
ScrubNothing(g) == g                                   (* a mutant of Scrub *)
Scrub(g) == FALSE

CloseBracket ==
  /\ InFlow /\ guard /\ job = "nil"
  /\ guard' = FALSE /\ glyphs' = Scrub(glyphs)
  /\ UNCHANGED <<done, job, kdf, keepAwake, worked, loop, clock, input, shown,
                 signals, panel, quiet, warned>>

(* The engrave arms register the job of their screen and forget it when    *)
(* the screen returns, which it does not while the job runs.               *)
RegisterJob ==
  /\ InFlow /\ guard /\ job = "nil"
  /\ job' = "idle"
  /\ UNCHANGED <<done, guard, kdf, glyphs, keepAwake, worked, loop, clock,
                 input, shown, signals, panel, quiet, warned>>

ForgetJob ==
  /\ InFlow /\ job \in {"idle", "stopping", "over"}
  /\ job' = "nil" /\ quiet' = IF job = "stopping" THEN 0 ELSE quiet
  /\ UNCHANGED <<done, guard, kdf, glyphs, keepAwake, worked, loop, clock,
                 input, shown, signals, panel, warned>>

StartJob ==
  /\ InFlow /\ job \in {"idle", "over"} /\ ~ringing
  /\ job' = "running"
  /\ UNCHANGED <<done, guard, kdf, glyphs, keepAwake, worked, loop, clock,
                 input, shown, signals, panel, quiet, warned>>

StopJob ==
  /\ InFlow /\ job = "running"
  /\ job' = "stopping"
  /\ UNCHANGED <<done, guard, kdf, glyphs, keepAwake, worked, loop, clock,
                 input, shown, signals, panel, quiet, warned>>

StartDerivation ==
  /\ InFlow /\ ~guard /\ kdf = 0
  /\ kdf' = Slices
  /\ UNCHANGED <<done, guard, job, glyphs, keepAwake, worked, loop, clock,
                 input, shown, signals, panel, quiet, warned>>

(* Context.WakeupAt: the earliest of the times asked for. *)
WakeupAt(t) == IF due = Unset \/ t < due THEN t ELSE due

(* Context.Frame hands a frame to the loop, which draws it.  A screen may  *)
(* have asked to be woken, to stay awake, or both.                         *)
HandOver ==
  /\ loop' = "yielded" /\ worked' = FALSE
  /\ glyphs' = (glyphs \/ guard)
  /\ shown' = "content" /\ warned' = 0 /\ inbox' = FALSE

Frame ==
  /\ InFlow /\ kdf = 0
  /\ HandOver
  /\ keepAwake' \in BOOLEAN
  /\ due' \in {due, WakeupAt(0), WakeupAt(1)}
  /\ UNCHANGED <<done, guard, job, kdf, age, active, armed, pressed, signals,
                 panel, quiet>>

(* unlockDerive: a slice, and then a frame that keeps awake and wakes at   *)
(* once.  The operator may leave.                                          *)
DeriveSlice ==
  /\ InFlow /\ kdf > 0 /\ worked
  /\ kdf' = kdf - 1
  /\ HandOver
  /\ keepAwake' = TRUE /\ due' = WakeupAt(0)
  /\ UNCHANGED <<done, guard, job, age, active, armed, pressed, signals,
                 panel, quiet>>

LeaveDerivation ==
  /\ InFlow /\ kdf > 0 /\ inbox
  /\ kdf' = 0
  /\ UNCHANGED <<done, guard, job, glyphs, keepAwake, worked, loop, clock,
                 input, shown, signals, panel, quiet, warned>>

(* ctx.Done unwinds the flow through its deferred functions; the loop      *)
(* scrubs the abandoned buffer and starts a new session.                   *)
Unwind ==
  /\ loop = "flow" /\ done
  /\ guard' = FALSE /\ job' = "nil" /\ kdf' = 0 /\ glyphs' = Scrub(glyphs)
  /\ done' = FALSE /\ keepAwake' = FALSE /\ worked' = FALSE /\ inbox' = FALSE
  /\ age' = 0 /\ due' = Unset /\ active' = FALSE /\ armed' = FALSE
  /\ UNCHANGED <<loop, pressed, shown, signals, panel, quiet, warned>>

Flow == \/ OpenBracket \/ CloseBracket \/ RegisterJob \/ ForgetJob \/ StartJob
        \/ StopJob \/ StartDerivation \/ Frame \/ DeriveSlice
        \/ LeaveDerivation \/ Unwind

-----------------------------------------------------------------------------
(* The loop.  syncArmed before the loop sleeps: an arm edge the flow made  *)
(* starts a fresh window.                                                  *)
NeverSynced == FALSE                                 (* a mutant of ArmEdge *)
ArmEdge == Armed /\ ~armed

SyncArmed ==
  /\ loop = "yielded"
  /\ loop' = "parked"
  /\ age' = IF ArmEdge THEN 0 ELSE age
  /\ armed' = Armed
  /\ UNCHANGED <<flow, keepAwake, worked, due, active, input, shown, signals,
                 panel, quiet, warned>>

(* effectiveInput: the contact changes, or a key of the debug console.     *)
AnyReading(e) == e # "none"                        (* a mutant of Effective *)
Effective(e) ==
  \/ e = "touch" /\ pressed # finger
  \/ e = "key"

(* keepAwake holds off the screensaver, never an armed window.             *)
NeverKept(a) == FALSE                               (* a mutant of KeptAwake *)
KeptAwake(a) == keepAwake /\ ~a

(* The router only gets events while the flow's frame is on the panel.     *)
RoutedAlways(e) == e # "none"                         (* a mutant of Routed *)
Routed(e) == e # "none" /\ ~active

WipeAge == Idle + Warning

(* ctx.WakeupAt(idleWakeup), in a turn that goes back to the flow.         *)
IdleWakeup(since) == Idle - since

(* FrameCallback reads ctx.Done after the loop has had the frame.          *)
DoneClobbered(d) == FALSE                         (* a mutant of FrameDone *)
FrameDone(d) == d

(* One turn after the sleep, with the event e that ended it. *)
Since(e) == IF ArmEdge \/ Effective(e) \/ KeptAwake(Armed) THEN 0 ELSE age

(* Router.Reset keeps an event that a widget waits for, and then the next  *)
(* sleep is over at once.                                                  *)
Sleep(e, t) ==
  \E kept \in {inbox, FALSE} :
    /\ inbox' = (kept \/ Routed(e))
    /\ due' = IF kept THEN 0 ELSE t

BackToFlow(e) ==
  /\ Since(e) < Idle
  /\ active' = FALSE /\ loop' = "flow"
  /\ Sleep(e, IdleWakeup(Since(e)))
  /\ UNCHANGED <<done, shown, warned>>

Wipe(e) ==
  /\ Armed /\ Since(e) >= WipeAge
  /\ active' = TRUE /\ loop' = "flow"
  /\ done' = FrameDone(TRUE)
  /\ Sleep(e, Unset)
  /\ UNCHANGED <<shown, warned>>

Warn(e) ==
  /\ Armed /\ Since(e) >= Idle /\ Since(e) < WipeAge
  /\ active' = TRUE /\ loop' = "yielded"
  /\ shown' = "warning" /\ warned' = IF shown = "warning" THEN warned ELSE 0
  /\ Sleep(e, 1)
  /\ UNCHANGED done

Save(e) ==
  /\ ~Armed /\ Since(e) >= Idle
  /\ active' = TRUE /\ loop' = "yielded"
  /\ shown' = "saver"
  /\ Sleep(e, 1)
  /\ UNCHANGED <<done, warned>>

Turn(e) ==
  /\ loop = "parked"
  /\ armed' = Armed /\ age' = Since(e)
  /\ pressed' = IF e = "touch" THEN finger ELSE pressed
  /\ keepAwake' = FALSE
  /\ BackToFlow(e) \/ Wipe(e) \/ Warn(e) \/ Save(e)
  /\ UNCHANGED <<guard, job, kdf, glyphs, worked>>

(* AppendEvents returns a touch reading that differs from the last one,    *)
(* a key, or nothing because of a Wakeup or the time.  It looks for a      *)
(* touch first ("Don't starve touch input").                               *)
Touch ==
  /\ int /\ (finger # last \/ moved)
  /\ int' = FALSE /\ last' = finger /\ moved' = FALSE
  /\ Turn("touch")
  /\ UNCHANGED <<signals, finger, quiet>>

Key ==
  /\ Turn("key")
  /\ quiet' = 0
  /\ UNCHANGED <<signals, panel>>

SameReading ==
  /\ loop = "parked" /\ int /\ finger = last /\ ~moved
  /\ int' = FALSE
  /\ UNCHANGED <<flow, keepAwake, worked, loop, clock, input, shown, signals,
                 finger, moved, last, quiet, warned>>

Woken ==
  /\ ~int /\ wake /\ wake' = FALSE
  /\ Turn("none")
  /\ UNCHANGED <<ringing, panel, quiet>>

Timer ==
  /\ ~int /\ due <= 0
  /\ Turn("none")
  /\ UNCHANGED <<signals, panel, quiet>>

Loop == SyncArmed \/ Touch \/ Key \/ SameReading \/ Woken \/ Timer

-----------------------------------------------------------------------------
(* The worker sends its result, and wakes the loop. *)
JobEnds ==
  /\ Cutting
  /\ job' = "over" /\ ringing' = TRUE /\ quiet' = 0
  /\ UNCHANGED <<done, guard, kdf, glyphs, keepAwake, worked, loop, clock,
                 input, shown, wake, panel, warned>>

Ring ==
  /\ ringing /\ ringing' = FALSE
  /\ wake' = TRUE
  /\ UNCHANGED <<flow, keepAwake, worked, loop, clock, input, shown, panel,
                 quiet, warned>>

(* Somebody touches the panel or lets go; a contact drifts. *)
Finger ==
  /\ finger' = ~finger /\ int' = TRUE /\ moved' = FALSE
  /\ quiet' = 0
  /\ UNCHANGED <<flow, keepAwake, worked, loop, clock, input, shown, signals,
                 last, warned>>

Drift ==
  /\ finger /\ moved' = TRUE /\ int' = TRUE
  /\ UNCHANGED <<flow, keepAwake, worked, loop, clock, input, shown, signals,
                 finger, last, quiet, warned>>

(* A unit of time passes: the loop sleeps and nothing wakes it, or the     *)
(* flow works.                                                             *)
Ready == int \/ wake \/ due <= 0
Later(t, top) == IF t < top THEN t + 1 ELSE t
Pass ==
  /\ ~ringing
  /\ \/ loop = "parked" /\ ~Ready /\ UNCHANGED worked
     \/ InFlow /\ ~worked /\ worked' = TRUE
  /\ age' = Later(age, WipeAge)
  /\ due' = IF due > 0 THEN due - 1 ELSE due
  /\ quiet' = Later(quiet, WipeAge + 2)
  /\ warned' = IF shown = "warning" THEN Later(warned, Warning) ELSE warned
  /\ UNCHANGED <<flow, keepAwake, loop, active, armed, input, shown, signals, panel>>

World == JobEnds \/ Ring \/ Finger \/ Drift \/ Pass
Next == Flow \/ Loop \/ World

(* The UI goroutine runs, time passes, and Wakeup follows the result.      *)
(* Touches do not come so fast that a timer that has fired is never seen.  *)
Fairness ==
  /\ WF_vars(Frame) /\ WF_vars(DeriveSlice) /\ WF_vars(Unwind)
  /\ WF_vars(SyncArmed) /\ WF_vars(Touch \/ SameReading \/ Woken) /\ SF_vars(Timer)
  /\ WF_vars(Ring) /\ WF_vars(Pass)

Spec == Init /\ [][Next]_vars
FairSpec == Spec /\ Fairness

-----------------------------------------------------------------------------
(* Secrets do not outlive the window: while a bracket is open and nothing  *)
(* is cut, a wipe comes at most Idle + Warning (and the unit the flow may  *)
(* have been busy) after the operator's last sign, the opening of the      *)
(* bracket or the end of a cut, however the panel drifts (F-103), whatever *)
(* screens ask to stay awake, and whatever wakeup was computed before the  *)
(* window opened (F-106).                                                  *)
WipedInTime == Armed => quiet <= Idle + Warning + 1

(* The wipe never comes without its warning, which has been on the panel   *)
(* for the whole of wipeWarningDelay.                                      *)
WarnedBeforeWipe == [][done' /\ ~done => shown = "warning" /\ warned >= Warning]_vars

(* A wipe never comes in the middle of a plate (row 2): the registered job *)
(* is not running and not stopping, and none was since the window opened.  *)
NoWipeMidCut == [][done' /\ ~done => guard /\ ~Cutting /\ armed]_vars

(* Once the timeout has passed, the panel of an armed session shows the    *)
(* warning: the screensaver never hides it.                                *)
WarningShown == Armed /\ loop = "parked" /\ quiet > Idle + 1 => shown = "warning"

(* The flow only gets events that were made at its own frame: a touch that *)
(* dismisses the screensaver or the warning hits no widget behind it.      *)
RoutedToFrame == [][inbox' /\ ~inbox => shown = "content"]_vars

(* Glyphs of a secret stay in the draw buffer only while its bracket is    *)
(* open (F-107).                                                           *)
ScrubbedOutside == glyphs => guard

(* The panel is true to the session: one that has timed out shows its      *)
(* warning, one that is over has left no glyph to draw again, and no touch *)
(* acts on a frame that is not shown.                                      *)
PanelIsTrue == [](WarningShown /\ ScrubbedOutside) /\ RoutedToFrame

(* A derivation longer than the idle timeout still ends, though it makes   *)
(* no events: the screensaver does not park it (F-93).                     *)
DerivationEnds == kdf > 0 ~> kdf = 0
=============================================================================
