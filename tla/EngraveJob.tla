----------------------------- MODULE EngraveJob -----------------------------
(***************************************************************************)
(* An engraving job (gui/engraver.go), its screen (EngraveScreen.Engrave)  *)
(* and its safe points (engrave.SafePointer), over an abstract step device *)
(* (StepRing has the detail).                                              *)
(*                                                                         *)
(* Two goroutines meet in the job.  The worker opens the engraver, feeds   *)
(* it the knots of the plan, records which of them must be cut again after *)
(* an interruption, and reports progress and its end through two channels  *)
(* of one slot.  The screen starts the job, polls the channels, stops the  *)
(* job through a third channel and may leave at any time.  A stopped or    *)
(* failed job is started again: the new worker first replays the knots     *)
(* after the safe point and then goes on with the plan.                    *)
(*                                                                         *)
(* The plan is a sequence of knots 1..Knots; T[k] is the duration of knot  *)
(* k in ticks.  A knot of SafeKnots is the last of a clamped triple: its   *)
(* position is reached with zero speed.  A tick is the pair of its knot    *)
(* and its index in the knot; knot 0 is the approach line of a resume.     *)
(***************************************************************************)
EXTENDS Integers, SequencesExt, FiniteSetsExt

CONSTANTS
  Knots,      (* number of knots of the plan                               *)
  T,          (* ticks of each knot                                        *)
  SafeKnots,  (* knots that end a clamped triple                           *)
  LineTicks,  (* ticks of the approach line                                *)
  WordTicks,  (* ticks of a word of steps (stepsPerWord)                   *)
  RingTicks,  (* ticks the step buffer of the device holds                 *)
  Faults,     (* what may go wrong: "open", "home", "block", "stall"       *)
  MaxStarts   (* bound: runs of the job                                    *)

ASSUME PlanAssumption ==
  /\ Knots \in Nat /\ T \in [1 .. Knots -> Nat]
  /\ SafeKnots \subseteq 3 .. Knots
  /\ \A j, k \in SafeKnots : j < k => j + 3 <= k
  /\ LineTicks \in Nat /\ WordTicks \in Nat \ {0} /\ RingTicks \in Nat \ {0}
  /\ MaxStarts \in Nat

VARIABLES
  (* the screen *)
  ui,         (* "loop", "confirm" (the button is held) or "left"          *)
  poll,       (* next select of Status: "progress", "errs"; then "done";   *)
              (* "stats" while Stats has borrowed the engraver             *)
  (* the job: engraveJob *)
  state,      (* status.State                                              *)
  completed,  (* status.Completed                                          *)
  errs,       (* e.errs: "nil" or "open"                                   *)
  verdict,    (* what the errs channel holds: "none", "ok" or "fail"       *)
  quit,       (* the quit channel is closed                                *)
  progress,   (* the progress channel: <<>> or <<ticks>>                   *)
  lock,       (* the lock channel: "empty", "offered", or "lent" to Stats  *)
  nknots,     (* knots handed to the driver                                *)
  (* the safe pointer: engrave.SafePointer *)
  safePoint,  (* the knot whose position it is, 0 the origin               *)
  history, retired, residual,   (* history, completed, progress            *)
  (* the worker *)
  worker,     (* where runEngraving is                                     *)
  phase,      (* what the driver is given: "catchup", "knot" or "flush"    *)
  catchup,    (* knots still to be replayed                                *)
  debt,       (* splineResumer.progress                                    *)
  credit,     (* ticks the driver has seen completed, to account for       *)
  err,        (* runEngraving returns an error                             *)
  (* the stepper driver and the device *)
  window,     (* the last knots of bspline.Segment, at most two            *)
  held,       (* ticks of a word not yet full, in stepper.Driver.buf       *)
  unsent,     (* ticks of the current Write not in the ring                *)
  homed,      (* homingEngraver.homed                                      *)
  queue,      (* ticks in the ring                                         *)
  running,    (* the device executes the ring                              *)
  uncredited, (* ticks of the words completed since the last look          *)
  blocked,    (* a diagnostics interrupt has disconnected the step pins    *)
  stalled,    (* the device ran out of words                               *)
  writeErr,   (* homingEngraver.writeErr                                   *)
  (* history variables *)
  cut,        (* ticks executed with the pins connected                    *)
  reported,   (* ticks sent to the progress channel                        *)
  surplus,    (* ticks completed in the eyes of the driver, but not cut    *)
  starts,     (* runs of the job                                           *)
  released    (* releaseResumeState has cleared the safe pointer           *)

screen  == <<ui, poll>>
job     == <<state, completed, errs, quit>>
chans   == <<verdict, progress, lock>>
pointer == <<safePoint, history, retired, residual>>
run     == <<phase, catchup, debt, credit, err>>
stepper == <<window, held, unsent>>
device  == <<homed, queue, running, uncredited, blocked, stalled, writeErr>>
ghost   == <<cut, reported, surplus, starts, released>>
vars == <<screen, job, chans, nknots, pointer, worker, run, stepper, device, ghost>>

TicksOf(k) == IF k = 0 THEN LineTicks ELSE T[k]
TicksIn(knots) ==
  LET sum[n \in 0 .. Len(knots)] ==
        IF n = 0 THEN 0 ELSE sum[n - 1] + TicksOf(knots[n])
  IN sum[Len(knots)]
TickSeq(k) == [i \in 1 .. TicksOf(k) |-> <<k, i>>]
PlanTicks == UNION {{k} \X (1 .. T[k]) : k \in 1 .. Knots}

(* Ticks in the one-slot progress channel. *)
Pending == IF progress = <<>> THEN 0 ELSE progress[1]

TerminalOrStopping == {"stopping", "stopped", "failed", "done"} (* mutant of Terminal *)
Terminal == {"stopped", "failed", "done"}

Init ==
  /\ ui = "loop" /\ poll = "progress"
  /\ state = "idle" /\ completed = 0 /\ errs = "nil" /\ quit = FALSE
  /\ verdict = "none" /\ progress = <<>> /\ lock = "empty"
  /\ nknots = 0
  /\ safePoint = 0 /\ history = <<>> /\ retired = 0 /\ residual = 0
  /\ worker = "none"
  /\ phase = "knot" /\ catchup = <<>> /\ debt = 0 /\ credit = 0 /\ err = FALSE
  /\ window = <<>> /\ held = <<>> /\ unsent = <<>>
  /\ homed = FALSE /\ queue = <<>> /\ running = FALSE /\ uncredited = 0
  /\ blocked = FALSE /\ stalled = FALSE /\ writeErr = FALSE
  /\ cut = {} /\ reported = 0 /\ surplus = 0 /\ starts = 0 /\ released = FALSE

-----------------------------------------------------------------------------
(* The screen.  Status polls the progress channel, then the errs channel.  *)

StatusProgress ==
  /\ ui # "left" /\ poll = "progress"
  /\ completed' = completed + Pending
  /\ progress' = <<>>
  /\ poll' = "errs"
  /\ UNCHANGED <<ui, state, errs, quit, verdict, lock, nknots, pointer, worker,
                 run, stepper, device, ghost>>

(* The state a job ends in.  Status would restart a job that is still      *)
(* running with no errs channel; there is no such job after this.          *)
EndState == CASE verdict = "fail"    -> "failed"
              [] state = "stopping"  -> "stopped"
              [] OTHER               -> "done"

StatusErrs ==
  /\ ui # "left" /\ poll = "errs"
  /\ \/ /\ errs = "open" /\ verdict # "none"
        /\ errs' = "nil" /\ verdict' = "none"
        /\ state' = EndState
     \/ /\ errs = "nil" \/ verdict = "none"
        /\ UNCHANGED <<errs, verdict, state>>
  /\ poll' = "done"
  /\ UNCHANGED <<ui, completed, quit, progress, lock, nknots, pointer, worker,
                 run, stepper, device, ghost>>

(* A frame: draw and drawNav call Status. *)
Draw ==
  /\ ui # "left" /\ poll = "done"
  /\ poll' = "progress"
  /\ UNCHANGED <<ui, job, chans, nknots, pointer, worker, run, stepper, device, ghost>>

(* job.Stop. *)
Stop ==
  IF state = "running"
  THEN state' = "stopping" /\ quit' = TRUE
  ELSE UNCHANGED <<state, quit>>

(* Back on a running job stops it. *)
BackStops ==
  /\ ui = "loop" /\ poll = "done" /\ state = "running"
  /\ Stop
  /\ poll' = "progress"
  /\ UNCHANGED <<ui, completed, errs, chans, nknots, pointer, worker, run,
                 stepper, device, ghost>>

(* job.releaseResumeState. *)
ReleaseResumeState(st) ==
  IF st \in Terminal
  THEN /\ safePoint' = 0 /\ history' = <<>> /\ retired' = 0 /\ residual' = 0
       /\ released' = TRUE
  ELSE UNCHANGED <<pointer, released>>

(* Engrave returns: Back on a job that does not run, the button on a job   *)
(* that is done, or ctx.Done (the wipe) at any frame.                      *)
Leave ==
  /\ ui # "left" /\ poll = "done"
  /\ ui' = "left"
  /\ Stop
  /\ ReleaseResumeState(state')
  /\ UNCHANGED <<poll, completed, errs, chans, nknots, worker, run, stepper,
                 device, cut, reported, surplus, starts>>

(* The button is pressed on a job that is not done ... *)
Hold ==
  /\ ui = "loop" /\ poll = "done" /\ state # "done"
  /\ ui' = "confirm" /\ poll' = "progress"
  /\ UNCHANGED <<job, chans, nknots, pointer, worker, run, stepper, device, ghost>>

(* ... let go too early ... *)
LetGo ==
  /\ ui = "confirm" /\ poll = "done"
  /\ ui' = "loop" /\ poll' = "progress"
  /\ UNCHANGED <<job, chans, nknots, pointer, worker, run, stepper, device, ghost>>

(* ... or held long enough: job.Start, which does nothing while the errs   *)
(* channel of an earlier run is open.                                      *)
CanStartStopping == state # "running"               (* a mutant of CanStart *)
CanStart == errs = "nil"

Start ==
  /\ ui = "confirm" /\ poll = "done"
  /\ ui' = "loop" /\ poll' = "progress"
  /\ \/ /\ ~CanStart
        /\ UNCHANGED <<state, errs, quit, chans, worker, starts>>
     \/ /\ CanStart /\ starts < MaxStarts
        /\ state' = "running" /\ errs' = "open" /\ quit' = FALSE
        /\ verdict' = "none" /\ progress' = <<>> /\ lock' = "empty"
        /\ worker' = "open"
        /\ starts' = starts + 1
  /\ UNCHANGED <<completed, nknots, pointer, run, stepper, device, cut,
                 reported, surplus, released>>

(* job.Stats borrows the engraver and gives it back. *)
KeptBack == "empty"                                 (* a mutant of GivenBack *)
GivenBack == "offered"

StatsTake ==
  /\ ui = "loop" /\ poll = "done" /\ lock = "offered"
  /\ lock' = "lent" /\ poll' = "stats"
  /\ UNCHANGED <<ui, job, verdict, progress, nknots, pointer, worker, run,
                 stepper, device, ghost>>

StatsReturn ==
  /\ poll = "stats"
  /\ lock' = GivenBack /\ poll' = "done"
  /\ UNCHANGED <<ui, job, verdict, progress, nknots, pointer, worker, run,
                 stepper, device, ghost>>

Screen == \/ StatusProgress \/ StatusErrs \/ Draw \/ BackStops \/ Leave
          \/ Hold \/ LetGo \/ Start \/ StatsTake \/ StatsReturn

-----------------------------------------------------------------------------
(* The worker: runEngraving, with the driver and the engraver it calls.    *)

(* The goroutine sends its result and ends; its driver is gone and the     *)
(* device has been reset.                                                  *)
Finish(v) ==
  /\ verdict' = v /\ worker' = "none"
  /\ phase' = "knot" /\ catchup' = <<>> /\ debt' = 0 /\ credit' = 0 /\ err' = FALSE
  /\ window' = <<>> /\ held' = <<>> /\ unsent' = <<>>
  /\ homed' = FALSE /\ queue' = <<>> /\ running' = FALSE /\ uncredited' = 0
  /\ blocked' = FALSE /\ stalled' = FALSE /\ writeErr' = FALSE

OpenFails ==
  /\ worker = "open" /\ "open" \in Faults
  /\ Finish("fail")
  /\ UNCHANGED <<screen, job, progress, lock, nknots, pointer, ghost>>

(* pl.Engraver succeeds: the catch-up is the line to the safe point and    *)
(* the knots after it (SafePointer.Resume).                                *)
Resume == <<0>> \o history

Opened ==
  /\ worker = "open"
  /\ lock' = "offered"
  /\ catchup' = Resume
  /\ worker' = "next"
  /\ UNCHANGED <<screen, job, verdict, progress, nknots, pointer, phase, debt,
                 credit, err, stepper, device, ghost>>

(* The next knot that no earlier run has handed over. *)
MoreKnotsPastEnd == nknots <= Knots                 (* a mutant of MoreKnots *)
MoreKnots == nknots < Knots

NextKnot ==
  /\ worker = "next" /\ MoreKnots
  /\ nknots' = nknots + 1
  /\ phase' = IF catchup = <<>> THEN "knot" ELSE "catchup"
  /\ worker' = "feed"
  /\ UNCHANGED <<screen, job, chans, pointer, catchup, debt, credit, err,
                 stepper, device, ghost>>

(* bspline.Segment.Knot: a knot pushes the one two before it out of the    *)
(* window, and only that one's curve is known then.                        *)
Emitted(win) == IF Len(win) = 2 THEN TickSeq(win[1]) ELSE <<>>
Shifted(win, k) == Append(IF Len(win) = 2 THEN Tail(win) ELSE win, k)

(* stepper.Driver.Knot: the ticks of the curve that a knot completes; a    *)
(* last word that is not full is kept, whatever the ticks before left of   *)
(* it.                                                                     *)
Feed ==
  /\ worker = "feed"
  /\ LET k == IF phase = "catchup" THEN Head(catchup) ELSE nknots
         new == Emitted(window)
         out == held \o new
     IN /\ window' = Shifted(window, k)
        /\ \E keep \in IF new = <<>> THEN {Len(held)} ELSE 0 .. WordTicks - 1 :
             /\ keep <= Len(out)
             /\ held' = SubSeq(out, Len(out) - keep + 1, Len(out))
             /\ unsent' = SubSeq(out, 1, Len(out) - keep)
        /\ worker' = IF unsent' = <<>> THEN "fed" ELSE "write"
  /\ credit' = 0
  /\ UNCHANGED <<screen, job, chans, nknots, pointer, phase, catchup, debt, err,
                 device, ghost>>

(* homingEngraver.Write homes before the first step.  A failure of home()  *)
(* does not set writeErr.                                                  *)
HomeFails ==
  /\ worker = "write" /\ ~homed /\ "home" \in Faults
  /\ err' = TRUE /\ worker' = "fed"
  /\ UNCHANGED <<screen, job, chans, nknots, pointer, phase, catchup, debt,
                 credit, stepper, device, ghost>>

(* Device.Write looks at the words completed and fills the ring.  If there *)
(* is room for all, it returns without a look at the stall, and            *)
(* engraver.Write polls the quit channel of the diagnostics interrupt.     *)
Write ==
  /\ worker = "write"
  /\ homed' = TRUE
  /\ credit' = credit + uncredited /\ uncredited' = 0
  /\ LET n == Min({Len(unsent), RingTicks - Len(queue)}) IN
       /\ queue' = queue \o SubSeq(unsent, 1, n)
       /\ unsent' = SubSeq(unsent, n + 1, Len(unsent))
  /\ \/ /\ unsent' = <<>>
        /\ worker' = "fed"
        /\ err' = blocked /\ writeErr' = blocked
        /\ UNCHANGED running
     \/ /\ unsent' # <<>>
        /\ worker' = "wait" /\ running' = TRUE
        /\ UNCHANGED <<err, writeErr>>
  /\ UNCHANGED <<screen, job, chans, nknots, pointer, phase, catchup, debt,
                 window, held, blocked, stalled, ghost>>

(* The ticker: the ring is full, or the device stalled. *)
Tick ==
  /\ worker = "wait"
  /\ worker' = IF stalled THEN "fed" ELSE "write"
  /\ err' = stalled /\ writeErr' = stalled
  /\ UNCHANGED <<screen, job, chans, nknots, pointer, phase, catchup, debt,
                 credit, stepper, homed, queue, running, uncredited, blocked,
                 stalled, ghost>>

(* splineResumer.Knot, after a knot of the catch-up: replayed ticks are    *)
(* not progress of the plan.                                               *)
ReplayedCounts(k) == 0                               (* a mutant of Replayed *)
Replayed(k) == TicksOf(k)

CatchupFed ==
  /\ worker = "fed" /\ phase = "catchup" /\ ~err
  /\ debt' = debt + credit - Replayed(Head(catchup))
  /\ catchup' = Tail(catchup)
  /\ phase' = IF catchup' = <<>> THEN "knot" ELSE "catchup"
  /\ worker' = "feed"
  /\ UNCHANGED <<screen, job, chans, nknots, pointer, credit, err, stepper,
                 device, ghost>>

(* SafePointer.Progress: retire the knots whose ticks are completed; the   *)
(* last clamped triple among them is the new safe point and what came      *)
(* before it is forgotten.                                                 *)
Retirable(his, have) ==
  {n \in retired .. Len(his) : TicksIn(SubSeq(his, retired + 1, n)) <= have}

TrimKeepsOne(his, n) == SubSeq(his, Max({n, 1}), Len(his)) (* mutant of Trim *)
Trim(his, n) == SubSeq(his, n + 1, Len(his))

Progress(his, p) ==
  LET have == residual + p
      n    == Max(Retirable(his, have))
      safe == Max({0} \cup {i \in 3 .. n : his[i] \in SafeKnots})
  IN /\ residual' = have - TicksIn(SubSeq(his, retired + 1, n))
     /\ retired' = n - safe
     /\ safePoint' = IF safe = 0 THEN safePoint ELSE his[safe]
     /\ history' = Trim(his, safe)

(* res.Knot returns, the safe pointer records the knot and its progress.   *)
(* A catch-up that failed accounts for nothing.                            *)
KnotFed ==
  /\ worker = "fed"
  /\ phase = "knot" \/ (phase = "catchup" /\ err)
  /\ LET p == IF phase = "catchup" THEN 0 ELSE Max({0, debt + credit}) IN
       /\ Progress(Append(history, nknots), p)
       /\ debt' = IF phase = "catchup" THEN debt ELSE debt + credit - p
       /\ credit' = p
  /\ worker' = "report"
  /\ UNCHANGED <<screen, job, chans, nknots, phase, catchup, err, stepper,
                 device, ghost>>

(* reportProgress: quit is only one of the ready cases of its select. *)
Report ==
  /\ worker = "report"
  /\ \/ /\ quit
        /\ worker' = "close"
        /\ UNCHANGED <<progress, reported>>
     \/ /\ progress' = <<credit + Pending>>
        /\ reported' = reported + credit
        /\ worker' = IF err THEN "close" ELSE "next"
  /\ UNCHANGED <<screen, job, verdict, lock, nknots, pointer, run, stepper,
                 device, cut, surplus, starts, released>>

(* The plan is fed: drv.Flush writes the last word. *)
FlushDriver ==
  /\ worker = "next" /\ nknots = Knots
  /\ phase' = "flush" /\ credit' = 0
  /\ unsent' = held /\ held' = <<>>
  /\ worker' = IF held = <<>> THEN "close" ELSE "write"
  /\ UNCHANGED <<screen, job, chans, nknots, pointer, catchup, debt, err,
                 window, device, ghost>>

DriverFlushed ==
  /\ worker = "fed" /\ phase = "flush"
  /\ worker' = "close"
  /\ UNCHANGED <<screen, job, chans, nknots, pointer, run, stepper, device, ghost>>

EngraverTaken == TRUE                            (* a mutant of EngraverFree *)
EngraverFree == lock = "offered"

(* The deferred function takes the engraver back and closes it.  After a   *)
(* failed Write the device is reset at once ...                            *)
CloseFailed ==
  /\ worker = "close" /\ EngraverFree /\ writeErr
  /\ lock' = "empty"
  /\ Finish("fail")
  /\ UNCHANGED <<screen, job, progress, nknots, pointer, ghost>>

(* ... else it is flushed: it executes what is in the ring ... *)
Close ==
  /\ worker = "close" /\ EngraverFree /\ ~writeErr
  /\ lock' = "empty"
  /\ running' = TRUE
  /\ worker' = "drain"
  /\ UNCHANGED <<screen, job, verdict, progress, nknots, pointer, run, stepper,
                 homed, queue, uncredited, blocked, stalled, writeErr, ghost>>

(* ... and homes, which fails if the steppers were blocked meanwhile.      *)
Closed ==
  /\ worker = "drain" /\ (queue = <<>> \/ stalled)
  /\ \E homeFails \in {"home" \in Faults, FALSE} :
       LET failed == err \/ queue # <<>> \/ blocked \/ homeFails
       IN Finish(IF failed THEN "fail" ELSE "ok")
  /\ UNCHANGED <<screen, job, progress, lock, nknots, pointer, ghost>>

Worker == \/ OpenFails \/ Opened \/ NextKnot \/ Feed \/ HomeFails \/ Write
          \/ Tick \/ CatchupFed \/ KnotFed \/ Report \/ FlushDriver
          \/ DriverFlushed \/ CloseFailed \/ Close \/ Closed

-----------------------------------------------------------------------------
(* The device executes the ring, on disconnected pins once blocked; what   *)
(* is executed counts as completed either way.                             *)

Execute ==
  /\ running /\ ~stalled /\ queue # <<>>
  /\ queue' = Tail(queue)
  /\ uncredited' = uncredited + 1
  /\ IF blocked THEN surplus' = surplus + 1 /\ UNCHANGED cut
                ELSE cut' = cut \cup ({Head(queue)} \cap PlanTicks) /\ UNCHANGED surplus
  /\ UNCHANGED <<screen, job, chans, nknots, pointer, worker, run, stepper,
                 homed, running, blocked, stalled, writeErr, reported, starts,
                 released>>

(* handleDiag on a stalled stepper motor. *)
Block ==
  /\ running /\ ~blocked /\ "block" \in Faults
  /\ blocked' = TRUE
  /\ UNCHANGED <<screen, job, chans, nknots, pointer, worker, run, stepper,
                 homed, queue, running, uncredited, stalled, writeErr, ghost>>

(* The worker was too slow: the device has taken the halting zero, which   *)
(* moves the DMA index on and so counts as one more word completed.        *)
Stall ==
  /\ running /\ ~stalled /\ queue = <<>> /\ "stall" \in Faults
  /\ stalled' = TRUE
  /\ uncredited' = uncredited + WordTicks /\ surplus' = surplus + WordTicks
  /\ UNCHANGED <<screen, job, chans, nknots, pointer, worker, run, stepper,
                 homed, queue, running, blocked, writeErr, cut, reported,
                 starts, released>>

Device == Execute \/ Block \/ Stall

Next == Screen \/ Worker \/ Device

(* The worker is scheduled and the device executes what it has; the screen *)
(* draws frames and its user may do nothing else.                          *)
Fairness ==
  /\ WF_vars(Worker) /\ WF_vars(Execute)
  /\ WF_vars(StatusProgress) /\ WF_vars(StatusErrs) /\ WF_vars(StatsReturn)
  /\ SF_vars(Draw) /\ SF_vars(CloseFailed \/ Close)

Spec == Init /\ [][Next]_vars
FairSpec == Spec /\ Fairness

-----------------------------------------------------------------------------
(* Type invariant of the job, its worker, the device and the history. *)
TypeOK ==
  /\ ui \in {"loop", "confirm", "left"}
  /\ poll \in {"progress", "errs", "done", "stats"}
  /\ state \in {"idle", "running", "stopping"} \cup Terminal
  /\ completed \in Nat /\ errs \in {"nil", "open"} /\ quit \in BOOLEAN
  /\ verdict \in {"none", "ok", "fail"} /\ lock \in {"empty", "offered", "lent"}
  /\ progress \in Seq(Nat) /\ Len(progress) <= 1
  /\ nknots \in 0 .. Knots /\ safePoint \in 0 .. Knots
  /\ history \in Seq(1 .. Knots) /\ retired \in 0 .. Len(history)
  /\ residual \in Nat
  /\ worker \in {"none", "open", "next", "feed", "write", "wait", "fed",
                 "report", "close", "drain"}
  /\ phase \in {"catchup", "knot", "flush"}
  /\ catchup \in Seq(0 .. Knots) /\ debt \in Int /\ credit \in Nat /\ err \in BOOLEAN
  /\ window \in Seq(0 .. Knots) /\ Len(window) <= 2 /\ Len(queue) <= RingTicks
  /\ {homed, running, blocked, stalled, writeErr, released} \subseteq BOOLEAN
  /\ {uncredited, reported, surplus} \subseteq Nat /\ starts \in 0 .. MaxStarts
  /\ cut \subseteq PlanTicks

(* The knot in the driver's hands has been counted but not yet recorded. *)
InDriver == worker \in {"feed", "write", "wait", "fed"} /\ phase # "flush"

(* The history kept for a resume is exactly the knots between the safe     *)
(* point and the knots handed over, in order, whatever interrupted the     *)
(* earlier runs: no knot is skipped and none replayed twice in a catch-up. *)
HistoryIsTail ==
  ~released => history = [i \in 1 .. (IF InDriver THEN nknots - 1 ELSE nknots) - safePoint
                            |-> safePoint + i]

(* A knot before the safe point has been cut, so a resume that starts at   *)
(* the safe point leaves no gap (engrave.TestSafePointer, over restarts):  *)
(* no tick is missing that the device did not itself report completed      *)
(* without cutting it, for a halting zero after an underrun or on          *)
(* disconnected pins.  Without such faults none is missing.                *)
Missing == {t \in PlanTicks : t[1] <= safePoint} \ cut
GapWithinSurplus == ~released => Cardinality(Missing) <= surplus

(* "Engraving completed successfully." (gui.go:3605): then every tick of   *)
(* the plan has been cut.                                                  *)
DoneIsComplete == state = "done" => cut = PlanTicks

(* The progress shown never runs ahead of the plan: over stops, failures   *)
(* and restarts neither the replayed knots nor the approach line are       *)
(* counted (splineResumer.progress), so but for the surplus the countdown  *)
(* never passes the knots handed over, unread reports included.  A comment *)
(* at the countdown (gui.go:3550) expects the catch-up to count.           *)
CompletedWithinPlan ==
  completed + Pending <= TicksIn([k \in 1 .. nknots |-> k]) + surplus

(* A resume starts from what is on the plate: before the safe point only   *)
(* the surplus may be missing, the replay is exact and the progress not    *)
(* ahead of it.                                                            *)
ResumeIsExact == GapWithinSurplus /\ HistoryIsTail /\ CompletedWithinPlan

(* The resume state is only cleared when no worker can read it any more    *)
(* (F-108): the screen never leaves a terminal job with a live goroutine.  *)
ReleaseIsSafe == released => worker = "none" /\ errs = "nil" /\ ui = "left"

(* Stats never holds the engraver while the worker closes it. *)
NoStatsOnClosing == lock = "lent" => worker \notin {"none", "open", "drain"}

(* A job never has two workers: Start creates one only when the last one   *)
(* has sent its result.                                                    *)
OneWorker == [][starts' # starts => worker = "none"]_vars

(* The state a screen shares with its worker is never touched by both: one *)
(* worker at a time, the engraver lent or closed, the resume state cleared *)
(* or read.                                                                *)
WorkerIsAlone == [](ReleaseIsSafe /\ NoStatsOnClosing) /\ OneWorker

(* A job that was asked to stop comes to an end, also when the screen has  *)
(* gone, and so does its worker.                                           *)
StopEnds == quit /\ worker # "none" ~> worker = "none"

(* A screen that stays sees the end of every run. *)
EndIsSeen == errs = "open" ~> errs = "nil" \/ ui = "left"

(* Neither the screen nor the worker waits for ever on the other. *)
JobEnds == StopEnds /\ EndIsSeen
=============================================================================
