---------------------------- MODULE EngraverPort ----------------------------
(***************************************************************************)
(* The one engraver of the machine and who may use it: engraver and        *)
(* homingEngraver (cmd/controller), the diagnostics interrupt handler and  *)
(* the sessions that wait for the busy token.                              *)
(*                                                                         *)
(* The interrupt handler runs between any two steps of a session.  It      *)
(* disconnects step pins at once; the session learns of it only when a     *)
(* Write polls the quit channel.  The handler in turn learns its mode from *)
(* a channel it reads at its next interrupt.                               *)
(*                                                                         *)
(* A session homes before its first engraved word and again when it is     *)
(* closed.  Words are counted, not told apart; a word in the ring is a     *)
(* word of the current motion.                                             *)
(***************************************************************************)
EXTENDS Naturals, FiniteSets, Sequences

CONSTANTS
  Clients,      (* goroutines that open the engraver: boot homing, jobs    *)
  Nostall,      (* the clients that suppress stalls (QA)                   *)
  HomingWords,  (* words of the homing spline                              *)
  RingWords,    (* words the ring holds                                    *)
  Faults        (* what may go wrong: "power", "stall", "powerloss"        *)

ASSUME PortAssumption ==
  /\ Nostall \subseteq Clients
  /\ HomingWords \in Nat \ {0} /\ RingWords \in Nat \ {0}

VARIABLES
  busy,       (* the token is in the busy channel                          *)
  client,     (* client -> "idle", "waiting", "open", "ok" or "fail"       *)
  pc,         (* what the session does                                     *)
  back,       (* home() was called by "write" or by "close"                *)
  homed, writeErr,   (* homingEngraver                                     *)
  failed,     (* a Write of the session returned an error                  *)
  motion,     (* what the words in the ring are for                        *)
  written,    (* words of the homing spline written                        *)
  ring,       (* words in the ring                                         *)
  status,     (* of the device; "stalled": running, and the PIO has halted *)
  connected,  (* pins driven by the PIO                                    *)
  powered,    (* engraver.powerOff # nil: interrupts enabled               *)
  modes,      (* the modes channel, one slot                               *)
  mode, blocked,     (* of the interrupt handler                           *)
  quit,       (* the quit channel, one slot                                *)
  hit,        (* history: the axes that are at their limit                 *)
  spoiled     (* history: this session engraved on a disconnected pin      *)

session == <<pc, back, homed, writeErr, failed, written>>
dev     == <<motion, ring, status, connected>>
handler == <<mode, blocked>>
vars == <<busy, client, session, dev, powered, modes, handler, quit, hit, spoiled>>

Axes == {"x", "y"}
Pins == Axes \cup {"needle"}
Holder == {c \in Clients : client[c] = "open"}

Init ==
  /\ busy = TRUE /\ client = [c \in Clients |-> "idle"]
  /\ pc = "closed" /\ back = "write" /\ homed = FALSE /\ writeErr = FALSE
  /\ failed = FALSE /\ written = 0
  /\ motion = "none" /\ ring = 0 /\ status = "idle" /\ connected = {}
  /\ powered = FALSE /\ modes = <<>> /\ mode = "engrave" /\ blocked = {}
  /\ quit = <<>> /\ hit = {} /\ spoiled = FALSE

-----------------------------------------------------------------------------
(* Platform.Engraver: the client asks for the token ... *)
Open(c) ==
  /\ client[c] = "idle"
  /\ client' = [client EXCEPT ![c] = "waiting"]
  /\ UNCHANGED <<busy, session, dev, powered, modes, handler, quit, hit, spoiled>>

(* ... and gets it. *)
NoWait == TRUE                                  (* a mutant of TokenThere *)
TokenThere == busy
Acquire(c) ==
  /\ client[c] = "waiting" /\ TokenThere
  /\ busy' = FALSE
  /\ client' = [client EXCEPT ![c] = "open"]
  /\ pc' = "power"
  /\ back' = "write" /\ homed' = FALSE /\ writeErr' = FALSE /\ failed' = FALSE
  /\ written' = 0 /\ spoiled' = FALSE
  /\ UNCHANGED <<dev, powered, modes, handler, quit, hit>>

(* powerOn empties the quit channel before it enables the interrupts. *)
PowerOn ==
  /\ pc = "power"
  /\ quit' = <<>> /\ powered' = TRUE
  /\ pc' = "ready"
  /\ UNCHANGED <<busy, client, back, homed, writeErr, failed, written, dev,
                 modes, handler, hit, spoiled>>

(* Device.Reset *)
ResetDevice == ring' = 0 /\ status' = "idle" /\ motion' = "none"

(* The session is over: power and interrupts off, the token back. *)
TokenKept == FALSE                                  (* a mutant of TokenBack *)
TokenBack == TRUE
Release(outcome) ==
  /\ client' = [c \in Clients |-> IF client[c] = "open" THEN outcome ELSE client[c]]
  /\ busy' = TokenBack /\ powered' = FALSE /\ pc' = "closed"
  /\ ResetDevice

PowerFails ==
  /\ pc = "power" /\ "power" \in Faults
  /\ Release("fail")
  /\ UNCHANGED <<back, homed, writeErr, failed, written, connected, modes,
                 handler, quit, hit, spoiled>>

(* engraver.SwitchMode in two steps: drain the channel, send the mode. *)
Undrained == modes                                    (* a mutant of Drained *)
Drained == <<>>
Drain(from, to) ==
  /\ pc = from /\ pc' = to
  /\ modes' = Drained
  /\ UNCHANGED <<busy, client, back, homed, writeErr, failed, written, dev,
                 powered, handler, quit, hit, spoiled>>

Send(from, m, to) ==
  /\ pc = from /\ pc' = to
  /\ modes' = Append(modes, m)
  /\ UNCHANGED <<busy, client, back, homed, writeErr, failed, written, dev,
                 powered, handler, quit, hit, spoiled>>

(* Device.Write of a word: it returns at once while there is room; a full  *)
(* ring starts the device and waits, and only then looks for a stall.      *)
WriteWord(from, m, to) ==
  /\ pc = from /\ ring < RingWords
  /\ ring' = ring + 1 /\ motion' = m
  /\ pc' = to
  /\ UNCHANGED <<busy, client, back, homed, writeErr, failed, status, connected,
                 powered, modes, handler, quit, hit, spoiled>>

WriteStalled(from) == pc = from /\ ring = RingWords /\ status = "stalled"

(* Device.ensureStarted: the PIO is configured anew, pins and all. *)
Flushing == pc \in {"o.flush", "c.flush"}
StartDevice ==
  /\ Flushing \/ (pc \in {"h.write", "o.write", "e.write"} /\ ring = RingWords)
  /\ status = "idle" /\ status' = "running"
  /\ connected' = Pins
  /\ UNCHANGED <<busy, client, session, motion, ring, powered, modes, handler,
                 quit, hit, spoiled>>

(* The device executes a word: a move from the limits leaves them ... *)
Execute ==
  /\ status = "running" /\ ring > 0
  /\ ring' = ring - 1
  /\ hit' = IF motion = "home" THEN hit ELSE hit \ connected
  /\ spoiled' = (spoiled \/ (motion = "engrave" /\ connected # Pins))
  /\ UNCHANGED <<busy, client, session, motion, status, connected, powered,
                 modes, handler, quit>>

(* ... and halts when it has none: always in a Flush, and when the words   *)
(* come too late.                                                          *)
Halt ==
  /\ status = "running" /\ ring = 0
  /\ Flushing \/ "stall" \in Faults
  /\ status' = "stalled"
  /\ UNCHANGED <<busy, client, session, motion, ring, connected, powered, modes,
                 handler, quit, hit, spoiled>>

(* Device.Flush succeeds or reports an underrun, and resets the device.    *)
(* StepRing has the words: its verdict is off by one either way.           *)
FlushOk(from)    == pc = from /\ status = "stalled" /\ ring <= 1 /\ ResetDevice
FlushFails(from) == pc = from /\ status = "stalled" /\ "stall" \in Faults /\ ResetDevice

(* home() returned an error, to homingEngraver.Write (which leaves         *)
(* writeErr alone) or to Close.                                            *)
HomeFailed ==
  /\ failed' = TRUE
  /\ pc' = IF back = "write" THEN "ready" ELSE "finish"

-----------------------------------------------------------------------------
(* home(): towards the limits until the handler reports errHomed. *)
CallWrite ==
  /\ pc = "ready" /\ ~failed
  /\ pc' = IF homed THEN "e.write" ELSE "h.drain"
  /\ back' = "write" /\ written' = 0
  /\ UNCHANGED <<busy, client, homed, writeErr, failed, dev, powered, modes,
                 handler, quit, hit, spoiled>>

HomeWrite ==
  /\ written < HomingWords
  /\ WriteWord("h.write", "home", "h.poll")
  /\ written' = written + 1

HomePoll ==
  /\ pc = "h.poll"
  /\ quit' = <<>>
  /\ \/ quit = <<"homed">> /\ pc' = "h.reset" /\ UNCHANGED failed
     \/ quit \notin {<<>>, <<"homed">>} /\ HomeFailed
     \/ quit = <<>> /\ pc' = "h.write" /\ UNCHANGED failed
  /\ UNCHANGED <<busy, client, back, homed, writeErr, written, dev, powered,
                 modes, handler, hit, spoiled>>

(* The spline ended: "homing timed out". *)
HomeTimeout ==
  /\ pc = "h.write" /\ written = HomingWords
  /\ HomeFailed
  /\ UNCHANGED <<busy, client, back, homed, writeErr, written, dev, powered,
                 modes, handler, quit, hit, spoiled>>

(* Device.Reset, between homing and the move to the origin. *)
HomeReset ==
  /\ pc = "h.reset" /\ pc' = "o.drain"
  /\ ResetDevice
  /\ UNCHANGED <<busy, client, back, homed, writeErr, failed, written, connected,
                 powered, modes, handler, quit, hit, spoiled>>

OriginWrite == WriteWord("o.write", "origin", "o.poll") /\ UNCHANGED written

OriginPoll ==
  /\ pc = "o.poll"
  /\ quit' = <<>>
  /\ IF quit # <<>> THEN HomeFailed ELSE pc' = "o.flush" /\ UNCHANGED failed
  /\ UNCHANGED <<busy, client, back, homed, writeErr, written, dev, powered,
                 modes, handler, hit, spoiled>>

(* Device.Flush of the move: home() succeeds.  *)
OriginReached ==
  /\ FlushOk("o.flush")
  /\ homed' = TRUE
  /\ pc' = IF back = "write" THEN "m.drain" ELSE "finish"
  /\ UNCHANGED <<busy, client, back, writeErr, failed, written, connected,
                 powered, modes, handler, quit, hit, spoiled>>

(* home() meets an underrun. *)
HomeUnderrun ==
  /\ \/ (WriteStalled("h.write") \/ WriteStalled("o.write"))
        /\ UNCHANGED <<motion, ring, status>>
     \/ FlushFails("o.flush")
  /\ HomeFailed
  /\ UNCHANGED <<busy, client, back, homed, writeErr, written, connected,
                 powered, modes, handler, quit, hit, spoiled>>

StallsKept == "engrave"                          (* a mutant of SessionMode *)
SessionMode == IF Holder \subseteq Nostall THEN "nostall" ELSE "engrave"

SwitchModes ==
  \/ Drain("h.drain", "h.send") \/ Send("h.send", "homing", "h.write")
  \/ Drain("o.drain", "o.send") \/ Send("o.send", "engrave", "o.write")
  \/ Drain("m.drain", "m.send") \/ Send("m.send", SessionMode, "e.write")

-----------------------------------------------------------------------------
(* homingEngraver.Write of a word of the plate. *)
EngraveWrite == WriteWord("e.write", "engrave", "e.poll") /\ UNCHANGED written

EngravePoll ==
  /\ pc = "e.poll" /\ pc' = "ready"
  /\ quit' = <<>>
  /\ failed' = (quit # <<>>) /\ writeErr' = failed'
  /\ UNCHANGED <<busy, client, back, homed, written, dev, powered, modes,
                 handler, hit, spoiled>>

EngraveUnderrun ==
  /\ WriteStalled("e.write") /\ pc' = "ready"
  /\ failed' = TRUE /\ writeErr' = TRUE
  /\ UNCHANGED <<busy, client, back, homed, written, dev, powered, modes,
                 handler, quit, hit, spoiled>>

(* homingEngraver.Close: reset after a failed Write, else flush and home.  *)
CallClose ==
  /\ pc = "ready"
  /\ pc' = IF writeErr THEN "finish" ELSE "c.flush"
  /\ UNCHANGED <<busy, client, back, homed, writeErr, failed, written, dev,
                 powered, modes, handler, quit, hit, spoiled>>

SkipHoming == "finish"                           (* a mutant of AfterFlush *)
AfterFlush == "h.drain"
CloseFlushed ==
  /\ FlushOk("c.flush")
  /\ back' = "close" /\ written' = 0
  /\ pc' = AfterFlush
  /\ UNCHANGED <<busy, client, homed, writeErr, failed, connected, powered,
                 modes, handler, quit, hit, spoiled>>

CloseUnderrun ==
  /\ FlushFails("c.flush")
  /\ failed' = TRUE /\ pc' = "finish"
  /\ UNCHANGED <<busy, client, back, homed, writeErr, written, connected, powered,
                 modes, handler, quit, hit, spoiled>>

Finish ==
  /\ pc = "finish"
  /\ Release(IF failed THEN "fail" ELSE "ok")
  /\ UNCHANGED <<back, homed, writeErr, failed, written, connected, modes,
                 handler, quit, hit, spoiled>>

-----------------------------------------------------------------------------
(* handleDiag: a rising edge of a diagnostics pin.  A stepper only stalls  *)
(* while it is stepped; the power fault may come at any time.              *)
CanStall(a) == status = "running" /\ ring > 0 /\ a \in connected

(* What the handler tries to send, in the order it tries. *)
Errors(m, b) ==
  (IF "s" \in b THEN <<"powerloss">> ELSE <<>>) \o
  CASE m = "homing" /\ b = Axes             -> <<"homed">>
    [] m # "homing" /\ "x" \in b           -> <<"xblocked">>
    [] m # "homing" /\ b \cap Axes = {"y"} -> <<"yblocked">>
    [] OTHER                               -> <<>>

(* The handler takes a new mode from the channel before it acts; a new     *)
(* mode forgets the blocked axes.                                          *)
ModeNow     == IF modes = <<>> THEN mode ELSE modes[1]
BlockedKept == blocked                           (* a mutant of BlockedNow *)
BlockedNow  == IF modes = <<>> THEN blocked ELSE {}

(* The pins taken from the PIO: the needle always, the axis when homing,   *)
(* both axes for a blockage; the power fault has no step pin.              *)
Disconnected(a, m) ==
  {"needle"} \cup (IF m # "homing" /\ a \in Axes THEN Axes ELSE {a})

Interrupt(a) ==
  /\ powered
  /\ a \in Axes => CanStall(a)
  /\ a = "s" => "powerloss" \in Faults
  /\ modes' = <<>> /\ mode' = ModeNow
  /\ hit' = IF motion = "home" THEN hit \cup ({a} \cap Axes) ELSE hit
  /\ IF ModeNow = "nostall"
     THEN blocked' = BlockedNow /\ UNCHANGED <<connected, quit>>
     ELSE LET b      == BlockedNow \cup {a}
              errors == Errors(ModeNow, b)
          IN /\ blocked' = b
             /\ connected' = connected \ Disconnected(a, ModeNow)
             /\ quit' = IF quit = <<>> /\ errors # <<>> THEN <<errors[1]>> ELSE quit
  /\ UNCHANGED <<busy, client, session, motion, ring, status, powered, spoiled>>

Session ==
  \/ PowerOn \/ PowerFails \/ StartDevice \/ SwitchModes
  \/ HomeWrite \/ HomePoll \/ HomeTimeout \/ HomeReset \/ HomeUnderrun
  \/ OriginWrite \/ OriginPoll \/ OriginReached
  \/ EngraveWrite \/ EngravePoll \/ EngraveUnderrun
  \/ CloseFlushed \/ CloseUnderrun \/ Finish
Device == Execute \/ Halt
User == CallWrite \/ CallClose \/ \E c \in Clients : Open(c)

Next == \/ Session \/ User \/ Device
        \/ \E c \in Clients : Acquire(c)
        \/ \E a \in Axes \cup {"s"} : Interrupt(a)

(* The goroutine of a session runs, the device executes, every user of an  *)
(* engraver closes it in the end, and waiting goroutines get the token in  *)
(* turn (receivers of a channel are queued).                               *)
Fairness == /\ WF_vars(Session) /\ WF_vars(Device) /\ SF_vars(CallClose)
            /\ \A c \in Clients : SF_vars(Acquire(c))

Spec == Init /\ [][Next]_vars
FairSpec == Spec /\ Fairness

-----------------------------------------------------------------------------
(* A channel of one slot for the messages of M. *)
Slot(M) == {<<>>} \cup {<<m>> : m \in M}
Modes   == {"engrave", "homing", "nostall"}

(* Type invariant of the port, the device and the interrupt handler. *)
TypeOK ==
  /\ {busy, homed, writeErr, failed, powered, spoiled} \subseteq BOOLEAN
  /\ client \in [Clients -> {"idle", "waiting", "open", "ok", "fail"}]
  /\ pc \in {"closed", "power", "ready", "h.drain", "h.send", "h.write", "h.poll",
             "h.reset", "o.drain", "o.send", "o.write", "o.poll", "o.flush",
             "m.drain", "m.send", "e.write", "e.poll", "c.flush", "finish"}
  /\ back \in {"write", "close"} /\ written \in 0 .. HomingWords
  /\ motion \in {"none", "home", "origin", "engrave"} /\ ring \in 0 .. RingWords
  /\ status \in {"idle", "running", "stalled"}
  /\ connected \subseteq Pins /\ hit \subseteq Axes
  /\ mode \in Modes /\ modes \in Slot(Modes)
  /\ quit \in Slot({"homed", "xblocked", "yblocked", "powerloss"})
  /\ blocked \subseteq Axes \cup {"s"}

(* A plate engraved on a disconnected step pin is never reported as good:  *)
(* whenever the blockage comes, between two Writes, during the final flush *)
(* or while the session homes, some poll of the quit channel finds it.     *)
SpoiledIsReported == \A c \in Clients : client[c] = "open" /\ pc = "finish" /\ spoiled => failed

(* The move to the origin starts from the limits: home() never takes a     *)
(* stale or foreign message for errHomed.                                  *)
OriginFromLimits == pc \in {"h.reset", "o.drain", "o.send"} => hit = Axes

(* A stall during the plate of a session that suppresses stalls takes no   *)
(* pin from the PIO, although the handler reads its mode only when the     *)
(* stall is there.                                                         *)
NostallHolds ==
  [][Holder # {} /\ Holder \subseteq Nostall /\ motion = "engrave"
       => connected \subseteq connected']_vars

(* A plate is cut with its axes connected: for good where stalls are       *)
(* suppressed, and otherwise a plate cut without them is reported.         *)
PlateOnPins == []SpoiledIsReported /\ NostallHolds

(* Nobody holds the token: the machine is without power and at rest, and   *)
(* no two sessions overlap.                                                *)
RestWhenFree ==
  /\ Cardinality(Holder) <= 1
  /\ busy <=> Holder = {}
  /\ busy => ~powered /\ status = "idle"

(* Every client that asks for the engraver gets an outcome. *)
Served == \A c \in Clients : client[c] = "waiting" ~> client[c] \in {"ok", "fail"}
=============================================================================
