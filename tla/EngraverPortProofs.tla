------------------------- MODULE EngraverPortProofs -------------------------
(***************************************************************************)
(* What holds of EngraverPort for any clients, any homing spline and any   *)
(* ring, whatever the interrupt handler does between two steps of a        *)
(* session.                                                                *)
(***************************************************************************)
EXTENDS EngraverPort, FiniteSetTheorems, TLAPS

Reading  == {"h.write", "h.poll", "h.reset"}     (* home() looks for errHomed *)
Rehoming == {"h.drain", "h.send", "o.drain", "o.send", "o.write", "o.poll",
             "o.flush"} \cup Reading
Cutting  == {"m.drain", "m.send", "e.write", "e.poll"}
Paused   == {"closed", "power", "h.drain", "h.send", "o.drain", "o.send",
             "m.drain", "m.send", "o.write"}

AtRest == ring = 0 /\ status = "idle" /\ motion = "none"

(* Nobody holds the token, or one client does and its session is open. *)
TokenInv ==
  /\ busy <=> pc = "closed"
  /\ busy => Holder = {}
  /\ ~busy => \E c \in Clients : Holder = {c}

(* Where the session is decides what is left in the device and the slots. *)
PhaseInv ==
  /\ pc \in Paused => AtRest
  /\ pc \in {"closed", "power"} => ~powered
  /\ pc = "power" => ~homed /\ ~failed /\ ~writeErr /\ ~spoiled
  /\ pc = "ready" /\ ~homed /\ ~failed => AtRest
  /\ pc \in {"h.send", "o.send", "m.send"} => modes = <<>>
  /\ pc \in {"o.poll", "o.flush"} => motion = "origin"
  /\ pc = "o.poll" => status = "idle"
  /\ pc \in Cutting => homed
  /\ pc \in Cutting \/ (pc \in Rehoming /\ back = "write") => ~failed
  /\ pc \in Rehoming /\ back = "write" => ~homed

(* The handler's regimes.  While it homes, the axes it has seen blocked    *)
(* are at their limits; otherwise it does not say that they are.           *)
Homing ==
  /\ ModeNow = "homing" /\ BlockedNow \cap Axes \subseteq hit
  /\ ring > 0 => motion = "home"
Away    == ModeNow # "homing" /\ quit # <<"homed">>
Engaged == ModeNow = SessionMode /\ quit # <<"homed">>

RegimeInv ==
  /\ pc \in Reading => Homing
  /\ pc \in {"o.write", "o.poll", "o.flush"} => ModeNow = "engrave"
  /\ pc \in {"o.flush", "m.drain", "m.send"} => quit # <<"homed">>
  /\ pc \in {"e.write", "e.poll"} \/ (pc = "ready" /\ homed) =>
       Engaged /\ (AtRest \/ motion = "engrave")
  /\ motion = "engrave" =>
       Engaged /\ pc \in {"e.write", "e.poll", "ready", "c.flush", "finish"}
  /\ pc \in {"ready", "c.flush", "finish"} => Homing \/ Away \/ ring = 0

(* "homed" is in the quit channel only while the machine is there. *)
LimitInv ==
  /\ quit = <<"homed">> => hit = Axes
  /\ pc \in {"h.reset", "o.drain", "o.send", "o.write", "o.poll"} => hit = Axes

(* What disconnects a pin under the plate leaves a message, and the        *)
(* message is taken only by a poll that fails.                             *)
Told == failed \/ quit \notin {<<>>, <<"homed">>}
TellInv ==
  /\ motion = "engrave" /\ status # "idle" /\ connected # Pins => Told
  /\ spoiled /\ pc # "closed" => Told
  /\ spoiled /\ pc \in {"o.flush", "finish"} => failed
  /\ pc = "finish" => failed \/ AtRest
  /\ writeErr => failed

PortInv == TokenInv /\ PhaseInv /\ RegimeInv /\ LimitInv /\ TellInv

(* Every step that leaves the token and the clients alone, inside a        *)
(* session, keeps the token where it is.                                   *)
LEMMA TokenKeeps ==
  ASSUME TokenInv, UNCHANGED <<busy, client>>, pc # "closed", pc' # "closed"
  PROVE  TokenInv'
BY DEF TokenInv, Holder

(* The new session starts with an empty quit channel: what an earlier one  *)
(* left there is gone.                                                     *)
LEMMA PowerOnKeeps ==
  ASSUME TypeOK, PortInv, PowerOn
  PROVE  TypeOK' /\ PortInv'
<1> USE DEF PortInv, PowerOn, session, dev, handler
<1>1. TypeOK'
  BY DEF TypeOK, Slot
<1>2. TokenInv'
  BY TokenKeeps
<1>3. PhaseInv'
  BY DEF PhaseInv, AtRest, Cutting, Paused
<1>4. RegimeInv'
  BY DEF PhaseInv, RegimeInv, AtRest, Reading, Paused
<1>5. LimitInv'
  BY DEF LimitInv
<1>6. TellInv'
  BY DEF PhaseInv, TellInv, AtRest, Paused
<1> QED
  BY <1>1, <1>2, <1>3, <1>4, <1>5, <1>6

(* The device starts with all pins connected.                              *)
LEMMA StartDeviceKeeps ==
  ASSUME TypeOK, PortInv, StartDevice
  PROVE  TypeOK' /\ PortInv'
<1> USE DEF PortInv, StartDevice, Flushing, session, dev, handler
<1>1. TypeOK'
  BY DEF TypeOK
<1>2. TokenInv'
  BY TokenKeeps
<1>3. PhaseInv'
  BY PortAssumption DEF PhaseInv, AtRest, Paused
<1>4. RegimeInv'
  BY PortAssumption
     DEF RegimeInv, Homing, Away, Engaged, SessionMode, Holder, ModeNow,
         BlockedNow, AtRest
<1>5. LimitInv'
  BY DEF LimitInv
<1>6. TellInv'
  BY DEF TellInv, Told
<1> QED
  BY <1>1, <1>2, <1>3, <1>4, <1>5, <1>6

(* A word of the homing motion joins words of the homing motion only.      *)
LEMMA HomeWriteKeeps ==
  ASSUME TypeOK, PortInv, HomeWrite
  PROVE  TypeOK' /\ PortInv'
<1> USE DEF PortInv, HomeWrite, WriteWord, session, dev, handler
<1>1. TypeOK'
  BY PortAssumption DEF TypeOK
<1>2. TokenInv'
  BY TokenKeeps
<1>3. PhaseInv'
  BY DEF PhaseInv, Rehoming, Reading, Cutting, Paused
<1>4. RegimeInv'
  BY DEF RegimeInv, Homing, ModeNow, BlockedNow, Reading
<1>5. LimitInv'
  BY DEF LimitInv
<1>6. TellInv'
  BY DEF TellInv, Told
<1> QED
  BY <1>1, <1>2, <1>3, <1>4, <1>5, <1>6

(* "homed" is taken at the limits; any other message fails the session, so *)
(* a spoiled plate is reported here.                                       *)
LEMMA HomePollKeeps ==
  ASSUME TypeOK, PortInv, HomePoll
  PROVE  TypeOK' /\ PortInv'
<1> USE DEF PortInv, HomePoll, HomeFailed, session, dev, handler
<1>1. TypeOK'
  BY DEF TypeOK, Slot
<1>2. TokenInv'
  BY TokenKeeps
<1>3. PhaseInv'
  BY DEF PhaseInv, Rehoming, Reading, Cutting, Paused
<1>4. RegimeInv'
  BY DEF PhaseInv, RegimeInv, Homing, ModeNow, BlockedNow, Rehoming, Reading
<1>5. LimitInv'
  BY DEF LimitInv
<1>6. TellInv'
  BY DEF TellInv, Told
<1> QED
  BY <1>1, <1>2, <1>3, <1>4, <1>5, <1>6

(* The homing motion that ended without "homed" fails the session; the     *)
(* axes seen blocked stay at their limits.                                 *)
LEMMA HomeTimeoutKeeps ==
  ASSUME TypeOK, PortInv, HomeTimeout
  PROVE  TypeOK' /\ PortInv'
<1> USE DEF PortInv, HomeTimeout, HomeFailed, session, dev, handler
<1>1. TypeOK'
  BY DEF TypeOK
<1>2. TokenInv'
  BY TokenKeeps
<1>3. PhaseInv'
  BY DEF PhaseInv, Rehoming, Reading, Cutting, Paused
<1>4. RegimeInv'
  BY DEF PhaseInv, RegimeInv, Homing, ModeNow, BlockedNow, Rehoming, Reading
<1>5. LimitInv'
  BY DEF LimitInv
<1>6. TellInv'
  BY DEF TellInv, Told
<1> QED
  BY <1>1, <1>2, <1>3, <1>4, <1>5, <1>6

(* With the ring empty no axis can stall until the move starts.            *)
LEMMA HomeResetKeeps ==
  ASSUME TypeOK, PortInv, HomeReset
  PROVE  TypeOK' /\ PortInv'
<1> USE DEF PortInv, HomeReset, ResetDevice, session, dev, handler
<1>1. TypeOK'
  BY PortAssumption DEF TypeOK
<1>2. TokenInv'
  BY TokenKeeps
<1>3. PhaseInv'
  BY DEF PhaseInv, AtRest, Rehoming, Reading, Cutting
<1>4. RegimeInv'
  BY DEF RegimeInv, Reading
<1>5. LimitInv'
  BY DEF LimitInv
<1>6. TellInv'
  BY DEF TellInv, Told
<1> QED
  BY <1>1, <1>2, <1>3, <1>4, <1>5, <1>6

(* An underrun while homing fails the session and leaves the handler in    *)
(* its regime.                                                             *)
LEMMA HomeUnderrunKeeps ==
  ASSUME TypeOK, PortInv, HomeUnderrun
  PROVE  TypeOK' /\ PortInv'
<1> USE DEF PortInv, HomeUnderrun, WriteStalled, FlushFails, HomeFailed,
            ResetDevice, session, dev, handler
<1>1. TypeOK'
  BY PortAssumption DEF TypeOK
<1>2. TokenInv'
  BY TokenKeeps
<1>3. PhaseInv'
  BY DEF PhaseInv, Rehoming, Reading, Cutting, Paused
<1>4. RegimeInv'
  BY DEF PhaseInv, RegimeInv, Homing, ModeNow, BlockedNow, AtRest, Rehoming,
         Reading, Paused
<1>5. LimitInv'
  BY DEF LimitInv
<1>6. TellInv'
  BY DEF TellInv, Told
<1> QED
  BY <1>1, <1>2, <1>3, <1>4, <1>5, <1>6

(* The move to the origin is written to a device at rest.                  *)
LEMMA OriginWriteKeeps ==
  ASSUME TypeOK, PortInv, OriginWrite
  PROVE  TypeOK' /\ PortInv'
<1> USE DEF PortInv, OriginWrite, WriteWord, session, dev, handler
<1>1. TypeOK'
  BY PortAssumption DEF TypeOK
<1>2. TokenInv'
  BY TokenKeeps
<1>3. PhaseInv'
  BY DEF PhaseInv, AtRest, Rehoming, Cutting, Paused
<1>4. RegimeInv'
  BY DEF RegimeInv, ModeNow, Reading
<1>5. LimitInv'
  BY DEF LimitInv
<1>6. TellInv'
  BY DEF TellInv, Told
<1> QED
  BY <1>1, <1>2, <1>3, <1>4, <1>5, <1>6

(* The poll before the move empties the quit channel: a second "homed"     *)
(* fails the session, and the move runs without any.                       *)
LEMMA OriginPollKeeps ==
  ASSUME TypeOK, PortInv, OriginPoll
  PROVE  TypeOK' /\ PortInv'
<1> USE DEF PortInv, OriginPoll, HomeFailed, session, dev, handler
<1>1. TypeOK'
  BY DEF TypeOK, Slot
<1>2. TokenInv'
  BY TokenKeeps
<1>3. PhaseInv'
  BY DEF PhaseInv, Rehoming, Reading, Cutting, Paused
<1>4. RegimeInv'
  BY DEF PhaseInv, RegimeInv, Away, ModeNow, Rehoming, Reading
<1>5. LimitInv'
  BY DEF LimitInv
<1>6. TellInv'
  BY DEF TellInv, Told
<1> QED
  BY <1>1, <1>2, <1>3, <1>4, <1>5, <1>6

(* The session has homed, and the device is at rest.                       *)
LEMMA OriginReachedKeeps ==
  ASSUME TypeOK, PortInv, OriginReached
  PROVE  TypeOK' /\ PortInv'
<1> USE DEF PortInv, OriginReached, FlushOk, ResetDevice, session, dev, handler
<1>1. TypeOK'
  BY PortAssumption DEF TypeOK
<1>2. TokenInv'
  BY TokenKeeps
<1>3. PhaseInv'
  BY DEF PhaseInv, AtRest, Rehoming, Reading, Cutting
<1>4. RegimeInv'
  BY DEF RegimeInv, Reading
<1>5. LimitInv'
  BY DEF LimitInv
<1>6. TellInv'
  BY DEF TellInv, Told, AtRest
<1> QED
  BY <1>1, <1>2, <1>3, <1>4, <1>5, <1>6

(* A word of the plate joins words of the plate, or starts them on a       *)
(* device that connects its pins.                                          *)
LEMMA EngraveWriteKeeps ==
  ASSUME TypeOK, PortInv, EngraveWrite
  PROVE  TypeOK' /\ PortInv'
<1> USE DEF PortInv, EngraveWrite, WriteWord, session, dev, handler
<1>1. TypeOK'
  BY PortAssumption DEF TypeOK
<1>2. TokenInv'
  BY TokenKeeps
<1>3. PhaseInv'
  BY DEF PhaseInv, Rehoming, Reading, Cutting, Paused
<1>4. RegimeInv'
  BY DEF RegimeInv, Engaged, SessionMode, Holder, ModeNow, Reading
<1>5. LimitInv'
  BY DEF LimitInv
<1>6. TellInv'
  BY DEF RegimeInv, TellInv, Told, AtRest
<1> QED
  BY <1>1, <1>2, <1>3, <1>4, <1>5, <1>6

(* The poll of a Write takes any message as its failure.                   *)
LEMMA EngravePollKeeps ==
  ASSUME TypeOK, PortInv, EngravePoll
  PROVE  TypeOK' /\ PortInv'
<1> USE DEF PortInv, EngravePoll, session, dev, handler
<1>1. TypeOK'
  BY DEF TypeOK, Slot
<1>2. TokenInv'
  BY TokenKeeps
<1>3. PhaseInv'
  BY DEF PhaseInv, Rehoming, Reading, Cutting, Paused
<1>4. RegimeInv'
  BY DEF RegimeInv, Away, Engaged, SessionMode, Holder, ModeNow, AtRest, Reading
<1>5. LimitInv'
  BY DEF LimitInv
<1>6. TellInv'
  BY DEF PhaseInv, TellInv, Told, Cutting
<1> QED
  BY <1>1, <1>2, <1>3, <1>4, <1>5, <1>6

(* An underrun of the plate fails the session.                             *)
LEMMA EngraveUnderrunKeeps ==
  ASSUME TypeOK, PortInv, EngraveUnderrun
  PROVE  TypeOK' /\ PortInv'
<1> USE DEF PortInv, EngraveUnderrun, WriteStalled, session, dev, handler
<1>1. TypeOK'
  BY DEF TypeOK
<1>2. TokenInv'
  BY TokenKeeps
<1>3. PhaseInv'
  BY DEF PhaseInv, Rehoming, Reading, Cutting, Paused
<1>4. RegimeInv'
  BY DEF RegimeInv, Away, Engaged, SessionMode, Holder, ModeNow, AtRest, Reading
<1>5. LimitInv'
  BY DEF LimitInv
<1>6. TellInv'
  BY DEF TellInv, Told
<1> QED
  BY <1>1, <1>2, <1>3, <1>4, <1>5, <1>6

(* The last words are executed, and the session homes again.               *)
LEMMA CloseFlushedKeeps ==
  ASSUME TypeOK, PortInv, CloseFlushed
  PROVE  TypeOK' /\ PortInv'
<1> USE DEF PortInv, CloseFlushed, FlushOk, ResetDevice, AfterFlush, session,
            dev, handler
<1>1. TypeOK'
  BY PortAssumption DEF TypeOK
<1>2. TokenInv'
  BY TokenKeeps
<1>3. PhaseInv'
  BY DEF PhaseInv, AtRest, Cutting
<1>4. RegimeInv'
  BY DEF RegimeInv, Reading
<1>5. LimitInv'
  BY DEF LimitInv
<1>6. TellInv'
  BY DEF TellInv, Told
<1> QED
  BY <1>1, <1>2, <1>3, <1>4, <1>5, <1>6

(* An underrun of the last words fails the session.                        *)
LEMMA CloseUnderrunKeeps ==
  ASSUME TypeOK, PortInv, CloseUnderrun
  PROVE  TypeOK' /\ PortInv'
<1> USE DEF PortInv, CloseUnderrun, FlushFails, ResetDevice, session, dev,
            handler
<1>1. TypeOK'
  BY PortAssumption DEF TypeOK
<1>2. TokenInv'
  BY TokenKeeps
<1>3. PhaseInv'
  BY DEF PhaseInv, Rehoming, Reading, Cutting, Paused
<1>4. RegimeInv'
  BY DEF RegimeInv, Reading
<1>5. LimitInv'
  BY DEF LimitInv
<1>6. TellInv'
  BY DEF TellInv, Told
<1> QED
  BY <1>1, <1>2, <1>3, <1>4, <1>5, <1>6

(* A session writes as long as no Write has failed.                        *)
LEMMA CallWriteKeeps ==
  ASSUME TypeOK, PortInv, CallWrite
  PROVE  TypeOK' /\ PortInv'
<1> USE DEF PortInv, CallWrite, session, dev, handler
<1>1. TypeOK'
  BY PortAssumption DEF TypeOK
<1>2. TokenInv'
  BY TokenKeeps
<1>3. PhaseInv'
  BY DEF PhaseInv, AtRest, Rehoming, Reading, Cutting, Paused
<1>4. RegimeInv'
  BY DEF PhaseInv, RegimeInv, Engaged, SessionMode, Holder, ModeNow, AtRest,
         Reading
<1>5. LimitInv'
  BY DEF LimitInv
<1>6. TellInv'
  BY DEF TellInv, Told
<1> QED
  BY <1>1, <1>2, <1>3, <1>4, <1>5, <1>6

(* Closing after a failed Write skips the flush.                           *)
LEMMA CallCloseKeeps ==
  ASSUME TypeOK, PortInv, CallClose
  PROVE  TypeOK' /\ PortInv'
<1> USE DEF PortInv, CallClose, session, dev, handler
<1>1. TypeOK'
  BY DEF TypeOK
<1>2. TokenInv'
  BY TokenKeeps
<1>3. PhaseInv'
  BY DEF PhaseInv, Rehoming, Reading, Cutting, Paused
<1>4. RegimeInv'
  BY DEF RegimeInv, Homing, Away, Engaged, SessionMode, Holder, ModeNow,
         BlockedNow, Reading
<1>5. LimitInv'
  BY DEF LimitInv
<1>6. TellInv'
  BY DEF TellInv, Told
<1> QED
  BY <1>1, <1>2, <1>3, <1>4, <1>5, <1>6

(* A word of the plate on a disconnected pin spoils it, and the message of *)
(* the disconnection is still there; the axes leave their limits only when *)
(* no "homed" is on the way.                                               *)
LEMMA ExecuteKeeps ==
  ASSUME TypeOK, PortInv, Execute
  PROVE  TypeOK' /\ PortInv'
<1> USE DEF PortInv, Execute, session, dev, handler
<1>1. TypeOK'
  BY PortAssumption DEF TypeOK
<1>2. TokenInv'
  BY TokenKeeps DEF PhaseInv, AtRest, Paused
<1>3. PhaseInv'
  BY DEF PhaseInv, AtRest, Paused
<1>4. RegimeInv'
  BY DEF RegimeInv, Homing, Away, Engaged, SessionMode, Holder, ModeNow,
         BlockedNow, AtRest
<1>5. LimitInv'
  BY DEF TypeOK, PhaseInv, RegimeInv, LimitInv, Homing, Away, Engaged, AtRest,
         Reading, Paused
<1>6. TellInv'
  BY DEF RegimeInv, TellInv, Told, AtRest
<1> QED
  BY <1>1, <1>2, <1>3, <1>4, <1>5, <1>6

(* The device that halts keeps its words and pins.                         *)
LEMMA HaltKeeps ==
  ASSUME TypeOK, PortInv, Halt
  PROVE  TypeOK' /\ PortInv'
<1> USE DEF PortInv, Halt, Flushing, session, dev, handler
<1>1. TypeOK'
  BY DEF TypeOK
<1>2. TokenInv'
  BY TokenKeeps DEF PhaseInv, AtRest, Paused
<1>3. PhaseInv'
  BY DEF PhaseInv, AtRest
<1>4. RegimeInv'
  BY DEF RegimeInv, Homing, Engaged, SessionMode, Holder, ModeNow, BlockedNow,
         AtRest
<1>5. LimitInv'
  BY DEF LimitInv
<1>6. TellInv'
  BY DEF TellInv, Told, AtRest
<1> QED
  BY <1>1, <1>2, <1>3, <1>4, <1>5, <1>6

(* Draining the modes channel may bring back the mode the handler had,     *)
(* with the device at rest.                                                *)
LEMMA DrainKeeps ==
  ASSUME TypeOK, PortInv, NEW from, NEW to,
         <<from, to>> \in {<<"h.drain", "h.send">>, <<"o.drain", "o.send">>,
                           <<"m.drain", "m.send">>},
         Drain(from, to)
  PROVE  TypeOK' /\ PortInv'
<1> USE DEF PortInv, Drain, Drained, session, dev, handler
<1>1. TypeOK'
  BY DEF TypeOK, Slot
<1>2. TokenInv'
  BY TokenKeeps
<1>3. PhaseInv'
  BY DEF PhaseInv, AtRest, Rehoming, Reading, Cutting, Paused
<1>4. RegimeInv'
  BY DEF RegimeInv, Reading
<1>5. LimitInv'
  BY DEF LimitInv
<1>6. TellInv'
  BY DEF TellInv, Told
<1> QED
  BY <1>1, <1>2, <1>3, <1>4, <1>5, <1>6

(* The mode sent is the only one in the channel and stands until the next. *)
LEMMA SendKeeps ==
  ASSUME TypeOK, PortInv, NEW from, NEW m, NEW to,
         <<from, m, to>> \in {<<"h.send", "homing", "h.write">>,
                              <<"o.send", "engrave", "o.write">>,
                              <<"m.send", SessionMode, "e.write">>},
         Send(from, m, to)
  PROVE  TypeOK' /\ PortInv'
<1> USE DEF PortInv, Send, session, dev, handler
<1>0. modes' = <<m>> /\ m \in Modes
  <2>1. from \in {"h.send", "o.send", "m.send"} /\ m \in Modes
    BY DEF SessionMode, Modes
  <2>2. modes = <<>>
    BY <2>1 DEF PhaseInv
  <2> QED
    BY <2>1, <2>2
<1>1. TypeOK'
  BY <1>0 DEF TypeOK, Slot
<1>2. TokenInv'
  BY TokenKeeps
<1>3. PhaseInv'
  BY DEF PhaseInv, AtRest, Rehoming, Reading, Cutting, Paused
<1>4. RegimeInv'
  BY DEF PhaseInv, RegimeInv, Homing, Engaged, SessionMode, Holder, ModeNow,
         BlockedNow, AtRest, Reading, Paused
<1>5. LimitInv'
  BY DEF LimitInv
<1>6. TellInv'
  BY DEF TellInv, Told
<1> QED
  BY <1>1, <1>2, <1>3, <1>4, <1>5, <1>6

(* Nothing written and nothing in the ring is within bounds.               *)
LEMMA EmptyFits == 0 \in 0 .. RingWords /\ 0 \in 0 .. HomingWords
BY PortAssumption

(* A session that ends leaves the token in its channel and nobody holding  *)
(* it.                                                                     *)
LEMMA ReleaseFrees ==
  ASSUME NEW outcome \in {"ok", "fail"}, Release(outcome), TypeOK
  PROVE  /\ busy' /\ Holder' = {} /\ pc' = "closed" /\ ~powered' /\ AtRest'
         /\ client' \in [Clients -> {"idle", "waiting", "open", "ok", "fail"}]
BY DEF Release, TokenBack, ResetDevice, AtRest, Holder, TypeOK

(* A session without power ends at once.                                   *)
LEMMA PowerFailsKeeps ==
  ASSUME TypeOK, PortInv, PowerFails
  PROVE  TypeOK' /\ PortInv'
<1>1. PICK outcome \in {"ok", "fail"} : Release(outcome)
  BY DEF PowerFails
<1>2. /\ busy' /\ Holder' = {} /\ pc' = "closed" /\ ~powered' /\ AtRest'
      /\ client' \in [Clients -> {"idle", "waiting", "open", "ok", "fail"}]
  BY <1>1, ReleaseFrees
<1>3. busy' = TRUE /\ powered' = FALSE
  BY <1>1 DEF Release, TokenBack
<1>4. TypeOK'
  BY <1>2, <1>3, EmptyFits DEF TypeOK, PowerFails, AtRest, handler
<1>5. TokenInv' /\ PhaseInv' /\ RegimeInv'
  BY <1>2 DEF TokenInv, PhaseInv, RegimeInv, AtRest, Rehoming, Reading, Cutting
<1>6. LimitInv' /\ TellInv'
  BY <1>2 DEF PowerFails, PortInv, LimitInv, TellInv, AtRest
<1> QED
  BY <1>4, <1>5, <1>6 DEF PortInv

(* The end of a session.                                                   *)
LEMMA FinishKeeps ==
  ASSUME TypeOK, PortInv, Finish
  PROVE  TypeOK' /\ PortInv'
<1>1. PICK outcome \in {"ok", "fail"} : Release(outcome)
  BY DEF Finish
<1>2. /\ busy' /\ Holder' = {} /\ pc' = "closed" /\ ~powered' /\ AtRest'
      /\ client' \in [Clients -> {"idle", "waiting", "open", "ok", "fail"}]
  BY <1>1, ReleaseFrees
<1>3. busy' = TRUE /\ powered' = FALSE
  BY <1>1 DEF Release, TokenBack
<1>4. TypeOK'
  BY <1>2, <1>3, EmptyFits DEF TypeOK, Finish, AtRest, handler
<1>5. TokenInv' /\ PhaseInv' /\ RegimeInv'
  BY <1>2 DEF TokenInv, PhaseInv, RegimeInv, AtRest, Rehoming, Reading, Cutting
<1>6. LimitInv' /\ TellInv'
  BY <1>2 DEF Finish, PortInv, LimitInv, TellInv, AtRest
<1> QED
  BY <1>4, <1>5, <1>6 DEF PortInv

(* A client that waits changes nothing for the holder.                     *)
LEMMA OpenKeeps ==
  ASSUME TypeOK, PortInv, NEW c \in Clients, Open(c)
  PROVE  TypeOK' /\ PortInv'
<1> USE DEF PortInv, Open, session, dev, handler
<1>1. TypeOK'
  BY DEF TypeOK
<1>2. Holder' = Holder
  BY DEF Holder
<1>3. TokenInv'
  BY <1>2 DEF TokenInv
<1>4. PhaseInv' /\ LimitInv' /\ TellInv'
  BY DEF PhaseInv, LimitInv, TellInv, Told, AtRest
<1>5. RegimeInv'
  BY <1>2 DEF RegimeInv, Homing, Away, Engaged, SessionMode, ModeNow,
              BlockedNow, AtRest
<1> QED
  BY <1>1, <1>3, <1>4, <1>5

(* The token was in its channel, so nobody held it.                        *)
LEMMA AcquireKeeps ==
  ASSUME TypeOK, PortInv, NEW c \in Clients, Acquire(c)
  PROVE  TypeOK' /\ PortInv'
<1> USE DEF PortInv, Acquire, TokenThere, dev, handler
<1>1. TypeOK'
  BY EmptyFits DEF TypeOK
<1>2. Holder' = {c}
  BY DEF Holder, TypeOK, TokenInv
<1>3. TokenInv'
  BY <1>2 DEF TokenInv
<1>4. PhaseInv'
  BY DEF TokenInv, PhaseInv, AtRest, Cutting, Paused
<1>5. RegimeInv' /\ LimitInv' /\ TellInv'
  BY DEF TokenInv, RegimeInv, LimitInv, TellInv, Reading
<1> QED
  BY <1>1, <1>3, <1>4, <1>5

(* What the handler sends first: of several messages only the first finds  *)
(* room.                                                                   *)
LEMMA FirstError ==
  ASSUME NEW m \in Modes, NEW b \in SUBSET (Axes \cup {"s"})
  PROVE  LET e == Errors(m, b) IN
         /\ e # <<>> => e[1] \in {"homed", "xblocked", "yblocked", "powerloss"}
         /\ e # <<>> /\ e[1] = "homed" => m = "homing" /\ b = Axes
         /\ m # "homing" /\ b # {} => e # <<>>
<1> DEFINE rest == CASE m = "homing" /\ b = Axes             -> <<"homed">>
                     [] m # "homing" /\ "x" \in b           -> <<"xblocked">>
                     [] m # "homing" /\ b \cap Axes = {"y"} -> <<"yblocked">>
                     [] OTHER                               -> <<>>
<1>1. /\ rest \in {<<>>, <<"homed">>, <<"xblocked">>, <<"yblocked">>}
      /\ rest = <<"homed">> => m = "homing" /\ b = Axes
      /\ m # "homing" /\ b \cap Axes # {} => rest # <<>>
  BY DEF Axes
<1>2. CASE "s" \in b
  <2>1. Errors(m, b) = <<"powerloss">> \o rest
    BY <1>2 DEF Errors
  <2> HIDE DEF rest
  <2>2. rest \in Seq({"homed", "xblocked", "yblocked"})
    <3>1. {<<>>, <<"homed">>, <<"xblocked">>, <<"yblocked">>}
            \subseteq Seq({"homed", "xblocked", "yblocked"})
      OBVIOUS
    <3> QED
      BY <1>1, <3>1, Zenon
  <2>3. Errors(m, b) # <<>> /\ Errors(m, b)[1] = "powerloss"
    BY <2>1, <2>2
  <2> QED
    BY <2>3
<1>3. CASE "s" \notin b
  <2>1. Errors(m, b) = <<>> \o rest
    BY <1>3 DEF Errors
  <2> HIDE DEF rest
  <2>2. rest \in Seq({"homed", "xblocked", "yblocked"})
    <3>1. {<<>>, <<"homed">>, <<"xblocked">>, <<"yblocked">>}
            \subseteq Seq({"homed", "xblocked", "yblocked"})
      OBVIOUS
    <3> QED
      BY <1>1, <3>1, Zenon
  <2>3. Errors(m, b) = rest
    BY <2>1, <2>2
  <2>4. b # {} => b \cap Axes # {}
    BY <1>3
  <2> QED
    BY <1>1, <2>3, <2>4
<1> QED
  BY <1>2, <1>3

(* The interrupt handler, at any point of a session: it keeps its regime,  *)
(* says "homed" only of axes at their limits, and disconnects nothing      *)
(* under a plate without leaving a message.                                *)
LEMMA InterruptKeeps ==
  ASSUME TypeOK, PortInv, NEW a \in Axes \cup {"s"}, Interrupt(a)
  PROVE  TypeOK' /\ PortInv'
<1> DEFINE b == BlockedNow \cup {a}
<1> DEFINE e == Errors(ModeNow, b)
<1>1. /\ ModeNow \in Modes /\ b \subseteq Axes \cup {"s"}
      /\ ModeNow' = ModeNow /\ BlockedNow' = blocked'
  BY DEF Interrupt, TypeOK, ModeNow, BlockedNow, Slot
<1>2. /\ e # <<>> => e[1] \in {"homed", "xblocked", "yblocked", "powerloss"}
      /\ e # <<>> /\ e[1] = "homed" => ModeNow = "homing" /\ b = Axes
      /\ ModeNow # "homing" => e # <<>>
  BY <1>1, FirstError
<1>3. /\ powered /\ modes' = <<>> /\ mode' = ModeNow
      /\ hit' = IF motion = "home" THEN hit \cup ({a} \cap Axes) ELSE hit
      /\ a \in Axes => status = "running" /\ ring > 0
      /\ UNCHANGED <<busy, client, session, motion, ring, status, powered, spoiled>>
  BY DEF Interrupt, CanStall
(* Either the handler suppresses stalls, or it blocks, disconnects, sends. *)
<1>4. \/ /\ ModeNow = "nostall" /\ blocked' = BlockedNow
         /\ UNCHANGED <<connected, quit>>
      \/ /\ ModeNow # "nostall" /\ blocked' = b /\ connected' \subseteq connected
         /\ quit' = IF quit = <<>> /\ e # <<>> THEN <<e[1]>> ELSE quit
  BY DEF Interrupt
<1> HIDE DEF e
<1>5. TypeOK'
  BY <1>1, <1>2, <1>3, <1>4 DEF TypeOK, session, Slot
<1>6. TokenInv'
  BY <1>3 DEF TokenInv, Holder, PortInv, session
<1>7. PhaseInv'
  BY <1>3 DEF PhaseInv, PortInv, session, AtRest
<1>8. quit' = <<"homed">> => quit = <<"homed">> \/ (ModeNow = "homing" /\ b = Axes)
  BY <1>2, <1>4
<1>9. Engaged => Engaged'
  BY <1>1, <1>3, <1>8 DEF Engaged, SessionMode, Holder
<1>10. Away => Away'
  BY <1>1, <1>8 DEF Away
<1>11. Homing => Homing'
  BY <1>1, <1>3, <1>4 DEF Homing
<1>12. ring = 0 => a = "s"
  BY <1>3
<1>13. RegimeInv'
  BY <1>1, <1>3, <1>8, <1>9, <1>10, <1>11, <1>12
     DEF RegimeInv, PhaseInv, PortInv, session, AtRest, Paused, Reading, Axes
<1>14. LimitInv'
  <2>1. CASE ring = 0
    BY <1>3, <1>8, <1>12, <2>1 DEF LimitInv, PortInv, session
  <2>2. CASE ring > 0 /\ Homing
    BY <1>3, <1>8, <2>2 DEF LimitInv, PortInv, session, Homing, TypeOK
  <2>3. CASE ring > 0 /\ ~Homing
    BY <1>3, <1>8, <2>3 DEF LimitInv, PortInv, session, RegimeInv, PhaseInv,
                            Away, Engaged, SessionMode, AtRest, Reading, Paused,
                            TypeOK
  <2> QED
    BY <2>1, <2>2, <2>3 DEF TypeOK
<1>15. TellInv'
  <2>1. Told => Told'
    BY <1>3, <1>4 DEF Told, session
  <2>2. CASE motion = "engrave"
    <3>1. Engaged
      BY <2>2 DEF PortInv, RegimeInv
    <3>2. connected' = connected \/ Told'
      BY <1>2, <1>4, <3>1 DEF Told, Engaged, SessionMode
    <3> QED
      BY <1>3, <2>1, <3>2 DEF PortInv, TellInv, AtRest, session
  <2>3. CASE motion # "engrave"
    BY <1>3, <2>1, <2>3 DEF PortInv, TellInv, AtRest, session
  <2> QED
    BY <2>2, <2>3
<1> QED
  BY <1>5, <1>6, <1>7, <1>13, <1>14, <1>15 DEF PortInv

(* The machine starts without a session.                                   *)
LEMMA InitPort == Init => TypeOK /\ PortInv
<1> SUFFICES ASSUME Init PROVE TypeOK /\ PortInv
  OBVIOUS
<1>1. TypeOK
  BY EmptyFits DEF Init, TypeOK, Slot, Modes
<1>2. TokenInv /\ PhaseInv
  BY DEF Init, TokenInv, Holder, PhaseInv, AtRest, Cutting
<1>3. RegimeInv /\ LimitInv /\ TellInv
  BY DEF Init, RegimeInv, LimitInv, TellInv, Reading
<1> QED
  BY <1>1, <1>2, <1>3 DEF PortInv

(* Every step keeps the invariant.                                         *)
LEMMA StepPort ==
  ASSUME TypeOK, PortInv, [Next]_vars
  PROVE  TypeOK' /\ PortInv'
<1>1. CASE Session
  BY <1>1, PowerOnKeeps, PowerFailsKeeps, StartDeviceKeeps, DrainKeeps,
     SendKeeps, HomeWriteKeeps, HomePollKeeps, HomeTimeoutKeeps,
     HomeResetKeeps, HomeUnderrunKeeps, OriginWriteKeeps, OriginPollKeeps,
     OriginReachedKeeps, EngraveWriteKeeps, EngravePollKeeps,
     EngraveUnderrunKeeps, CloseFlushedKeeps, CloseUnderrunKeeps, FinishKeeps
     DEF Session, SwitchModes
<1>2. CASE User \/ Device
  BY <1>2, CallWriteKeeps, CallCloseKeeps, OpenKeeps, ExecuteKeeps, HaltKeeps
     DEF User, Device
<1>3. CASE \E c \in Clients : Acquire(c)
  BY <1>3, AcquireKeeps
<1>4. CASE \E a \in Axes \cup {"s"} : Interrupt(a)
  BY <1>4, InterruptKeeps
<1>5. CASE UNCHANGED vars
  <2> USE <1>5 DEF vars, session, dev, handler
  <2>1. TypeOK'
    BY DEF TypeOK
  <2>2. TokenInv' /\ PhaseInv' /\ LimitInv' /\ TellInv'
    BY DEF PortInv, TokenInv, Holder, PhaseInv, AtRest, LimitInv, TellInv, Told
  <2>3. RegimeInv'
    BY DEF PortInv, RegimeInv, Homing, Away, Engaged, SessionMode, Holder,
           ModeNow, BlockedNow, AtRest
  <2> QED
    BY <2>1, <2>2, <2>3 DEF PortInv
<1> QED
  BY <1>1, <1>2, <1>3, <1>4, <1>5 DEF Next

(* The invariant holds in every reachable state.                           *)
LEMMA PortAlways == Spec => [](TypeOK /\ PortInv)
<1>1. TypeOK /\ PortInv /\ [Next]_vars => (TypeOK /\ PortInv)'
  BY StepPort
<1> QED
  BY <1>1, InitPort, PTL DEF Spec

(* Every message and mode in the channels is one the code sends, no        *)
(* channel holds two, and the ring never overflows.                        *)
THEOREM PortAlwaysTyped == Spec => []TypeOK
BY PortAlways, PTL

(* Two sessions never overlap, and when the token is in its channel the    *)
(* power is off and the device idle, over every way a session fails.       *)
THEOREM FreeAlwaysAtRest == Spec => []RestWhenFree
<1>1. PortInv => RestWhenFree
  <2> SUFFICES ASSUME PortInv PROVE RestWhenFree
    OBVIOUS
  <2>1. Cardinality(Holder) <= 1
    BY FS_EmptySet, FS_Singleton DEF PortInv, TokenInv
  <2> QED
    BY <2>1 DEF PortInv, TokenInv, PhaseInv, AtRest, Paused, RestWhenFree
<1> QED
  BY <1>1, PortAlways, PTL

(* home() never moves to the origin from anywhere but the limits, whatever *)
(* messages, modes and blocked axes an earlier homing left.                *)
THEOREM OriginAlwaysFromLimits == Spec => []OriginFromLimits
<1>1. PortInv => OriginFromLimits
  BY DEF PortInv, LimitInv, OriginFromLimits
<1> QED
  BY <1>1, PortAlways, PTL

(* A plate cut on a disconnected step pin is reported by its session, and  *)
(* the handler takes no pin from a session that suppresses stalls.         *)
THEOREM PlateAlwaysOnPins == Spec => PlateOnPins
<1>1. PortInv => SpoiledIsReported
  BY DEF PortInv, TellInv, SpoiledIsReported
<1> DEFINE Kept == Holder # {} /\ Holder \subseteq Nostall /\ motion = "engrave"
                     => connected \subseteq connected'
<1>2. TypeOK /\ PortInv /\ [Next]_vars => [Kept]_vars
  <2> SUFFICES ASSUME TypeOK, PortInv, Next, Holder \subseteq Nostall,
                      motion = "engrave"
               PROVE  connected \subseteq connected'
    OBVIOUS
  <2>1. ModeNow = "nostall"
    BY DEF PortInv, RegimeInv, Engaged, SessionMode
  <2>2. CASE \E a \in Axes \cup {"s"} : Interrupt(a)
    BY <2>1, <2>2 DEF Interrupt
  <2>3. CASE StartDevice
    BY <2>3 DEF StartDevice, TypeOK
  <2>4. CASE Session /\ ~StartDevice
    BY <2>4 DEF Session, SwitchModes, Drain, Send, PowerOn, PowerFails,
       HomeWrite, WriteWord, HomePoll, HomeTimeout, HomeReset, HomeUnderrun,
       OriginWrite, OriginPoll, OriginReached, EngraveWrite, EngravePoll,
       EngraveUnderrun, CloseFlushed, CloseUnderrun, Finish, dev
  <2>5. CASE User \/ Device \/ \E c \in Clients : Acquire(c)
    BY <2>5 DEF User, Device, CallWrite, CallClose, Open, Execute, Halt,
                Acquire, dev
  <2> QED
    BY <2>2, <2>3, <2>4, <2>5 DEF Next
<1>3. Spec => [][Kept]_vars
  BY <1>2, PortAlways, PTL DEF Spec
<1>4. Spec => []SpoiledIsReported
  BY <1>1, PortAlways, PTL
<1> QED
  BY <1>3, <1>4 DEF PlateOnPins, NostallHolds

=============================================================================
