------------------------------ MODULE StepRing ------------------------------
(***************************************************************************)
(* The step buffer between the engraving goroutine and the pins of the     *)
(* machine: mjolnir2.Device and its ring (driver/mjolnir2).                *)
(*                                                                         *)
(* Three actors share the ring.  The CPU copies step words into it, in the *)
(* order of ring.Write: advance writeIdx, write the halting zero there,    *)
(* copy all words but the first, and only then overwrite the old halting   *)
(* zero with the first word.  The DMA channel, which knows nothing of      *)
(* writeIdx, copies words from the ring to the PIO FIFO for ever.  The PIO *)
(* program executes one word at a time and stalls at the zero word.        *)
(*                                                                         *)
(* A word is the number of its submission, 1, 2, ...; 0 is the halting     *)
(* zero.  The numbering runs on over sessions (a session ends at           *)
(* Device.Reset), so a word left in the ring by an earlier session is told *)
(* from a word of this one.  The last word before a Flush may be padded    *)
(* (stepper.Driver.Flush rounds the step count up): the PIO runs its steps *)
(* and stalls at its own zeros.                                            *)
(*                                                                         *)
(* The DMA channel has high priority and a word lasts 36 PIO cycles, so    *)
(* the FIFO is refilled before the next word is pulled: Pull is one step.  *)
(***************************************************************************)
EXTENDS Integers, Sequences, FiniteSetsExt

CONSTANTS
  RingSize,   (* len(dmaBuf): words in the ring                    *)
  FifoDepth,  (* words the joined PIO TX FIFO holds                *)
  MaxBatch,   (* bound: words of one Device.Write                  *)
  MaxWords    (* bound: words submitted in a behaviour             *)

ASSUME RingAssumption ==
  /\ RingSize \in Nat /\ FifoDepth \in Nat \ {0}
  /\ MaxBatch \in Nat \ {0} /\ MaxWords \in Nat
  /\ FifoDepth + 1 < RingSize

VARIABLES
  buf, readIdx, writeIdx,    (* the ring                                    *)
  status, inFlight,          (* Device.status, Device.inFlight              *)
  dma,                       (* index of the word the DMA transfers next    *)
  fifo, pio,                 (* the PIO TX FIFO; "off", "run" or "stall"    *)
  pc,                        (* what the CPU does                           *)
  todo,                      (* words of the current Write not in the ring  *)
  padded,                    (* word with zero steps at its end, 0 if none  *)
  first, count, copied,      (* ring.Write: dst[0]'s index, n, words copied *)
  result,                    (* of the last Flush: "none", "ok", "underrun" *)
  submitted, executed,       (* history: last word put in the ring and last *)
                             (* word executed by the PIO or dropped         *)
  transferred, reported      (* history: words the DMA took and words Write *)
                             (* reported completed, in this session         *)

ringVars  == <<buf, readIdx, writeIdx>>
countVars == <<status, inFlight>>
hwVars    == <<dma, fifo, pio>>
callVars  == <<todo, padded>>
copyVars  == <<first, count, copied>>
history   == <<submitted, executed, transferred, reported>>
deviceVars == <<ringVars, countVars, hwVars, pc, callVars, copyVars, result, history>>

Index == 0 .. RingSize - 1
Word  == 0 .. MaxWords

NoWrap(i) == i                                      (* a mutant of Wrap *)
Wrap(i) == i % RingSize

(* ring.AdvanceRead: the words read since the last call, modulo the ring. *)
Completed(from, to) == IF to < from THEN to + RingSize - from ELSE to - from

(* ring.Write: the words that can be written from writeIdx, leaving room   *)
(* for the halting zero and stopping at the end of the buffer.             *)
Writable(ridx, widx) == IF ridx <= widx THEN RingSize - (widx - ridx) ELSE ridx - widx
ChunkToBrim(ridx, widx, n) ==                       (* a mutant of Chunk *)
  Min({Writable(ridx, widx), n, RingSize - widx})
Chunk(ridx, widx, n) == Min({Writable(ridx, widx) - 1, n, RingSize - widx})

-----------------------------------------------------------------------------
RingInit ==
  /\ buf = [i \in Index |-> 0] /\ readIdx = 0 /\ writeIdx = 0
  /\ status = "idle" /\ inFlight = 0
  /\ dma = 0 /\ fifo = <<>> /\ pio = "off"
  /\ pc = "ready" /\ todo = 0 /\ padded = 0
  /\ first = 0 /\ count = 0 /\ copied = {}
  /\ result = "none"
  /\ submitted = 0 /\ executed = 0 /\ transferred = 0 /\ reported = 0

(* Device.Write is called with n words; the last write of a session, from  *)
(* stepper.Driver.Flush, may end in a padded word.                         *)
CallWrite(n, pad) ==
  /\ pc = "ready" /\ padded = 0 /\ submitted + n <= MaxWords
  /\ pc' = "advance" /\ todo' = n /\ result' = "none"
  /\ padded' = IF pad THEN submitted + n ELSE 0
  /\ UNCHANGED <<ringVars, countVars, hwVars, copyVars, history>>

(* d.advanceDMA() in Device.Write: TRANS_COUNT gives the DMA position. *)
Advance ==
  /\ pc = "advance"
  /\ readIdx' = dma
  /\ LET nr == Completed(readIdx, dma) IN
       /\ inFlight' = inFlight - nr
       /\ reported' = reported + nr
  /\ pc' = "ring"
  /\ UNCHANGED <<buf, writeIdx, status, hwVars, callVars, copyVars, result,
                 submitted, executed, transferred>>

(* ring.Write: move writeIdx and write the halting zero behind the chunk. *)
WriteHalt ==
  /\ pc = "ring"
  /\ LET n == Chunk(readIdx, writeIdx, todo)
         end == Wrap(writeIdx + n)
     IN /\ n > 0
        /\ first' = writeIdx /\ count' = n /\ copied' = {}
        /\ writeIdx' = end
        /\ buf' = [buf EXCEPT ![end] = 0]
  /\ pc' = "copy"
  /\ UNCHANGED <<readIdx, countVars, hwVars, callVars, result, history>>

(* copy(dst[1:], data[1:n]), one word at a time in any order. *)
CopyWord ==
  /\ pc = "copy"
  /\ \E i \in (1 .. count - 1) \ copied :
       /\ buf' = [buf EXCEPT ![first + i] = submitted + 1 + i]
       /\ copied' = copied \cup {i}
  /\ UNCHANGED <<readIdx, writeIdx, countVars, hwVars, pc, callVars, first,
                 count, result, history>>

(* atomic.StoreUint32(&dst[0], data[0]): the chunk becomes visible. *)
StoreFirst ==
  /\ pc = "copy" /\ copied = 1 .. count - 1
  /\ buf' = [buf EXCEPT ![first] = submitted + 1]
  /\ submitted' = submitted + count
  /\ todo' = todo - count
  /\ inFlight' = inFlight + count
  /\ pc' = "ring"
  /\ UNCHANGED <<readIdx, writeIdx, status, hwVars, padded, copyVars, result,
                 executed, transferred, reported>>

(* Device.Write returns once all words are in the ring. *)
WriteDone ==
  /\ pc = "ring" /\ todo = 0
  /\ pc' = "ready"
  /\ UNCHANGED <<ringVars, countVars, hwVars, callVars, copyVars, result, history>>

(* ensureStarted's advanceDMA: the read index skips the prefetched words.  *)
StartAtZero == 0                             (* a mutant of PrefetchedIndex *)
PrefetchedIndex == FifoDepth

(* ensureStarted: fill the FIFO, advance the read index past it without    *)
(* touching inFlight, and start the PIO.                                   *)
EnsureStarted ==
  \/ /\ status = "idle"
     /\ status' = "running" /\ pio' = "run"
     /\ fifo' = [i \in 1 .. FifoDepth |-> buf[i - 1]]
     /\ dma' = FifoDepth /\ readIdx' = PrefetchedIndex /\ transferred' = FifoDepth
  \/ /\ status = "running"
     /\ UNCHANGED <<status, hwVars, readIdx, transferred>>

(* The ring is full: start the transfer and wait for the ticker. *)
RingFull ==
  /\ pc = "ring" /\ todo > 0 /\ Chunk(readIdx, writeIdx, todo) <= 0
  /\ EnsureStarted
  /\ pc' = "wait"
  /\ UNCHANGED <<buf, writeIdx, inFlight, callVars, copyVars, result, submitted,
                 executed, reported>>

(* The ticker fires in Device.Write: try again, or report the stall. *)
AfterTickBlind == "advance"                        (* a mutant of AfterTick *)
AfterTick == IF pio = "stall" THEN "failed" ELSE "advance"

Tick ==
  /\ pc = "wait"
  /\ pc' = AfterTick
  /\ UNCHANGED <<ringVars, countVars, hwVars, callVars, copyVars, result, history>>

(* Device.Flush. *)
CallFlush ==
  /\ pc = "ready"
  /\ EnsureStarted
  /\ pc' = "flush" /\ result' = "none"
  /\ UNCHANGED <<buf, writeIdx, inFlight, callVars, copyVars, submitted,
                 executed, reported>>

(* Flush's verdict from the words in flight. *)
VerdictLax(left) == IF left > 1 THEN "underrun" ELSE "ok" (* mutant of Verdict *)
Verdict(left) == IF left > 0 THEN "underrun" ELSE "ok"

(* Flush sees the stall: its verdict, before the deferred Reset. *)
FlushStalled ==
  /\ pc = "flush" /\ pio = "stall"
  /\ readIdx' = dma
  /\ inFlight' = inFlight - Completed(readIdx, dma)
  /\ result' = Verdict(inFlight')
  /\ pc' = "failed"
  /\ UNCHANGED <<buf, writeIdx, status, hwVars, callVars, copyVars, history>>

(* Device.Reset: deferred by Flush, called by homingEngraver.Close after a *)
(* failed Write.  A new session begins: words not executed are dropped.    *)
Reset ==
  /\ inFlight' = 0 /\ status' = "idle"
  /\ buf' = [buf EXCEPT ![0] = 0] /\ readIdx' = 0 /\ writeIdx' = 0
  /\ dma' = 0 /\ fifo' = <<>> /\ pio' = "off"
  /\ executed' = submitted /\ transferred' = 0 /\ reported' = 0
  /\ pc' = "ready" /\ todo' = 0 /\ padded' = 0 /\ result' = "none"
  /\ UNCHANGED <<copyVars, submitted>>

ResetFailed == pc = "failed" /\ Reset

(* Reset with the PIO running: home() when both axes have stalled, and     *)
(* homingEngraver.Close after a diagnostics error.                         *)
Abandon == pc = "ready" /\ status = "running" /\ Reset

(* The PIO takes a word, and the DMA channel refills the FIFO from the     *)
(* ring, wrapping through its second channel.  A zero word stalls at once, *)
(* a padded one after its steps.                                           *)
Pull ==
  /\ pio = "run"
  /\ fifo' = Append(Tail(fifo), buf[dma])
  /\ dma' = Wrap(dma + 1)
  /\ transferred' = transferred + 1
  /\ executed' = IF Head(fifo) = 0 THEN executed ELSE Head(fifo)
  /\ pio' = IF Head(fifo) \in {0, padded} THEN "stall" ELSE "run"
  /\ UNCHANGED <<ringVars, countVars, pc, callVars, copyVars, result,
                 submitted, reported>>

Cpu == \/ Advance \/ WriteHalt \/ CopyWord \/ StoreFirst \/ WriteDone
       \/ RingFull \/ Tick \/ FlushStalled \/ ResetFailed
Client == \/ \E n \in 1 .. MaxBatch, pad \in BOOLEAN : CallWrite(n, pad)
          \/ CallFlush
          \/ Abandon
RingNext == Cpu \/ Client \/ Pull

(* The goroutine in a call goes on, the ticker ticks and the PIO runs;     *)
(* nobody has to make a call.                                              *)
Fairness == WF_deviceVars(Cpu) /\ WF_deviceVars(Pull)
RingSpec == RingInit /\ [][RingNext]_deviceVars
FairSpec == RingSpec /\ Fairness

-----------------------------------------------------------------------------
(* Type invariant of the ring, the device and the history. *)
TypeOK ==
  /\ buf \in [Index -> Word] /\ readIdx \in Index /\ writeIdx \in Index
  /\ status \in {"idle", "running"} /\ inFlight \in Int
  /\ dma \in Index /\ fifo \in Seq(Word) /\ pio \in {"off", "run", "stall"}
  /\ pc \in {"ready", "advance", "ring", "copy", "wait", "flush", "failed"}
  /\ todo \in Nat /\ padded \in Word /\ first \in Index /\ count \in Nat /\ copied \in SUBSET Nat
  /\ result \in {"none", "ok", "underrun"}
  /\ submitted \in Word /\ executed \in Word
  /\ transferred \in Nat /\ reported \in Nat

(* The promise to the goroutine: whatever the interleaving of the copy,    *)
(* the transfer and the wrap-around, the PIO executes the submitted words  *)
(* in order, never a stale word of an earlier lap or session and never a   *)
(* half-copied chunk (ring.Write's order of stores, ring.Reset).           *)
Stream == INSTANCE StepStream WITH engine <- pio
ImplementsStream == Stream!StreamSpec

(* Device.Write never reports more words completed than the PIO has taken: *)
(* the words prefetched by the FIFO are discounted by ensureStarted.  The  *)
(* halting zero itself is the only word counted too much.                  *)
ReportedWasExecuted ==
  reported > 0 => reported <= transferred - FifoDepth

(* A Flush that returns no error has executed every submitted word but at  *)
(* most one: inFlight cannot tell the halting zero from one lost word.     *)
FlushLosesAtMostOne ==
  result = "ok" /\ pc = "failed" => submitted - executed <= 1

(* What the driver is told is no better than what the machine did: no      *)
(* completion ahead of the PIO, no silent loss beyond one word.            *)
ReportsAreHonest == ReportedWasExecuted /\ FlushLosesAtMostOne

(* Every Write and every Flush returns: the ring drains or the stall is    *)
(* seen, and nobody waits for ever.                                        *)
CallsReturn == pc # "ready" ~> pc = "ready"
=============================================================================
