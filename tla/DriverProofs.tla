---------------------------- MODULE DriverProofs ----------------------------
(***************************************************************************)
(* What holds of the two device drivers, StepRing and OtpFuses: for every  *)
(* ring, FIFO and batch the step buffer executes the submitted words in    *)
(* order and reports no more than was executed; for any keys, labels and   *)
(* memories, whatever is broken off and begun again, a slot is marked      *)
(* valid only when it is whole, one slot at most is spent, and secure boot *)
(* waits for a key the boot ROM takes, unless an attempt left a flag in    *)
(* one copy. The two share a module and nothing else.                      *)
(***************************************************************************)
EXTENDS StepRing, OtpFuses, FiniteSetTheorems, SequenceTheorems, WellFoundedInduction, TLAPS

(* The word behind the last one in the ring, and the words being copied.   *)
EndOfWords == IF pc = "copy" THEN first ELSE writeIdx
Copying == IF pc = "copy" THEN count ELSE 0
Ahead == Completed(dma, EndOfWords)

(* The words between the DMA channel and the end are the next ones, and    *)
(* the halting zero is behind them.                                        *)
Lead ==
  /\ Ahead = submitted - executed - Len(fifo)
  /\ Completed(readIdx, dma) + Ahead + Copying <= RingSize - 1
Words ==
  \A i \in Index : Completed(dma, i) < Ahead =>
                     buf[i] = executed + Len(fifo) + 1 + Completed(dma, i)
Halted ==
  /\ buf[EndOfWords] = 0
  /\ pc = "copy" => buf[writeIdx] = 0 /\ \A i \in copied : buf[first + i] = submitted + 1 + i
Live == Lead /\ Words /\ Halted

Copy ==
  pc = "copy" =>
    /\ count \in 1 .. todo /\ first + count <= RingSize
    /\ writeIdx = IF first + count = RingSize THEN 0 ELSE first + count
    /\ copied \subseteq 1 .. count - 1

(* The PIO has m right words before it, and a zero behind them; while all  *)
(* of the FIFO is right the ring is.                                       *)
Right(m) ==
  /\ \A n \in 1 .. m : fifo[n] = executed + n
  /\ executed + m <= submitted
  /\ m < FifoDepth => fifo[m + 1] = 0
  /\ m = FifoDepth => Live
Hw ==
  /\ pio = "off" <=> status = "idle"
  /\ status = "idle" => /\ dma = 0 /\ readIdx = 0 /\ fifo = <<>> /\ Live
                        /\ transferred = 0 /\ reported = 0
  /\ status = "running" => Len(fifo) = FifoDepth
  /\ pio = "run" => \E m \in 0 .. FifoDepth : Right(m)

Stalled == IF pio = "stall" THEN 1 ELSE 0
Books ==
  /\ pc \in {"advance", "ring", "copy", "wait"} => submitted + todo <= MaxWords
  /\ pc = "failed" => pio = "stall"
  /\ result # "none" => pc = "failed"
  /\ status = "running" => reported + Completed(readIdx, dma) <= transferred - FifoDepth
  /\ pc # "failed" =>
       inFlight + reported + executed - submitted >= transferred - Len(fifo) - Stalled
  /\ result = "ok" => submitted - executed <= 1
  /\ executed <= submitted

RingInv == TypeOK /\ Copy /\ Hw /\ Books

(* An index one past the end of the ring is its start.                     *)
LEMMA WrapIs ==
  ASSUME NEW n \in 0 .. RingSize
  PROVE  Wrap(n) = IF n = RingSize THEN 0 ELSE n
BY RingAssumption DEF Wrap

(* The least of three numbers.                                             *)
LEMMA MinOfThree ==
  ASSUME NEW a \in Int, NEW b \in Int, NEW c \in Int
  PROVE  Min({a, b, c}) \in {a, b, c} /\ Min({a, b, c}) <= a /\ Min({a, b, c}) <= b /\ Min({a, b, c}) <= c
<1>1. \E x \in {a, b, c} : \A y \in {a, b, c} : x <= y
  <2>1. (a <= b /\ a <= c) \/ (b <= a /\ b <= c) \/ (c <= a /\ c <= b)
    OBVIOUS
  <2> QED BY <2>1
<1> QED BY <1>1 DEF Min

(* What the ring makes of a Write, whatever the indices. *)
LEMMA ChunkIs ==
  ASSUME NEW ridx \in Index, NEW widx \in Index, NEW n \in Nat
  PROVE  /\ Chunk(ridx, widx, n) \in Int
         /\ Chunk(ridx, widx, n) <= n /\ widx + Chunk(ridx, widx, n) <= RingSize
         /\ Completed(ridx, widx) + Chunk(ridx, widx, n) <= RingSize - 1
<1> DEFINE w == Writable(ridx, widx)
<1>1. ridx \in Int /\ widx \in Int /\ RingSize \in Int
  BY RingAssumption DEF Index
<1>2. w \in Int /\ w = RingSize - Completed(ridx, widx)
  BY <1>1 DEF Writable, Completed
<1> HIDE DEF w
<1> DEFINE a == w - 1
           b == RingSize - widx
           c == Min({a, n, b})
<1>3. a \in Int /\ b \in Int /\ n \in Int
  BY <1>1, <1>2
<1>4. c \in {a, n, b} /\ c <= a /\ c <= n /\ c <= b
  <2> HIDE DEF a, b
  <2> QED BY <1>3, MinOfThree
<1>5. c \in Int
  BY <1>3, <1>4
<1> HIDE DEF c
<1>6. Chunk(ridx, widx, n) = c
  BY DEF Chunk, c, w
<1>7. Completed(ridx, widx) \in Int
  BY <1>1 DEF Completed
<1> QED BY <1>1, <1>2, <1>4, <1>5, <1>6, <1>7

(* Distances along the ring. *)
LEMMA Distance ==
  ASSUME NEW a \in Index, NEW b \in Index
  PROVE  /\ Completed(a, b) \in 0 .. RingSize - 1 /\ Completed(a, a) = 0
         /\ Completed(a, b) = 0 <=> a = b
BY RingAssumption DEF Completed, Index

(* Distances add up as long as they stay within a lap.                     *)
LEMMA DistanceAdds ==
  ASSUME NEW a \in Index, NEW b \in Index, NEW c \in Index,
         Completed(a, b) + Completed(b, c) <= RingSize - 1
  PROVE  Completed(a, c) = Completed(a, b) + Completed(b, c)
BY RingAssumption DEF Completed, Index

(* A distance leads to one index.                                          *)
LEMMA DistanceSame ==
  ASSUME NEW a \in Index, NEW b \in Index, NEW c \in Index, Completed(a, b) = Completed(a, c)
  PROVE  b = c
BY RingAssumption DEF Completed, Index

(* A new device satisfies the invariant.                                   *)
LEMMA InitRing == RingInit => RingInv
<1> SUFFICES ASSUME RingInit PROVE RingInv
  OBVIOUS
<1> USE RingAssumption DEF RingInit
<1>1. 0 \in Index /\ 0 \in Word
  BY DEF Index, Word
<1>2. TypeOK
  BY <1>1 DEF TypeOK
<1>3. Live
  BY <1>1 DEF Live, Lead, Words, Halted, Ahead, EndOfWords, Copying, Completed
<1>4. Copy /\ Books
  BY DEF Copy, Books, Stalled, Completed
<1>5. Hw
  BY <1>3 DEF Hw
<1> QED BY <1>2, <1>4, <1>5 DEF RingInv

(* The actions that leave the ring and the PIO alone. *)
Frame == /\ UNCHANGED <<buf, readIdx, writeIdx, hwVars, first, count, copied, submitted, executed>>
         /\ (pc = "copy" <=> pc' = "copy")

(* Steps that leave the ring and the transfer alone keep what the ring     *)
(* holds.                                                                  *)
LEMMA LiveStays == ASSUME Frame, Live PROVE Live'
<1>1. /\ buf' = buf /\ readIdx' = readIdx /\ writeIdx' = writeIdx /\ dma' = dma /\ fifo' = fifo
      /\ first' = first /\ count' = count /\ copied' = copied
      /\ submitted' = submitted /\ executed' = executed /\ (pc = "copy" <=> pc' = "copy")
  BY DEF Frame, hwVars
<1>2. EndOfWords' = EndOfWords /\ Copying' = Copying /\ Ahead' = Ahead
  BY <1>1 DEF EndOfWords, Copying, Ahead
<1>3. Completed(readIdx, dma)' = Completed(readIdx, dma)
  BY <1>1
<1>4. Lead' /\ Words'
  BY <1>1, <1>2, <1>3 DEF Live, Lead, Words
<1>5. Halted'
  BY <1>1, <1>2 DEF Live, Halted
<1> QED BY <1>4, <1>5 DEF Live

(* They keep what the PIO has before it as well.                           *)
LEMMA HwStays ==
  ASSUME Frame, Hw, status' = status, transferred' = transferred, reported' = reported
  PROVE  Hw'
<1>1. fifo' = fifo /\ pio' = pio /\ dma' = dma /\ readIdx' = readIdx /\ executed' = executed /\ submitted' = submitted
  BY DEF Frame, hwVars
<1>2. pio = "run" => \E m \in 0 .. FifoDepth : Right(m)'
  <2>1. ASSUME NEW m \in 0 .. FifoDepth, Right(m) PROVE Right(m)'
    BY <1>1, <2>1, LiveStays DEF Right
  <2> QED BY <2>1 DEF Hw
<1> QED BY <1>1, <1>2, LiveStays DEF Hw

(* Device.Write is called.                                                 *)
LEMMA CallWriteRing ==
  ASSUME RingInv, NEW n \in 1 .. MaxBatch, NEW pad \in BOOLEAN, CallWrite(n, pad)
  PROVE  RingInv'
<1> USE RingAssumption
<1>1. TypeOK'
  BY DEF RingInv, TypeOK, CallWrite, ringVars, countVars, hwVars, copyVars, history, Word
<1>2. Copy'
  BY DEF CallWrite, Copy
<1>3. Hw'
  BY HwStays DEF RingInv, CallWrite, Frame, ringVars, countVars, hwVars, copyVars, history
<1>4. Books'
  <2>1. n \in Nat /\ MaxWords \in Nat
    OBVIOUS
  <2> QED BY <2>1 DEF RingInv, Books, CallWrite, Stalled, ringVars, countVars, hwVars, copyVars, history
<1> QED BY <1>1, <1>2, <1>3, <1>4 DEF RingInv

(* What the DMA channel took is taken off the words in flight.             *)
LEMMA AdvanceRing ==
  ASSUME RingInv, Advance
  PROVE  RingInv'
<1> USE RingAssumption
<1> DEFINE nr == Completed(readIdx, dma)
<1>1. /\ readIdx' = dma /\ inFlight' = inFlight - nr /\ reported' = reported + nr /\ pc' = "ring" /\ pc = "advance"
      /\ buf' = buf /\ writeIdx' = writeIdx /\ status' = status /\ dma' = dma /\ fifo' = fifo /\ pio' = pio
      /\ todo' = todo /\ padded' = padded /\ first' = first /\ count' = count /\ copied' = copied
      /\ result' = result /\ submitted' = submitted /\ executed' = executed /\ transferred' = transferred
  BY DEF Advance, hwVars, callVars, copyVars
<1>2. readIdx \in Index /\ dma \in Index /\ writeIdx \in Index /\ reported \in Nat /\ inFlight \in Int
  BY DEF RingInv, TypeOK
<1>3. nr \in 0 .. RingSize - 1 /\ Completed(dma, dma) = 0 /\ Completed(dma, writeIdx) \in 0 .. RingSize - 1
  BY <1>2, Distance
<1> HIDE DEF nr
<1>4. TypeOK'
  <2>1. inFlight' \in Int /\ reported' \in Nat
    BY <1>1, <1>2, <1>3
  <2> QED BY <1>1, <2>1 DEF RingInv, TypeOK
<1>5. Copy'
  BY <1>1 DEF Copy
<1>6. EndOfWords' = EndOfWords /\ Copying' = Copying /\ Ahead' = Ahead /\ EndOfWords = writeIdx /\ Copying = 0
  BY <1>1 DEF EndOfWords, Copying, Ahead
<1>7. ASSUME Live PROVE Live'
  <2>1. Lead'
    BY <1>1, <1>2, <1>3, <1>6, <1>7 DEF Live, Lead, Ahead, nr
  <2>2. Words' /\ Halted'
    BY <1>1, <1>6, <1>7 DEF Live, Words, Halted
  <2> QED BY <2>1, <2>2 DEF Live
<1>8. Hw'
  <2>1. ASSUME NEW m \in 0 .. FifoDepth, Right(m) PROVE Right(m)'
    BY <1>1, <1>7, <2>1 DEF Right
  <2>2. status = "idle" => nr = 0
    BY <1>2, <1>3, Distance DEF RingInv, Hw, nr
  <2>3. pio' = "run" => \E m \in 0 .. FifoDepth : Right(m)'
    BY <1>1, <2>1 DEF RingInv, Hw
  <2>4. status = "idle" => reported' = 0
    BY <1>1, <2>2 DEF RingInv, Hw
  <2> QED BY <1>1, <1>7, <2>3, <2>4 DEF RingInv, Hw
<1>9. Books'
  <2>1. status = "running" => reported + nr <= transferred - FifoDepth
    BY DEF RingInv, Books, nr
  <2>2. inFlight + reported + executed - submitted >= transferred - Len(fifo) - Stalled
    BY <1>1 DEF RingInv, Books
  <2>3. Len(fifo) \in Nat /\ transferred \in Nat /\ executed \in Nat /\ submitted \in Nat
    BY DEF RingInv, TypeOK, Word
  <2>4. inFlight' + reported' = inFlight + reported
    BY <1>1, <1>2, <1>3
  <2>5. Stalled' = Stalled
    BY <1>1 DEF Stalled
  <2>6. inFlight' + reported' + executed - submitted >= transferred - Len(fifo) - Stalled
    BY <2>2, <2>4
  <2>7. status = "running" => reported' + 0 <= transferred - FifoDepth
    BY <1>1, <1>2, <1>3, <2>1, <2>3
  <2> QED BY <1>1, <1>3, <2>5, <2>6, <2>7 DEF RingInv, Books
<1> QED BY <1>4, <1>5, <1>8, <1>9 DEF RingInv

(* The new halting zero is behind the room for the chunk.                  *)
LEMMA WriteHaltRing ==
  ASSUME RingInv, WriteHalt
  PROVE  RingInv'
<1> USE RingAssumption
<1> DEFINE n == Chunk(readIdx, writeIdx, todo)
           end == Wrap(writeIdx + n)
<1>1. /\ n > 0 /\ first' = writeIdx /\ count' = n /\ copied' = {} /\ writeIdx' = end
      /\ buf' = [buf EXCEPT ![end] = 0] /\ pc' = "copy" /\ pc = "ring"
      /\ readIdx' = readIdx /\ inFlight' = inFlight /\ reported' = reported
      /\ status' = status /\ dma' = dma /\ fifo' = fifo /\ pio' = pio
      /\ todo' = todo /\ padded' = padded
      /\ result' = result /\ submitted' = submitted /\ executed' = executed /\ transferred' = transferred
  BY DEF WriteHalt, countVars, hwVars, callVars, history
<1>2. /\ readIdx \in Index /\ dma \in Index /\ writeIdx \in Index /\ todo \in Nat
      /\ buf \in [Index -> Word] /\ RingSize \in Nat
  BY DEF RingInv, TypeOK
<1>3. n \in Int /\ n <= todo /\ writeIdx + n <= RingSize /\ Completed(readIdx, writeIdx) + n <= RingSize - 1
  BY <1>2, ChunkIs
<1> HIDE DEF n
<1>4. writeIdx + n \in 0 .. RingSize /\ n \in Nat /\ n \in 1 .. todo
  BY <1>1, <1>2, <1>3 DEF Index
<1>5. end = IF writeIdx + n = RingSize THEN 0 ELSE writeIdx + n
  BY <1>4, WrapIs
<1> HIDE DEF end
<1>6. end \in Index
  BY <1>2, <1>4, <1>5 DEF Index
<1>7. Completed(readIdx, end) = Completed(readIdx, writeIdx) + n
  <2>1. Completed(writeIdx, end) = n
    BY <1>2, <1>3, <1>4, <1>5, Distance DEF Completed, Index
  <2>2. Completed(readIdx, writeIdx) + Completed(writeIdx, end) <= RingSize - 1
    BY <1>3, <2>1
  <2> QED BY <1>2, <1>6, <2>1, <2>2, DistanceAdds
<1>8. TypeOK'
  <2>1. buf' \in [Index -> Word]
    BY <1>1, <1>2, <1>6 DEF Word
  <2>2. writeIdx' \in Index /\ first' \in Index /\ count' \in Nat /\ copied' \in SUBSET Nat
    BY <1>1, <1>2, <1>4, <1>6
  <2> QED BY <1>1, <2>1, <2>2 DEF RingInv, TypeOK
<1>9. Copy'
  <2>1. 1 .. todo \subseteq Nat
    OBVIOUS
  <2> QED BY <1>1, <1>3, <1>4, <1>5 DEF Copy
<1>10. ASSUME Live PROVE Live'
  <2>1. EndOfWords' = writeIdx /\ EndOfWords = writeIdx /\ Copying = 0 /\ Copying' = n /\ Ahead' = Ahead
        /\ Ahead = Completed(dma, writeIdx)
    BY <1>1 DEF EndOfWords, Copying, Ahead
  <2>2. Completed(readIdx, dma) + Ahead <= RingSize - 1 /\ Ahead = submitted - executed - Len(fifo)
    BY <1>10, <2>1, <1>2, Distance DEF Live, Lead
  <2>3. Completed(readIdx, writeIdx) = Completed(readIdx, dma) + Ahead
    <3>1. Completed(readIdx, dma) + Completed(dma, writeIdx) <= RingSize - 1
      BY <2>1, <2>2
    <3>2. Completed(readIdx, writeIdx) = Completed(readIdx, dma) + Completed(dma, writeIdx)
      BY <1>2, <3>1, DistanceAdds
    <3> QED BY <2>1, <3>2
  <2>4. Lead'
    <3>1. Completed(readIdx, dma) + Ahead + n <= RingSize - 1
      BY <1>3, <2>3
    <3> QED BY <1>1, <2>1, <2>2, <3>1 DEF Lead
  <2>5. Completed(readIdx, dma) \in Nat /\ Ahead \in Nat
    BY <1>2, <2>1, Distance
  <2>6. Completed(writeIdx, end) = n
    BY <1>2, <1>3, <1>4, <1>5, Distance DEF Completed, Index
  <2>7. Completed(dma, end) = Ahead + n
    <3>1. Ahead + n <= RingSize - 1
      BY <1>2, <1>3, <1>4, <2>3, <2>5
    <3> QED BY <1>2, <1>6, <2>1, <2>6, <3>1, DistanceAdds
  <2>8. Words'
    <3> SUFFICES ASSUME NEW i \in Index, Completed(dma, i) < Ahead
                 PROVE  buf'[i] = executed + Len(fifo) + 1 + Completed(dma, i)
      BY <1>1, <2>1 DEF Words
    <3>1. i # end
      BY <1>4, <2>5, <2>7
    <3>2. buf'[i] = buf[i]
      BY <1>1, <1>2, <3>1
    <3> QED BY <1>10, <3>2 DEF Live, Words
  <2>9. Halted'
    <3>1. end # writeIdx
      BY <1>4, <2>1, <2>5, <2>7
    <3>2. buf'[writeIdx] = 0 /\ buf'[end] = 0
      BY <1>1, <1>2, <1>6, <1>10, <2>1, <3>1 DEF Live, Halted
    <3> QED BY <1>1, <2>1, <3>2 DEF Halted
  <2> QED BY <2>4, <2>8, <2>9 DEF Live
<1>11. Hw'
  <2>1. ASSUME NEW m \in 0 .. FifoDepth, Right(m) PROVE Right(m)'
    BY <1>1, <1>10, <2>1 DEF Right
  <2>2. pio' = "run" => \E m \in 0 .. FifoDepth : Right(m)'
    BY <1>1, <2>1 DEF RingInv, Hw
  <2> QED BY <1>1, <1>10, <2>2 DEF RingInv, Hw
<1>12. Books'
  BY <1>1 DEF RingInv, Books, Stalled
<1> QED BY <1>8, <1>9, <1>11, <1>12 DEF RingInv

(* A word is copied behind the old halting zero, out of reach.             *)
LEMMA CopyWordRing ==
  ASSUME RingInv, CopyWord
  PROVE  RingInv'
<1> USE RingAssumption
<1>0. PICK i \in (1 .. count - 1) \ copied :
        /\ buf' = [buf EXCEPT ![first + i] = submitted + 1 + i]
        /\ copied' = copied \cup {i}
  BY DEF CopyWord
<1>1. /\ pc' = "copy" /\ pc = "copy" /\ first' = first /\ count' = count /\ writeIdx' = writeIdx
      /\ readIdx' = readIdx /\ inFlight' = inFlight /\ reported' = reported
      /\ status' = status /\ dma' = dma /\ fifo' = fifo /\ pio' = pio
      /\ todo' = todo /\ padded' = padded
      /\ result' = result /\ submitted' = submitted /\ executed' = executed /\ transferred' = transferred
  BY DEF CopyWord, countVars, hwVars, callVars, history
<1>2. /\ readIdx \in Index /\ dma \in Index /\ writeIdx \in Index /\ todo \in Nat /\ first \in Index
      /\ buf \in [Index -> Word] /\ RingSize \in Nat /\ count \in Nat
      /\ submitted \in Nat /\ executed \in Nat /\ Len(fifo) \in Nat
  BY DEF RingInv, TypeOK, Word
<1>3. /\ count \in 1 .. todo /\ first + count <= RingSize /\ copied \subseteq 1 .. count - 1
      /\ writeIdx = IF first + count = RingSize THEN 0 ELSE first + count
      /\ submitted + todo <= MaxWords
  BY <1>1 DEF RingInv, Copy, Books
<1>4. i \in Nat /\ i >= 1 /\ i <= count - 1 /\ first + i \in Index /\ submitted + 1 + i \in Word
  BY <1>2, <1>3 DEF Index, Word
<1>5. first + i # first /\ first + i # writeIdx
  BY <1>2, <1>3, <1>4 DEF Index
<1>6. TypeOK'
  <2>1. buf' \in [Index -> Word]
    BY <1>0, <1>2, <1>4
  <2>2. copied' \in SUBSET Nat
    BY <1>0, <1>4 DEF RingInv, TypeOK
  <2> QED BY <1>1, <2>1, <2>2 DEF RingInv, TypeOK
<1>7. Copy'
  BY <1>0, <1>1, <1>3 DEF Copy
<1>8. EndOfWords' = EndOfWords /\ Copying' = Copying /\ Ahead' = Ahead /\ EndOfWords = first /\ Copying = count
      /\ Ahead = Completed(dma, first)
  BY <1>1 DEF EndOfWords, Copying, Ahead
<1>9. ASSUME Live PROVE Live'
  <2>1. Lead'
    BY <1>1, <1>8, <1>9 DEF Live, Lead
  <2>2. Completed(readIdx, dma) \in Nat /\ Ahead \in Nat
    BY <1>2, <1>8, Distance
  <2>3. Completed(dma, first + i) = Ahead + i
    <3>1. Completed(first, first + i) = i
      BY <1>2, <1>4 DEF Completed, Index
    <3>2. Ahead + i <= RingSize - 1
      <4>1. Completed(readIdx, dma) + Ahead + count <= RingSize - 1
        BY <1>8, <1>9 DEF Live, Lead
      <4> QED BY <1>2, <1>4, <2>2, <4>1
    <3> QED BY <1>2, <1>4, <1>8, <3>1, <3>2, DistanceAdds
  <2>4. Words'
    <3> SUFFICES ASSUME NEW j \in Index, Completed(dma, j) < Ahead
                 PROVE  buf'[j] = executed + Len(fifo) + 1 + Completed(dma, j)
      BY <1>1, <1>8 DEF Words
    <3>1. j # first + i
      BY <1>4, <2>2, <2>3
    <3>2. buf'[j] = buf[j]
      BY <1>0, <1>2, <3>1
    <3> QED BY <1>9, <3>2 DEF Live, Words
  <2>5. Halted'
    <3>1. buf'[first] = 0 /\ buf'[writeIdx] = 0
      BY <1>0, <1>1, <1>2, <1>5, <1>8, <1>9 DEF Live, Halted
    <3>2. ASSUME NEW j \in copied' PROVE buf'[first + j] = submitted + 1 + j
      <4>1. CASE j = i
        BY <1>0, <1>2, <1>4, <4>1
      <4>2. CASE j # i
        <5>1. j \in copied /\ j \in Nat
          BY <1>0, <1>3, <3>2, <4>2
        <5>2. first + j # first + i
          BY <1>2, <1>4, <4>2, <5>1 DEF Index
        <5>3. buf[first + j] = submitted + 1 + j
          BY <1>1, <1>9, <5>1 DEF Live, Halted
        <5> QED BY <1>0, <1>2, <5>2, <5>3
      <4> QED BY <4>1, <4>2
    <3> QED BY <1>1, <1>8, <3>1, <3>2 DEF Halted
  <2> QED BY <2>1, <2>4, <2>5 DEF Live
<1>10. Hw'
  <2>1. ASSUME NEW m \in 0 .. FifoDepth, Right(m) PROVE Right(m)'
    BY <1>1, <1>9, <2>1 DEF Right
  <2>2. pio' = "run" => \E m \in 0 .. FifoDepth : Right(m)'
    BY <1>1, <2>1 DEF RingInv, Hw
  <2> QED BY <1>1, <1>9, <2>2 DEF RingInv, Hw
<1>11. Books'
  BY <1>1 DEF RingInv, Books, Stalled
<1> QED BY <1>6, <1>7, <1>10, <1>11 DEF RingInv

(* The store over the old zero shows the whole chunk, in order.            *)
LEMMA StoreFirstRing ==
  ASSUME RingInv, StoreFirst
  PROVE  RingInv' /\ submitted' > submitted
<1> USE RingAssumption
<1>1. /\ buf' = [buf EXCEPT ![first] = submitted + 1] /\ copied = 1 .. count - 1
      /\ submitted' = submitted + count /\ todo' = todo - count /\ inFlight' = inFlight + count
      /\ pc' = "ring" /\ pc = "copy" /\ first' = first /\ count' = count /\ writeIdx' = writeIdx
      /\ readIdx' = readIdx /\ reported' = reported /\ copied' = copied
      /\ status' = status /\ dma' = dma /\ fifo' = fifo /\ pio' = pio
      /\ padded' = padded
      /\ result' = result /\ executed' = executed /\ transferred' = transferred
  BY DEF StoreFirst, hwVars, copyVars
<1>2. /\ readIdx \in Index /\ dma \in Index /\ writeIdx \in Index /\ todo \in Nat /\ first \in Index
      /\ buf \in [Index -> Word] /\ RingSize \in Nat /\ count \in Nat
      /\ submitted \in Nat /\ executed \in Nat /\ Len(fifo) \in Nat /\ inFlight \in Int
      /\ reported \in Nat /\ transferred \in Nat
  BY DEF RingInv, TypeOK, Word
<1>3. /\ count \in 1 .. todo /\ first + count <= RingSize
      /\ writeIdx = IF first + count = RingSize THEN 0 ELSE first + count
      /\ submitted + todo <= MaxWords
  BY <1>1 DEF RingInv, Copy, Books
<1>4. submitted' \in Nat /\ submitted' > submitted /\ todo' \in Nat /\ submitted' + todo' = submitted + todo
      /\ submitted + 1 \in Word /\ submitted' \in Word /\ inFlight' \in Int
  BY <1>1, <1>2, <1>3 DEF Word
<1>5. TypeOK'
  <2>1. buf' \in [Index -> Word]
    BY <1>1, <1>2, <1>4
  <2> QED BY <1>1, <1>4, <2>1 DEF RingInv, TypeOK
<1>6. Copy'
  BY <1>1 DEF Copy
<1>7. ASSUME Live PROVE Live'
  <2>1. /\ EndOfWords = first /\ Copying = count /\ Ahead = Completed(dma, first)
        /\ EndOfWords' = writeIdx /\ Copying' = 0 /\ Ahead' = Completed(dma, writeIdx)
    BY <1>1 DEF EndOfWords, Copying, Ahead
  <2>2. Completed(readIdx, dma) \in Nat /\ Ahead \in Nat
    BY <1>2, <2>1, Distance
  <2>3. /\ Ahead = submitted - executed - Len(fifo)
        /\ Completed(readIdx, dma) + Ahead + count <= RingSize - 1
    BY <1>7, <2>1 DEF Live, Lead
  <2>4. Ahead' = Ahead + count
    <3>1. Ahead + count <= RingSize - 1
      BY <1>2, <2>2, <2>3
    <3>2. Completed(first, writeIdx) = count
      BY <1>2, <1>3, <2>2, <3>1 DEF Completed, Index
    <3> QED BY <1>2, <2>1, <3>1, <3>2, DistanceAdds
  <2>5. Lead'
    BY <1>1, <1>2, <2>1, <2>2, <2>3, <2>4 DEF Lead
  <2>6. Words'
    <3> SUFFICES ASSUME NEW j \in Index, Completed(dma, j) < Ahead + count
                 PROVE  buf'[j] = executed + Len(fifo) + 1 + Completed(dma, j)
      BY <1>1, <2>4 DEF Words
    <3>0. Completed(dma, j) \in Nat
      BY <1>2, Distance
    <3>1. CASE Completed(dma, j) < Ahead
      <4>1. j # first
        BY <2>1, <2>2, <3>1
      <4>2. buf'[j] = buf[j]
        BY <1>1, <1>2, <4>1
      <4> QED BY <1>7, <3>1, <4>2 DEF Live, Words
    <3>2. CASE ~(Completed(dma, j) < Ahead)
      <4> DEFINE k == Completed(dma, j) - Ahead
      <4>1. k \in 0 .. count - 1 /\ Completed(dma, j) = Ahead + k
        BY <1>2, <2>2, <3>0, <3>2
      <4> HIDE DEF k
      <4>2. first + k \in Index /\ Completed(first, first + k) = k
        BY <1>2, <1>3, <4>1 DEF Index, Completed
      <4>3. Completed(dma, first + k) = Ahead + k
        <5>1. Ahead + k <= RingSize - 1
          BY <1>2, <2>2, <2>3, <4>1
        <5> QED BY <1>2, <2>1, <4>2, <5>1, DistanceAdds
      <4>4. j = first + k
        BY <1>2, <4>1, <4>2, <4>3, DistanceSame
      <4>5. buf'[j] = submitted + 1 + k
        <5>1. CASE k = 0
          BY <1>1, <1>2, <4>4, <5>1 DEF Index
        <5>2. CASE k # 0
          <6>1. k \in copied
            BY <1>1, <4>1, <5>2
          <6>2. buf[first + k] = submitted + 1 + k
            BY <1>1, <1>7, <6>1 DEF Live, Halted
          <6>3. j # first
            BY <1>2, <4>1, <4>4, <5>2 DEF Index
          <6> QED BY <1>1, <1>2, <4>4, <6>2, <6>3
        <5> QED BY <5>1, <5>2
      <4> QED BY <1>2, <2>2, <2>3, <4>1, <4>5
    <3> QED BY <3>1, <3>2
  <2>7. Halted'
    <3>1. writeIdx # first
      BY <1>2, <1>3, <2>1, <2>2, <2>4
    <3>2. buf'[writeIdx] = 0
      BY <1>1, <1>2, <1>7, <3>1 DEF Live, Halted
    <3> QED BY <1>1, <2>1, <3>2 DEF Halted
  <2> QED BY <2>5, <2>6, <2>7 DEF Live
<1>8. Hw'
  <2>1. ASSUME NEW m \in 0 .. FifoDepth, Right(m) PROVE Right(m)'
    <3>1. executed + m <= submitted'
      BY <1>2, <1>4, <2>1 DEF Right
    <3> QED BY <1>1, <1>7, <2>1, <3>1 DEF Right
  <2>2. pio' = "run" => \E m \in 0 .. FifoDepth : Right(m)'
    BY <1>1, <2>1 DEF RingInv, Hw
  <2> QED BY <1>1, <1>7, <2>2 DEF RingInv, Hw
<1>9. Books'
  <2>1. inFlight' + reported + executed - submitted' = inFlight + reported + executed - submitted
    BY <1>1, <1>2
  <2>2. inFlight + reported + executed - submitted >= transferred - Len(fifo) - Stalled
    BY <1>1 DEF RingInv, Books
  <2>3. executed <= submitted'
    BY <1>2, <1>4 DEF RingInv, Books
  <2>4. result = "none"
    BY <1>1 DEF RingInv, Books
  <2>5. Stalled' = Stalled
    BY <1>1 DEF Stalled
  <2>6. inFlight' + reported' + executed' - submitted' >= transferred' - Len(fifo)' - Stalled'
    BY <1>1, <2>1, <2>2, <2>5
  <2>7. submitted' + todo' <= MaxWords
    BY <1>3, <1>4
  <2> QED BY <1>1, <2>3, <2>4, <2>6, <2>7 DEF RingInv, Books
<1> QED BY <1>4, <1>5, <1>6, <1>8, <1>9 DEF RingInv

(* A Write returns.                                                        *)
LEMMA WriteDoneRing ==
  ASSUME RingInv, WriteDone
  PROVE  RingInv'
<1>1. /\ pc' = "ready" /\ pc = "ring" /\ UNCHANGED <<buf, readIdx, writeIdx, status, inFlight, dma, fifo, pio>>
      /\ UNCHANGED <<todo, padded, first, count, copied, result, submitted, executed, transferred, reported>>
  BY DEF WriteDone, ringVars, countVars, hwVars, callVars, copyVars, history
<1>2. TypeOK'
  BY <1>1 DEF RingInv, TypeOK
<1>3. Hw'
  BY <1>1, HwStays DEF RingInv, Frame, hwVars
<1>4. Copy' /\ Books'
  BY <1>1 DEF RingInv, Copy, Books, Stalled
<1> QED BY <1>2, <1>3, <1>4 DEF RingInv

(* The ticker of a Write fires.                                            *)
LEMMA TickRing ==
  ASSUME RingInv, Tick
  PROVE  RingInv'
<1>1. /\ pc' \in {"failed", "advance"} /\ (pc' = "failed" => pio = "stall") /\ pc = "wait"
      /\ UNCHANGED <<buf, readIdx, writeIdx, status, inFlight, dma, fifo, pio>>
      /\ UNCHANGED <<todo, padded, first, count, copied, result, submitted, executed, transferred, reported>>
  BY DEF Tick, AfterTick, ringVars, countVars, hwVars, callVars, copyVars, history
<1>2. TypeOK'
  BY <1>1 DEF RingInv, TypeOK
<1>3. Hw'
  BY <1>1, HwStays DEF RingInv, Frame, hwVars
<1>4. Copy' /\ Books'
  BY <1>1 DEF RingInv, Copy, Books, Stalled
<1> QED BY <1>2, <1>3, <1>4 DEF RingInv

(* Before the transfer starts the ring holds the words from its first      *)
(* index on, and behind them the halting zero.                             *)
LEMMA IdleRing ==
  ASSUME RingInv, status = "idle", pc # "copy"
  PROVE  /\ writeIdx = submitted - executed /\ buf[writeIdx] = 0
         /\ \A i \in Index : i < writeIdx => buf[i] = executed + 1 + i
<1>1. dma = 0 /\ fifo = <<>> /\ Live
  BY DEF RingInv, Hw
<1>2. writeIdx \in Index /\ submitted \in Nat /\ executed \in Nat
  BY DEF RingInv, TypeOK, Word
<1>3. \A i \in Index : Completed(0, i) = i
  BY RingAssumption DEF Index, Completed
<1>4. EndOfWords = writeIdx /\ Ahead = writeIdx
  BY <1>1, <1>2, <1>3 DEF EndOfWords, Ahead
<1>5. Len(fifo) = 0
  BY <1>1
<1>6. writeIdx = submitted - executed
  BY <1>1, <1>2, <1>4, <1>5 DEF Live, Lead
<1>7. buf[writeIdx] = 0
  BY <1>1, <1>4 DEF Live, Halted
<1>8. ASSUME NEW i \in Index, i < writeIdx PROVE buf[i] = executed + 1 + i
  <2>1. buf[i] = executed + Len(fifo) + 1 + i
    BY <1>1, <1>3, <1>4, <1>8 DEF Live, Words
  <2> QED BY <1>2, <1>5, <2>1
<1> QED BY <1>6, <1>7, <1>8

(* ensureStarted takes the first words, and a zero behind them when they   *)
(* are fewer than the FIFO holds.                                          *)
LEMMA EnsureStartedRing ==
  ASSUME RingInv, EnsureStarted, pc # "copy", pc' # "copy",
         UNCHANGED <<buf, writeIdx, first, count, copied, submitted, executed, inFlight, reported>>
  PROVE  /\ Hw' /\ status' = "running" /\ fifo' \in Seq(Word) /\ dma' \in Index /\ readIdx' \in Index
         /\ transferred' \in Nat /\ pio' \in {"run", "stall"}
         /\ reported' + Completed(readIdx', dma') <= transferred' - FifoDepth
         /\ pc # "failed" =>
              inFlight' + reported' + executed' - submitted' >= transferred' - Len(fifo') - Stalled'
<1> USE RingAssumption
<1>1. /\ buf \in [Index -> Word] /\ writeIdx \in Index /\ submitted \in Nat /\ executed \in Nat
      /\ dma \in Index /\ readIdx \in Index /\ inFlight \in Int /\ reported \in Nat /\ transferred \in Nat
      /\ FifoDepth \in Nat /\ RingSize \in Nat /\ FifoDepth \in Index
      /\ pio \in {"off", "run", "stall"} /\ fifo \in Seq(Word)
  BY DEF RingInv, TypeOK, Word, Index
<1>2. CASE status = "running"
  <2>1. UNCHANGED <<status, dma, fifo, pio, readIdx, transferred>>
    BY <1>2 DEF EnsureStarted, hwVars
  <2>2. Hw'
    BY <2>1, HwStays DEF RingInv, Frame, hwVars
  <2>3. pio # "off"
    BY <1>2 DEF RingInv, Hw
  <2>4. Stalled' = Stalled
    BY <2>1 DEF Stalled
  <2> QED BY <1>1, <1>2, <2>1, <2>2, <2>3, <2>4 DEF RingInv, Books
<1>3. CASE status = "idle"
  <2>1. /\ status' = "running" /\ pio' = "run" /\ fifo' = [i \in 1 .. FifoDepth |-> buf[i - 1]]
        /\ dma' = FifoDepth /\ readIdx' = FifoDepth /\ transferred' = FifoDepth
    BY <1>3 DEF EnsureStarted, PrefetchedIndex
  <2>2. /\ writeIdx = submitted - executed /\ buf[writeIdx] = 0
        /\ \A i \in Index : i < writeIdx => buf[i] = executed + 1 + i
    BY <1>3, IdleRing
  <2>3. \A i \in 1 .. FifoDepth : i - 1 \in Index /\ buf[i - 1] \in Word
    BY <1>1 DEF Index
  <2>4. fifo' \in Seq(Word) /\ Len(fifo') = FifoDepth /\ \A i \in 1 .. FifoDepth : fifo'[i] = buf[i - 1]
    <3>1. fifo' \in [1 .. FifoDepth -> Word]
      BY <2>1, <2>3
    <3>2. fifo' \in Seq(Word)
      BY <1>1, <3>1
    <3>3. Len(fifo') = FifoDepth
      BY <2>1, <3>2
    <3> QED BY <2>1, <3>2, <3>3
  <2>5. ASSUME writeIdx < FifoDepth PROVE Right(writeIdx)'
    <3>1. fifo'[writeIdx + 1] = 0
      <4>1. writeIdx + 1 \in 1 .. FifoDepth /\ (writeIdx + 1) - 1 = writeIdx
        BY <1>1, <2>5 DEF Index
      <4> QED BY <2>2, <2>4, <4>1
    <3>2. ASSUME NEW k \in 1 .. writeIdx PROVE fifo'[k] = executed + k
      <4>1. k \in 1 .. FifoDepth /\ k - 1 \in Index /\ k - 1 < writeIdx /\ k \in Nat
        BY <1>1, <2>5 DEF Index
      <4>2. buf[k - 1] = executed + 1 + (k - 1)
        BY <2>2, <4>1
      <4> QED BY <1>1, <2>4, <4>1, <4>2
    <3>3. executed + writeIdx <= submitted
      BY <1>1, <2>2
    <3> QED BY <1>1, <2>5, <3>1, <3>2, <3>3 DEF Right, Index
  <2>6. ASSUME writeIdx >= FifoDepth PROVE Right(FifoDepth)'
    <3>1. ASSUME NEW k \in 1 .. FifoDepth PROVE fifo'[k] = executed + k
      <4>1. k - 1 \in Index /\ k - 1 < writeIdx /\ k \in Nat
        BY <1>1, <2>6 DEF Index
      <4>2. buf[k - 1] = executed + 1 + (k - 1)
        BY <2>2, <4>1
      <4> QED BY <1>1, <2>4, <4>1, <4>2
    <3>2. executed + FifoDepth <= submitted
      BY <1>1, <2>2, <2>6 DEF Index
    <3>3. EndOfWords' = writeIdx /\ Copying' = 0 /\ Ahead' = writeIdx - FifoDepth
      BY <1>1, <2>1, <2>6 DEF EndOfWords, Copying, Ahead, Completed
    <3>4. Lead'
      <4>1. Completed(readIdx', dma') = 0
        BY <1>1, <2>1, Distance
      <4>2. 0 + (writeIdx - FifoDepth) + 0 <= RingSize - 1
        BY <1>1 DEF Index
      <4>3. writeIdx - FifoDepth = submitted - executed - FifoDepth
        BY <1>1, <2>2
      <4> QED BY <2>4, <3>3, <4>1, <4>2, <4>3 DEF Lead
    <3>5. Words'
      <4> SUFFICES ASSUME NEW i \in Index, Completed(FifoDepth, i) < writeIdx - FifoDepth
                   PROVE  buf[i] = executed + FifoDepth + 1 + Completed(FifoDepth, i)
        BY <2>1, <2>4, <3>3 DEF Words
      <4>1. i >= FifoDepth /\ Completed(FifoDepth, i) = i - FifoDepth /\ i < writeIdx
        BY <1>1 DEF Index, Completed
      <4> QED BY <1>1, <2>2, <4>1 DEF Index
    <3>6. Halted'
      BY <2>2, <3>3 DEF Halted
    <3> QED BY <1>1, <3>1, <3>2, <3>4, <3>5, <3>6 DEF Right, Live
  <2>7. \E m \in 0 .. FifoDepth : Right(m)'
    <3>1. writeIdx < FifoDepth \/ writeIdx >= FifoDepth
      BY <1>1 DEF Index
    <3>2. writeIdx < FifoDepth => writeIdx \in 0 .. FifoDepth
      BY <1>1 DEF Index
    <3>3. FifoDepth \in 0 .. FifoDepth
      BY <1>1
    <3>4. CASE writeIdx < FifoDepth
      <4> DEFINE p == writeIdx
      <4>1. PICK q \in 0 .. FifoDepth : q = p
        BY <3>2, <3>4
      <4> HIDE DEF p
      <4>2. Right(q)'
        BY <2>5, <3>4, <4>1, <2>4 DEF p, Right
      <4> QED BY <4>2
    <3>5. CASE writeIdx >= FifoDepth
      BY <2>6, <3>3, <3>5
    <3> QED BY <3>1, <3>4, <3>5
  <2>8. Hw'
    BY <2>1, <2>4, <2>7 DEF Hw
  <2>9. Completed(readIdx', dma') = 0
    BY <1>1, <2>1, Distance
  <2>10. reported = 0 /\ transferred = 0 /\ fifo = <<>> /\ pio = "off"
    BY <1>3 DEF RingInv, Hw
  <2>11. pc # "failed" => inFlight + reported + executed - submitted >= 0
    <3>1. Len(fifo) = 0 /\ Stalled = 0
      BY <2>10 DEF Stalled
    <3> QED BY <1>1, <2>10, <3>1 DEF RingInv, Books
  <2>12. Stalled' = 0
    BY <2>1 DEF Stalled
  <2> QED BY <1>1, <2>1, <2>4, <2>8, <2>9, <2>10, <2>11, <2>12
<1> QED BY <1>2, <1>3 DEF EnsureStarted

(* A full ring is started.                                                 *)
LEMMA RingFullRing ==
  ASSUME RingInv, RingFull
  PROVE  RingInv'
<1>1. /\ EnsureStarted /\ pc = "ring" /\ pc' = "wait"
      /\ UNCHANGED <<buf, writeIdx, inFlight, todo, padded, first, count, copied, result, submitted, executed, reported>>
  BY DEF RingFull, callVars, copyVars
<1>2. /\ Hw' /\ status' = "running" /\ fifo' \in Seq(Word) /\ dma' \in Index /\ readIdx' \in Index
      /\ transferred' \in Nat /\ pio' \in {"run", "stall"}
      /\ reported' + Completed(readIdx', dma') <= transferred' - FifoDepth
      /\ inFlight' + reported' + executed' - submitted' >= transferred' - Len(fifo') - Stalled'
  BY <1>1, EnsureStartedRing
<1>3. TypeOK'
  BY <1>1, <1>2 DEF RingInv, TypeOK
<1>4. Copy' /\ Books'
  BY <1>1, <1>2 DEF RingInv, Copy, Books
<1> QED BY <1>2, <1>3, <1>4 DEF RingInv

(* A Flush starts what is left.                                            *)
LEMMA CallFlushRing ==
  ASSUME RingInv, CallFlush
  PROVE  RingInv'
<1>1. /\ EnsureStarted /\ pc = "ready" /\ pc' = "flush" /\ result' = "none"
      /\ UNCHANGED <<buf, writeIdx, inFlight, todo, padded, first, count, copied, submitted, executed, reported>>
  BY DEF CallFlush, callVars, copyVars
<1>2. /\ Hw' /\ status' = "running" /\ fifo' \in Seq(Word) /\ dma' \in Index /\ readIdx' \in Index
      /\ transferred' \in Nat /\ pio' \in {"run", "stall"}
      /\ reported' + Completed(readIdx', dma') <= transferred' - FifoDepth
      /\ inFlight' + reported' + executed' - submitted' >= transferred' - Len(fifo') - Stalled'
  BY <1>1, EnsureStartedRing
<1>3. TypeOK'
  BY <1>1, <1>2 DEF RingInv, TypeOK
<1>4. Copy' /\ Books'
  BY <1>1, <1>2 DEF RingInv, Copy, Books
<1> QED BY <1>2, <1>3, <1>4 DEF RingInv

(* When the PIO stands at a stall, the words in flight say how many were   *)
(* lost, but for one.                                                      *)
LEMMA FlushStalledRing ==
  ASSUME RingInv, FlushStalled
  PROVE  RingInv'
<1> USE RingAssumption
<1> DEFINE nr == Completed(readIdx, dma)
<1>1. /\ readIdx' = dma /\ inFlight' = inFlight - nr /\ result' = Verdict(inFlight') /\ pc' = "failed" /\ pc = "flush" /\ pio = "stall"
      /\ UNCHANGED <<buf, writeIdx, status, dma, fifo, pio, todo, padded, first, count, copied, reported, submitted, executed, transferred>>
  BY DEF FlushStalled, hwVars, callVars, copyVars, history
<1>2. /\ readIdx \in Index /\ dma \in Index /\ inFlight \in Int /\ reported \in Nat /\ transferred \in Nat
      /\ submitted \in Nat /\ executed \in Nat /\ status \in {"idle", "running"}
  BY DEF RingInv, TypeOK, Word
<1>3. nr \in Nat /\ Completed(dma, dma) = 0
  BY <1>2, Distance
<1>4. status = "running" /\ Len(fifo) = FifoDepth /\ Stalled = 1
  BY <1>1, <1>2 DEF RingInv, Hw, Stalled
<1>5. reported + nr <= transferred - FifoDepth
  BY <1>4 DEF RingInv, Books
<1>6. inFlight + reported + executed - submitted >= transferred - FifoDepth - 1
  BY <1>1, <1>4 DEF RingInv, Books
<1> HIDE DEF nr
<1>7. inFlight' \in Int /\ result' \in {"ok", "underrun"}
  BY <1>1, <1>2, <1>3 DEF Verdict
<1>8. result' = "ok" => submitted - executed <= 1
  BY <1>1, <1>2, <1>3, <1>5, <1>6 DEF Verdict
<1>9. TypeOK'
  BY <1>1, <1>7 DEF RingInv, TypeOK
<1>10. Copy'
  BY <1>1 DEF Copy
<1>11. Hw'
  BY <1>1, <1>4 DEF RingInv, Hw
<1>12. Books'
  <2>1. reported + 0 <= transferred - FifoDepth
    BY <1>2, <1>3, <1>5
  <2>2. executed <= submitted
    BY DEF RingInv, Books
  <2> QED BY <1>1, <1>3, <1>8, <2>1, <2>2 DEF Books
<1> QED BY <1>9, <1>10, <1>11, <1>12 DEF RingInv

(* Device.Reset leaves an empty ring, whatever the session was doing.      *)
LEMMA ResetRing ==
  ASSUME RingInv, Reset
  PROVE  RingInv'
<1> USE RingAssumption
<1>1. /\ inFlight' = 0 /\ status' = "idle" /\ buf' = [buf EXCEPT ![0] = 0] /\ readIdx' = 0 /\ writeIdx' = 0
      /\ dma' = 0 /\ fifo' = <<>> /\ pio' = "off" /\ executed' = submitted /\ transferred' = 0 /\ reported' = 0
      /\ pc' = "ready" /\ todo' = 0 /\ padded' = 0 /\ result' = "none"
      /\ UNCHANGED <<first, count, copied, submitted>>
  BY DEF Reset, copyVars
<1>2. 0 \in Index /\ 0 \in Word /\ submitted \in Nat /\ buf \in [Index -> Word] /\ Completed(0, 0) = 0
  <2>1. 0 \in Index
    BY DEF Index
  <2> QED BY <2>1, Distance DEF RingInv, TypeOK, Word
<1>3. TypeOK'
  <2>1. buf' \in [Index -> Word]
    BY <1>1, <1>2
  <2>2. fifo' \in Seq(Word)
    BY <1>1
  <2> QED BY <1>1, <1>2, <2>1, <2>2 DEF RingInv, TypeOK
<1>4. Live'
  <2>1. EndOfWords' = 0 /\ Copying' = 0 /\ Ahead' = 0 /\ Len(fifo') = 0
    BY <1>1, <1>2 DEF EndOfWords, Copying, Ahead
  <2>2. Lead'
    BY <1>1, <1>2, <2>1 DEF Lead
  <2>3. Words'
    <3>1. \A i \in Index : ~(Completed(0, i) < 0)
      BY <1>2, Distance
    <3> QED BY <1>1, <2>1, <3>1 DEF Words
  <2>4. Halted'
    BY <1>1, <1>2, <2>1 DEF Halted
  <2> QED BY <2>2, <2>3, <2>4 DEF Live
<1>5. Copy'
  BY <1>1 DEF Copy
<1>6. Hw'
  BY <1>1, <1>4 DEF Hw
<1>7. Books'
  <2>1. Len(fifo') = 0 /\ Stalled' = 0
    BY <1>1 DEF Stalled
  <2> QED BY <1>1, <1>2, <2>1 DEF Books
<1> QED BY <1>3, <1>5, <1>6, <1>7 DEF RingInv

(* The PIO takes the next submitted word or stalls, and the FIFO holds the *)
(* words behind it.                                                        *)
LEMMA PullRing ==
  ASSUME RingInv, Pull
  PROVE  /\ RingInv'
         /\ \/ executed < submitted /\ executed' = executed + 1
            \/ executed' = executed /\ pio' = "stall"
<1> USE RingAssumption
<1>1. /\ pio = "run" /\ fifo' = Append(Tail(fifo), buf[dma]) /\ dma' = Wrap(dma + 1) /\ transferred' = transferred + 1
      /\ executed' = IF Head(fifo) = 0 THEN executed ELSE Head(fifo)
      /\ pio' = IF Head(fifo) \in {0, padded} THEN "stall" ELSE "run"
      /\ UNCHANGED <<buf, readIdx, writeIdx, status, inFlight, pc, todo, padded, first, count, copied, result, submitted, reported>>
  BY DEF Pull, ringVars, countVars, callVars, copyVars
<1>2. /\ readIdx \in Index /\ dma \in Index /\ writeIdx \in Index /\ inFlight \in Int /\ reported \in Nat
      /\ transferred \in Nat /\ submitted \in Nat /\ executed \in Nat /\ buf \in [Index -> Word]
      /\ fifo \in Seq(Word) /\ RingSize \in Nat /\ FifoDepth \in Nat /\ FifoDepth >= 1 /\ first \in Index
      /\ status \in {"idle", "running"}
  BY DEF RingInv, TypeOK, Word
<1>3. status = "running" /\ Len(fifo) = FifoDepth /\ Stalled = 0
  BY <1>1, <1>2 DEF RingInv, Hw, Stalled
<1>4. PICK m \in 0 .. FifoDepth : Right(m)
  BY <1>1 DEF RingInv, Hw
<1>5. buf[dma] \in Word
  BY <1>2
<1>6. /\ fifo' \in Seq(Word) /\ Len(fifo') = FifoDepth /\ Head(fifo) = fifo[1] /\ Head(fifo) \in Word
      /\ \A k \in 1 .. FifoDepth - 1 : fifo'[k] = fifo[k + 1]
      /\ fifo'[FifoDepth] = buf[dma]
  <2>1. fifo # <<>>
    BY <1>2, <1>3
  <2>2. /\ Tail(fifo) \in Seq(Word) /\ Len(Tail(fifo)) = FifoDepth - 1
        /\ \A k \in 1 .. FifoDepth - 1 : Tail(fifo)[k] = fifo[k + 1]
    BY <1>2, <1>3, <2>1, HeadTailProperties
  <2>3. Head(fifo) = fifo[1] /\ Head(fifo) \in Word
    BY <1>2, <2>1, HeadTailProperties
  <2> DEFINE t == Tail(fifo)
  <2> HIDE DEF t
  <2>4. t \in Seq(Word) /\ Len(t) = FifoDepth - 1 /\ fifo' = Append(t, buf[dma])
    BY <1>1, <2>2 DEF t
  <2>5. /\ Append(t, buf[dma]) \in Seq(Word) /\ Len(Append(t, buf[dma])) = Len(t) + 1
        /\ \A k \in 1 .. Len(t) : Append(t, buf[dma])[k] = t[k]
        /\ Append(t, buf[dma])[Len(t) + 1] = buf[dma]
    BY <1>5, <2>4, AppendProperties
  <2>6. (FifoDepth - 1) + 1 = FifoDepth
    BY <1>2
  <2> QED BY <2>2, <2>3, <2>4, <2>5, <2>6 DEF t
<1>7. dma + 1 \in 0 .. RingSize /\ dma' = (IF dma + 1 = RingSize THEN 0 ELSE dma + 1) /\ dma' \in Index
  <2>1. dma + 1 \in 0 .. RingSize
    BY <1>2 DEF Index
  <2>2. dma' = IF dma + 1 = RingSize THEN 0 ELSE dma + 1
    BY <1>1, <2>1, WrapIs
  <2> QED BY <1>2, <2>1, <2>2 DEF Index
<1>8. Completed(dma, dma') = 1 /\ Completed(readIdx, dma') <= Completed(readIdx, dma) + 1
  BY <1>2, <1>7 DEF Completed, Index
<1>9. Completed(readIdx, dma) \in 0 .. RingSize - 1 /\ Completed(readIdx, dma') \in Nat
  <2>1. Completed(readIdx, dma) \in 0 .. RingSize - 1
    BY <1>2, Distance
  <2>2. Completed(readIdx, dma') \in 0 .. RingSize - 1
    BY <1>2, <1>7, Distance
  <2> QED BY <1>2, <2>1, <2>2
<1>10. executed' = IF m = 0 THEN executed ELSE executed + 1
  BY <1>1, <1>2, <1>4, <1>6 DEF Right
<1>11. executed + m <= submitted /\ m \in Nat /\ m <= FifoDepth
  BY <1>2, <1>4 DEF Right
<1>12. executed' \in Nat /\ executed' <= submitted
  BY <1>2, <1>10, <1>11 DEF RingInv, Books
<1>13. m = 0 => pio' = "stall"
  BY <1>1, <1>2, <1>4, <1>6 DEF Right
<1>14. pio' \in {"run", "stall"}
  BY <1>1
<1>15. TypeOK'
  <2>1. executed' \in Word
    BY <1>12 DEF RingInv, TypeOK, Word
  <2> QED BY <1>1, <1>2, <1>6, <1>7, <1>14, <2>1 DEF RingInv, TypeOK
<1>16. Copy'
  BY <1>1 DEF RingInv, Copy
<1>17. ASSUME m = FifoDepth, Ahead > 0 PROVE Right(FifoDepth)'
  <2>1. Live
    BY <1>4, <1>17 DEF Right
  <2>2. EndOfWords' = EndOfWords /\ Copying' = Copying
    BY <1>1 DEF EndOfWords, Copying
  <2>3. EndOfWords \in Index /\ Copying \in Nat
    BY <1>2 DEF EndOfWords, Copying, RingInv, TypeOK
  <2>4. Ahead = Completed(dma, EndOfWords) /\ Ahead' = Completed(dma', EndOfWords)
    BY <2>2 DEF Ahead
  <2>5. Ahead \in 0 .. RingSize - 1
    BY <1>2, <2>3, <2>4, Distance
  <2>6. Ahead' = Ahead - 1 /\ Ahead' \in Nat
    BY <1>2, <1>7, <1>17, <2>3, <2>4 DEF Completed, Index
  <2>7. /\ Ahead = submitted - executed - FifoDepth
        /\ Completed(readIdx, dma) + Ahead + Copying <= RingSize - 1
    BY <1>3, <2>1 DEF Live, Lead
  <2>8. Completed(readIdx, dma') = Completed(readIdx, dma) + 1
    <3>1. Completed(readIdx, dma) + 1 <= RingSize - 1
      BY <1>2, <1>9, <1>17, <2>3, <2>5, <2>7
    <3> QED BY <1>2, <1>7, <1>8, <3>1, DistanceAdds
  <2>9. executed' = executed + 1
    BY <1>2, <1>10, <1>17
  <2>10. Lead'
    <3>1. Ahead - 1 = submitted - (executed + 1) - FifoDepth
      BY <1>2, <2>5, <2>7
    <3>2. (Completed(readIdx, dma) + 1) + (Ahead - 1) + Copying <= RingSize - 1
      BY <1>2, <1>9, <2>3, <2>5, <2>7
    <3> QED BY <1>1, <1>6, <2>2, <2>6, <2>8, <2>9, <3>1, <3>2 DEF Lead
  <2>11. Words'
    <3> SUFFICES ASSUME NEW i \in Index, Completed(dma', i) < Ahead - 1
                 PROVE  buf[i] = (executed + 1) + FifoDepth + 1 + Completed(dma', i)
      BY <1>1, <1>6, <2>6, <2>9 DEF Words
    <3>1. Completed(dma', i) \in Nat
      BY <1>7, Distance
    <3>2. Completed(dma, i) = 1 + Completed(dma', i)
      <4>1. 1 + Completed(dma', i) <= RingSize - 1
        BY <1>2, <2>5, <3>1
      <4> QED BY <1>2, <1>7, <1>8, <4>1, DistanceAdds
    <3>3. Completed(dma, i) < Ahead
      BY <2>5, <3>1, <3>2
    <3>4. buf[i] = executed + FifoDepth + 1 + Completed(dma, i)
      BY <1>3, <2>1, <3>3 DEF Live, Words
    <3> QED BY <1>2, <3>1, <3>2, <3>4
  <2>12. Halted'
    BY <1>1, <2>1, <2>2 DEF Live, Halted
  <2>13. buf[dma] = executed + FifoDepth + 1
    <3>1. Completed(dma, dma) = 0
      BY <1>2, Distance
    <3>2. buf[dma] = executed + FifoDepth + 1 + 0
      BY <1>2, <1>3, <1>17, <2>1, <3>1 DEF Live, Words
    <3> QED BY <1>2, <3>2
  <2>14. ASSUME NEW k \in 1 .. FifoDepth PROVE fifo'[k] = (executed + 1) + k
    <3>1. CASE k = FifoDepth
      BY <1>2, <1>6, <2>13, <3>1
    <3>2. CASE k # FifoDepth
      <4>1. k \in 1 .. FifoDepth - 1 /\ k + 1 \in 1 .. m /\ k \in Nat
        BY <1>2, <1>17, <3>2
      <4>2. fifo'[k] = executed + (k + 1)
        BY <1>4, <1>6, <4>1 DEF Right
      <4> QED BY <1>2, <4>1, <4>2
    <3> QED BY <3>1, <3>2
  <2>15. (executed + 1) + FifoDepth <= submitted
    BY <1>2, <1>17, <2>5, <2>7
  <2>16. Live'
    BY <2>10, <2>11, <2>12 DEF Live
  <2>17. \A k \in 1 .. FifoDepth : fifo'[k] = executed' + k
    BY <2>9, <2>14
  <2>18. executed' + FifoDepth <= submitted'
    BY <1>1, <2>9, <2>15
  <2>19. ~(FifoDepth < FifoDepth)
    BY <1>2
  <2> QED BY <2>16, <2>17, <2>18, <2>19 DEF Right
<1>18. ASSUME m # 0, m < FifoDepth \/ Ahead = 0 PROVE Right(m - 1)'
  <2>1. m - 1 \in Nat /\ m - 1 < FifoDepth
    BY <1>11, <1>18
  <2>2. executed' = executed + 1
    BY <1>10, <1>18
  <2>3. ASSUME NEW k \in 1 .. m - 1 PROVE fifo'[k] = (executed + 1) + k
    <3>1. k \in 1 .. FifoDepth - 1 /\ k + 1 \in 1 .. m /\ k \in Nat
      BY <1>2, <1>11
    <3>2. fifo'[k] = executed + (k + 1)
      BY <1>4, <1>6, <3>1 DEF Right
    <3> QED BY <1>2, <3>1, <3>2
  <2>4. fifo'[(m - 1) + 1] = 0
    <3>0. (m - 1) + 1 = m
      BY <1>11
    <3>1. CASE m < FifoDepth
      <4>1. m \in 1 .. FifoDepth - 1
        BY <1>2, <1>11, <1>18, <3>1
      <4> QED BY <1>4, <1>6, <3>0, <3>1, <4>1 DEF Right
    <3>2. CASE m = FifoDepth
      <4>1. Live /\ Ahead = 0
        BY <1>4, <1>11, <1>18, <3>2 DEF Right
      <4>2. EndOfWords \in Index
        BY <1>2 DEF EndOfWords
      <4>3. dma = EndOfWords
        BY <1>2, <4>1, <4>2, Distance DEF Ahead
      <4> QED BY <1>6, <3>0, <3>2, <4>1, <4>3 DEF Live, Halted
    <3> QED BY <1>11, <3>1, <3>2
  <2>5. (executed + 1) + (m - 1) <= submitted
    BY <1>2, <1>11
  <2>6. submitted' = submitted /\ m - 1 # FifoDepth
    BY <1>1, <1>2, <2>1
  <2>7. \A k \in 1 .. m - 1 : fifo'[k] = executed' + k
    BY <2>2, <2>3
  <2>8. executed' + (m - 1) <= submitted'
    BY <2>2, <2>5, <2>6
  <2> QED BY <2>4, <2>6, <2>7, <2>8 DEF Right
<1>19. pio' = "run" => \E k \in 0 .. FifoDepth : Right(k)'
  <2> SUFFICES ASSUME pio' = "run" PROVE \E k \in 0 .. FifoDepth : Right(k)'
    OBVIOUS
  <2>1. m # 0
    BY <1>13
  <2>2. CASE m = FifoDepth /\ Ahead > 0
    <3>1. FifoDepth \in 0 .. FifoDepth
      BY <1>2
    <3> QED BY <1>17, <2>2, <3>1
  <2>3. CASE m < FifoDepth \/ Ahead = 0
    <3>1. m - 1 \in 0 .. FifoDepth
      BY <1>11, <2>1
    <3> QED BY <1>18, <2>1, <2>3, <3>1
  <2>4. Ahead \in Nat
    <3>1. EndOfWords \in Index
      BY <1>2 DEF EndOfWords
    <3> QED BY <1>2, <3>1, Distance DEF Ahead
  <2>5. m = FifoDepth \/ m < FifoDepth
    BY <1>11, <1>2
  <2> QED BY <2>2, <2>3, <2>4, <2>5
<1>20. Hw'
  BY <1>1, <1>3, <1>6, <1>14, <1>19 DEF RingInv, Hw
<1>21. Books'
  <2>1. reported + Completed(readIdx, dma') <= (transferred + 1) - FifoDepth
    <3>1. reported + Completed(readIdx, dma) <= transferred - FifoDepth
      BY <1>3 DEF RingInv, Books
    <3> QED BY <1>2, <1>8, <1>9, <3>1
  <2>2. pc # "failed"
    BY <1>1 DEF RingInv, Books
  <2>3. inFlight + reported + executed - submitted >= transferred - FifoDepth - 0
    BY <1>3, <2>2 DEF RingInv, Books
  <2>4. Stalled' \in {0, 1} /\ (m = 0 => Stalled' = 1)
    BY <1>13 DEF Stalled
  <2>5. inFlight + reported + executed' - submitted >= (transferred + 1) - FifoDepth - Stalled'
    <3>1. CASE m = 0
      <4>1. Stalled' = 1 /\ executed' = executed
        BY <1>10, <2>4, <3>1
      <4> QED BY <1>2, <2>3, <4>1
    <3>2. CASE m # 0
      <4>1. executed' = executed + 1
        BY <1>10, <3>2
      <4>2. inFlight + reported + (executed + 1) - submitted >= (transferred + 1) - FifoDepth - 0
        BY <1>2, <2>3
      <4>3. inFlight + reported + (executed + 1) - submitted >= (transferred + 1) - FifoDepth - 1
        BY <1>2, <4>2
      <4> QED BY <2>4, <4>1, <4>2, <4>3
    <3> QED BY <3>1, <3>2
  <2>6. result = "none"
    BY <1>2, <2>2 DEF RingInv, Books
  <2> QED BY <1>1, <1>6, <1>12, <2>1, <2>2, <2>5, <2>6 DEF RingInv, Books
<1>22. m # 0 => executed < submitted
  BY <1>2, <1>11
<1> QED BY <1>10, <1>13, <1>15, <1>16, <1>20, <1>21, <1>22 DEF RingInv

(* Every step of the CPU, of the client and of the PIO keeps the           *)
(* invariant.                                                              *)
LEMMA StepRingInv == RingInv /\ [RingNext]_deviceVars => RingInv'
<1> SUFFICES ASSUME RingInv, [RingNext]_deviceVars PROVE RingInv'
  OBVIOUS
<1>1. CASE Cpu
  BY <1>1, AdvanceRing, WriteHaltRing, CopyWordRing, StoreFirstRing, WriteDoneRing, RingFullRing, TickRing,
     FlushStalledRing, ResetRing DEF Cpu, ResetFailed
<1>2. CASE Client
  BY <1>2, CallWriteRing, CallFlushRing, ResetRing DEF Client, Abandon
<1>3. CASE Pull
  BY <1>3, PullRing
<1>4. CASE UNCHANGED deviceVars
  <2>1. /\ UNCHANGED <<buf, readIdx, writeIdx, status, inFlight, dma, fifo, pio, pc>>
        /\ UNCHANGED <<todo, padded, first, count, copied, result, submitted, executed, transferred, reported>>
    BY <1>4 DEF deviceVars, ringVars, countVars, hwVars, callVars, copyVars, history
  <2>2. TypeOK'
    BY <2>1 DEF RingInv, TypeOK
  <2>3. Hw'
    BY <2>1, HwStays DEF RingInv, Frame, hwVars
  <2>4. Copy' /\ Books'
    BY <2>1 DEF RingInv, Copy, Books, Stalled
  <2> QED BY <2>2, <2>3, <2>4 DEF RingInv
<1> QED BY <1>1, <1>2, <1>3, <1>4 DEF RingNext

(* The invariant of the ring holds in every behaviour of the device.       *)
THEOREM RingHolds == RingSpec => []RingInv
BY InitRing, StepRingInv, PTL DEF RingSpec

(* The type invariant: indices stay in the ring, words in their bound, the *)
(* FIFO full of words (ring.Write, Device).                                *)
THEOREM RingTypes == RingSpec => []TypeOK
<1>1. RingInv => TypeOK
  BY DEF RingInv
<1> QED BY <1>1, RingHolds, PTL

(* No completion is reported ahead of the PIO, and a Flush without error   *)
(* has lost one word at most (Device.Write, Device.Flush).                 *)
THEOREM ReportsStayHonest == RingSpec => []ReportsAreHonest
<1>1. RingInv => ReportsAreHonest
  <2> SUFFICES ASSUME RingInv PROVE ReportsAreHonest
    OBVIOUS
  <2>1. ReportedWasExecuted
    <3>1. status \in {"idle", "running"} /\ reported \in Nat /\ transferred \in Nat /\ FifoDepth \in Nat
      BY RingAssumption DEF RingInv, TypeOK
    <3>2. Completed(readIdx, dma) \in Nat
      BY Distance DEF RingInv, TypeOK
    <3> QED BY <3>1, <3>2 DEF RingInv, Hw, Books, ReportedWasExecuted
  <2>2. FlushLosesAtMostOne
    BY DEF RingInv, Books, FlushLosesAtMostOne
  <2> QED BY <2>1, <2>2 DEF ReportsAreHonest
<1> QED BY <1>1, RingHolds, PTL

(* For every size of ring and FIFO the device implements StepStream: the   *)
(* submitted words are executed in order, once, and never after a stall    *)
(* (ring.Write, the PIO program).                                          *)
THEOREM RingImplementsStream == RingSpec => ImplementsStream
<1>1. RingInit => Stream!StreamInit
  BY DEF RingInit, Stream!StreamInit
<1>2. RingInv /\ [RingNext]_deviceVars => [Stream!StreamNext]_<<submitted, executed, pio>>
  <2> SUFFICES ASSUME RingInv, RingNext \/ UNCHANGED deviceVars
               PROVE  Stream!StreamNext \/ UNCHANGED <<submitted, executed, pio>>
    OBVIOUS
  <2>1. ASSUME StoreFirst PROVE Stream!Submit
    <3>1. submitted' > submitted /\ submitted' \in Nat
      BY <2>1, StoreFirstRing DEF RingInv, TypeOK, Word
    <3> QED BY <2>1, <3>1 DEF StoreFirst, hwVars, Stream!Submit
  <2>2. ASSUME EnsureStarted, UNCHANGED <<submitted, executed>>
        PROVE  Stream!Start \/ UNCHANGED <<submitted, executed, pio>>
    BY <2>2 DEF EnsureStarted, hwVars, RingInv, Hw, Stream!Start
  <2>3. ASSUME Reset PROVE Stream!EndSession
    BY <2>3 DEF Reset, Stream!EndSession
  <2>4. ASSUME Pull PROVE Stream!Execute \/ Stream!Stall
    <3>1. pio = "run" /\ pio' \in {"run", "stall"} /\ submitted' = submitted
      BY <2>4 DEF Pull
    <3> QED BY <2>4, <3>1, PullRing DEF Stream!Execute, Stream!Stall
  <2>5. CASE Cpu
    BY <2>5, <2>1, <2>2, <2>3 DEF Cpu, Advance, WriteHalt, CopyWord, WriteDone, RingFull, Tick, FlushStalled,
       ResetFailed, hwVars, history, Stream!StreamNext
  <2>6. CASE Client
    BY <2>6, <2>2, <2>3 DEF Client, CallWrite, CallFlush, Abandon, hwVars, history, Stream!StreamNext
  <2>7. CASE Pull
    BY <2>4, <2>7 DEF Stream!StreamNext
  <2>8. CASE UNCHANGED deviceVars
    BY <2>8 DEF deviceVars, hwVars, history
  <2> QED BY <2>5, <2>6, <2>7, <2>8 DEF RingNext
<1> QED BY <1>1, <1>2, RingHolds, PTL DEF RingSpec, ImplementsStream, Stream!StreamSpec, Stream!streamVars

-----------------------------------------------------------------------------
(* A slot that holds our key for good. *)
Kept(s) == Compatible(s) /\ Valid(s) /\ Whole(s)

(* How far the key has come. *)
Filling(s) ==
  /\ ~WasValid(s) /\ (BestFit(s) \/ Kept(s))
  /\ \A j \in 1..KeyRows : j < next => mem[KeyCell(s, j)] = OurKey[j]
  /\ \A c \in Redundant : KeyRows + c < next => ValidBit(s) \in mem[BootFlags(c)]
  /\ \A t \in Slots : ~SameKey(t) => t = s

PlanFits ==
  /\ step \notin {KeyStep, LastStep} =>
       \A j \in DOMAIN plan : plan[j].cell \notin KeyCells \cup BootCells \cup CritCells
  /\ step = KeyStep => \/ plan = <<>> /\ HasKey
                       \/ \E s \in Slots : plan = KeyWrites(s) /\ Filling(s)
  /\ step = LastStep => plan = SecureWrites /\ HasKey

(* The slot an attempt began is the one the next will choose. *)
OneSlot ==
  /\ OneSlotIsSpent
  /\ \A s \in Slots : ~SameKey(s) => ~WasValid(s) /\ (BestFit(s) \/ Kept(s))

FoundFits == \A s \in Slots : WasValid(s) => Valid(s)

OtpInv ==
  /\ DOMAIN mem = Cells /\ next \in Nat \ {0} /\ step \in Nat
  /\ PlanFits /\ OneSlot /\ MarkedIsWhole /\ FoundFits
  /\ (IsSecureBootEnabled => HasKey)

-----------------------------------------------------------------------------
(* Rows of different kinds are different rows. *)
LEMMA Apart ==
  /\ KeyCells \subseteq Cells /\ BootCells \subseteq Cells /\ CritCells \subseteq Cells
  /\ \A s, r, t, q : KeyCell(s, r) = KeyCell(t, q) => s = t /\ r = q
  /\ \A s, r, c : KeyCell(s, r) # BootFlags(c) /\ KeyCell(s, r) # Crit(c)
  /\ \A c, d : BootFlags(c) # Crit(d) /\ (BootFlags(c) = BootFlags(d) => c = d)
<1>1. KeyCells \subseteq Cells /\ BootCells \subseteq Cells /\ CritCells \subseteq Cells
  BY DEF Cells
<1>2. \A s, r, t, q : KeyCell(s, r) = KeyCell(t, q) => s = t /\ r = q
  BY DEF KeyCell
<1>3. \A s, r, c : KeyCell(s, r) # BootFlags(c) /\ KeyCell(s, r) # Crit(c)
  BY DEF KeyCell, BootFlags, Crit
<1>4. \A c, d : BootFlags(c) # Crit(d) /\ (BootFlags(c) = BootFlags(d) => c = d)
  BY DEF BootFlags, Crit
<1> QED
  BY <1>1, <1>2, <1>3, <1>4

(* Labels are written to rows that hold neither keys nor boot flags. *)
LEMMA LabelsApart ==
  ASSUME NEW i \in DOMAIN Labels, NEW j \in DOMAIN LabelWrites(Labels[i])
  PROVE  LabelWrites(Labels[i])[j].cell \notin KeyCells \cup BootCells \cup CritCells
<1> DEFINE label == Labels[i]
           a == <<Ecc(Entry(label.idx), BitsOf((RowOffset * 256 + label.len) % 2^16))>>
           b == [k \in 1..Len(label.text) |-> Ecc(Text(RowOffset + k - 1), label.text[k])]
           c == [k \in Redundant |-> Or(UsbFlags(k), {label.idx, AddrValid})]
           W == {a[1]} \cup {b[k] : k \in 1..Len(label.text)} \cup {c[k] : k \in Redundant}
<1>1. a \in Seq(W) /\ c \in Seq(W)
  BY DEF Redundant
<1>2. b \in Seq(W)
  OBVIOUS
<1>3. \A w \in W : w.cell \notin KeyCells \cup BootCells \cup CritCells
  <2>1. /\ \A k : Ecc(Text(RowOffset + k - 1), label.text[k]).cell \notin KeyCells \cup BootCells \cup CritCells
        /\ \A k : Or(UsbFlags(k), {label.idx, AddrValid}).cell \notin KeyCells \cup BootCells \cup CritCells
        /\ a[1].cell \notin KeyCells \cup BootCells \cup CritCells
    BY DEF Ecc, Or, Entry, Text, UsbFlags, KeyCells, BootCells, CritCells, KeyCell, BootFlags, Crit
  <2>2. /\ \A k \in 1..Len(label.text) : b[k].cell \notin KeyCells \cup BootCells \cup CritCells
        /\ \A k \in Redundant : c[k].cell \notin KeyCells \cup BootCells \cup CritCells
    BY <2>1
  <2> HIDE DEF a, b, c
  <2> QED
    BY <2>1, <2>2
<1>4. LabelWrites(label) = a \o b \o c
  BY DEF LabelWrites
<1> HIDE DEF a, b, c, W
<1>5. a \o b \o c \in Seq(W)
  BY <1>1, <1>2
<1> QED
  BY <1>3, <1>4, <1>5

-----------------------------------------------------------------------------
(* Steps that leave keys and boot flags alone leave all of this alone. *)
LEMMA KeysUnmoved ==
  ASSUME \A c \in KeyCells \cup BootCells : mem'[c] = mem[c], UNCHANGED found
  PROVE  /\ \A s \in Slots : /\ Valid(s)' <=> Valid(s)
                             /\ Whole(s)' <=> Whole(s)
                             /\ SameKey(s)' <=> SameKey(s)
                             /\ WasValid(s)' <=> WasValid(s)
                             /\ BestFit(s)' <=> BestFit(s)
                             /\ Kept(s)' <=> Kept(s)
         /\ HasKey' <=> HasKey
<1>1. \A s \in Slots, q \in 1..KeyRows : mem'[KeyCell(s, q)] = mem[KeyCell(s, q)]
  BY DEF KeyCells
<1>2. ReadOrRow(BootCells)' = ReadOrRow(BootCells)
  BY DEF ReadOrRow, BootCells, BootFlags
<1>3. \A s \in Slots : (Valid(s)' <=> Valid(s)) /\ (Invalid(s)' <=> Invalid(s))
  BY <1>2 DEF Valid, Invalid
<1>4. \A s \in Slots : /\ Whole(s)' <=> Whole(s)
                       /\ SameKey(s)' <=> SameKey(s)
                       /\ WasValid(s)' <=> WasValid(s)
                       /\ Compatible(s)' <=> Compatible(s)
  BY <1>1, <1>3 DEF Whole, SameKey, WasValid, Compatible
<1>5. \A s \in Slots : Matches(s)' = Matches(s)
  BY <1>1 DEF Matches
<1>6. \A s \in Slots : Fits(s)' <=> Fits(s)
  BY <1>3, <1>4 DEF Fits
<1>7. \A s \in Slots : BestFit(s)' <=> BestFit(s)
  BY <1>5, <1>6 DEF BestFit
<1> QED
  BY <1>3, <1>4, <1>7 DEF Kept, HasKey

LEMMA InvUnmoved ==
  ASSUME OtpInv, \A c \in KeyCells \cup BootCells : mem'[c] = mem[c], UNCHANGED found
  PROVE  OneSlot' /\ MarkedIsWhole' /\ FoundFits'
<1> QED
  BY KeysUnmoved DEF OtpInv, OneSlot, OneSlotIsSpent, MarkedIsWhole, FoundFits

LEMMA MatchesType ==
  ASSUME NEW s \in Slots
  PROVE  /\ Matches(s) \in Nat
         /\ IsFiniteSet({q \in 1..KeyRows : mem[KeyCell(s, q)] = OurKey[q]})
<1>1. IsFiniteSet(1..KeyRows)
  BY FS_Interval, OtpAssumption
<1>2. IsFiniteSet({q \in 1..KeyRows : mem[KeyCell(s, q)] = OurKey[q]})
  BY <1>1, FS_Subset
<1> QED
  BY <1>2, FS_CardinalityType DEF Matches

(* There is one best slot. *)
LEMMA BestIsOne ==
  ASSUME NEW s \in Slots, NEW t \in Slots, BestFit(s), BestFit(t)
  PROVE  s = t
<1>1. Matches(s) \in Nat /\ Matches(t) \in Nat
  BY MatchesType
<1>2. s \in Int /\ t \in Int
  BY OtpAssumption DEF Slots
<1> QED
  BY <1>1, <1>2 DEF BestFit

-----------------------------------------------------------------------------
(* Where a step begins and where LockBoot ends. *)
LEMMA Stops ==
  ASSUME OtpInv, Stop, UNCHANGED <<mem, found>>
  PROVE  OtpInv'
<1>1. Len(Labels) \in Nat
  BY OtpAssumption
<1>2. PlanFits'
  BY <1>1 DEF Stop, PlanFits, KeyStep, LastStep
<1>3. OneSlot' /\ MarkedIsWhole' /\ FoundFits'
  BY InvUnmoved
<1>4. (IsSecureBootEnabled => HasKey)'
  BY KeysUnmoved DEF OtpInv, IsSecureBootEnabled, ReadOrRow
<1> QED
  BY <1>2, <1>3, <1>4 DEF OtpInv, Stop

LEMMA Enters ==
  ASSUME OtpInv, NEW k \in 1..LastStep, Enter(k), k = LastStep => HasKey
  PROVE  OtpInv'
<1>1. Len(Labels) \in Nat /\ KeyStep = Len(Labels) + 2 /\ LastStep = Len(Labels) + 3
  BY OtpAssumption DEF KeyStep, LastStep
<1>2. CASE Plans(k) = {} /\ Stop
  BY <1>2, Stops DEF Enter
<1>3. CASE plan' \in Plans(k) /\ step' = k /\ next' = 1
  <2>1. OneSlot' /\ MarkedIsWhole' /\ FoundFits'
    BY InvUnmoved DEF Enter
  <2>2. (IsSecureBootEnabled => HasKey)' /\ DOMAIN mem' = Cells
    BY KeysUnmoved DEF Enter, OtpInv, IsSecureBootEnabled, ReadOrRow
  <2>3. PlanFits'
    <3>1. CASE k = 1
      BY <1>1, <1>3, <3>1 DEF Plans, AddrWrites, Ecc, Addr, PlanFits, KeyCells, BootCells, CritCells,
                              KeyCell, BootFlags, Crit
    <3>2. CASE k > 1 /\ k < KeyStep
      <4>1. k - 1 \in DOMAIN Labels
        BY <1>1, <3>2, OtpAssumption
      <4>2. plan' = <<>> \/ plan' = LabelWrites(Labels[k - 1])
        BY <1>1, <1>3, <3>2 DEF Plans
      <4> QED
        BY <1>1, <1>3, <3>2, <4>1, <4>2, LabelsApart DEF PlanFits
    <3>3. CASE k = KeyStep
      <4>1. CASE HasKey
        BY <1>1, <1>3, <3>3, <4>1, KeysUnmoved DEF Plans, PlanFits, Enter
      <4>2. CASE ~HasKey
        <5>1. PICK s \in Slots : BestFit(s) /\ plan' = KeyWrites(s)
          BY <1>1, <1>3, <3>3, <4>2 DEF Plans
        <5>2. ~WasValid(s)
          BY <5>1 DEF BestFit, Fits, OtpInv, FoundFits
        <5>3. \A t \in Slots : ~SameKey(t) => t = s
          BY <4>2, <5>1, BestIsOne DEF OtpInv, OneSlot, Kept, HasKey
        <5>4. UNCHANGED <<mem, found>> /\ KeyRows \in Nat
          BY OtpAssumption DEF Enter
        <5>5. /\ ~WasValid(s)' /\ BestFit(s)' /\ \A t \in Slots : ~SameKey(t)' => t = s
          BY <5>1, <5>2, <5>3, <5>4, KeysUnmoved
        <5>6. Filling(s)'
          BY <1>3, <5>4, <5>5 DEF Filling, Redundant
        <5> QED
          BY <1>1, <1>3, <3>3, <5>1, <5>6 DEF PlanFits
      <4> QED
        BY <4>1, <4>2
    <3>4. CASE k = LastStep
      BY <1>1, <1>3, <3>4, KeysUnmoved DEF Plans, PlanFits, Enter, SecureWrites
    <3> QED
      BY <1>1, <3>1, <3>2, <3>3, <3>4
  <2> QED
    BY <1>1, <1>3, <2>1, <2>2, <2>3 DEF OtpInv
<1> QED
  BY <1>2, <1>3 DEF Enter

(* The step of the key ends with a slot that holds it. *)
LEMMA KeyStepEnds ==
  ASSUME OtpInv, step = KeyStep, Finished
  PROVE  HasKey
<1>1. CASE plan = <<>> /\ HasKey
  BY <1>1
<1>2. CASE \E s \in Slots : plan = KeyWrites(s) /\ Filling(s)
  <2>1. PICK s \in Slots : plan = KeyWrites(s) /\ Filling(s)
    BY <1>2
  <2>2. Len(plan) = KeyRows + 3 /\ next \in Nat /\ KeyRows \in Nat
    BY <2>1, OtpAssumption DEF KeyWrites, OtpInv
  <2>3. next > KeyRows + 3
    BY <2>2 DEF Finished
  <2>4. Whole(s)
    BY <2>1, <2>2, <2>3 DEF Filling, Whole
  <2>5. ValidBit(s) \in mem[BootFlags(1)]
    BY <2>1, <2>2, <2>3 DEF Filling, Redundant
  <2>6. Valid(s)
    BY <2>5 DEF Valid, ReadOrRow, BootCells, Redundant
  <2>7. Compatible(s)
    BY <2>1 DEF Filling, BestFit, Fits, Kept
  <2> QED
    BY <2>4, <2>6, <2>7 DEF HasKey
<1> QED
  BY <1>1, <1>2 DEF OtpInv, PlanFits

-----------------------------------------------------------------------------
(* Writing a row. *)
LEMMA RowWritten ==
  ASSUME OtpInv, WriteRow
  PROVE  /\ DOMAIN mem' = Cells
         /\ \A c \in Cells : mem'[c] = IF c = plan[next].cell THEN mem[c] \cup plan[next].bits ELSE mem[c]
<1> QED
  BY DEF OtpInv, WriteRow

LEMMA WriteElsewhere ==
  ASSUME OtpInv, WriteRow, plan[next].cell \notin KeyCells \cup BootCells,
         plan[next].cell \notin CritCells \/ HasKey
  PROVE  OneSlot' /\ MarkedIsWhole' /\ FoundFits' /\ (IsSecureBootEnabled => HasKey)' /\ (HasKey' <=> HasKey)
<1>1. UNCHANGED found /\ \A c \in KeyCells \cup BootCells : mem'[c] = mem[c]
  BY RowWritten, Apart DEF WriteRow
<1>2. HasKey' <=> HasKey
  BY <1>1, KeysUnmoved
<1>3. plan[next].cell \notin CritCells => (IsSecureBootEnabled' <=> IsSecureBootEnabled)
  <2> SUFFICES ASSUME plan[next].cell \notin CritCells PROVE IsSecureBootEnabled' <=> IsSecureBootEnabled
    OBVIOUS
  <2>1. \A c \in CritCells : mem'[c] = mem[c]
    BY RowWritten, Apart
  <2> QED
    BY <2>1 DEF IsSecureBootEnabled, ReadOrRow, CritCells, Crit
<1> QED
  BY <1>1, <1>2, <1>3, InvUnmoved DEF OtpInv

(* A row of the key, into the slot chosen for it. *)
LEMMA KeyRowStep ==
  ASSUME OtpInv, WriteRow, step = KeyStep, NEW s \in Slots, plan = KeyWrites(s), Filling(s),
         next <= KeyRows
  PROVE  OneSlot' /\ MarkedIsWhole' /\ FoundFits' /\ (IsSecureBootEnabled => HasKey)' /\ Filling(s)'
<1>1. next \in 1..KeyRows /\ plan[next] = Ecc(KeyCell(s, next), OurKey[next]) /\ KeyRows \in Nat
  BY OtpAssumption DEF OtpInv, KeyWrites
<1>2. /\ mem'[KeyCell(s, next)] = OurKey[next]
      /\ \A c \in Cells : c # KeyCell(s, next) => mem'[c] = mem[c]
  <2>1. plan[next].cell = KeyCell(s, next) /\ plan[next].bits = OurKey[next] /\ plan[next].ecc
    BY <1>1 DEF Ecc
  <2>2. KeyCell(s, next) \in Cells
    BY <1>1, Apart DEF KeyCells
  <2>3. mem[KeyCell(s, next)] \subseteq OurKey[next]
    BY <2>1 DEF WriteRow, Burns
  <2>4. mem[KeyCell(s, next)] \cup OurKey[next] = OurKey[next]
    BY <2>3
  <2> QED
    BY <2>1, <2>2, <2>4, RowWritten
<1>3. UNCHANGED <<found, step, plan>> /\ next' = next + 1
  BY DEF WriteRow
<1>4. /\ \A c \in BootCells \cup CritCells : mem'[c] = mem[c]
      /\ \A t \in Slots, q \in 1..KeyRows : t # s \/ q # next => mem'[KeyCell(t, q)] = mem[KeyCell(t, q)]
  BY <1>2, Apart DEF KeyCells, BootCells, CritCells
<1>5. /\ ReadOrRow(BootCells)' = ReadOrRow(BootCells)
      /\ ReadOrRow(CritCells)' = ReadOrRow(CritCells)
  BY <1>4 DEF ReadOrRow, BootCells, BootFlags, CritCells, Crit
<1>6. \A t \in Slots : (Valid(t)' <=> Valid(t)) /\ (Invalid(t)' <=> Invalid(t))
  BY <1>5 DEF Valid, Invalid
<1>7. \A t \in Slots : /\ t # s => /\ Whole(t)' <=> Whole(t)
                                   /\ SameKey(t)' <=> SameKey(t)
                                   /\ Matches(t)' = Matches(t)
                       /\ WasValid(t)' <=> WasValid(t)
                       /\ Whole(t) => Whole(t)'
                       /\ Compatible(t)' <=> Compatible(t)
  <2>1. mem[KeyCell(s, next)] \subseteq OurKey[next]
    BY <1>1 DEF WriteRow, Burns, Ecc
  <2> QED
    BY <1>1, <1>2, <1>3, <1>4, <1>6, <2>1 DEF Whole, SameKey, Matches, WasValid, Compatible
<1>8. Matches(s)' >= Matches(s) /\ Matches(s) \in Nat /\ Matches(s)' \in Nat
  <2> DEFINE R == {q \in 1..KeyRows : mem[KeyCell(s, q)] = OurKey[q]}
             Q == {q \in 1..KeyRows : mem'[KeyCell(s, q)] = OurKey[q]}
  <2>1. R \subseteq Q
    BY <1>1, <1>2, <1>4
  <2>2. IsFiniteSet(1..KeyRows)
    BY <1>1, FS_Interval
  <2>3. IsFiniteSet(Q)
    BY <2>2, FS_Subset
  <2>4. Cardinality(R) <= Cardinality(Q) /\ Cardinality(R) \in Nat /\ Cardinality(Q) \in Nat
    BY <2>1, <2>3, FS_Subset, FS_CardinalityType
  <2> QED
    BY <2>4 DEF Matches
<1>9. BestFit(s)' \/ Kept(s)'
  <2>1. CASE BestFit(s)
    <3>1. \A t \in Slots : (Fits(t)' <=> Fits(t)) /\ Matches(t) \in Nat
      BY <1>6, <1>7, MatchesType DEF Fits
    <3>2. Fits(s)'
      BY <2>1, <3>1 DEF BestFit
    <3>3. ASSUME NEW t \in Slots, Fits(t)'
          PROVE  Matches(t)' < Matches(s)' \/ (Matches(t)' = Matches(s)' /\ s <= t)
      <4>1. Matches(t) < Matches(s) \/ (Matches(t) = Matches(s) /\ s <= t)
        BY <2>1, <3>1, <3>3 DEF BestFit
      <4>2. CASE t = s
        BY <1>8, <4>2, OtpAssumption DEF Slots
      <4>3. CASE t # s
        BY <1>7, <1>8, <3>1, <4>1, <4>3
      <4> QED
        BY <4>2, <4>3
    <3> QED
      BY <3>2, <3>3 DEF BestFit
  <2>2. CASE Kept(s)
    BY <1>6, <1>7, <2>2 DEF Kept
  <2> QED
    BY <2>1, <2>2 DEF Filling
<1>10. \A t \in Slots : ~SameKey(t)' => t = s
  BY <1>7 DEF Filling
<1>11. ~WasValid(s)'
  BY <1>7 DEF Filling
<1>12. OneSlot'
  BY <1>9, <1>10, <1>11 DEF OneSlot, OneSlotIsSpent
<1>13. MarkedIsWhole'
  BY <1>6, <1>7, <1>10, <1>11 DEF OtpInv, MarkedIsWhole
<1>14. FoundFits'
  BY <1>6, <1>7 DEF OtpInv, FoundFits
<1>15. (IsSecureBootEnabled => HasKey)'
  BY <1>5, <1>6, <1>7 DEF OtpInv, IsSecureBootEnabled, HasKey
<1>16. Filling(s)'
  <2>1. \A j \in 1..KeyRows : j < next' => mem'[KeyCell(s, j)] = OurKey[j]
    BY <1>1, <1>2, <1>3, <1>4 DEF Filling
  <2>2. \A c \in Redundant : ~(KeyRows + c < next')
    BY <1>1, <1>3 DEF Redundant
  <2> QED
    BY <1>9, <1>10, <1>11, <2>1, <2>2 DEF Filling
<1> QED
  BY <1>12, <1>13, <1>14, <1>15, <1>16

(* A copy of the flag, with the key in place. *)
LEMMA KeyFlagStep ==
  ASSUME OtpInv, WriteRow, step = KeyStep, NEW s \in Slots, plan = KeyWrites(s), Filling(s),
         next > KeyRows
  PROVE  OneSlot' /\ MarkedIsWhole' /\ FoundFits' /\ (IsSecureBootEnabled => HasKey)' /\ Filling(s)'
<1> DEFINE copy == next - KeyRows
<1>1. /\ next \in (KeyRows + 1)..(KeyRows + 3) /\ KeyRows \in Nat /\ copy \in Redundant
      /\ plan[next] = Or(BootFlags(copy), {ValidBit(s)})
  <2>1. KeyRows \in Nat /\ next \in Nat
    BY OtpAssumption DEF OtpInv
  <2>2. Len(plan) = KeyRows + 3 /\ DOMAIN plan = 1..(KeyRows + 3)
    BY <2>1 DEF KeyWrites
  <2>3. next \in (KeyRows + 1)..(KeyRows + 3)
    BY <2>1, <2>2 DEF WriteRow
  <2>4. plan[next] = Or(BootFlags(copy), {ValidBit(s)})
    BY <2>1, <2>2, <2>3 DEF KeyWrites
  <2> QED
    BY <2>1, <2>3, <2>4 DEF Redundant
<1>2. /\ mem'[BootFlags(copy)] = mem[BootFlags(copy)] \cup {ValidBit(s)}
      /\ \A c \in Cells : c # BootFlags(copy) => mem'[c] = mem[c]
  BY <1>1, RowWritten, Apart DEF Or, BootCells
<1>3. UNCHANGED <<found, step, plan>> /\ next' = next + 1
  BY DEF WriteRow
<1>4. /\ \A c \in CritCells : mem'[c] = mem[c]
      /\ \A t \in Slots, q \in 1..KeyRows : mem'[KeyCell(t, q)] = mem[KeyCell(t, q)]
  BY <1>2, Apart DEF KeyCells, CritCells
<1>5. /\ ReadOrRow(BootCells)' = ReadOrRow(BootCells) \cup {ValidBit(s)}
      /\ ReadOrRow(CritCells)' = ReadOrRow(CritCells)
  <2>1. \A c \in BootCells : mem'[c] = IF c = BootFlags(copy) THEN mem[c] \cup {ValidBit(s)} ELSE mem[c]
    BY <1>2, Apart
  <2>2. BootFlags(copy) \in BootCells
    BY <1>1 DEF BootCells
  <2> QED
    BY <1>4, <2>1, <2>2 DEF ReadOrRow, CritCells, Crit
<1>6. /\ Valid(s)'
      /\ \A t \in Slots : t # s => (Valid(t)' <=> Valid(t))
      /\ \A t \in Slots : Invalid(t)' <=> Invalid(t)
  BY <1>5, OtpAssumption DEF Valid, Invalid, ValidBit, InvalidBit, Slots
<1>7. \A t \in Slots : /\ Whole(t)' <=> Whole(t)
                       /\ SameKey(t)' <=> SameKey(t)
                       /\ WasValid(t)' <=> WasValid(t)
                       /\ Compatible(t)' <=> Compatible(t)
  BY <1>3, <1>4, <1>6 DEF Whole, SameKey, WasValid, Compatible
<1>8. Kept(s)'
  <2>1. Whole(s)
    BY <1>1 DEF Filling, Whole
  <2>2. Compatible(s)
    BY DEF Filling, BestFit, Fits, Kept
  <2> QED
    BY <1>6, <1>7, <2>1, <2>2 DEF Kept
<1>9. \A t \in Slots : ~SameKey(t)' => t = s
  BY <1>7 DEF Filling
<1>10. ~WasValid(s)'
  BY <1>7 DEF Filling
<1>11. OneSlot'
  BY <1>8, <1>9, <1>10 DEF OneSlot, OneSlotIsSpent
<1>12. MarkedIsWhole'
  BY <1>6, <1>7, <1>8, <1>10 DEF OtpInv, MarkedIsWhole, Kept
<1>13. FoundFits'
  BY <1>6, <1>7 DEF OtpInv, FoundFits
<1>14. (IsSecureBootEnabled => HasKey)'
  BY <1>8 DEF HasKey, Kept
<1>15. Filling(s)'
  <2>1. \A j \in 1..KeyRows : j < next' => mem'[KeyCell(s, j)] = OurKey[j]
    BY <1>1, <1>3, <1>4 DEF Filling
  <2>2. \A c \in Redundant : KeyRows + c < next' => ValidBit(s) \in mem'[BootFlags(c)]
    <3> SUFFICES ASSUME NEW c \in Redundant, KeyRows + c < next' PROVE ValidBit(s) \in mem'[BootFlags(c)]
      OBVIOUS
    <3>1. CASE c = copy
      BY <1>2, <3>1
    <3>2. CASE c # copy
      <4>1. KeyRows + c < next
        BY <1>1, <1>3, <3>2 DEF Redundant
      <4>2. mem'[BootFlags(c)] = mem[BootFlags(c)]
        BY <1>2, <3>2, Apart DEF BootCells
      <4> QED
        BY <4>1, <4>2 DEF Filling
    <3> QED
      BY <3>1, <3>2
  <2> QED
    BY <1>8, <1>9, <1>10, <2>1, <2>2 DEF Filling
<1> QED
  BY <1>11, <1>12, <1>13, <1>14, <1>15

-----------------------------------------------------------------------------
LEMMA OtpInit ==
  ASSUME Init
  PROVE  OtpInv
<1>1. Len(Labels) \in Nat /\ mem \in Memories /\ found = mem /\ step = 0 /\ plan = <<>> /\ next = 1
  BY OtpAssumption DEF Init
<1>2. \A s \in Slots : SameKey(s) /\ (WasValid(s) <=> Valid(s))
  BY <1>1 DEF SameKey, WasValid, Valid, ReadOrRow, BootCells
<1>3. ~IsSecureBootEnabled
  BY <1>1, OtpAssumption DEF IsSecureBootEnabled, ReadOrRow, CritCells
<1>4. PlanFits
  BY <1>1 DEF PlanFits, KeyStep, LastStep
<1>5. OneSlot /\ MarkedIsWhole /\ FoundFits
  BY <1>2 DEF OneSlot, OneSlotIsSpent, MarkedIsWhole, FoundFits
<1> QED
  BY <1>1, <1>3, <1>4, <1>5, OtpAssumption DEF OtpInv

LEMMA WriteStep ==
  ASSUME OtpInv, WriteRow
  PROVE  OtpInv'
<1>1. next' = next + 1 /\ UNCHANGED <<found, step, plan>> /\ DOMAIN mem' = Cells /\ next \in 1..Len(plan)
  BY RowWritten DEF WriteRow, OtpInv
<1>2. CASE step \notin {KeyStep, LastStep}
  <2>1. plan[next].cell \notin KeyCells \cup BootCells \cup CritCells
    BY <1>1, <1>2 DEF OtpInv, PlanFits
  <2> QED
    BY <1>1, <1>2, <2>1, WriteElsewhere DEF OtpInv, PlanFits
<1>3. CASE step = LastStep
  <2>1. HasKey /\ plan[next].cell \in CritCells
    BY <1>1, <1>3, OtpAssumption DEF OtpInv, PlanFits, SecureWrites, CritCells, Or
  <2>2. plan[next].cell \notin KeyCells \cup BootCells
    BY <2>1, Apart DEF KeyCells, BootCells, CritCells
  <2>3. HasKey' /\ OneSlot' /\ MarkedIsWhole' /\ FoundFits'
    BY <2>1, <2>2, WriteElsewhere
  <2>4. plan = SecureWrites /\ LastStep # KeyStep
    BY <1>3, OtpAssumption DEF OtpInv, PlanFits, LastStep, KeyStep
  <2>5. PlanFits'
    BY <1>1, <1>3, <2>3, <2>4 DEF PlanFits, SecureWrites
  <2> QED
    BY <1>1, <2>3, <2>5 DEF OtpInv
<1>4. CASE step = KeyStep
  <2>1. PICK s \in Slots : plan = KeyWrites(s) /\ Filling(s)
    BY <1>1, <1>4 DEF OtpInv, PlanFits
  <2>2. OneSlot' /\ MarkedIsWhole' /\ FoundFits' /\ (IsSecureBootEnabled => HasKey)' /\ Filling(s)'
    <3>1. next \in Nat /\ KeyRows \in Nat
      BY OtpAssumption DEF OtpInv
    <3> QED
      BY <1>4, <2>1, <3>1, KeyRowStep, KeyFlagStep
  <2>3. KeyStep # LastStep
    BY OtpAssumption DEF KeyStep, LastStep
  <2>4. PlanFits'
    BY <1>1, <1>4, <2>1, <2>2, <2>3 DEF PlanFits
  <2> QED
    BY <1>1, <2>2, <2>4 DEF OtpInv
<1> QED
  BY <1>2, <1>3, <1>4

LEMMA OtpNext ==
  ASSUME OtpInv, [Next]_vars
  PROVE  OtpInv'
<1>1. Len(Labels) \in Nat /\ KeyStep = Len(Labels) + 2 /\ LastStep = Len(Labels) + 3 /\ step \in Nat
  BY OtpAssumption DEF KeyStep, LastStep, OtpInv
<1>2. CASE UNCHANGED vars
  <2>1. UNCHANGED <<mem, found, step, plan, next>>
    BY <1>2 DEF vars
  <2>2. OneSlot' /\ MarkedIsWhole' /\ FoundFits' /\ (IsSecureBootEnabled => HasKey)' /\ (HasKey' <=> HasKey)
    BY <2>1, InvUnmoved, KeysUnmoved DEF OtpInv, IsSecureBootEnabled, ReadOrRow
  <2>3. \A s \in Slots : Filling(s) => Filling(s)'
    BY <2>1, KeysUnmoved DEF Filling
  <2>4. PlanFits'
    BY <2>1, <2>2, <2>3 DEF OtpInv, PlanFits
  <2> QED
    BY <2>1, <2>2, <2>4 DEF OtpInv
<1>3. CASE LockBoot
  BY <1>1, <1>3, Enters DEF LockBoot
<1>4. CASE NextStep
  <2>1. step + 1 \in 1..LastStep /\ Enter(step + 1) /\ Finished
    BY <1>1, <1>4 DEF NextStep, Finished
  <2>2. step + 1 = LastStep => HasKey
    BY <1>1, <2>1, KeyStepEnds
  <2> QED
    BY <2>1, <2>2, Enters
<1>5. CASE CPUReset \/ Refused \/ PowerLoss
  BY <1>5, Stops DEF CPUReset, Refused, PowerLoss, BreakOff
<1>6. CASE WriteRow
  BY <1>6, WriteStep
<1> QED
  BY <1>2, <1>3, <1>4, <1>5, <1>6 DEF Next

(* A slot that is marked valid in any copy holds all of the key, and one   *)
(* that came valid keeps what it held: WriteBootKey, through any number of *)
(* power losses, refusals and repetitions.                                 *)
THEOREM MarkedAlwaysWhole == Spec => []MarkedIsWhole
<1>1. Init => OtpInv
  BY OtpInit
<1>2. OtpInv /\ [Next]_vars => OtpInv'
  BY OtpNext
<1>3. OtpInv => MarkedIsWhole
  BY DEF OtpInv
<1> QED
  BY <1>1, <1>2, <1>3, PTL DEF Spec

(* All attempts spend one slot: the slot that holds part of the key is the *)
(* one AddBootKey chooses again.                                           *)
THEOREM OneSlotAlways == Spec => []OneSlotIsSpent
<1>1. Init => OtpInv
  BY OtpInit
<1>2. OtpInv /\ [Next]_vars => OtpInv'
  BY OtpNext
<1>3. OtpInv => OneSlotIsSpent
  BY DEF OtpInv, OneSlot
<1> QED
  BY <1>1, <1>2, <1>3, PTL DEF Spec

-----------------------------------------------------------------------------
(* A flag that is in one copy alone, in a history nobody broke off, is the *)
(* one being written; and a key is written before secure boot.             *)
UntornFits ==
  /\ ~torn => \A s \in Slots : Split(s) => /\ step = KeyStep /\ next = KeyRows + 2
                                           /\ plan = KeyWrites(s)
  /\ step = KeyStep /\ plan # <<>> => ~IsSecureBootEnabled

(* Steps that leave the boot flags alone leave what is split alone. *)
LEMMA SplitUnmoved ==
  ASSUME \A c \in BootCells : mem'[c] = mem[c]
  PROVE  \A s \in Slots : Split(s)' <=> Split(s)
<1>1. \A c \in Redundant : mem'[BootFlags(c)] = mem[BootFlags(c)]
  BY DEF BootCells
<1>2. \A s \in Slots : BootRomHas(ValidBit(s))' <=> BootRomHas(ValidBit(s))
  BY <1>1 DEF BootRomHas
<1>3. ReadOrRow(BootCells)' = ReadOrRow(BootCells)
  BY DEF ReadOrRow, BootCells, BootFlags
<1> QED
  BY <1>2, <1>3 DEF Split, Valid

LEMMA SecureUnmoved ==
  ASSUME \A c \in CritCells : mem'[c] = mem[c]
  PROVE  IsSecureBootEnabled' <=> IsSecureBootEnabled
<1> QED
  BY DEF IsSecureBootEnabled, ReadOrRow, CritCells, Crit

(* A step that is finished has left no flag in one copy. *)
LEMMA FinishedWhole ==
  ASSUME OtpInv, UntornFits, Finished, ~torn
  PROVE  \A s \in Slots : ~Split(s)
<1> SUFFICES ASSUME NEW s \in Slots, Split(s) PROVE FALSE
  OBVIOUS
<1>1. next = KeyRows + 2 /\ plan = KeyWrites(s)
  BY DEF UntornFits
<1>2. Len(plan) = KeyRows + 3 /\ KeyRows \in Nat
  BY <1>1, OtpAssumption DEF KeyWrites
<1> QED
  BY <1>1, <1>2 DEF Finished

LEMMA UntornEnters ==
  ASSUME OtpInv, UntornFits, NEW k \in 1..LastStep, Enter(k), ~torn => \A s \in Slots : ~Split(s)
  PROVE  UntornFits'
<1>1. Len(Labels) \in Nat /\ KeyStep = Len(Labels) + 2 /\ LastStep = Len(Labels) + 3
  BY OtpAssumption DEF KeyStep, LastStep
<1>2. UNCHANGED <<mem, found, torn>>
  BY DEF Enter
<1>3. ~torn' => \A s \in Slots : ~Split(s)'
  BY <1>2, SplitUnmoved
<1>4. step' = KeyStep /\ plan' # <<>> => ~IsSecureBootEnabled'
  <2> SUFFICES ASSUME step' = KeyStep, plan' # <<>> PROVE ~IsSecureBootEnabled'
    OBVIOUS
  <2>1. k = KeyStep /\ plan' \in Plans(k)
    BY <1>1 DEF Enter, Stop
  <2>2. ~HasKey
    BY <1>1, <2>1 DEF Plans
  <2> QED
    BY <1>2, <2>2, SecureUnmoved DEF OtpInv
<1> QED
  BY <1>3, <1>4 DEF UntornFits

(* A row is written: a flag row of the key's slot, or none at all. *)
LEMMA UntornWrites ==
  ASSUME OtpInv, UntornFits, WriteRow
  PROVE  UntornFits'
<1>1. /\ next' = next + 1 /\ UNCHANGED <<found, step, plan, torn>>
      /\ next \in 1..Len(plan) /\ KeyRows \in Nat
  BY OtpAssumption DEF WriteRow, OtpInv
<1>2. KeyStep # LastStep
  BY OtpAssumption DEF KeyStep, LastStep
<1>3. CASE step # KeyStep
  <2>1. plan[next].cell \notin BootCells
    <3>1. CASE step = LastStep
      <4>1. plan[next].cell \in CritCells
        BY <1>1, <1>2, <3>1, OtpAssumption DEF OtpInv, PlanFits, SecureWrites, CritCells, Or
      <4> QED
        BY <4>1, Apart DEF BootCells, CritCells
    <3>2. CASE step # LastStep
      BY <1>1, <1>3, <3>2 DEF OtpInv, PlanFits
    <3> QED
      BY <3>1, <3>2
  <2>2. \A c \in BootCells : mem'[c] = mem[c]
    BY <2>1, RowWritten, Apart
  <2>3. ~torn' => \A s \in Slots : ~Split(s)'
    BY <1>1, <1>3, <2>2, SplitUnmoved DEF UntornFits
  <2> QED
    BY <1>1, <1>3, <2>3 DEF UntornFits
<1>4. CASE step = KeyStep
  <2>1. PICK s \in Slots : plan = KeyWrites(s) /\ Filling(s)
    BY <1>1, <1>4 DEF OtpInv, PlanFits
  <2>2. Len(plan) = KeyRows + 3 /\ next \in 1..(KeyRows + 3)
    BY <1>1, <2>1 DEF KeyWrites
  <2>3. plan # <<>>
    BY <1>1, <2>2
  <2>4. CASE next <= KeyRows
    <3>1. plan[next].cell \in KeyCells
      BY <2>1, <2>2, <2>4 DEF KeyWrites, Ecc, KeyCells
    <3>2. plan[next].cell \notin BootCells /\ plan[next].cell \notin CritCells
      BY <3>1, Apart DEF KeyCells, BootCells, CritCells
    <3>3. (\A c \in BootCells : mem'[c] = mem[c]) /\ (\A c \in CritCells : mem'[c] = mem[c])
      BY <3>2, RowWritten, Apart
    <3>4. ~torn' => \A t \in Slots : ~Split(t)'
      BY <1>1, <2>4, <3>3, SplitUnmoved DEF UntornFits
    <3>5. ~IsSecureBootEnabled'
      BY <1>4, <2>3, <3>3, SecureUnmoved DEF UntornFits
    <3> QED
      BY <3>4, <3>5 DEF UntornFits
  <2>5. CASE next > KeyRows
    <3> DEFINE copy == next - KeyRows
    <3>1. copy \in Redundant /\ plan[next] = Or(BootFlags(copy), {ValidBit(s)})
      BY <1>1, <2>1, <2>2, <2>5 DEF KeyWrites, Redundant
    <3> HIDE DEF copy
    <3>2. /\ mem'[BootFlags(copy)] = mem[BootFlags(copy)] \cup {ValidBit(s)}
          /\ \A c \in Cells : c # BootFlags(copy) => mem'[c] = mem[c]
      BY <3>1, RowWritten, Apart DEF Or, BootCells
    <3>3. \A c \in CritCells : mem'[c] = mem[c]
      BY <3>2, Apart DEF CritCells
    <3>4. ~IsSecureBootEnabled'
      BY <1>4, <2>3, <3>3, SecureUnmoved DEF UntornFits
    <3>5. \A c \in Redundant : /\ BootFlags(c) \in Cells
                               /\ mem[BootFlags(c)] \subseteq mem'[BootFlags(c)]
                               /\ mem'[BootFlags(c)] \subseteq mem[BootFlags(c)] \cup {ValidBit(s)}
      <4>1. \A c \in Redundant : BootFlags(c) \in Cells
        BY Apart DEF BootCells
      <4>2. \A c \in Redundant : c = copy \/ BootFlags(c) # BootFlags(copy)
        BY Apart
      <4> QED
        BY <3>2, <4>1, <4>2
    <3>6. ASSUME NEW t \in Slots, t # s, Split(t)' PROVE Split(t)
      <4>1. ValidBit(t) # ValidBit(s)
        BY <3>6 DEF ValidBit
      <4>2. \A c \in Redundant : ValidBit(t) \in mem'[BootFlags(c)] <=> ValidBit(t) \in mem[BootFlags(c)]
        BY <3>5, <4>1
      <4>3. BootRomHas(ValidBit(t))' <=> BootRomHas(ValidBit(t))
        BY <4>2 DEF BootRomHas
      <4>4. Valid(t)' => Valid(t)
        BY <4>2 DEF Valid, ReadOrRow, BootCells
      <4> QED
        BY <3>6, <4>3, <4>4 DEF Split
    <3>7. ASSUME NEW t \in Slots, t # s, ~torn PROVE ~Split(t)
      <4>1. KeyWrites(t)[1] # KeyWrites(s)[1]
        BY <3>7, OtpAssumption DEF KeyWrites, Ecc, KeyCell
      <4> QED
        BY <2>1, <3>7, <4>1 DEF UntornFits
    <3>8. CASE next = KeyRows + 1
      BY <1>1, <1>4, <2>1, <3>4, <3>6, <3>7, <3>8 DEF UntornFits
    <3>9. CASE next > KeyRows + 1
      <4>1. ValidBit(s) \in mem[BootFlags(1)] /\ 1 \in Redundant /\ copy # 1
        BY <1>1, <2>1, <2>2, <3>9 DEF Filling, Redundant, copy
      <4>2. BootRomHas(ValidBit(s))'
        BY <3>1, <3>2, <3>5, <4>1 DEF BootRomHas
      <4>3. ~Split(s)'
        BY <4>2 DEF Split
      <4> QED
        BY <1>1, <3>4, <3>6, <3>7, <4>3 DEF UntornFits
    <3> QED
      BY <1>1, <2>5, <2>2, <3>8, <3>9
  <2> QED
    BY <1>1, <2>2, <2>4, <2>5
<1> QED
  BY <1>3, <1>4

LEMMA UntornNext ==
  ASSUME OtpInv, UntornFits, [Next]_vars
  PROVE  UntornFits'
<1>1. Len(Labels) \in Nat /\ KeyStep = Len(Labels) + 2 /\ LastStep = Len(Labels) + 3 /\ step \in Nat
  BY OtpAssumption DEF KeyStep, LastStep, OtpInv
<1>2. CASE UNCHANGED vars
  <2>1. UNCHANGED <<mem, found, step, plan, next, torn>>
    BY <1>2 DEF vars
  <2> QED
    BY <2>1, SplitUnmoved, SecureUnmoved DEF UntornFits
<1>3. CASE LockBoot
  <2>1. Enter(1) /\ 1 \in 1..LastStep /\ step # KeyStep
    BY <1>1, <1>3 DEF LockBoot
  <2> QED
    BY <2>1, UntornEnters DEF UntornFits
<1>4. CASE NextStep
  <2>1. step + 1 \in 1..LastStep /\ Enter(step + 1) /\ Finished
    BY <1>1, <1>4 DEF NextStep, Finished
  <2> QED
    BY <2>1, UntornEnters, FinishedWhole
<1>5. CASE CPUReset
  <2>1. ~torn => \A s \in Slots : ~Split(s)
    BY <1>5, FinishedWhole DEF CPUReset
  <2>2. step' = 0 /\ UNCHANGED <<mem, torn>>
    BY <1>5 DEF CPUReset, Stop
  <2> QED
    BY <1>1, <2>1, <2>2, SplitUnmoved DEF UntornFits
<1>6. CASE Refused \/ PowerLoss
  <2>1. step' = 0 /\ UNCHANGED mem /\ torn' = (torn \/ \E s \in Slots : Split(s))
    BY <1>6 DEF Refused, PowerLoss, BreakOff, Stop
  <2>2. ~torn' => \A s \in Slots : ~Split(s)'
    BY <2>1, SplitUnmoved
  <2> QED
    BY <1>1, <2>1, <2>2 DEF UntornFits
<1>7. CASE WriteRow
  BY <1>7, UntornWrites
<1> QED
  BY <1>2, <1>3, <1>4, <1>5, <1>6, <1>7 DEF Next

(* As long as no attempt was broken off with the flag in one copy, secure  *)
(* boot is enabled only when the boot ROM, which takes two of the three    *)
(* copies, will find our key: LockBoot.                                    *)
THEOREM UntornLockedBoots == Spec => []LockedBootsUnlessTorn
<1>1. Init => OtpInv /\ UntornFits
  <2> SUFFICES ASSUME Init PROVE OtpInv /\ UntornFits
    OBVIOUS
  <2>1. Len(Labels) \in Nat /\ step = 0 /\ torn = (\E s \in Slots : Split(s))
    BY OtpAssumption DEF Init
  <2>2. UntornFits
    BY <2>1 DEF UntornFits, KeyStep
  <2> QED
    BY <2>2, OtpInit
<1>2. OtpInv /\ UntornFits /\ [Next]_vars => OtpInv' /\ UntornFits'
  BY OtpNext, UntornNext
<1>3. OtpInv /\ UntornFits => LockedBootsUnlessTorn
  <2> SUFFICES ASSUME OtpInv, UntornFits, IsSecureBootEnabled, ~torn
               PROVE  \E s \in Slots : BootRomTakes(s)
    BY DEF LockedBootsUnlessTorn
  <2>1. PICK s \in Slots : Compatible(s) /\ Valid(s) /\ Whole(s)
    BY DEF OtpInv, HasKey
  <2>2. ~Split(s)
    <3> SUFFICES ASSUME Split(s) PROVE FALSE
      OBVIOUS
    <3>1. step = KeyStep /\ plan = KeyWrites(s)
      BY DEF UntornFits
    <3>2. plan # <<>>
      <4>1. Len(plan) = KeyRows + 3 /\ KeyRows \in Nat
        BY <3>1, OtpAssumption DEF KeyWrites
      <4> QED
        BY <4>1
    <3> QED
      BY <3>1, <3>2 DEF UntornFits
  <2>3. ~BootRomHas(InvalidBit(s))
    <3>1. \A c \in Redundant : InvalidBit(s) \notin mem[BootFlags(c)]
      BY <2>1 DEF Compatible, Invalid, ReadOrRow, BootCells
    <3> QED
      BY <3>1 DEF BootRomHas
  <2> QED
    BY <2>1, <2>2, <2>3 DEF Split, BootRomTakes
<1> QED
  BY <1>1, <1>2, <1>3, PTL DEF Spec

(* The powers of two an entry is made of. *)
LEMMA Powers ==
  /\ 2^0 = 1 /\ 2^1 = 2 /\ 2^2 = 4 /\ 2^3 = 8 /\ 2^4 = 16 /\ 2^5 = 32
  /\ 2^6 = 64 /\ 2^7 = 128 /\ 2^8 = 256 /\ 2^9 = 512 /\ 2^10 = 1024
  /\ 2^11 = 2048 /\ 2^12 = 4096 /\ 2^13 = 8192 /\ 2^14 = 16384 /\ 2^15 = 32768
OBVIOUS

(* Four digits at a time. *)
LEMMA FourDigits ==
  ASSUME NEW m \in Nat
  PROVE  (m % 2) + 2 * ((m \div 2) % 2) + 4 * ((m \div 4) % 2) + 8 * ((m \div 8) % 2) = m - 16 * (m \div 16)
<1>1. m = 2 * (m \div 2) + (m % 2)
  OBVIOUS
<1>2. m \div 2 = 2 * (m \div 4) + ((m \div 2) % 2)
  OBVIOUS
<1>3. m \div 4 = 2 * (m \div 8) + ((m \div 4) % 2)
  OBVIOUS
<1>4. m \div 8 = 2 * (m \div 16) + ((m \div 8) % 2)
  OBVIOUS
<1> QED
  BY <1>1, <1>2, <1>3, <1>4

(* The digits of an entry give back the entry. *)
LEMMA DigitsBack ==
  ASSUME NEW n \in Nat, n < 65536
  PROVE  BitsOf(n) \subseteq 0..15 /\ NumberOf(BitsOf(n)) = n
<1> DEFINE Digit(b) == IF b \in BitsOf(n) THEN 2^b ELSE 0
<1>1. Digit(0) = 1 * (n % 2)
  <2>1. 0 \in BitsOf(n) <=> n % 2 = 1
    BY Powers DEF BitsOf
  <2>2. n % 2 \in {0, 1}
    OBVIOUS
  <2> QED
    BY <2>1, <2>2, Powers
<1>2. Digit(1) = 2 * ((n \div 2) % 2)
  <2>1. 1 \in BitsOf(n) <=> (n \div 2) % 2 = 1
    BY Powers DEF BitsOf
  <2>2. (n \div 2) % 2 \in {0, 1}
    OBVIOUS
  <2> QED
    BY <2>1, <2>2, Powers
<1>3. Digit(2) = 4 * ((n \div 4) % 2)
  <2>1. 2 \in BitsOf(n) <=> (n \div 4) % 2 = 1
    BY Powers DEF BitsOf
  <2>2. (n \div 4) % 2 \in {0, 1}
    OBVIOUS
  <2> QED
    BY <2>1, <2>2, Powers
<1>4. Digit(3) = 8 * ((n \div 8) % 2)
  <2>1. 3 \in BitsOf(n) <=> (n \div 8) % 2 = 1
    BY Powers DEF BitsOf
  <2>2. (n \div 8) % 2 \in {0, 1}
    OBVIOUS
  <2> QED
    BY <2>1, <2>2, Powers
<1>5. Digit(4) = 16 * ((n \div 16) % 2)
  <2>1. 4 \in BitsOf(n) <=> (n \div 16) % 2 = 1
    BY Powers DEF BitsOf
  <2>2. (n \div 16) % 2 \in {0, 1}
    OBVIOUS
  <2> QED
    BY <2>1, <2>2, Powers
<1>6. Digit(5) = 32 * ((n \div 32) % 2)
  <2>1. 5 \in BitsOf(n) <=> (n \div 32) % 2 = 1
    BY Powers DEF BitsOf
  <2>2. (n \div 32) % 2 \in {0, 1}
    OBVIOUS
  <2> QED
    BY <2>1, <2>2, Powers
<1>7. Digit(6) = 64 * ((n \div 64) % 2)
  <2>1. 6 \in BitsOf(n) <=> (n \div 64) % 2 = 1
    BY Powers DEF BitsOf
  <2>2. (n \div 64) % 2 \in {0, 1}
    OBVIOUS
  <2> QED
    BY <2>1, <2>2, Powers
<1>8. Digit(7) = 128 * ((n \div 128) % 2)
  <2>1. 7 \in BitsOf(n) <=> (n \div 128) % 2 = 1
    BY Powers DEF BitsOf
  <2>2. (n \div 128) % 2 \in {0, 1}
    OBVIOUS
  <2> QED
    BY <2>1, <2>2, Powers
<1>9. Digit(8) = 256 * ((n \div 256) % 2)
  <2>1. 8 \in BitsOf(n) <=> (n \div 256) % 2 = 1
    BY Powers DEF BitsOf
  <2>2. (n \div 256) % 2 \in {0, 1}
    OBVIOUS
  <2> QED
    BY <2>1, <2>2, Powers
<1>10. Digit(9) = 512 * ((n \div 512) % 2)
  <2>1. 9 \in BitsOf(n) <=> (n \div 512) % 2 = 1
    BY Powers DEF BitsOf
  <2>2. (n \div 512) % 2 \in {0, 1}
    OBVIOUS
  <2> QED
    BY <2>1, <2>2, Powers
<1>11. Digit(10) = 1024 * ((n \div 1024) % 2)
  <2>1. 10 \in BitsOf(n) <=> (n \div 1024) % 2 = 1
    BY Powers DEF BitsOf
  <2>2. (n \div 1024) % 2 \in {0, 1}
    OBVIOUS
  <2> QED
    BY <2>1, <2>2, Powers
<1>12. Digit(11) = 2048 * ((n \div 2048) % 2)
  <2>1. 11 \in BitsOf(n) <=> (n \div 2048) % 2 = 1
    BY Powers DEF BitsOf
  <2>2. (n \div 2048) % 2 \in {0, 1}
    OBVIOUS
  <2> QED
    BY <2>1, <2>2, Powers
<1>13. Digit(12) = 4096 * ((n \div 4096) % 2)
  <2>1. 12 \in BitsOf(n) <=> (n \div 4096) % 2 = 1
    BY Powers DEF BitsOf
  <2>2. (n \div 4096) % 2 \in {0, 1}
    OBVIOUS
  <2> QED
    BY <2>1, <2>2, Powers
<1>14. Digit(13) = 8192 * ((n \div 8192) % 2)
  <2>1. 13 \in BitsOf(n) <=> (n \div 8192) % 2 = 1
    BY Powers DEF BitsOf
  <2>2. (n \div 8192) % 2 \in {0, 1}
    OBVIOUS
  <2> QED
    BY <2>1, <2>2, Powers
<1>15. Digit(14) = 16384 * ((n \div 16384) % 2)
  <2>1. 14 \in BitsOf(n) <=> (n \div 16384) % 2 = 1
    BY Powers DEF BitsOf
  <2>2. (n \div 16384) % 2 \in {0, 1}
    OBVIOUS
  <2> QED
    BY <2>1, <2>2, Powers
<1>16. Digit(15) = 32768 * ((n \div 32768) % 2)
  <2>1. 15 \in BitsOf(n) <=> (n \div 32768) % 2 = 1
    BY Powers DEF BitsOf
  <2>2. (n \div 32768) % 2 \in {0, 1}
    OBVIOUS
  <2> QED
    BY <2>1, <2>2, Powers
<1>17. NumberOf(BitsOf(n)) =
          (Digit(0) + Digit(1) + Digit(2) + Digit(3)) + (Digit(4) + Digit(5) + Digit(6) + Digit(7))
            + (Digit(8) + Digit(9) + Digit(10) + Digit(11)) + (Digit(12) + Digit(13) + Digit(14) + Digit(15))
  BY DEF NumberOf
<1> HIDE DEF Digit
<1>18. Digit(0) + Digit(1) + Digit(2) + Digit(3) = n - 16 * (n \div 16)
  <2>3. 1 * (n % 2) + 2 * ((n \div 2) % 2) + 4 * ((n \div 4) % 2) + 8 * ((n \div 8) % 2) = n - 16 * (n \div 16)
    BY FourDigits
  <2> QED
    BY <2>3, <1>1, <1>2, <1>3, <1>4
<1>19. Digit(4) + Digit(5) + Digit(6) + Digit(7) = 16 * (n \div 16) - 256 * (n \div 256)
  <2>1. /\ n \div 16 \in Nat
        /\ (n \div 16) \div 2 = n \div 32 /\ (n \div 16) \div 4 = n \div 64
        /\ (n \div 16) \div 8 = n \div 128 /\ (n \div 16) \div 16 = n \div 256
    OBVIOUS
  <2>2. ((n \div 16) % 2) + 2 * ((n \div 32) % 2) + 4 * ((n \div 64) % 2) + 8 * ((n \div 128) % 2)
          = (n \div 16) - 16 * ((n \div 16) \div 16)
    BY <2>1, FourDigits
  <2>3. 16 * ((n \div 16) % 2) + 32 * ((n \div 32) % 2) + 64 * ((n \div 64) % 2) + 128 * ((n \div 128) % 2) = 16 * (n \div 16) - 256 * (n \div 256)
    BY <2>1, <2>2
  <2> QED
    BY <2>3, <1>5, <1>6, <1>7, <1>8
<1>20. Digit(8) + Digit(9) + Digit(10) + Digit(11) = 256 * (n \div 256) - 4096 * (n \div 4096)
  <2>1. /\ n \div 256 \in Nat
        /\ (n \div 256) \div 2 = n \div 512 /\ (n \div 256) \div 4 = n \div 1024
        /\ (n \div 256) \div 8 = n \div 2048 /\ (n \div 256) \div 16 = n \div 4096
    OBVIOUS
  <2>2. ((n \div 256) % 2) + 2 * ((n \div 512) % 2) + 4 * ((n \div 1024) % 2) + 8 * ((n \div 2048) % 2)
          = (n \div 256) - 16 * ((n \div 256) \div 16)
    BY <2>1, FourDigits
  <2>3. 256 * ((n \div 256) % 2) + 512 * ((n \div 512) % 2) + 1024 * ((n \div 1024) % 2) + 2048 * ((n \div 2048) % 2) = 256 * (n \div 256) - 4096 * (n \div 4096)
    BY <2>1, <2>2
  <2> QED
    BY <2>3, <1>9, <1>10, <1>11, <1>12
<1>21. Digit(12) + Digit(13) + Digit(14) + Digit(15) = 4096 * (n \div 4096)
  <2>1. /\ n \div 4096 \in Nat
        /\ (n \div 4096) \div 2 = n \div 8192 /\ (n \div 4096) \div 4 = n \div 16384
        /\ (n \div 4096) \div 8 = n \div 32768 /\ (n \div 4096) \div 16 = 0
    OBVIOUS
  <2>2. ((n \div 4096) % 2) + 2 * ((n \div 8192) % 2) + 4 * ((n \div 16384) % 2) + 8 * ((n \div 32768) % 2)
          = (n \div 4096) - 16 * ((n \div 4096) \div 16)
    BY <2>1, FourDigits
  <2>3. 4096 * ((n \div 4096) % 2) + 8192 * ((n \div 8192) % 2) + 16384 * ((n \div 16384) % 2) + 32768 * ((n \div 32768) % 2) = 4096 * (n \div 4096)
    BY <2>1, <2>2
  <2> QED
    BY <2>3, <1>13, <1>14, <1>15, <1>16
<1>22. NumberOf(BitsOf(n)) = n
  BY <1>17, <1>18, <1>19, <1>20, <1>21
<1>23. BitsOf(n) \subseteq 0..15
  BY DEF BitsOf
<1> QED
  BY <1>22, <1>23

(* An entry has sixteen bits. *)
LEMMA EntryIs ==
  ASSUME NEW bits
  PROVE  NumberOf(bits) \in Nat /\ NumberOf(bits) < 65536
<1> DEFINE Digit(b) == IF b \in bits THEN 2^b ELSE 0
<1>1. Digit(0) \in Nat /\ Digit(0) <= 1
  BY Powers
<1>2. Digit(1) \in Nat /\ Digit(1) <= 2
  BY Powers
<1>3. Digit(2) \in Nat /\ Digit(2) <= 4
  BY Powers
<1>4. Digit(3) \in Nat /\ Digit(3) <= 8
  BY Powers
<1>5. Digit(4) \in Nat /\ Digit(4) <= 16
  BY Powers
<1>6. Digit(5) \in Nat /\ Digit(5) <= 32
  BY Powers
<1>7. Digit(6) \in Nat /\ Digit(6) <= 64
  BY Powers
<1>8. Digit(7) \in Nat /\ Digit(7) <= 128
  BY Powers
<1>9. Digit(8) \in Nat /\ Digit(8) <= 256
  BY Powers
<1>10. Digit(9) \in Nat /\ Digit(9) <= 512
  BY Powers
<1>11. Digit(10) \in Nat /\ Digit(10) <= 1024
  BY Powers
<1>12. Digit(11) \in Nat /\ Digit(11) <= 2048
  BY Powers
<1>13. Digit(12) \in Nat /\ Digit(12) <= 4096
  BY Powers
<1>14. Digit(13) \in Nat /\ Digit(13) <= 8192
  BY Powers
<1>15. Digit(14) \in Nat /\ Digit(14) <= 16384
  BY Powers
<1>16. Digit(15) \in Nat /\ Digit(15) <= 32768
  BY Powers
<1>17. NumberOf(bits) =
          (Digit(0) + Digit(1) + Digit(2) + Digit(3)) + (Digit(4) + Digit(5) + Digit(6) + Digit(7))
            + (Digit(8) + Digit(9) + Digit(10) + Digit(11)) + (Digit(12) + Digit(13) + Digit(14) + Digit(15))
  BY DEF NumberOf
<1> HIDE DEF Digit
<1>18. Digit(0) + Digit(1) + Digit(2) + Digit(3) \in Nat /\ Digit(0) + Digit(1) + Digit(2) + Digit(3) <= 15
  <2>1. \A a, b, c, d \in Nat : a <= 1 /\ b <= 2 /\ c <= 4 /\ d <= 8
          => a + b + c + d \in Nat /\ a + b + c + d <= 15
    OBVIOUS
  <2> QED
    BY <2>1, <1>1, <1>2, <1>3, <1>4
<1>19. Digit(4) + Digit(5) + Digit(6) + Digit(7) \in Nat /\ Digit(4) + Digit(5) + Digit(6) + Digit(7) <= 240
  <2>1. \A a, b, c, d \in Nat : a <= 16 /\ b <= 32 /\ c <= 64 /\ d <= 128
          => a + b + c + d \in Nat /\ a + b + c + d <= 240
    OBVIOUS
  <2> QED
    BY <2>1, <1>5, <1>6, <1>7, <1>8
<1>20. Digit(8) + Digit(9) + Digit(10) + Digit(11) \in Nat /\ Digit(8) + Digit(9) + Digit(10) + Digit(11) <= 3840
  <2>1. \A a, b, c, d \in Nat : a <= 256 /\ b <= 512 /\ c <= 1024 /\ d <= 2048
          => a + b + c + d \in Nat /\ a + b + c + d <= 3840
    OBVIOUS
  <2> QED
    BY <2>1, <1>9, <1>10, <1>11, <1>12
<1>21. Digit(12) + Digit(13) + Digit(14) + Digit(15) \in Nat /\ Digit(12) + Digit(13) + Digit(14) + Digit(15) <= 61440
  <2>1. \A a, b, c, d \in Nat : a <= 4096 /\ b <= 8192 /\ c <= 16384 /\ d <= 32768
          => a + b + c + d \in Nat /\ a + b + c + d <= 61440
    OBVIOUS
  <2> QED
    BY <2>1, <1>13, <1>14, <1>15, <1>16
<1>22. \A a, b, c, d \in Nat : a <= 15 /\ b <= 240 /\ c <= 3840 /\ d <= 61440
          => a + b + c + d \in Nat /\ a + b + c + d < 65536
  OBVIOUS
<1> QED
  BY <1>17, <1>18, <1>19, <1>20, <1>21, <1>22

(* The largest of some numbers with a bound. *)
LEMMA LargestElement ==
  ASSUME NEW S \in SUBSET Nat, S # {}, NEW B \in Nat, \A n \in S : n <= B
  PROVE  Max(S) \in S /\ \A k \in S : k <= Max(S)
<1> DEFINE Above == {n..B : n \in S}
<1>1. Above \subseteq FiniteSubsetsOf(Nat) /\ Above # {}
  <2>1. \A n \in S : IsFiniteSet(n..B) /\ (n..B) \in SUBSET Nat
    BY FS_Interval
  <2>2. \A n \in S : (n..B) \in FiniteSubsetsOf(Nat)
    BY <2>1 DEF FiniteSubsetsOf
  <2>3. PICK n \in S : TRUE
    OBVIOUS
  <2> QED
    BY <2>2, <2>3
<1>2. \E x \in Above : \A y \in Above : <<y, x>> \notin StrictSubsetOrdering(Nat)
  <2> HIDE DEF Above
  <2> QED
    BY <1>1, FS_StrictSubsetOrderingWellFounded, WFMin
<1>3. PICK m \in S : \A k \in S : <<k..B, m..B>> \notin StrictSubsetOrdering(Nat)
  BY <1>2
<1>4. ASSUME NEW k \in S, k > m
      PROVE  FALSE
  <2> DEFINE small == k..B
             large == m..B
  <2>1. small \subseteq large /\ m \in large /\ m \notin small
    BY <1>4
  <2>2. small \in SUBSET Nat /\ large \in SUBSET Nat
    OBVIOUS
  <2>3. <<small, large>> \notin StrictSubsetOrdering(Nat)
    BY <1>3
  <2> HIDE DEF small, large
  <2> QED
    BY <2>1, <2>2, <2>3 DEF StrictSubsetOrdering
<1>5. \A k \in S : m >= k
  BY <1>4
<1> QED
  BY <1>5 DEF Max

-----------------------------------------------------------------------------
(* The writes of a label at a given offset. *)
LabelWritesAt(label, o) ==
  <<Ecc(Entry(label.idx), BitsOf(o * 256 + label.len))>>
    \o [k \in 1..Len(label.text) |-> Ecc(Text(o + k - 1), label.text[k])]
    \o [c \in Redundant |-> Or(UsbFlags(c), {label.idx, AddrValid})]

FlaggedIn(i) == \E c \in Redundant : i \in mem[UsbFlags(c)]

(* The entry of the label and its rows hold it, inside the user rows. *)
Holds(i) ==
  /\ Length(Labels[i].idx) = Labels[i].len
  /\ Offset(Labels[i].idx) + Len(Labels[i].text) < Space
  /\ \A k \in DOMAIN Labels[i].text : mem[Text(Offset(Labels[i].idx) + k - 1)] = Labels[i].text[k]

(* No copy of the flag comes before the label. *)
FlagsTell ==
  \A i \in DOMAIN Labels : FlaggedIn(Labels[i].idx) => Holds(i) /\ FlaggedIn(AddrValid)

(* What is flagged lies before the offset of the plan. *)
Below(i, o) ==
  \A j \in DOMAIN Labels : j # i /\ FlaggedIn(Labels[j].idx)
                             => Offset(Labels[j].idx) + Len(Labels[j].text) <= o

(* How far the label has come. *)
LabelFilling(i, o) ==
  /\ Below(i, o)
  /\ o + Len(Labels[i].text) < Space
  /\ next > 1 => mem[Entry(Labels[i].idx)] = BitsOf(o * 256 + Labels[i].len)
  /\ \A k \in DOMAIN Labels[i].text : next > k + 1 => mem[Text(o + k - 1)] = Labels[i].text[k]
  /\ next <= Len(Labels[i].text) + 2 => ~FlaggedIn(Labels[i].idx)

LabelPlan ==
  /\ step = 0 => plan = <<>>
  /\ step = 1 => plan = AddrWrites
  /\ step \in 2..(KeyStep - 1) =>
       plan = <<>> \/ \E o \in Nat : /\ o < 256 /\ plan = LabelWritesAt(Labels[step - 1], o)
                                     /\ LabelFilling(step - 1, o)
  /\ step = KeyStep => plan = <<>> \/ \E s \in Slots : plan = KeyWrites(s)
  /\ step = LastStep => plan = SecureWrites
  /\ step \in 0..LastStep

LabelInv == FlagsTell /\ LabelPlan

(* The offsets fit their byte: the code has no check. *)
OffsetFits == RowOffset < 256

-----------------------------------------------------------------------------
(* What the assumptions say of one label.                                  *)
LEMMA LabelFacts ==
  ASSUME NEW i \in DOMAIN Labels
  PROVE  /\ Labels[i].idx \in 0..(TableSize - 1) /\ Labels[i].idx # AddrValid /\ Labels[i].idx \in Nat
         /\ Labels[i].len \in Nat /\ Labels[i].len < 128
         /\ Len(Labels[i].text) \in Nat /\ Len(Labels[i].text) = (Labels[i].len + 1) \div 2
         /\ DOMAIN Labels[i].text = 1..Len(Labels[i].text)
         /\ Labels[i].text = [k \in 1..Len(Labels[i].text) |-> Labels[i].text[k]]
         /\ TableSize \in Nat /\ Space \in Nat /\ Len(Labels) \in Nat /\ DOMAIN Labels = 1..Len(Labels)
<1>1. Labels[i].idx \in 0..(TableSize - 1) /\ Labels[i].len \in Nat /\ TableSize \in Nat /\ Space \in Nat
  <2> DEFINE R == [idx : 0..(TableSize - 1), len : Nat, text : {Labels[j].text : j \in DOMAIN Labels}]
  <2>1. Labels \in Seq(R)
    BY OtpAssumption
  <2>2. Labels[i] \in R
    <3> HIDE DEF R
    <3> QED
      BY <2>1, ElementOfSeq
  <2> QED
    BY <2>2, OtpAssumption
<1>2. Len(Labels) \in Nat /\ DOMAIN Labels = 1..Len(Labels)
  BY OtpAssumption
<1>3. Labels[i].idx # AddrValid /\ Labels[i].idx \in Nat
  BY <1>1, LabelAssumption DEF AddrValid
<1>4. Labels[i].text \in Seq({Labels[i].text[k] : k \in DOMAIN Labels[i].text})
  BY LabelAssumption
<1>5. /\ Len(Labels[i].text) \in Nat /\ DOMAIN Labels[i].text = 1..Len(Labels[i].text)
      /\ Labels[i].text = [k \in 1..Len(Labels[i].text) |-> Labels[i].text[k]]
  BY <1>4
<1> QED
  BY <1>1, <1>2, <1>3, <1>5, LabelAssumption

(* Rows of the label table and of the strings are different rows. *)
LEMMA LabelRowsApart ==
  /\ \A i, j : Entry(i) = Entry(j) => i = j
  /\ \A i, j : Text(i) = Text(j) => i = j
  /\ \A i, j : UsbFlags(i) = UsbFlags(j) => i = j
  /\ \A i, j : Entry(i) # Text(j) /\ Entry(i) # UsbFlags(j) /\ Text(i) # UsbFlags(j)
  /\ \A i : Addr # Entry(i) /\ Addr # Text(i) /\ Addr # UsbFlags(i)
  /\ \A i, s, r : KeyCell(s, r) # Entry(i) /\ KeyCell(s, r) # Text(i) /\ KeyCell(s, r) # UsbFlags(i)
  /\ \A i, c : /\ BootFlags(c) # Entry(i) /\ BootFlags(c) # Text(i) /\ BootFlags(c) # UsbFlags(i)
               /\ Crit(c) # Entry(i) /\ Crit(c) # Text(i) /\ Crit(c) # UsbFlags(i)
  /\ \A i \in 0..(TableSize - 1) : Entry(i) \in Cells
  /\ \A r \in 0..Space : Text(r) \in Cells
  /\ \A c \in Redundant : UsbFlags(c) \in Cells
<1>1. /\ \A i, j : Entry(i) = Entry(j) => i = j
      /\ \A i, j : Text(i) = Text(j) => i = j
      /\ \A i, j : UsbFlags(i) = UsbFlags(j) => i = j
  BY DEF Entry, Text, UsbFlags
<1>2. /\ \A i, j : Entry(i) # Text(j) /\ Entry(i) # UsbFlags(j) /\ Text(i) # UsbFlags(j)
      /\ \A i : Addr # Entry(i) /\ Addr # Text(i) /\ Addr # UsbFlags(i)
  BY DEF Entry, Text, UsbFlags, Addr
<1>3. \A i, s, r : KeyCell(s, r) # Entry(i) /\ KeyCell(s, r) # Text(i) /\ KeyCell(s, r) # UsbFlags(i)
  BY DEF Entry, Text, UsbFlags, KeyCell
<1>4. \A i, c : /\ BootFlags(c) # Entry(i) /\ BootFlags(c) # Text(i) /\ BootFlags(c) # UsbFlags(i)
                /\ Crit(c) # Entry(i) /\ Crit(c) # Text(i) /\ Crit(c) # UsbFlags(i)
  BY DEF Entry, Text, UsbFlags, BootFlags, Crit
<1>5. /\ \A i \in 0..(TableSize - 1) : Entry(i) \in Cells
      /\ \A r \in 0..Space : Text(r) \in Cells
      /\ \A c \in Redundant : UsbFlags(c) \in Cells
  BY DEF Cells, LabelCells
<1> QED
  BY <1>1, <1>2, <1>3, <1>4, <1>5

(* What an entry says is short. *)
LEMMA EntrySays ==
  ASSUME NEW i
  PROVE  /\ Offset(i) \in Nat /\ Offset(i) < 256
         /\ Length(i) \in Nat /\ Length(i) < 128
         /\ End(i) \in Nat /\ End(i) <= 400 /\ Offset(i) + (Length(i) + 1) \div 2 <= End(i)
<1>1. NumberOf(mem[Entry(i)]) \in Nat /\ NumberOf(mem[Entry(i)]) < 65536
  BY EntryIs
<1>2. Offset(i) \in Nat /\ Offset(i) < 256 /\ Length(i) \in Nat /\ Length(i) < 128
  BY <1>1 DEF Offset, Length
<1>3. \/ End(i) = Offset(i) + (2 * Length(i) + 1) \div 2
      \/ End(i) = Offset(i) + (Length(i) + 1) \div 2
  BY DEF End
<1> QED
  BY <1>2, <1>3

(* A label is placed behind every label of the table. *)
LEMMA RowOffsetIs ==
  /\ RowOffset \in Nat
  /\ \A i \in 0..(TableSize - 1) : End(i) <= RowOffset
<1> DEFINE S == {TableSize} \cup {End(i) : i \in 0..(TableSize - 1)}
           B == TableSize + 400
<1>1. TableSize \in Nat /\ B \in Nat
  BY OtpAssumption
<1>2. S \in SUBSET Nat /\ S # {} /\ \A n \in S : n <= B
  BY <1>1, EntrySays
<1>3. RowOffset = Max(S)
  BY DEF RowOffset
<1> HIDE DEF B
<1>4. Max(S) \in S /\ \A k \in S : k <= Max(S)
  <2> HIDE DEF S
  <2> QED
    BY <1>1, <1>2, LargestElement
<1> QED
  BY <1>2, <1>3, <1>4

(* Three sequences in a row. *)
LEMMA ThreeParts ==
  ASSUME NEW W, NEW a \in Seq(W), NEW b \in Seq(W), NEW c \in Seq(W)
  PROVE  /\ Len(a \o b \o c) = Len(a) + Len(b) + Len(c)
         /\ \A k \in 1..Len(a) : (a \o b \o c)[k] = a[k]
         /\ \A k \in 1..Len(b) : (a \o b \o c)[Len(a) + k] = b[k]
         /\ \A k \in 1..Len(c) : (a \o b \o c)[Len(a) + Len(b) + k] = c[k]
<1>1. Len(a) \in Nat /\ Len(b) \in Nat /\ Len(c) \in Nat
  BY LenProperties
<1>2. /\ a \o b \in Seq(W) /\ Len(a \o b) = Len(a) + Len(b)
      /\ \A k \in 1..(Len(a) + Len(b)) : (a \o b)[k] = IF k <= Len(a) THEN a[k] ELSE b[k - Len(a)]
  BY ConcatProperties
<1> DEFINE ab == a \o b
<1>3. /\ Len(ab \o c) = Len(ab) + Len(c)
      /\ \A k \in 1..(Len(ab) + Len(c)) : (ab \o c)[k] = IF k <= Len(ab) THEN ab[k] ELSE c[k - Len(ab)]
  <2>1. ab \in Seq(W)
    BY <1>2
  <2> HIDE DEF ab
  <2> QED
    BY <2>1, ConcatProperties
<1>4. Len(ab) = Len(a) + Len(b)
  BY <1>2
<1>5. \A k \in 1..Len(a) : (ab \o c)[k] = a[k]
  BY <1>1, <1>2, <1>3, <1>4
<1>6. \A k \in 1..Len(b) : (ab \o c)[Len(a) + k] = b[k]
  <2> SUFFICES ASSUME NEW k \in 1..Len(b) PROVE (ab \o c)[Len(a) + k] = b[k]
    OBVIOUS
  <2>1. Len(a) + k \in 1..(Len(a) + Len(b)) /\ ~(Len(a) + k <= Len(a)) /\ (Len(a) + k) - Len(a) = k
    BY <1>1
  <2>2. ab[Len(a) + k] = b[k]
    BY <1>2, <2>1
  <2>3. Len(a) + k \in 1..(Len(ab) + Len(c)) /\ Len(a) + k <= Len(ab)
    BY <1>1, <1>4, <2>1
  <2> QED
    BY <1>3, <2>2, <2>3
<1>7. \A k \in 1..Len(c) : (ab \o c)[Len(a) + Len(b) + k] = c[k]
  <2> SUFFICES ASSUME NEW k \in 1..Len(c) PROVE (ab \o c)[Len(a) + Len(b) + k] = c[k]
    OBVIOUS
  <2>1. /\ Len(a) + Len(b) + k \in 1..(Len(ab) + Len(c)) /\ ~(Len(a) + Len(b) + k <= Len(ab))
        /\ (Len(a) + Len(b) + k) - Len(ab) = k
    BY <1>1, <1>4
  <2> QED
    BY <1>3, <2>1
<1>8. Len(ab \o c) = Len(a) + Len(b) + Len(c)
  BY <1>3, <1>4
<1> QED
  BY <1>5, <1>6, <1>7, <1>8

(* The writes of a label, one by one. *)
LEMMA LabelRows ==
  ASSUME NEW i \in DOMAIN Labels, NEW o \in Nat
  PROVE  /\ Len(LabelWritesAt(Labels[i], o)) = Len(Labels[i].text) + 4
         /\ LabelWritesAt(Labels[i], o)[1] = Ecc(Entry(Labels[i].idx), BitsOf(o * 256 + Labels[i].len))
         /\ \A k \in 1..Len(Labels[i].text) :
              LabelWritesAt(Labels[i], o)[k + 1] = Ecc(Text(o + k - 1), Labels[i].text[k])
         /\ \A c \in Redundant : LabelWritesAt(Labels[i], o)[Len(Labels[i].text) + 1 + c]
                                   = Or(UsbFlags(c), {Labels[i].idx, AddrValid})
<1> DEFINE label == Labels[i]
           n == Len(label.text)
           a == <<Ecc(Entry(label.idx), BitsOf(o * 256 + label.len))>>
           b == [k \in 1..n |-> Ecc(Text(o + k - 1), label.text[k])]
           c == [k \in Redundant |-> Or(UsbFlags(k), {label.idx, AddrValid})]
           W == {a[1]} \cup {b[k] : k \in 1..n} \cup {c[k] : k \in Redundant}
<1>1. n \in Nat
  BY LabelFacts
<1>2. a \in Seq(W) /\ b \in Seq(W) /\ c \in Seq(W) /\ Len(a) = 1 /\ Len(b) = n /\ Len(c) = 3
  BY <1>1 DEF Redundant
<1>3. LabelWritesAt(label, o) = a \o b \o c
  BY DEF LabelWritesAt
<1>4. /\ a[1] = Ecc(Entry(label.idx), BitsOf(o * 256 + label.len))
      /\ \A k \in 1..n : b[k] = Ecc(Text(o + k - 1), label.text[k])
      /\ \A k \in 1..3 : c[k] = Or(UsbFlags(k), {label.idx, AddrValid})
  BY DEF Redundant
<1> HIDE DEF a, b, c, W
<1>5. /\ Len(a \o b \o c) = 1 + n + 3
      /\ \A k \in 1..1 : (a \o b \o c)[k] = a[k]
      /\ \A k \in 1..n : (a \o b \o c)[1 + k] = b[k]
      /\ \A k \in 1..3 : (a \o b \o c)[1 + n + k] = c[k]
  <2>1. /\ Len(a \o b \o c) = Len(a) + Len(b) + Len(c)
        /\ \A k \in 1..Len(a) : (a \o b \o c)[k] = a[k]
        /\ \A k \in 1..Len(b) : (a \o b \o c)[Len(a) + k] = b[k]
        /\ \A k \in 1..Len(c) : (a \o b \o c)[Len(a) + Len(b) + k] = c[k]
    <3>1. a \in Seq(W) /\ b \in Seq(W) /\ c \in Seq(W)
      BY <1>2
    <3> QED
      BY <3>1, ThreeParts
  <2>2. Len(a) = 1 /\ Len(b) = n /\ Len(c) = 3
    BY <1>2
  <2> QED
    BY <2>1, <2>2
<1>6. /\ 1 \in 1..1 /\ 1 + n + 3 = n + 4
      /\ \A k \in 1..n : 1 + k = k + 1
      /\ \A k \in 1..3 : 1 + n + k = n + 1 + k
  BY <1>1
<1>7. Redundant = 1..3
  BY DEF Redundant
<1> HIDE DEF n
<1>8. /\ Len(a \o b \o c) = n + 4
      /\ (a \o b \o c)[1] = a[1]
      /\ \A k \in 1..n : (a \o b \o c)[k + 1] = b[k]
      /\ \A k \in 1..3 : (a \o b \o c)[n + 1 + k] = c[k]
  BY <1>5, <1>6
<1> HIDE DEF label
<1>9. /\ Len(LabelWritesAt(label, o)) = n + 4
      /\ LabelWritesAt(label, o)[1] = Ecc(Entry(label.idx), BitsOf(o * 256 + label.len))
  BY <1>3, <1>4, <1>8
<1>10. \A k \in 1..n : LabelWritesAt(label, o)[k + 1] = Ecc(Text(o + k - 1), label.text[k])
  BY ZenonT(30), <1>3, <1>4, <1>8
<1>11. \A k \in Redundant : LabelWritesAt(label, o)[n + 1 + k] = Or(UsbFlags(k), {label.idx, AddrValid})
  BY ZenonT(30), <1>3, <1>4, <1>7, <1>8
<1> QED
  BY <1>9, <1>10, <1>11 DEF n, label

-----------------------------------------------------------------------------
(* An entry that is left alone says the same. *)
LEMMA EntryStays ==
  ASSUME NEW i, mem'[Entry(i)] = mem[Entry(i)]
  PROVE  Offset(i)' = Offset(i) /\ Length(i)' = Length(i)
<1> QED
  BY DEF Offset, Length

(* A label whose entry and rows are left alone stays. *)
LEMMA HoldsStays ==
  ASSUME NEW i \in DOMAIN Labels, Holds(i), mem'[Entry(Labels[i].idx)] = mem[Entry(Labels[i].idx)],
         \A r \in Nat : r < Offset(Labels[i].idx) + Len(Labels[i].text) => mem'[Text(r)] = mem[Text(r)]
  PROVE  Holds(i)'
<1> DEFINE e == Labels[i].idx
           n == Len(Labels[i].text)
<1>1. Offset(e)' = Offset(e) /\ Length(e)' = Length(e)
  BY EntryStays
<1>2. Offset(e) \in Nat /\ n \in Nat /\ DOMAIN Labels[i].text = 1..n
  BY EntrySays, LabelFacts
<1>3. ASSUME NEW k \in 1..n PROVE mem'[Text(Offset(e) + k - 1)] = Labels[i].text[k]
  <2>1. Offset(e) + k - 1 \in Nat /\ Offset(e) + k - 1 < Offset(e) + n
    BY <1>2
  <2>2. mem'[Text(Offset(e) + k - 1)] = mem[Text(Offset(e) + k - 1)]
    BY <2>1
  <2> QED
    BY <1>2, <2>2 DEF Holds
<1>4. /\ Length(e) = Labels[i].len /\ Offset(e) + n < Space
  BY DEF Holds
<1> HIDE DEF e, n
<1>5. /\ Length(e)' = Labels[i].len
      /\ Offset(e)' + n < Space
      /\ \A k \in DOMAIN Labels[i].text : mem'[Text(Offset(e)' + k - 1)] = Labels[i].text[k]
  BY <1>1, <1>2, <1>3, <1>4
<1> QED
  BY <1>5 DEF Holds, e, n

(* Where no label row moves, every label stays. *)
LEMMA LabelsUnmoved ==
  ASSUME FlagsTell,
         \A i \in 0..(TableSize - 1) : mem'[Entry(i)] = mem[Entry(i)],
         \A r \in 0..Space : mem'[Text(r)] = mem[Text(r)],
         \A c \in Redundant : mem'[UsbFlags(c)] = mem[UsbFlags(c)]
  PROVE  FlagsTell'
<1>1. \A i : FlaggedIn(i)' <=> FlaggedIn(i)
  BY DEF FlaggedIn
<1>2. ASSUME NEW i \in DOMAIN Labels, FlaggedIn(Labels[i].idx)'
      PROVE  Holds(i)' /\ FlaggedIn(AddrValid)'
  <2>1. Holds(i) /\ FlaggedIn(AddrValid)
    BY <1>1, <1>2 DEF FlagsTell
  <2>2. mem'[Entry(Labels[i].idx)] = mem[Entry(Labels[i].idx)]
    BY LabelFacts
  <2>3. \A r \in Nat : r < Offset(Labels[i].idx) + Len(Labels[i].text) => mem'[Text(r)] = mem[Text(r)]
    <3>1. /\ Offset(Labels[i].idx) \in Nat /\ Len(Labels[i].text) \in Nat /\ Space \in Nat
          /\ Offset(Labels[i].idx) + Len(Labels[i].text) < Space
      BY <2>1, EntrySays, LabelFacts DEF Holds
    <3>2. \A r \in Nat : r < Offset(Labels[i].idx) + Len(Labels[i].text) => r \in 0..Space
      BY <3>1
    <3> QED
      BY <3>2
  <2> QED
    BY <1>1, <2>1, <2>2, <2>3, HoldsStays
<1> QED
  BY <1>2 DEF FlagsTell

(* What is marked can be read back. *)
LEMMA MarkedReads ==
  ASSUME FlagsTell
  PROVE  MarkedLabelIsWhole /\ \A i \in DOMAIN Labels : FlaggedIn(Labels[i].idx) => Written(Labels[i])
<1>1. ASSUME NEW i \in DOMAIN Labels, FlaggedIn(Labels[i].idx)
      PROVE  Written(Labels[i])
  <2> DEFINE e == Labels[i].idx
             n == Len(Labels[i].text)
  <2>1. Holds(i) /\ FlaggedIn(AddrValid)
    BY <1>1 DEF FlagsTell
  <2>2. Marked(e)
    BY <1>1, <2>1 DEF Marked, FlaggedIn, ReadOrRow
  <2>3. Length(e) = Labels[i].len /\ (Length(e) + 1) \div 2 = n
    BY <2>1, LabelFacts DEF Holds
  <2>4. TextAt(e) = Labels[i].text
    <3>1. \A k \in 1..n : mem[Text(Offset(e) + k - 1)] = Labels[i].text[k]
      BY <2>1, LabelFacts DEF Holds
    <3>2. [k \in 1..n |-> mem[Text(Offset(e) + k - 1)]] = [k \in 1..n |-> Labels[i].text[k]]
      BY <3>1
    <3>3. Labels[i].text = [k \in 1..n |-> Labels[i].text[k]]
      BY LabelFacts
    <3> QED
      BY <2>3, <3>2, <3>3 DEF TextAt
  <2> QED
    BY <2>2, <2>3, <2>4 DEF Written, ReadLabel
<1>2. \A i \in DOMAIN Labels : Marked(Labels[i].idx) => FlaggedIn(Labels[i].idx)
  BY DEF Marked, FlaggedIn, ReadOrRow
<1> QED
  BY <1>1, <1>2 DEF MarkedLabelIsWhole

-----------------------------------------------------------------------------
(* No label is flagged and none is planned at first.                       *)
LEMMA LabelInit ==
  ASSUME Init
  PROVE  LabelInv
<1>1. mem \in Memories /\ step = 0 /\ plan = <<>> /\ Len(Labels) \in Nat
  BY OtpAssumption DEF Init
<1>2. \A i \in DOMAIN Labels : ~FlaggedIn(Labels[i].idx)
  BY <1>1, LabelAssumption DEF FlaggedIn
<1> QED
  BY <1>1, <1>2 DEF LabelInv, FlagsTell, LabelPlan, KeyStep, LastStep

(* Where LockBoot ends, labels stay and nothing is planned.                *)
LEMMA LabelStops ==
  ASSUME LabelInv, Stop, UNCHANGED mem
  PROVE  LabelInv'
<1>1. FlagsTell'
  BY LabelsUnmoved DEF LabelInv
<1>2. Len(Labels) \in Nat
  BY OtpAssumption
<1>3. LabelPlan'
  BY <1>2 DEF Stop, LabelPlan, KeyStep, LastStep
<1> QED
  BY <1>1, <1>3 DEF LabelInv

(* The plan for a label begins behind every other one. *)
LEMMA LabelBegins ==
  ASSUME FlagsTell, OffsetFits, NEW i \in DOMAIN Labels, ~Written(Labels[i]), LabelFits(Labels[i]),
         next' = 1, UNCHANGED mem
  PROVE  \E o \in Nat : /\ o < 256 /\ LabelWrites(Labels[i]) = LabelWritesAt(Labels[i], o)
                        /\ LabelFilling(i, o)'
<1>0. PICK o \in Nat : o = RowOffset
  BY RowOffsetIs
<1>1. o \in Nat /\ o < 256
  BY <1>0 DEF OffsetFits
<1>2. Labels[i].len \in Nat /\ Labels[i].len < 128
  BY LabelFacts
<1>3. (o * 256 + Labels[i].len) % 2^16 = o * 256 + Labels[i].len
  <2>1. 2^16 = 65536
    OBVIOUS
  <2>2. o * 256 + Labels[i].len \in Nat /\ o * 256 + Labels[i].len < 65536
    BY <1>1, <1>2
  <2>3. \A m \in Nat : m < 65536 => m % 65536 = m
    OBVIOUS
  <2> QED
    BY <2>1, <2>2, <2>3
<1>4. LabelWrites(Labels[i]) = LabelWritesAt(Labels[i], o)
  BY <1>0, <1>3 DEF LabelWrites, LabelWritesAt
<1>5. ~FlaggedIn(Labels[i].idx)
  BY MarkedReads
<1>6. Below(i, o)
  <2> SUFFICES ASSUME NEW j \in DOMAIN Labels, FlaggedIn(Labels[j].idx)
               PROVE  Offset(Labels[j].idx) + Len(Labels[j].text) <= o
    BY DEF Below
  <2> DEFINE e == Labels[j].idx
  <2>1. Length(e) = Labels[j].len
    BY DEF FlagsTell, Holds
  <2>2. (Length(e) + 1) \div 2 = Len(Labels[j].text) /\ Len(Labels[j].text) \in Nat /\ e \in 0..(TableSize - 1)
    BY <2>1, LabelFacts
  <2>3. End(e) <= o
    BY <1>0, <2>2, RowOffsetIs
  <2>4. Offset(e) + (Length(e) + 1) \div 2 <= End(e) /\ End(e) \in Nat /\ Offset(e) \in Nat
    BY EntrySays
  <2> QED
    BY <1>1, <2>2, <2>3, <2>4
<1>7. o + Len(Labels[i].text) < Space
  BY <1>0 DEF LabelFits
<1>8. DOMAIN Labels[i].text = 1..Len(Labels[i].text) /\ Len(Labels[i].text) \in Nat
  BY LabelFacts
<1>9. Below(i, o)' /\ ~FlaggedIn(Labels[i].idx)'
  BY <1>5, <1>6 DEF Below, FlaggedIn, Offset
<1>10. LabelFilling(i, o)'
  BY <1>7, <1>8, <1>9 DEF LabelFilling
<1> QED
  BY <1>1, <1>4, <1>10

(* A step of LockBoot begins with its plan.                                *)
LEMMA LabelEnters ==
  ASSUME LabelInv, OffsetFits, NEW k \in 1..LastStep, Enter(k)
  PROVE  LabelInv'
<1>1. Len(Labels) \in Nat /\ KeyStep = Len(Labels) + 2 /\ LastStep = Len(Labels) + 3
  BY OtpAssumption DEF KeyStep, LastStep
<1>2. UNCHANGED mem
  BY DEF Enter
<1>3. CASE Plans(k) = {} /\ Stop
  BY <1>2, <1>3, LabelStops
<1>4. CASE plan' \in Plans(k) /\ step' = k /\ next' = 1
  <2>1. FlagsTell'
    BY <1>2, LabelsUnmoved DEF LabelInv
  <2>2. CASE k = 1
    <3>1. plan' = AddrWrites
      BY <1>4, <2>2 DEF Plans
    <3> QED
      BY <1>1, <1>4, <2>1, <2>2, <3>1 DEF LabelInv, LabelPlan
  <2>3. CASE k > 1 /\ k < KeyStep
    <3>1. k - 1 \in DOMAIN Labels
      BY <1>1, <2>3, OtpAssumption
    <3>2. \/ plan' = <<>>
          \/ /\ ~Written(Labels[k - 1]) /\ LabelFits(Labels[k - 1])
             /\ plan' = LabelWrites(Labels[k - 1])
      BY <1>1, <1>4, <2>3 DEF Plans
    <3>3. plan' = <<>> \/ \E o \in Nat : /\ o < 256 /\ plan' = LabelWritesAt(Labels[k - 1], o)
                                         /\ LabelFilling(k - 1, o)'
      BY <1>2, <1>4, <3>1, <3>2, LabelBegins DEF LabelInv
    <3> QED
      BY <1>1, <1>4, <2>1, <2>3, <3>3 DEF LabelInv, LabelPlan
  <2>4. CASE k = KeyStep
    <3>1. plan' = <<>> \/ \E s \in Slots : plan' = KeyWrites(s)
      BY <1>1, <1>4, <2>4 DEF Plans
    <3> QED
      BY <1>1, <1>4, <2>1, <2>4, <3>1 DEF LabelInv, LabelPlan
  <2>5. CASE k = LastStep
    <3>1. plan' = SecureWrites
      BY <1>1, <1>4, <2>5 DEF Plans
    <3> QED
      BY <1>1, <1>4, <2>1, <2>5, <3>1 DEF LabelInv, LabelPlan
  <2> QED
    BY <1>1, <2>2, <2>3, <2>4, <2>5
<1> QED
  BY <1>3, <1>4 DEF Enter

(* A write to another kind of row moves no label. *)
LEMMA OtherRowStep ==
  ASSUME OtpInv, LabelInv, WriteRow, step \notin 2..(KeyStep - 1)
  PROVE  LabelInv'
<1>1. Len(Labels) \in Nat /\ KeyStep = Len(Labels) + 2 /\ LastStep = Len(Labels) + 3 /\ step \in 0..LastStep
  BY OtpAssumption DEF KeyStep, LastStep, LabelInv, LabelPlan
<1>2. next \in 1..Len(plan) /\ step > 0 /\ UNCHANGED <<step, plan>>
  BY DEF WriteRow, OtpInv
<1> DEFINE cell == plan[next].cell
<1>3. /\ \A i : cell # Entry(i) /\ cell # Text(i) /\ cell # UsbFlags(i)
  <2>1. CASE step = 1
    <3>1. plan = <<Ecc(Addr, BitsOf(FirstUserRow))>>
      BY <2>1 DEF LabelInv, LabelPlan, AddrWrites
    <3>2. cell = Addr
      BY <1>2, <3>1 DEF Ecc
    <3> QED
      BY <3>2, LabelRowsApart
  <2>2. CASE step = KeyStep
    <3>1. plan # <<>>
      BY <1>2
    <3>2. PICK s \in Slots : plan = KeyWrites(s)
      BY <2>2, <3>1 DEF LabelInv, LabelPlan
    <3>3. KeyRows \in Nat
      BY OtpAssumption
    <3>4. next \in 1..(KeyRows + 3)
      BY <1>2, <3>2, <3>3 DEF KeyWrites
    <3>5. cell = KeyCell(s, next) \/ cell = BootFlags(next - KeyRows)
      BY <3>2, <3>4 DEF KeyWrites, Ecc, Or
    <3> QED
      BY <3>5, LabelRowsApart
  <2>3. CASE step = LastStep
    <3>1. plan = SecureWrites /\ Copies \in Nat
      BY <2>3, OtpAssumption DEF LabelInv, LabelPlan
    <3>2. cell = Crit(next)
      BY <1>2, <3>1 DEF SecureWrites, Or
    <3> QED
      BY <3>2, LabelRowsApart
  <2> QED
    BY <1>1, <1>2, <2>1, <2>2, <2>3
<1> HIDE DEF cell
<1>4. \A c \in Cells : c # cell => mem'[c] = mem[c]
  BY RowWritten DEF cell
<1>5. /\ \A i \in 0..(TableSize - 1) : mem'[Entry(i)] = mem[Entry(i)]
      /\ \A r \in 0..Space : mem'[Text(r)] = mem[Text(r)]
      /\ \A c \in Redundant : mem'[UsbFlags(c)] = mem[UsbFlags(c)]
  BY <1>3, <1>4, LabelRowsApart
<1>6. FlagsTell'
  BY <1>5, LabelsUnmoved DEF LabelInv
<1>7. LabelPlan'
  BY <1>1, <1>2 DEF LabelInv, LabelPlan
<1> QED
  BY <1>6, <1>7 DEF LabelInv

(* The entry of a label, before any flag of it. *)
LEMMA EntryStep ==
  ASSUME OtpInv, FlagsTell, WriteRow, NEW i \in DOMAIN Labels, NEW o \in Nat, o < 256,
         plan = LabelWritesAt(Labels[i], o), LabelFilling(i, o), next = 1
  PROVE  FlagsTell' /\ LabelFilling(i, o)'
<1> DEFINE e == Labels[i].idx
           bits == BitsOf(o * 256 + Labels[i].len)
<1>1. /\ Len(Labels[i].text) \in Nat /\ DOMAIN Labels[i].text = 1..Len(Labels[i].text)
      /\ e \in 0..(TableSize - 1) /\ Space \in Nat
  BY LabelFacts
<1>2. plan[next].cell = Entry(e) /\ plan[next].bits = bits /\ plan[next].ecc
  <2>1. plan[1] = Ecc(Entry(e), bits)
    BY ZenonT(30), LabelRows
  <2> QED
    BY <2>1 DEF Ecc
<1>3. ~FlaggedIn(e) /\ Below(i, o) /\ o + Len(Labels[i].text) < Space
  BY <1>1 DEF LabelFilling
<1> HIDE DEF bits
<1>4. /\ mem'[Entry(e)] = bits
      /\ \A c \in Cells : c # Entry(e) => mem'[c] = mem[c]
  <2>1. mem[Entry(e)] \subseteq bits
    BY <1>2 DEF WriteRow, Burns
  <2>2. mem[Entry(e)] \cup bits = bits
    BY <2>1
  <2> QED
    BY <1>1, <1>2, <2>2, RowWritten, LabelRowsApart
<1>5. next' = 2
  BY DEF WriteRow
<1>6. /\ \A c \in Redundant : mem'[UsbFlags(c)] = mem[UsbFlags(c)]
      /\ \A r \in 0..Space : mem'[Text(r)] = mem[Text(r)]
      /\ \A d \in 0..(TableSize - 1) : d # e => mem'[Entry(d)] = mem[Entry(d)]
  BY <1>4, LabelRowsApart
<1>7. \A d : FlaggedIn(d)' <=> FlaggedIn(d)
  BY <1>6 DEF FlaggedIn
<1>8. ASSUME NEW j \in DOMAIN Labels, FlaggedIn(Labels[j].idx)
      PROVE  Holds(j)' /\ FlaggedIn(AddrValid)' /\ Offset(Labels[j].idx)' = Offset(Labels[j].idx)
  <2>1. Holds(j) /\ FlaggedIn(AddrValid) /\ Labels[j].idx # e
    BY <1>3, <1>8 DEF FlagsTell
  <2>2. mem'[Entry(Labels[j].idx)] = mem[Entry(Labels[j].idx)]
    BY <1>6, <2>1, LabelFacts
  <2>3. \A r \in Nat : r < Offset(Labels[j].idx) + Len(Labels[j].text) => mem'[Text(r)] = mem[Text(r)]
    <3>1. /\ Offset(Labels[j].idx) \in Nat /\ Len(Labels[j].text) \in Nat
          /\ Offset(Labels[j].idx) + Len(Labels[j].text) < Space
      BY <2>1, EntrySays, LabelFacts DEF Holds
    <3>2. \A r \in Nat : r < Offset(Labels[j].idx) + Len(Labels[j].text) => r \in 0..Space
      BY <1>1, <3>1
    <3> QED
      BY <1>6, <3>2
  <2> QED
    BY <1>7, <2>1, <2>2, <2>3, HoldsStays, EntryStays
<1>9. FlagsTell'
  BY <1>7, <1>8 DEF FlagsTell
<1>10. Below(i, o)'
  BY <1>3, <1>7, <1>8 DEF Below
<1>11. LabelFilling(i, o)'
  BY <1>1, <1>3, <1>4, <1>5, <1>7, <1>10 DEF LabelFilling, bits
<1> QED
  BY <1>9, <1>11

(* A row of its text. *)
LEMMA TextStep ==
  ASSUME OtpInv, FlagsTell, WriteRow, NEW i \in DOMAIN Labels, NEW o \in Nat, o < 256,
         plan = LabelWritesAt(Labels[i], o), LabelFilling(i, o),
         next > 1, next <= Len(Labels[i].text) + 1
  PROVE  FlagsTell' /\ LabelFilling(i, o)'
<1> DEFINE e == Labels[i].idx
           n == Len(Labels[i].text)
           q == next - 1
<1>1. /\ n \in Nat /\ DOMAIN Labels[i].text = 1..n
      /\ e \in 0..(TableSize - 1) /\ Space \in Nat
  BY LabelFacts
<1>2. next \in Nat /\ q \in 1..n /\ next = q + 1 /\ next' = q + 2
  BY SMTT(30), <1>1 DEF OtpInv, WriteRow
<1>3. plan[next].cell = Text(o + q - 1) /\ plan[next].bits = Labels[i].text[q] /\ plan[next].ecc
  <2>1. plan[q + 1] = Ecc(Text(o + q - 1), Labels[i].text[q])
    BY ZenonT(30), <1>2, LabelRows
  <2> QED
    BY <1>2, <2>1 DEF Ecc
<1>4. ~FlaggedIn(e) /\ Below(i, o) /\ o + n < Space
  BY <1>1, <1>2 DEF LabelFilling
<1>5. o + q - 1 \in 0..Space
  BY <1>1, <1>2, <1>4
<1>6. /\ mem'[Text(o + q - 1)] = Labels[i].text[q]
      /\ \A c \in Cells : c # Text(o + q - 1) => mem'[c] = mem[c]
  <2>1. mem[Text(o + q - 1)] \subseteq Labels[i].text[q]
    BY <1>3 DEF WriteRow, Burns
  <2>2. mem[Text(o + q - 1)] \cup Labels[i].text[q] = Labels[i].text[q]
    BY <2>1
  <2> QED
    BY <1>3, <1>5, <2>2, RowWritten, LabelRowsApart
<1>7. /\ \A c \in Redundant : mem'[UsbFlags(c)] = mem[UsbFlags(c)]
      /\ \A r \in 0..Space : r # o + q - 1 => mem'[Text(r)] = mem[Text(r)]
      /\ \A d \in 0..(TableSize - 1) : mem'[Entry(d)] = mem[Entry(d)]
  BY <1>6, LabelRowsApart
<1>8. \A d : FlaggedIn(d)' <=> FlaggedIn(d)
  BY <1>7 DEF FlaggedIn
<1>9. ASSUME NEW j \in DOMAIN Labels, FlaggedIn(Labels[j].idx)
      PROVE  Holds(j)' /\ FlaggedIn(AddrValid)' /\ Offset(Labels[j].idx)' = Offset(Labels[j].idx)
  <2>1. Holds(j) /\ FlaggedIn(AddrValid) /\ j # i
    BY <1>4, <1>9 DEF FlagsTell
  <2>2. mem'[Entry(Labels[j].idx)] = mem[Entry(Labels[j].idx)]
    BY <1>7, LabelFacts
  <2>3. \A r \in Nat : r < Offset(Labels[j].idx) + Len(Labels[j].text) => mem'[Text(r)] = mem[Text(r)]
    <3>1. /\ Offset(Labels[j].idx) \in Nat /\ Len(Labels[j].text) \in Nat
          /\ Offset(Labels[j].idx) + Len(Labels[j].text) < Space
          /\ Offset(Labels[j].idx) + Len(Labels[j].text) <= o
      BY <1>4, <1>9, <2>1, EntrySays, LabelFacts DEF Holds, Below
    <3>2. \A r \in Nat : r < Offset(Labels[j].idx) + Len(Labels[j].text) => r \in 0..Space /\ r # o + q - 1
      BY SMTT(30), <1>1, <1>2, <3>1
    <3> QED
      BY <1>7, <3>2
  <2> QED
    BY <1>8, <2>1, <2>2, <2>3, HoldsStays, EntryStays
<1>10. FlagsTell'
  BY <1>8, <1>9 DEF FlagsTell
<1>11. Below(i, o)'
  BY <1>4, <1>8, <1>9 DEF Below
<1>12. \A k \in 1..n : next' > k + 1 => mem'[Text(o + k - 1)] = Labels[i].text[k]
  <2> SUFFICES ASSUME NEW k \in 1..n, next' > k + 1 PROVE mem'[Text(o + k - 1)] = Labels[i].text[k]
    OBVIOUS
  <2>1. CASE k = q
    BY <1>6, <2>1
  <2>2. CASE k # q
    <3>1. next > k + 1 /\ o + k - 1 \in 0..Space /\ o + k - 1 # o + q - 1
      <4>1. k \in Nat /\ q \in Nat /\ k <= n /\ k >= 1 /\ q + 2 > k + 1
        BY <1>1, <1>2
      <4> HIDE DEF q, n
      <4>2. q > k
        BY <2>2, <4>1
      <4>3. o + k - 1 \in 0..Space /\ o + k - 1 # o + q - 1
        BY <1>1, <1>4, <2>2, <4>1
      <4> QED
        BY <1>2, <4>1, <4>2, <4>3
    <3>2. mem[Text(o + k - 1)] = Labels[i].text[k]
      BY <1>1, <3>1 DEF LabelFilling
    <3> QED
      BY <1>7, <3>1, <3>2
  <2> QED
    BY <2>1, <2>2
<1>13. mem'[Entry(e)] = BitsOf(o * 256 + Labels[i].len)
  BY <1>1, <1>7 DEF LabelFilling
<1>14. LabelFilling(i, o)'
  BY <1>1, <1>4, <1>8, <1>11, <1>12, <1>13 DEF LabelFilling
<1> QED
  BY <1>10, <1>14

(* An offset and a length can be told apart in an entry. *)
LEMMA EntryParts ==
  ASSUME NEW a \in Nat, NEW b \in Nat, a < 256, b < 128
  PROVE  /\ a * 256 + b \in Nat /\ a * 256 + b < 65536
         /\ (a * 256 + b) \div 256 = a /\ (a * 256 + b) % 128 = b
<1>1. a * 256 + b \in Nat /\ a * 256 + b < 65536 /\ (a * 256 + b) \div 256 = a
  OBVIOUS
<1>2. (a * 256 + b) % 128 = b
  OBVIOUS
<1> QED
  BY <1>1, <1>2

(* A copy of its flag: entry and text are in place. *)
LEMMA FlagStep ==
  ASSUME OtpInv, FlagsTell, WriteRow, NEW i \in DOMAIN Labels, NEW o \in Nat, o < 256,
         plan = LabelWritesAt(Labels[i], o), LabelFilling(i, o),
         next > Len(Labels[i].text) + 1
  PROVE  FlagsTell' /\ LabelFilling(i, o)'
<1> DEFINE e == Labels[i].idx
           n == Len(Labels[i].text)
           q == next - (n + 1)
           flags == {e, AddrValid}
<1>1. /\ n \in Nat /\ DOMAIN Labels[i].text = 1..n /\ e # AddrValid
      /\ e \in 0..(TableSize - 1) /\ Space \in Nat /\ Labels[i].len \in Nat /\ Labels[i].len < 128
  BY LabelFacts
<1>2. next \in Nat /\ q \in 1..3 /\ next = n + 1 + q /\ next' = next + 1
  <2>1. Len(plan) = n + 4 /\ next \in Nat /\ next <= Len(plan) /\ next' = next + 1
    BY LabelRows DEF OtpInv, WriteRow
  <2> HIDE DEF n
  <2>2. n + 1 < next /\ next <= n + 4 /\ next \in Nat /\ n \in Nat
    BY <1>1, <2>1 DEF n
  <2>3. \A a, b \in Nat : a + 1 < b /\ b <= a + 4 => b - (a + 1) \in 1..3 /\ b = a + 1 + (b - (a + 1))
    OBVIOUS
  <2> QED
    BY <2>1, <2>2, <2>3
<1> HIDE DEF q
<1>3. plan[next].cell = UsbFlags(q) /\ plan[next].bits = flags /\ q \in Redundant
  <2>1. q \in Redundant
    BY <1>2 DEF Redundant
  <2>2. plan[n + 1 + q] = Or(UsbFlags(q), flags)
    BY ZenonT(30), <2>1, LabelRows
  <2> QED
    BY <1>2, <2>1, <2>2 DEF Or
<1>4. /\ mem'[UsbFlags(q)] = mem[UsbFlags(q)] \cup flags
      /\ \A c \in Cells : c # UsbFlags(q) => mem'[c] = mem[c]
  BY <1>3, RowWritten, LabelRowsApart
<1>5. /\ \A r \in 0..Space : mem'[Text(r)] = mem[Text(r)]
      /\ \A d \in 0..(TableSize - 1) : mem'[Entry(d)] = mem[Entry(d)]
      /\ \A c \in Redundant : c # q => mem'[UsbFlags(c)] = mem[UsbFlags(c)]
  BY <1>4, LabelRowsApart
<1>6. \A d : d \notin flags => (FlaggedIn(d)' <=> FlaggedIn(d))
  BY <1>3, <1>4, <1>5 DEF FlaggedIn
<1>7. FlaggedIn(AddrValid)'
  BY <1>3, <1>4 DEF FlaggedIn
<1>8. /\ Below(i, o) /\ o + n < Space
      /\ mem[Entry(e)] = BitsOf(o * 256 + Labels[i].len)
      /\ \A k \in 1..n : mem[Text(o + k - 1)] = Labels[i].text[k]
  <2>1. next > 1 /\ \A k \in 1..n : next > k + 1
    BY <1>1, <1>2
  <2> QED
    BY <1>1, <2>1 DEF LabelFilling
<1>9. Holds(i)
  <2>1. Offset(e) = o /\ Length(e) = Labels[i].len
    <3> DEFINE number == o * 256 + Labels[i].len
    <3>1. number \in Nat /\ number < 65536 /\ number \div 256 = o /\ number % 128 = Labels[i].len
      <4>1. PICK len \in Nat : len = Labels[i].len
        BY <1>1
      <4>2. len < 128
        BY <1>1, <4>1
      <4>3. /\ o * 256 + len \in Nat /\ o * 256 + len < 65536
            /\ (o * 256 + len) \div 256 = o /\ (o * 256 + len) % 128 = len
        BY <4>2, EntryParts
      <4> QED
        BY <4>1, <4>3
    <3>2. NumberOf(mem[Entry(e)]) = number
      <4> HIDE DEF number
      <4>1. NumberOf(BitsOf(number)) = number
        BY <3>1, DigitsBack
      <4> QED
        BY <1>8, <4>1 DEF number
    <3> HIDE DEF number
    <3> QED
      BY <3>1, <3>2 DEF Offset, Length
  <2> QED
    BY <1>1, <1>8, <2>1 DEF Holds
<1>10. ASSUME NEW j \in DOMAIN Labels, FlaggedIn(Labels[j].idx)'
       PROVE  /\ Holds(j)' /\ Offset(Labels[j].idx)' = Offset(Labels[j].idx)
              /\ j # i => FlaggedIn(Labels[j].idx)
  <2>1. j # i => FlaggedIn(Labels[j].idx)
    BY <1>6, <1>10, LabelFacts, LabelAssumption
  <2>2. Holds(j)
    BY <1>9, <2>1 DEF FlagsTell
  <2>3. mem'[Entry(Labels[j].idx)] = mem[Entry(Labels[j].idx)]
    BY <1>5, LabelFacts
  <2>4. \A r \in Nat : r < Offset(Labels[j].idx) + Len(Labels[j].text) => mem'[Text(r)] = mem[Text(r)]
    <3>1. /\ Offset(Labels[j].idx) \in Nat /\ Len(Labels[j].text) \in Nat
          /\ Offset(Labels[j].idx) + Len(Labels[j].text) < Space
      BY <2>2, EntrySays, LabelFacts DEF Holds
    <3>2. \A r \in Nat : r < Offset(Labels[j].idx) + Len(Labels[j].text) => r \in 0..Space
      BY <1>1, <3>1
    <3> QED
      BY <1>5, <3>2
  <2> QED
    BY <2>1, <2>2, <2>3, <2>4, HoldsStays, EntryStays
<1>11. FlagsTell'
  BY <1>7, <1>10 DEF FlagsTell
<1>12. Below(i, o)'
  BY <1>8, <1>10 DEF Below
<1>13. ~(next' <= n + 2) /\ next' > 1
  BY SMTT(30), <1>1, <1>2
<1>14. mem'[Entry(e)] = BitsOf(o * 256 + Labels[i].len)
  BY <1>1, <1>5, <1>8
<1>15. \A k \in 1..n : mem'[Text(o + k - 1)] = Labels[i].text[k]
  <2>1. \A k \in 1..n : o + k - 1 \in 0..Space
    BY <1>1, <1>8
  <2> QED
    BY <1>5, <1>8, <2>1
<1>16. LabelFilling(i, o)'
  BY <1>1, <1>8, <1>12, <1>13, <1>14, <1>15 DEF LabelFilling
<1> QED
  BY <1>11, <1>16

(* A row is written: of a label, or elsewhere.                             *)
LEMMA LabelStep ==
  ASSUME OtpInv, LabelInv, WriteRow
  PROVE  LabelInv'
<1>1. CASE step \notin 2..(KeyStep - 1)
  BY <1>1, OtherRowStep
<1>2. CASE step \in 2..(KeyStep - 1)
  <2>1. Len(Labels) \in Nat /\ KeyStep = Len(Labels) + 2 /\ LastStep = Len(Labels) + 3 /\ step \in 0..LastStep
    BY OtpAssumption DEF KeyStep, LastStep, LabelInv, LabelPlan
  <2>2. next \in 1..Len(plan) /\ UNCHANGED <<step, plan>>
    BY DEF WriteRow, OtpInv
  <2>3. PICK o \in Nat : /\ o < 256 /\ plan = LabelWritesAt(Labels[step - 1], o)
                         /\ LabelFilling(step - 1, o)
    BY <1>2, <2>2 DEF LabelInv, LabelPlan
  <2>4. PICK i \in DOMAIN Labels : i = step - 1
    BY <1>2, <2>1, OtpAssumption
  <2>5. Len(Labels[i].text) \in Nat /\ next \in Nat
    BY <2>2, LabelFacts
  <2>6. FlagsTell' /\ LabelFilling(i, o)'
    <3>1. CASE next = 1
      BY <2>3, <2>4, <3>1, EntryStep DEF LabelInv
    <3>2. CASE next > 1 /\ next <= Len(Labels[i].text) + 1
      BY <2>3, <2>4, <3>2, TextStep DEF LabelInv
    <3>3. CASE next > Len(Labels[i].text) + 1
      BY <2>3, <2>4, <3>3, FlagStep DEF LabelInv
    <3> QED
      BY <2>2, <2>5, <3>1, <3>2, <3>3
  <2>7. LabelPlan'
    <3>1. step' = step /\ plan' = LabelWritesAt(Labels[i], o) /\ i = step' - 1
      BY <2>2, <2>3, <2>4
    <3>2. step # 0 /\ step # 1 /\ step # KeyStep /\ step # LastStep
      BY <1>2, <2>1
    <3> QED
      BY <2>1, <2>3, <2>6, <3>1, <3>2 DEF LabelPlan
  <2> QED
    BY <2>6, <2>7 DEF LabelInv
<1> QED
  BY <1>1, <1>2

(* Every step keeps what is flagged whole, while offsets fit.              *)
LEMMA LabelNext ==
  ASSUME OtpInv, LabelInv, OffsetFits, [Next]_vars
  PROVE  LabelInv'
<1>1. Len(Labels) \in Nat /\ KeyStep = Len(Labels) + 2 /\ LastStep = Len(Labels) + 3 /\ step \in 0..LastStep
  BY OtpAssumption DEF KeyStep, LastStep, LabelInv, LabelPlan
<1>2. CASE UNCHANGED vars
  <2>1. UNCHANGED <<mem, found, step, plan, next>>
    BY <1>2 DEF vars
  <2>2. FlagsTell'
    BY <2>1, LabelsUnmoved DEF LabelInv
  <2>3. \A i \in DOMAIN Labels, o \in Nat : LabelFilling(i, o)' <=> LabelFilling(i, o)
    BY <2>1 DEF LabelFilling, Below, FlaggedIn, Offset
  <2>4. LabelPlan'
    <3>1. ASSUME step \in 2..(KeyStep - 1)
          PROVE  plan' = <<>> \/ \E o \in Nat : /\ o < 256 /\ plan' = LabelWritesAt(Labels[step - 1], o)
                                               /\ LabelFilling(step - 1, o)'
      <4>1. step - 1 \in DOMAIN Labels
        BY <1>1, <3>1, OtpAssumption
      <4> QED
        BY <2>1, <2>3, <3>1, <4>1 DEF LabelInv, LabelPlan
    <3> QED
      BY <2>1, <3>1 DEF LabelInv, LabelPlan
  <2> QED
    BY <2>2, <2>4 DEF LabelInv
<1>3. CASE LockBoot
  BY <1>1, <1>3, LabelEnters DEF LockBoot
<1>4. CASE NextStep
  <2>1. step + 1 \in 1..LastStep /\ Enter(step + 1)
    BY <1>1, <1>4 DEF NextStep
  <2> QED
    BY <2>1, LabelEnters
<1>5. CASE CPUReset \/ Refused \/ PowerLoss
  BY <1>5, LabelStops DEF CPUReset, Refused, PowerLoss, BreakOff
<1>6. CASE WriteRow
  BY <1>6, LabelStep
<1> QED
  BY <1>2, <1>3, <1>4, <1>5, <1>6 DEF Next

(* What is marked valid, a key or a string, is whole, over any power       *)
(* losses, refusals and repetitions, as long as the rows where strings     *)
(* begin can be told in the eight bits of a table entry, which             *)
(* WriteWhiteLabelString does not check.                                   *)
THEOREM ValidAlwaysWhole == Spec /\ []OffsetFits => []ValidIsWhole
<1>1. Init => OtpInv /\ LabelInv
  BY OtpInit, LabelInit
<1>2. OtpInv /\ LabelInv /\ OffsetFits /\ [Next]_vars => OtpInv' /\ LabelInv'
  BY OtpNext, LabelNext
<1>3. OtpInv /\ LabelInv => ValidIsWhole
  BY MarkedReads DEF OtpInv, LabelInv, ValidIsWhole
<1> QED
  BY <1>1, <1>2, <1>3, PTL DEF Spec
=============================================================================
