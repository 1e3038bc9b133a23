------------------------------ MODULE NfcReader ------------------------------
(***************************************************************************)
(* Reading tags: the scanner goroutine of a screen (startScanner), its     *)
(* record buffer (scanner.Scan), the poller with its reading token, and    *)
(* the one reader chip all screens share, with its cancel channel.         *)
(*                                                                         *)
(* A screen opens a scanner with a poller of its own and stops both when   *)
(* it leaves.  A stop that takes too long is abandoned, and the next       *)
(* screen opens a new poller on the same chip.                             *)
(*                                                                         *)
(* A read of the chip goes through waits: "detect", "park" (no timeout:    *)
(* until a tag or a field comes), "field", the tag selection "select5" and *)
(* "select2", and the data.  Each wait may take the cancellation.  What    *)
(* the tags hold is a number of chunks per record.                         *)
(***************************************************************************)
EXTENDS Naturals, FiniteSets, Sequences

CONSTANTS
  Screens,     (* scanning screens opened, one after the other             *)
  RecordLens,  (* lengths of the records on tags, in chunks                *)
  BufChunks,   (* chunks that fill the scanner's buffer                    *)
  MaxRecords,  (* records read per screen                                  *)
  Failures     (* TRUE: the chip and the tags may fail                     *)

ASSUME ReaderAssumption ==
  /\ Screens \in Nat \ {0} /\ BufChunks \in Nat \ {0} /\ MaxRecords \in Nat
  /\ RecordLens \subseteq Nat \ {0} /\ RecordLens # {}
  /\ Failures \in BOOLEAN

S == 1 .. Screens

VARIABLES
  screen,    (* the last screen opened, 0 before the first                 *)
  ui,        (* what the UI goroutine does                                 *)
  closer,    (* screens whose closer channel is closed                     *)
  pc,        (* what each scanner goroutine does                           *)
  token,     (* holder of each poller's reading token                      *)
  src,       (* the poller's active reader                                 *)
  at, len,   (* chunks read of the record, and its length; 0: none         *)
  read,      (* what the last Read returned                                *)
  buf,       (* the chunks in the scanner's buffer                         *)
  overflow,  (* scanner.overflow                                           *)
  idle,      (* the last poll found nothing                                *)
  scan,      (* the result to send                                         *)
  slot,      (* the channel of results, one slot                           *)
  cancel,    (* the chip's cancel channel, one slot                        *)
  records,   (* records started, per screen                                *)
  owed,       (* history: an object was found and not yet received          *)
  restless   (* history: nothing was found and the goroutine has not slept *)

chip    == <<src, at, len, cancel, records>>
scanner == <<buf, overflow, idle, scan>>
history == <<owed, restless>>
readerVars == <<screen, ui, closer, pc, token, chip, read, scanner, slot, history>>

NoRead == [got |-> 0, of |-> 0, err |-> "nil"]
Nothing == [obj |-> "none", status |-> 0]
(* Progress and an unknown format differ in what is shown only. *)
Status == [idle |-> 0, seen |-> 1, failed |-> 2]

ReaderInit ==
  /\ screen = 0 /\ ui = "none" /\ closer = {}
  /\ pc = [s \in S |-> "none"] /\ token = [s \in S |-> "free"]
  /\ src = [s \in S |-> "none"] /\ at = [s \in S |-> 0] /\ len = [s \in S |-> 0]
  /\ read = [s \in S |-> NoRead]
  /\ buf = [s \in S |-> <<>>] /\ overflow = [s \in S |-> FALSE]
  /\ idle = [s \in S |-> FALSE]
  /\ scan = [s \in S |-> Nothing] /\ slot = [s \in S |-> <<>>]
  /\ cancel = FALSE /\ records = [s \in S |-> 0]
  /\ owed = [s \in S |-> FALSE] /\ restless = [s \in S |-> FALSE]

-----------------------------------------------------------------------------
(* The screen: start a scanner, receive results, stop the scanner. *)
OpenScreen ==
  /\ ui \in {"none", "left"} /\ screen < Screens
  /\ screen' = screen + 1 /\ ui' = "shown"
  /\ pc' = [pc EXCEPT ![screen + 1] = "top"]
  /\ UNCHANGED <<closer, token, chip, read, scanner, slot, history>>

Receive ==
  /\ ui = "shown" /\ slot[screen] # <<>>
  /\ slot' = [slot EXCEPT ![screen] = <<>>]
  /\ owed' = [owed EXCEPT ![screen] = @ /\ slot[screen][1].obj = "none"]
  /\ UNCHANGED <<screen, ui, closer, pc, token, chip, read, scanner, restless>>

Stop ==
  /\ ui = "shown" /\ ui' = "close"
  /\ closer' = closer \cup {screen}
  /\ UNCHANGED <<screen, pc, token, chip, read, scanner, slot, history>>

(* The chip's cancel channel: Interrupt fills it, and the next wait of     *)
(* whichever read takes it.                                                *)
Interrupt == cancel' = TRUE
TakesCancel == cancel /\ cancel' = FALSE

(* Poller.Close: the token if it is free, else Interrupt and wait for it.  *)
ClosePoller ==
  /\ ui = "close"
  /\ IF token[screen] = "free"
     THEN token' = [token EXCEPT ![screen] = "close"] /\ ui' = "chip" /\ UNCHANGED cancel
     ELSE Interrupt /\ ui' = "wait" /\ UNCHANGED token
  /\ UNCHANGED <<screen, closer, pc, src, at, len, records, read, scanner, slot, history>>

ReadEnded ==
  /\ ui = "wait" /\ token[screen] = "free"
  /\ token' = [token EXCEPT ![screen] = "close"] /\ ui' = "chip"
  /\ UNCHANGED <<screen, closer, pc, chip, read, scanner, slot, history>>

CloseTimeout ==
  /\ ui = "wait" /\ ui' = "left"
  /\ UNCHANGED <<screen, closer, pc, token, chip, read, scanner, slot, history>>

(* Device.Close; an error skips the join. *)
CloseChip ==
  /\ ui = "chip"
  /\ \/ ui' = "join"
     \/ Failures /\ ui' = "left"
  /\ UNCHANGED <<screen, closer, pc, token, chip, read, scanner, slot, history>>

(* The scanner has exited, or the join has timed out. *)
Join ==
  /\ ui = "join" /\ ui' = "left"
  /\ UNCHANGED <<screen, closer, pc, token, chip, read, scanner, slot, history>>

-----------------------------------------------------------------------------
(* The scanner goroutine: look at the closer, and Scan or exit; its        *)
(* variables and the results it sent are then forgotten.                   *)
Top(s) ==
  /\ pc[s] = "top" /\ s \notin closer
  /\ pc' = [pc EXCEPT ![s] = "read"]
  /\ UNCHANGED <<screen, ui, closer, token, chip, read, scanner, slot, history>>

Exit(s) ==
  /\ pc[s] = "top" /\ s \in closer
  /\ pc' = [pc EXCEPT ![s] = "exit"]
  /\ src' = [src EXCEPT ![s] = "none"] /\ records' = [records EXCEPT ![s] = 0]
  /\ at' = [at EXCEPT ![s] = 0] /\ len' = [len EXCEPT ![s] = 0]
  /\ buf' = [buf EXCEPT ![s] = <<>>] /\ overflow' = [overflow EXCEPT ![s] = FALSE]
  /\ slot' = [slot EXCEPT ![s] = <<>>] /\ owed' = [owed EXCEPT ![s] = FALSE]
  /\ UNCHANGED <<screen, ui, closer, token, cancel, read, idle, scan, restless>>

(* Poller.Read takes its token and goes on with the active reader. *)
TokenReused(s) == token[s] # "read"               (* a mutant of TokenFree *)
TokenFree(s) == token[s] = "free"
BeginRead(s) ==
  /\ pc[s] = "read" /\ TokenFree(s)
  /\ token' = [token EXCEPT ![s] = "read"]
  /\ pc' = [pc EXCEPT ![s] = IF src[s] = "none" THEN "detect" ELSE "data"]
  /\ UNCHANGED <<screen, ui, closer, chip, read, scanner, slot, history>>

(* A Read returns chunk k of a record of l chunks, or none. *)
Return(s, k, l, e) ==
  /\ read' = [read EXCEPT ![s] = [got |-> k, of |-> l, err |-> e]]
  /\ token' = [token EXCEPT ![s] = "free"]
  /\ pc' = [pc EXCEPT ![s] = "scan"]

Go(s, to) == pc' = [pc EXCEPT ![s] = to] /\ UNCHANGED <<token, read>>

(* A wait of Detect takes the cancellation, passes or fails.  Only the     *)
(* wait without timeout reports the cancellation as the end of the file.   *)
Detect(s) ==
  /\ \/ TakesCancel
        /\ \/ pc[s] = "park" /\ Return(s, 0, 0, "eof")
           \/ pc[s] \in {"detect", "field"} /\ Return(s, 0, 0, "fail")
        /\ UNCHANGED src
     \/ /\ pc[s] \in {"detect", "park", "field"}
        /\ \/ pc[s] = "detect" /\ Go(s, "park") /\ UNCHANGED src
           \/ pc[s] = "park" /\ records[s] < MaxRecords /\ Go(s, "field") /\ UNCHANGED src
           \/ pc[s] = "field" /\ Go(s, "select5") /\ UNCHANGED src
           \/ pc[s] = "field" /\ Go(s, "data") /\ src' = [src EXCEPT ![s] = "emulated"]
           \/ Failures /\ Return(s, 0, 0, "fail") /\ UNCHANGED src
        /\ UNCHANGED cancel
  /\ UNCHANGED <<screen, ui, closer, at, len, records, scanner, slot, history>>

(* Poller.poll: type 5, then type 2; every error is "no such tag", and     *)
(* then the Read starts over.                                              *)
Next5or2(s) == IF pc[s] = "select5" THEN "select2" ELSE "detect"
Select(s) ==
  /\ pc[s] \in {"select5", "select2"}
  /\ \/ TakesCancel /\ Go(s, Next5or2(s)) /\ UNCHANGED src
     \/ Go(s, Next5or2(s)) /\ UNCHANGED <<cancel, src>>
     \/ /\ Go(s, "data")
        /\ src' = [src EXCEPT ![s] = IF pc[s] = "select5" THEN "type5" ELSE "type2"]
        /\ UNCHANGED cancel
  /\ UNCHANGED <<screen, ui, closer, at, len, records, scanner, slot, history>>

(* Data: the next chunk, of a new record if none is begun ... *)
Chunk(s) ==
  /\ pc[s] = "data" /\ (len[s] = 0 => records[s] < MaxRecords)
  /\ \E l \in IF len[s] = 0 THEN RecordLens ELSE {len[s]} :
       LET last == at[s] + 1 = l
       IN /\ Return(s, at[s] + 1, l, IF last THEN "eof" ELSE "nil")
          /\ at' = [at EXCEPT ![s] = IF last THEN 0 ELSE @ + 1]
          /\ len' = [len EXCEPT ![s] = IF last THEN 0 ELSE l]
  /\ records' = [records EXCEPT ![s] = IF len[s] = 0 THEN @ + 1 ELSE @]
  /\ UNCHANGED <<screen, ui, closer, src, cancel, scanner, slot, history>>

(* ... or the active reader is given up: the message is over, the tag has  *)
(* gone or the read is cancelled.  Only a type 2 tag reads on: its reader  *)
(* takes the cancellation for an empty answer.                             *)
GiveUp(s, e) ==
  /\ Return(s, 0, 0, e)
  /\ src' = [src EXCEPT ![s] = "none"]
  /\ at' = [at EXCEPT ![s] = 0] /\ len' = [len EXCEPT ![s] = 0]

DataEnds(s) ==
  /\ pc[s] = "data"
  /\ \/ len[s] = 0 /\ GiveUp(s, "eof") /\ UNCHANGED cancel
     \/ Failures /\ GiveUp(s, "fail") /\ UNCHANGED cancel
     \/ /\ TakesCancel /\ src[s] # "type2"
        /\ GiveUp(s, IF src[s] = "emulated" /\ len[s] = 0 THEN "eof" ELSE "fail")
  /\ UNCHANGED <<screen, ui, closer, records, scanner, slot, history>>

CancelSwallowed(s) ==
  /\ pc[s] = "data" /\ src[s] = "type2" /\ TakesCancel
  /\ UNCHANGED <<screen, ui, closer, pc, token, src, at, len, records, read,
                 scanner, slot, history>>

-----------------------------------------------------------------------------
(* scanner.Scan with the result of the Read.  The parser tells an object   *)
(* from an unknown format.                                                 *)
Whole(b, l) == b = [i \in 1 .. l |-> i]
PartKept(b) == b                                  (* a mutant of Discarded *)
Discarded(b) == <<>>

FullPast(b) == Len(b) > BufChunks                      (* a mutant of Full *)
Full(b) == Len(b) = BufChunks

Scan(s) ==
  LET b  == buf[s] \o (IF read[s].got = 0 THEN <<>> ELSE <<read[s].got>>)
      ov == overflow[s] \/ Full(b)
      found(o, st) == scan' = [scan EXCEPT ![s] = [obj |-> o, status |-> st]]
  IN
  /\ pc[s] = "scan" /\ pc' = [pc EXCEPT ![s] = "merge"]
  /\ read' = [read EXCEPT ![s] = NoRead]
  /\ overflow' = [overflow EXCEPT ![s] = ov]
  /\ \/ ov /\ found("none", Status.failed)
     \/ ~ov /\ read[s].err = "fail" /\ found("none", Status.failed)
     \/ ~ov /\ read[s].err = "nil"  /\ found("none", Status.seen)
     \/ ~ov /\ read[s].err = "eof" /\ b = <<>> /\ found("none", Status.idle)
     \/ ~ov /\ read[s].err = "eof" /\ b # <<>> /\
          \/ found("none", Status.seen)
          \/ found(IF Whole(b, read[s].of) THEN "whole" ELSE "torn", Status.idle)
  /\ buf' = [buf EXCEPT ![s] = IF ov THEN <<>>
                               ELSE CASE read[s].err = "nil"  -> b
                                      [] read[s].err = "fail" -> Discarded(b)
                                      [] read[s].err = "eof"  -> <<>>]
  /\ idle' = [idle EXCEPT ![s] = scan'[s] = Nothing]
  /\ restless' = [restless EXCEPT ![s] = scan'[s].obj = "none" /\ scan'[s].status \in {Status.idle, Status.failed}]
  /\ owed' = [owed EXCEPT ![s] = @ \/ scan'[s].obj # "none"]
  /\ UNCHANGED <<screen, ui, closer, token, chip, slot>>

(* The result not yet received is taken back and merged ... *)
NewOnly(new, old) == new.obj                      (* a mutant of MergedObj *)
MergedObj(new, old) == IF new.obj = "none" THEN old.obj ELSE new.obj
MaxStatus(a, b) == IF a > b THEN a ELSE b
Merge(s) ==
  /\ pc[s] = "merge" /\ Go(s, "send")
  /\ slot' = [slot EXCEPT ![s] = <<>>]
  /\ scan' = [scan EXCEPT ![s] =
       IF slot[s] = <<>> THEN @
       ELSE [obj |-> MergedObj(@, slot[s][1]), status |-> MaxStatus(@.status, slot[s][1].status)]]
  /\ UNCHANGED <<screen, ui, closer, chip, buf, overflow, idle, history>>

(* ... and sent; a poll that found nothing or failed is followed by a      *)
(* sleep.                                                                  *)
RestIfMerged(s) == scan[s] = Nothing              (* a mutant of RestAfter *)
RestAfter(s) == idle[s] \/ scan[s].status = Status.failed
Send(s) ==
  /\ pc[s] = "send" /\ slot[s] = <<>>
  /\ slot' = [slot EXCEPT ![s] = <<scan[s]>>]
  /\ scan' = [scan EXCEPT ![s] = Nothing] /\ idle' = [idle EXCEPT ![s] = FALSE]
  /\ Go(s, IF RestAfter(s) THEN "sleep" ELSE "top")
  /\ UNCHANGED <<screen, ui, closer, chip, buf, overflow, history>>

Rest(s) ==
  /\ pc[s] = "sleep" /\ Go(s, "top")
  /\ restless' = [restless EXCEPT ![s] = FALSE]
  /\ UNCHANGED <<screen, ui, closer, chip, scanner, slot, owed>>

Scanner(s) ==
  \/ Top(s) \/ Exit(s) \/ BeginRead(s) \/ Detect(s) \/ Select(s) \/ Chunk(s) \/ DataEnds(s)
  \/ CancelSwallowed(s) \/ Scan(s) \/ Merge(s) \/ Send(s) \/ Rest(s)
Stopping == ClosePoller \/ ReadEnded \/ CloseTimeout \/ CloseChip \/ Join
ReaderNext == OpenScreen \/ Receive \/ Stop \/ Stopping \/ \E s \in S : Scanner(s)

ReaderSpec == ReaderInit /\ [][ReaderNext]_readerVars

-----------------------------------------------------------------------------
InChip == {s \in S : pc[s] \in {"detect", "park", "field", "select5", "select2", "data"}}

(* Type invariant of screens, pollers, scanners and the chip. *)
TypeOK ==
  /\ screen \in 0 .. Screens /\ closer \subseteq S /\ cancel \in BOOLEAN
  /\ ui \in {"none", "shown", "close", "wait", "chip", "join", "left"}
  /\ pc \in [S -> {"none", "top", "read", "detect", "park", "field", "select5",
                   "select2", "data", "scan", "merge", "send", "sleep", "exit"}]
  /\ token \in [S -> {"free", "read", "close"}]
  /\ src \in [S -> {"none", "type5", "type2", "emulated"}]
  /\ \A s \in S :
       /\ at[s] \in 0 .. len[s] /\ len[s] \in {0} \cup RecordLens
       /\ read[s].err \in {"nil", "eof", "fail"} /\ Len(buf[s]) < BufChunks
       /\ scan[s].obj \in {"none", "whole", "torn"} /\ scan[s].status \in 0 .. 2
       /\ Len(slot[s]) <= 1 /\ records[s] \in 0 .. MaxRecords
  /\ {overflow, idle, owed, restless} \subseteq [S -> BOOLEAN]

(* An object that reaches a screen is a whole record: no failed, cancelled *)
(* or overflowing read leaves chunks to a later one.                       *)
DeliveredWhole == \A s \in S : slot[s] # <<>> => slot[s][1].obj # "torn"

(* The merge loses no object that the screen has not received. *)
LatestKept ==
  \A s \in S : owed[s] =>
    \/ pc[s] \in {"merge", "send"} /\ scan[s].obj # "none"
    \/ slot[s] # <<>> /\ slot[s][1].obj # "none"

(* A scanner that found nothing, or failed, sleeps before it reads again,  *)
(* whatever the screen has left unread.                                    *)
NoSpin == \A s \in S : pc[s] = "read" => ~restless[s]

(* The merge of an unread result neither loses an object nor lets the      *)
(* scanner run on without rest (F-126).                                    *)
ScannerKeepsPace == LatestKept /\ NoSpin

(* Once Close has the token, its poller is off the chip for good: the chip *)
(* is shut down and the scanner joined with no read of the screen in it.   *)
NoTouchAfterClose ==
  /\ ui \in {"chip", "join"} => screen \notin InChip
  /\ \A s \in InChip : token[s] = "read"

=============================================================================
