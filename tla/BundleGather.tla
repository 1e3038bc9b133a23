----------------------------- MODULE BundleGather -----------------------------
(***************************************************************************)
(* The bundle program (gui/bundle_flow.go, gui/bundle.go): public cards,   *)
(* each a set of strings, are gathered from a payload and from tags that   *)
(* the operator holds to the reader in any order and any number of times;  *)
(* then reviewed, perhaps gathered again, and cut string by string.        *)
(*                                                                         *)
(* A string is a chunk of a card: its card and its index there.  Its       *)
(* header tells the kind and the chunk set id (together Key) and the       *)
(* number of chunks.  Two cards may carry the same key: the id has twenty  *)
(* bits, and the host lets its user stamp it.                              *)
(***************************************************************************)
EXTENDS Integers, FiniteSets, SequencesExt

CONSTANTS
  Cards,       (* the cards there are                                      *)
  Standalone,  (* ... of one md1 string without a chunk header             *)
  Sound,       (* ... whose strings decode (BCH, structure, derived id)    *)
  Key,         (* kind and chunk set id of a card                          *)
  Total,       (* number of its strings                                    *)
  Payloads,    (* what the payload may hold: sequences of strings          *)
  PerPlate     (* strings that fit a plate                                 *)

CardStrings(c) == [n \in 1 .. Total[c] |-> [card |-> c, index |-> n - 1]]
Strings == UNION {Range(CardStrings(c)) : c \in Cards}

ASSUME CardAssumption ==
  /\ Standalone \subseteq Cards /\ Sound \subseteq Cards
  /\ \A c \in Cards : Total[c] \in Nat \ {0}
  /\ \A c \in Standalone : Total[c] = 1
  /\ \A p \in Payloads : p \in Seq(Strings)
  /\ PerPlate \in Nat \ {0}

VARIABLES
  phase,    (* "source", "gather", "review", "engrave", "done" or "left"   *)
  payload,  (* the records of the payload, grouped                         *)
  feed,     (* strings the gatherer is still fed before it scans           *)
  sets,     (* the chunk sets in progress or complete: mkSets and mdSets   *)
  cards,    (* the cards added: the strings of each, in index order        *)
  kept,     (* history: the cards that the review was left with            *)
  at,       (* the next string to cut: its card and position               *)
  steel     (* the plates cut, each a sequence of strings                  *)

gatherer == <<sets, cards>>
engraving == <<at, steel>>
vars == <<phase, payload, feed, gatherer, kept, engraving>>

Keys == {Key[c] : c \in Cards \ Standalone}
Unprimed == [total |-> 0, has |-> <<>>]

Init ==
  /\ phase = "source" /\ payload \in Payloads /\ feed = <<>>
  /\ sets = [k \in Keys |-> Unprimed] /\ cards = <<>> /\ kept = <<>>
  /\ at = [card |-> 1, string |-> 1] /\ steel = <<>>

-----------------------------------------------------------------------------
(* mk1Gatherer and md1Gatherer: a set is primed by the header of its first *)
(* chunk.                                                                  *)
Primed(set) == set.total > 0
Complete(set) == Primed(set) /\ Cardinality(DOMAIN set.has) = set.total

Grown(set, s) ==
  [total |-> Total[s.card],
   has   |-> [i \in DOMAIN set.has \cup {s.index} |->
                IF i = s.index THEN s.card ELSE set.has[i]]]

(* collected(): the strings in index order, whatever order they came in. *)
CollectedBackwards(set) ==                         (* a mutant of Collected *)
  [n \in 1 .. set.total |-> [card |-> set.has[set.total - n], index |-> set.total - n]]
Collected(set) ==
  [n \in 1 .. set.total |-> [card |-> set.has[n - 1], index |-> n - 1]]

(* The integrity gate, mk.Decode or md.DecodeChunks, which puts the chunks *)
(* in order itself: all of one card, and of one that is sound.             *)
AnyChunks(set) == TRUE                               (* a mutant of Decodes *)
Decodes(set) ==
  \E c \in Sound : Total[c] = set.total /\ \A i \in DOMAIN set.has : set.has[i] = c

(* A set that fails the gate is deleted so that a fresh scan can recover. *)
KeptSet(set) == set                                 (* a mutant of Rejected *)
Rejected(set) == Unprimed

AddStandalone(c) ==
  /\ c \in Sound /\ CardStrings(c) \notin Range(cards)
  /\ cards' = Append(cards, CardStrings(c))
  /\ UNCHANGED sets

(* A chunk of a new index, whose header agrees with the set's. *)
Fits(set, s) ==
  /\ ~Complete(set)
  /\ Primed(set) => set.total = Total[s.card]
  /\ s.index \notin DOMAIN set.has

(* A new id starts a new card; keys and descriptors have their own sets. *)
IdAlone(s) == CHOOSE k \in Keys : k[2] = Key[s.card][2]  (* a mutant of SetOf *)
SetOf(s) == Key[s.card]

AddChunk(s) ==
  LET k == SetOf(s) IN
  LET grown == Grown(sets[k], s) IN
  /\ Fits(sets[k], s)
  /\ \/ /\ ~Complete(grown)
        /\ sets' = [sets EXCEPT ![k] = grown] /\ UNCHANGED cards
     \/ /\ Complete(grown) /\ Decodes(grown)
        /\ sets' = [sets EXCEPT ![k] = grown]
        /\ cards' = Append(cards, Collected(grown))
     \/ /\ Complete(grown) /\ ~Decodes(grown)
        /\ sets' = [sets EXCEPT ![k] = Rejected(grown)] /\ UNCHANGED cards

(* Duplicates, chunks that do not fit, unsound cards and whatever is no    *)
(* string of a public card change nothing.                                 *)
Ignored(s) ==
  \/ s \notin Strings
  \/ /\ s.card \in Standalone
     /\ s.card \notin Sound \/ CardStrings(s.card) \in Range(cards)
  \/ s.card \notin Standalone /\ ~Fits(sets[SetOf(s)], s)

(* bundleGatherer.offer. *)
Offer(s) ==
  \/ s \in Strings /\ s.card \in Standalone /\ AddStandalone(s.card)
  \/ s \in Strings /\ s.card \notin Standalone /\ AddChunk(s)
  \/ Ignored(s) /\ UNCHANGED gatherer

-----------------------------------------------------------------------------
(* groupRecordsByCard: the chunks of a set together, the sets in the order *)
(* in which they first appear.                                             *)
OneSet(s, t) == s.card \notin Standalone /\ t.card \notin Standalone
                  /\ Key[s.card] = Key[t.card]
SetRecords(records, n) ==
  LET of[m \in 0 .. Len(records)] ==
        IF m = 0 THEN <<>>
        ELSE IF OneSet(records[m], records[n]) THEN Append(of[m - 1], records[m])
        ELSE of[m - 1]
  IN of[Len(records)]
Group(records, n) ==
  IF records[n].card \in Standalone THEN <<records[n]>>
  ELSE IF \E m \in 1 .. n - 1 : OneSet(records[m], records[n]) THEN <<>>
  ELSE SetRecords(records, n)
AsPacked(records) == records                         (* a mutant of Grouped *)
Grouped(records) == FlattenSeq([n \in DOMAIN records |-> Group(records, n)])

(* The operator takes the payload's cards, or only scans. *)
Choose ==
  /\ phase = "source" /\ phase' = "gather"
  /\ feed' \in {Grouped(payload), <<>>}
  /\ UNCHANGED <<payload, gatherer, kept, engraving>>

(* Strings of earlier cards and of the payload enter by the same offer. *)
Feed ==
  /\ phase = "gather" /\ feed # <<>>
  /\ Offer(Head(feed)) /\ feed' = Tail(feed)
  /\ UNCHANGED <<phase, payload, kept, engraving>>

Scanning == phase = "gather" /\ feed = <<>>

Scan ==
  /\ Scanning
  /\ \E s \in Strings : Offer(s)
  /\ UNCHANGED <<phase, payload, feed, kept, engraving>>

Pending == \E k \in Keys : Primed(sets[k]) /\ ~Complete(sets[k])

(* dropPending. *)
DropPending ==
  [k \in Keys |-> IF Primed(sets[k]) /\ ~Complete(sets[k]) THEN Unprimed ELSE sets[k]]

(* Done: half a card is dropped, with a warning; without a card the        *)
(* gathering goes on.                                                      *)
Done ==
  /\ Scanning /\ (Pending \/ cards # <<>>)
  /\ sets' = DropPending
  /\ phase' = IF cards # <<>> THEN "review" ELSE phase
  /\ UNCHANGED <<payload, feed, cards, kept, engraving>>

Leave ==
  /\ Scanning /\ phase' = "left"
  /\ UNCHANGED <<payload, feed, gatherer, kept, engraving>>

(* Back at the review: a new gatherer is fed the strings of the cards. *)
NothingAgain == <<>>                                   (* a mutant of Again *)
Again == FlattenSeq(cards)

ReviewBack ==
  /\ phase = "review" /\ phase' = "gather"
  /\ kept' = cards /\ feed' = Again
  /\ sets' = [k \in Keys |-> Unprimed] /\ cards' = <<>>
  /\ UNCHANGED <<payload, engraving>>

Confirm ==
  /\ phase = "review" /\ phase' = "engrave"
  /\ UNCHANGED <<payload, feed, gatherer, kept, engraving>>

(* bundleCardPlates: as many strings of a card as fit, from lo on. *)
PlateEnd(strs, lo) == IF lo + PerPlate > Len(strs) THEN Len(strs)
                      ELSE lo + PerPlate - 1

OneSkipped(end) == end + 2                  (* a mutant of NextString *)
NextString(end) == end + 1

(* The engrave screen of a plate returns true. *)
CutPlate ==
  LET strs == cards[at.card]
      end  == PlateEnd(strs, at.string) IN
  /\ phase = "engrave" /\ at.card <= Len(cards)
  /\ steel' = Append(steel, SubSeq(strs, at.string, end))
  /\ at' = IF end = Len(strs) THEN [card |-> at.card + 1, string |-> 1]
           ELSE [at EXCEPT !.string = NextString(end)]
  /\ UNCHANGED <<phase, payload, feed, gatherer, kept>>

Finish ==
  /\ phase = "engrave" /\ at.card > Len(cards) /\ phase' = "done"
  /\ UNCHANGED <<payload, feed, gatherer, kept, engraving>>

(* The operator goes back from a plate, or a plate does not validate. *)
Abort ==
  /\ phase = "engrave" /\ at.card <= Len(cards) /\ phase' = "left"
  /\ UNCHANGED <<payload, feed, gatherer, kept, engraving>>

Next == \/ Choose \/ Feed \/ Scan \/ Done \/ Leave \/ ReviewBack \/ Confirm
        \/ CutPlate \/ Finish \/ Abort
Spec == Init /\ [][Next]_vars

-----------------------------------------------------------------------------
(* Type invariant: a set holds chunks of its key and below its total. *)
TypeOK ==
  /\ phase \in {"source", "gather", "review", "engrave", "done", "left"}
  /\ feed \in Seq(Strings)
  /\ \A k \in Keys : /\ sets[k].total \in Nat
                     /\ DOMAIN sets[k].has \subseteq 0 .. sets[k].total - 1
                     /\ \A i \in DOMAIN sets[k].has : Key[sets[k].has[i]] = k
  /\ cards \in Seq(Seq(Strings)) /\ kept \in Seq(Seq(Strings))
  /\ at.card \in 1 .. Len(cards) + 1 /\ at.string \in Nat
  /\ steel \in Seq(Seq(Strings))

(* A card of the bundle is the whole of one sound card, its strings in     *)
(* index order, whatever was scanned between them, also by cards that      *)
(* share its chunk set id; and no card is in the bundle twice.             *)
CardsWhole ==
  /\ \A n \in DOMAIN cards : \E c \in Sound : cards[n] = CardStrings(c)
  /\ IsInjective(cards)

(* A set counts as complete, and its chunks as captured already, only when *)
(* a card came of it: a set that failed the gate can be scanned again.     *)
CompleteIsAdded ==
  \A k \in Keys : Complete(sets[k]) => Collected(sets[k]) \in Range(cards)

(* What the gatherer answers for is sound: its cards are whole, and what   *)
(* it calls captured has become one of them.                               *)
GatheredWhole == CardsWhole /\ CompleteIsAdded

(* Going back at the review loses no card and no place (a second gathering *)
(* starts from the cards of the first, in their order).                    *)
ResumeKeeps == Scanning => IsPrefix(kept, cards)

(* "Slot order is payload record order": the cards of a payload come in    *)
(* the order in which their chunk sets first appear in it, though a card   *)
(* is added when its last chunk arrives (groupRecordsByCard).              *)
FirstRecord(card) ==
  CHOOSE n \in DOMAIN payload :
    /\ payload[n] = card[1] \/ OneSet(payload[n], card[1])
    /\ \A m \in 1 .. n - 1 : payload[m] # card[1] /\ ~OneSet(payload[m], card[1])
InRecordOrder(entries) ==
  \A m, n \in DOMAIN entries : m < n => FirstRecord(entries[m]) < FirstRecord(entries[n])
PayloadOrder ==
  [][feed # <<>> /\ feed' = <<>> /\ kept = <<>> => InRecordOrder(cards')]_vars

(* When the set is cut, every card that has a string on steel has all of   *)
(* them there, once, in order and with no other string between them, and   *)
(* no plate holds two cards' strings.                                      *)
CutTogether(c) ==
  LET strs == FlattenSeq(steel)
      on   == {n \in DOMAIN strs : strs[n].card = c}
  IN on = {} \/ \E lo \in on : /\ on = lo .. lo + Total[c] - 1
                            /\ SubSeq(strs, lo, lo + Total[c] - 1) = CardStrings(c)
SteelIsWhole ==
  phase = "done" =>
    /\ \A c \in Cards : CutTogether(c)
    /\ \A n \in DOMAIN steel : \A s, t \in Range(steel[n]) : s.card = t.card
    /\ steel # <<>>
=============================================================================
