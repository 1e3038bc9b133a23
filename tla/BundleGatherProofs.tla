-------------------------- MODULE BundleGatherProofs --------------------------
(***************************************************************************)
(* What holds of BundleGather for any cards, any keys that they carry, any *)
(* payload and any order of scanning: a card that is added is whole, is    *)
(* there once, and is the only reason for a chunk set to count as          *)
(* complete; a second gathering takes each string of the first as the      *)
(* first did, so it ends where the first did; the plates hold the          *)
(* flattened bundle up to the next string to cut; and the cards of a       *)
(* payload begin at ever later records of it.                              *)
(***************************************************************************)
EXTENDS BundleGather, FiniteSetTheorems, SequenceTheorems, TLAPS

Chunked == Cards \ Standalone

(* A chunk set: chunks of cards with its key, below its total. *)
SetOK(k, set) ==
  /\ set.total \in Nat
  /\ DOMAIN set.has \subseteq 0 .. set.total - 1
  /\ \A i \in DOMAIN set.has : set.has[i] \in Chunked /\ Key[set.has[i]] = k

SetsOK == DOMAIN sets = Keys /\ \A k \in Keys : SetOK(k, sets[k])

CardsType == cards \in Seq({CardStrings(c) : c \in Sound})

(* The converse of CompleteIsAdded: the set of an added card is complete   *)
(* and holds its chunks, so no second card can come of the same key.       *)
AddedIsComplete ==
  \A n \in DOMAIN cards : \A c \in Chunked :
    cards[n] = CardStrings(c) =>
      Complete(sets[Key[c]]) /\ Collected(sets[Key[c]]) = CardStrings(c)

GathererInv == SetsOK /\ CardsType /\ CardsWhole /\ CompleteIsAdded /\ AddedIsComplete

-----------------------------------------------------------------------------
(* The strings of two cards differ. *)
LEMMA CardStringsDiffer ==
  ASSUME NEW c \in Cards, NEW d \in Cards, CardStrings(c) = CardStrings(d)
  PROVE  c = d
<1>1. 1 \in 1 .. Total[c] /\ 1 \in 1 .. Total[d]
  BY CardAssumption
<1>2. CardStrings(c)[1].card = c /\ CardStrings(d)[1].card = d
  BY <1>1 DEF CardStrings
<1> QED
  BY <1>2

(* A string names a card and one of its chunks. *)
LEMMA StringShape ==
  ASSUME NEW s \in Strings
  PROVE  s.card \in Cards /\ s.index \in 0 .. Total[s.card] - 1
<1>1. PICK c \in Cards : s \in Range(CardStrings(c))
  BY DEF Strings
<1>2. PICK n \in 1 .. Total[c] : s = [card |-> c, index |-> n - 1]
  BY <1>1 DEF Range, CardStrings
<1>3. Total[c] \in Nat
  BY CardAssumption
<1> QED
  BY <1>2, <1>3

(* A set that counts as complete has every chunk below its total. *)
LEMMA CompleteDomain ==
  ASSUME NEW k, NEW set, SetOK(k, set), Complete(set)
  PROVE  DOMAIN set.has = 0 .. set.total - 1 /\ set.total > 0
<1>1. set.total \in Nat /\ set.total > 0
  BY DEF SetOK, Complete, Primed
<1>2. IsFiniteSet(0 .. set.total - 1) /\ Cardinality(0 .. set.total - 1) = set.total
  <2>1. 0 \in Int /\ set.total - 1 \in Int
    BY <1>1
  <2>2. Cardinality(0 .. set.total - 1)
          = IF 0 > set.total - 1 THEN 0 ELSE set.total - 1 - 0 + 1
    BY <2>1, FS_Interval
  <2> QED
    BY <1>1, <2>1, <2>2, FS_Interval
<1>3. DOMAIN set.has \in SUBSET (0 .. set.total - 1)
  BY DEF SetOK
<1>4. Cardinality(DOMAIN set.has) = set.total
  BY DEF Complete
<1> QED
  BY <1>1, <1>2, <1>3, <1>4, FS_Subset

(* A chunk that fits leaves a chunk set. *)
LEMMA GrownOK ==
  ASSUME NEW k, NEW set, SetOK(k, set), NEW s \in Strings,
         s.card \in Chunked, Key[s.card] = k, Fits(set, s)
  PROVE  SetOK(k, Grown(set, s))
<1> DEFINE grown == Grown(set, s)
<1>1. s.index \in 0 .. Total[s.card] - 1 /\ Total[s.card] \in Nat
  BY StringShape, CardAssumption
<1>2. grown.total = Total[s.card] /\ DOMAIN grown.has = DOMAIN set.has \cup {s.index}
  BY DEF Grown
<1>3. DOMAIN set.has \subseteq 0 .. Total[s.card] - 1
  <2>1. CASE Primed(set)
    BY <2>1 DEF Fits, SetOK
  <2>2. CASE ~Primed(set)
    BY <2>2 DEF SetOK, Primed
  <2> QED
    BY <2>1, <2>2
<1>4. \A i \in DOMAIN grown.has : grown.has[i] \in Chunked /\ Key[grown.has[i]] = k
  BY DEF Grown, SetOK
<1> QED
  BY <1>1, <1>2, <1>3, <1>4 DEF SetOK

(* The gate: what is added is the whole of a sound card with the set's key. *)
LEMMA Whole ==
  ASSUME NEW k, NEW set, SetOK(k, set), Complete(set), Decodes(set)
  PROVE  \E c \in Sound : /\ c \in Chunked /\ Key[c] = k
                          /\ Collected(set) = CardStrings(c)
<1>1. PICK c \in Sound : Total[c] = set.total /\ \A i \in DOMAIN set.has : set.has[i] = c
  BY DEF Decodes
<1>2. DOMAIN set.has = 0 .. set.total - 1 /\ set.total > 0 /\ set.total \in Nat
  BY CompleteDomain DEF SetOK
<1>3. c \in Chunked /\ Key[c] = k
  BY <1>1, <1>2 DEF SetOK
<1>4. \A n \in 1 .. set.total : set.has[n - 1] = c
  BY <1>1, <1>2
<1>5. Collected(set) = CardStrings(c)
  BY <1>1, <1>4 DEF Collected, CardStrings
<1> QED
  BY <1>3, <1>5

-----------------------------------------------------------------------------
(* A card that is appended is new when no set of its key was complete. *)
LEMMA NewCard ==
  ASSUME CardsType, CardsWhole, NEW c \in Sound,
         CardStrings(c) \notin Range(cards), cards' = Append(cards, CardStrings(c))
  PROVE  CardsType' /\ CardsWhole'
<1>1. CardsType'
  BY DEF CardsType
<1>2. /\ DOMAIN cards' = 1 .. Len(cards) + 1 /\ DOMAIN cards = 1 .. Len(cards)
      /\ Len(cards) \in Nat
      /\ \A n \in DOMAIN cards : cards'[n] = cards[n]
      /\ cards'[Len(cards) + 1] = CardStrings(c)
  BY DEF CardsType
<1>3. \A n \in DOMAIN cards : cards[n] # CardStrings(c)
  BY DEF Range
<1>4. \A n \in DOMAIN cards' : n \in DOMAIN cards \/ n = Len(cards) + 1
  BY <1>2
<1>5. \A n \in DOMAIN cards' : \E d \in Sound : cards'[n] = CardStrings(d)
  BY <1>2, <1>4 DEF CardsWhole
<1>6. \A m, n \in DOMAIN cards' : cards'[m] = cards'[n] => m = n
  <2> SUFFICES ASSUME NEW m \in DOMAIN cards', NEW n \in DOMAIN cards',
                      cards'[m] = cards'[n]
               PROVE  m = n
    OBVIOUS
  <2>1. CASE m \in DOMAIN cards /\ n \in DOMAIN cards
    BY <2>1, <1>2 DEF CardsWhole, IsInjective
  <2>2. CASE m \in DOMAIN cards /\ n = Len(cards) + 1
    BY <2>2, <1>2, <1>3
  <2>3. CASE n \in DOMAIN cards /\ m = Len(cards) + 1
    BY <2>3, <1>2, <1>3
  <2> QED
    BY <2>1, <2>2, <2>3, <1>4
<1> QED
  BY <1>1, <1>5, <1>6 DEF CardsWhole, IsInjective

(* A standalone card needs no set. *)
LEMMA StandaloneKeeps ==
  ASSUME GathererInv, NEW c \in Standalone, AddStandalone(c)
  PROVE  GathererInv'
<1>1. CardsType' /\ CardsWhole'
  BY NewCard DEF GathererInv, AddStandalone
<1>2. SetsOK'
  BY DEF GathererInv, SetsOK, AddStandalone
<1>3. /\ DOMAIN cards' = 1 .. Len(cards) + 1 /\ DOMAIN cards = 1 .. Len(cards)
      /\ Len(cards) \in Nat
      /\ \A n \in DOMAIN cards : cards'[n] = cards[n]
      /\ cards'[Len(cards) + 1] = CardStrings(c)
  BY DEF GathererInv, CardsType, AddStandalone
<1>4. Range(cards) \subseteq Range(cards')
  BY <1>3 DEF Range
<1>5. CompleteIsAdded'
  BY <1>4 DEF GathererInv, CompleteIsAdded, AddStandalone
<1>6. AddedIsComplete'
  <2> SUFFICES ASSUME NEW n \in DOMAIN cards', NEW d \in Chunked,
                      cards'[n] = CardStrings(d)
               PROVE  Complete(sets[Key[d]]) /\ Collected(sets[Key[d]]) = CardStrings(d)
    BY DEF AddedIsComplete, AddStandalone
  <2>1. c \in Cards /\ d \in Cards /\ c # d
    BY CardAssumption DEF Chunked
  <2>2. n # Len(cards) + 1
    BY <2>1, <1>3, CardStringsDiffer
  <2>3. n \in DOMAIN cards /\ cards[n] = CardStrings(d)
    BY <2>2, <1>3
  <2> QED
    BY <2>3 DEF GathererInv, AddedIsComplete
<1> QED
  BY <1>1, <1>2, <1>5, <1>6 DEF GathererInv

(* An incomplete set may be replaced by another incomplete one. *)
LEMMA IncompleteKeeps ==
  ASSUME GathererInv, NEW k \in Keys, NEW set, SetOK(k, set), ~Complete(set),
         ~Complete(sets[k]), sets' = [sets EXCEPT ![k] = set], cards' = cards
  PROVE  GathererInv'
<1>1. SetsOK'
  BY DEF GathererInv, SetsOK
<1>2. \A j \in Keys : j # k => sets'[j] = sets[j]
  BY DEF GathererInv, SetsOK
<1>3. sets'[k] = set
  BY DEF GathererInv, SetsOK
<1>4. CompleteIsAdded'
  BY <1>2, <1>3 DEF GathererInv, CompleteIsAdded
<1>5. \A c \in Chunked : Key[c] \in Keys
  BY DEF Chunked, Keys
<1>6. AddedIsComplete'
  BY <1>2, <1>5 DEF GathererInv, AddedIsComplete
<1>7. CardsType' /\ CardsWhole'
  BY DEF GathererInv, CardsType, CardsWhole
<1> QED
  BY <1>1, <1>4, <1>6, <1>7 DEF GathererInv

(* An incomplete set may become complete when its card is added with it. *)
LEMMA CompletionKeeps ==
  ASSUME GathererInv, NEW k \in Keys, NEW set, SetOK(k, set), Complete(set),
         Decodes(set), ~Complete(sets[k]), sets' = [sets EXCEPT ![k] = set],
         cards' = Append(cards, Collected(set))
  PROVE  GathererInv'
<1>1. PICK c \in Sound : c \in Chunked /\ Key[c] = k /\ Collected(set) = CardStrings(c)
  BY Whole
<1>2. CardStrings(c) \notin Range(cards)
  BY <1>1 DEF GathererInv, AddedIsComplete, Range
<1>3. CardsType' /\ CardsWhole'
  BY <1>1, <1>2, NewCard DEF GathererInv
<1>4. SetsOK'
  BY DEF GathererInv, SetsOK
<1>5. sets'[k] = set /\ \A j \in Keys : j # k => sets'[j] = sets[j]
  BY DEF GathererInv, SetsOK
<1>6. /\ DOMAIN cards' = 1 .. Len(cards) + 1 /\ DOMAIN cards = 1 .. Len(cards)
      /\ Len(cards) \in Nat
      /\ \A n \in DOMAIN cards : cards'[n] = cards[n]
      /\ cards'[Len(cards) + 1] = CardStrings(c)
  BY <1>1 DEF GathererInv, CardsType
<1>7. Range(cards) \subseteq Range(cards') /\ Collected(set) \in Range(cards')
  BY <1>1, <1>6 DEF Range
<1>8. CompleteIsAdded'
  BY <1>5, <1>7 DEF GathererInv, CompleteIsAdded
<1>9. AddedIsComplete'
  <2> SUFFICES ASSUME NEW n \in DOMAIN cards', NEW d \in Chunked,
                      cards'[n] = CardStrings(d)
               PROVE  Complete(sets'[Key[d]]) /\ Collected(sets'[Key[d]]) = CardStrings(d)
    BY DEF AddedIsComplete
  <2>1. Key[d] \in Keys
    BY DEF Chunked, Keys
  <2>2. CASE Key[d] = k
    <3>1. n \notin DOMAIN cards
      BY <2>2, <1>6 DEF GathererInv, AddedIsComplete
    <3>2. cards'[n] = CardStrings(c)
      BY <3>1, <1>6
    <3> QED
      BY <2>2, <3>2, <1>1, <1>5
  <2>3. CASE Key[d] # k
    <3>1. d # c
      BY <2>3, <1>1
    <3>2. n # Len(cards) + 1
      BY <3>1, <1>1, <1>6, CardStringsDiffer DEF Chunked
    <3>3. n \in DOMAIN cards /\ cards[n] = CardStrings(d)
      BY <3>2, <1>6
    <3>4. Complete(sets[Key[d]]) /\ Collected(sets[Key[d]]) = CardStrings(d)
      BY <3>3 DEF GathererInv, AddedIsComplete
    <3> QED
      BY <3>4, <2>1, <2>3, <1>5
  <2> QED
    BY <2>2, <2>3
<1> QED
  BY <1>3, <1>4, <1>8, <1>9 DEF GathererInv

(* An unprimed set holds nothing. *)
LEMMA UnprimedOK == \A k : SetOK(k, Unprimed) /\ ~Complete(Unprimed)
BY DEF SetOK, Unprimed, Complete, Primed

(* Whatever is offered, the gatherer keeps its invariant. *)
LEMMA OfferKeeps ==
  ASSUME GathererInv, NEW s, Offer(s)
  PROVE  GathererInv'
<1>1. CASE s \in Strings /\ s.card \in Standalone /\ AddStandalone(s.card)
  BY <1>1, StandaloneKeeps
<1>2. CASE s \in Strings /\ s.card \notin Standalone /\ AddChunk(s)
  <2> DEFINE k == Key[s.card]
             grown == Grown(sets[k], s)
  <2>1. s.card \in Chunked /\ k \in Keys
    BY <1>2, StringShape DEF Chunked, Keys
  <2>2. SetOK(k, sets[k]) /\ Fits(sets[k], s) /\ ~Complete(sets[k])
    BY <1>2, <2>1 DEF GathererInv, SetsOK, AddChunk, SetOf, Fits
  <2>3. SetOK(k, grown)
    BY <1>2, <2>1, <2>2, GrownOK
  <2>4. CASE ~Complete(grown) /\ sets' = [sets EXCEPT ![k] = grown] /\ cards' = cards
    BY <2>1, <2>2, <2>3, <2>4, IncompleteKeeps
  <2>5. CASE /\ Complete(grown) /\ Decodes(grown)
             /\ sets' = [sets EXCEPT ![k] = grown]
             /\ cards' = Append(cards, Collected(grown))
    BY <2>1, <2>2, <2>3, <2>5, CompletionKeeps
  <2>6. CASE sets' = [sets EXCEPT ![k] = Unprimed] /\ cards' = cards
    BY <2>1, <2>2, <2>6, UnprimedOK, IncompleteKeeps
  <2> QED
    BY <1>2, <2>4, <2>5, <2>6 DEF AddChunk, SetOf, Rejected
<1>3. CASE UNCHANGED gatherer
  BY <1>3 DEF gatherer, GathererInv, SetsOK, CardsType, CardsWhole, CompleteIsAdded,
              AddedIsComplete
<1> QED
  BY <1>1, <1>2, <1>3 DEF Offer

-----------------------------------------------------------------------------
(* A new gatherer. *)
LEMMA EmptyGatherer ==
  ASSUME sets = [k \in Keys |-> Unprimed], cards = <<>>
  PROVE  GathererInv
<1>1. SetsOK
  BY UnprimedOK DEF SetsOK
<1>2. CardsType
  BY DEF CardsType
<1>3. DOMAIN cards = {}
  OBVIOUS
<1>4. CardsWhole /\ AddedIsComplete
  BY <1>3 DEF CardsWhole, IsInjective, AddedIsComplete
<1>5. CompleteIsAdded
  BY UnprimedOK DEF CompleteIsAdded
<1> QED
  BY <1>1, <1>2, <1>4, <1>5 DEF GathererInv

(* Half a card is dropped; complete sets, and so the cards, stay. *)
LEMMA DoneKeeps ==
  ASSUME GathererInv, Done
  PROVE  GathererInv'
<1>1. cards' = cards /\ sets' = DropPending
  BY DEF Done
<1>2. DOMAIN sets' = Keys
  BY <1>1 DEF DropPending
<1>3. ASSUME NEW k \in Keys
      PROVE  sets'[k] = sets[k] \/ (sets'[k] = Unprimed /\ ~Complete(sets[k]))
  BY <1>1 DEF DropPending
<1>4. SetsOK'
  BY <1>2, <1>3, UnprimedOK DEF GathererInv, SetsOK
<1>5. \A k \in Keys : Complete(sets'[k]) => sets'[k] = sets[k]
  BY <1>3, UnprimedOK
<1>6. CompleteIsAdded'
  BY <1>1, <1>5 DEF GathererInv, CompleteIsAdded
<1>7. \A k \in Keys : Complete(sets[k]) => sets'[k] = sets[k]
  BY <1>3
<1>8. \A c \in Chunked : Key[c] \in Keys
  BY DEF Chunked, Keys
<1>9. AddedIsComplete'
  BY <1>1, <1>7, <1>8 DEF GathererInv, AddedIsComplete
<1>10. CardsType' /\ CardsWhole'
  BY <1>1 DEF GathererInv, CardsType, CardsWhole
<1> QED
  BY <1>4, <1>6, <1>9, <1>10 DEF GathererInv

(* Every step of the program keeps it. *)
LEMMA StepKeeps == GathererInv /\ [Next]_vars => GathererInv'
<1> SUFFICES ASSUME GathererInv, [Next]_vars PROVE GathererInv'
  OBVIOUS
<1>1. CASE UNCHANGED gatherer
  BY <1>1 DEF gatherer, GathererInv, SetsOK, CardsType, CardsWhole, CompleteIsAdded,
              AddedIsComplete
<1>2. CASE Feed
  BY <1>2, OfferKeeps DEF Feed
<1>3. CASE Scan
  BY <1>3, OfferKeeps DEF Scan
<1>4. CASE Done
  BY <1>4, DoneKeeps
<1>5. CASE ReviewBack
  <2>1. (sets = [k \in Keys |-> Unprimed] /\ cards = <<>>)'
    BY <1>5 DEF ReviewBack
  <2>2. (sets = [k \in Keys |-> Unprimed] /\ cards = <<>> => GathererInv)'
    BY EmptyGatherer, PTL
  <2> QED
    BY <2>1, <2>2
<1>6. CASE Choose \/ Leave \/ Confirm \/ CutPlate \/ Finish \/ Abort
  BY <1>1, <1>6 DEF Choose, Leave, Confirm, CutPlate, Finish, Abort
<1>7. CASE UNCHANGED vars
  BY <1>1, <1>7 DEF vars
<1> QED
  BY <1>2, <1>3, <1>4, <1>5, <1>6, <1>7 DEF Next

(* The gatherer's invariant holds of every run of the program. *)
THEOREM GathererKept == Spec => []GathererInv
<1>1. Init => GathererInv
  BY EmptyGatherer DEF Init
<1> QED
  BY <1>1, StepKeeps, PTL DEF Spec

(* Every card of a bundle is the whole of one sound card, in index order,  *)
(* and is there once, and "already captured" is never said of a chunk set  *)
(* that gave no card (bundleGatherer.offer, collected and the gates).      *)
THEOREM BundleIsWhole == Spec => []GatheredWhole
<1>1. GathererInv => GatheredWhole
  BY DEF GathererInv, GatheredWhole
<1> QED
  BY <1>1, GathererKept, PTL

-----------------------------------------------------------------------------
(* Sequences of sequences. *)

(* Every inhabited set of naturals has a least element: initial intervals  *)
(* that end in S are finite, and the inclusion of finite sets is well      *)
(* founded.                                                                *)
LEMMA LeastElement ==
  ASSUME NEW S \in SUBSET Nat, S # {}
  PROVE  \E m \in S : \A k \in S : m <= k
<1> DEFINE Below == {0..n : n \in S}
<1>1. Below \subseteq FiniteSubsetsOf(Nat) /\ Below # {}
  <2>1. \A n \in S : IsFiniteSet(0..n) /\ (0..n) \in SUBSET Nat
    BY FS_Interval
  <2>2. \A n \in S : (0..n) \in FiniteSubsetsOf(Nat)
    BY <2>1 DEF FiniteSubsetsOf
  <2>3. PICK n \in S : TRUE
    OBVIOUS
  <2> QED
    BY <2>2, <2>3
<1>2. \E x \in Below : \A y \in Below : <<y, x>> \notin StrictSubsetOrdering(Nat)
  <2> HIDE DEF Below
  <2> QED
    BY <1>1, FS_StrictSubsetOrderingWellFounded, WFMin
<1>3. PICK m \in S : \A k \in S : <<0..k, 0..m>> \notin StrictSubsetOrdering(Nat)
  BY <1>2
<1>4. ASSUME NEW k \in S, k < m
      PROVE  FALSE
  <2> DEFINE small == 0..k
             large == 0..m
  <2>1. small \subseteq large /\ m \in large /\ m \notin small
    BY <1>4
  <2>2. small \in SUBSET Nat /\ large \in SUBSET Nat
    OBVIOUS
  <2>3. <<small, large>> \notin StrictSubsetOrdering(Nat)
    BY <1>3
  <2> HIDE DEF small, large
  <2> QED
    BY <2>1, <2>2, <2>3 DEF StrictSubsetOrdering
<1> QED
  BY <1>4

(* Induction over a length: a set of numbers that holds 0 and with every  *)
(* number the next one up to N holds them all.                             *)
LEMMA UpToN ==
  ASSUME NEW N \in Nat, NEW Good, 0 \in Good,
         \A m \in 1 .. N : m - 1 \in Good => m \in Good
  PROVE  \A m \in 0 .. N : m \in Good
<1> DEFINE Bad == {m \in 0 .. N : m \notin Good}
<1>1. ASSUME Bad # {} PROVE FALSE
  <2>1. Bad \in SUBSET Nat
    OBVIOUS
  <2>2. PICK m \in Bad : \A k \in Bad : m <= k
    <3> HIDE DEF Bad
    <3> QED BY <1>1, <2>1, LeastElement
  <2> QED BY <2>2
<1> QED BY <1>1

(* Where the elements of the n-th sequence start in the flattened one. *)
Totals(seqs) ==
  CHOOSE off \in [0 .. Len(seqs) -> Nat] :
    off[0] = 0 /\ \A n \in 1 .. Len(seqs) : off[n] = off[n - 1] + Len(seqs[n])
(* The flattened beginnings of a sequence of sequences. *)
Flats(S, seqs) ==
  CHOOSE g \in [0 .. Len(seqs) -> Seq(S)] :
    g[0] = <<>> /\ \A n \in 1 .. Len(seqs) : g[n] = g[n - 1] \o seqs[n]

(* The totals add up the lengths. *)
LEMMA TotalsDef ==
  ASSUME NEW S, NEW seqs \in Seq(Seq(S))
  PROVE  /\ Totals(seqs) \in [0 .. Len(seqs) -> Nat] /\ Totals(seqs)[0] = 0
         /\ \A n \in 1 .. Len(seqs) : /\ Totals(seqs)[n] = Totals(seqs)[n - 1] + Len(seqs[n])
                                      /\ Len(seqs[n]) \in Nat
<1> DEFINE N == Len(seqs)
           Has(m) == \E g \in [0 .. m -> Nat] :
                       g[0] = 0 /\ \A n \in 1 .. m : g[n] = g[n - 1] + Len(seqs[n])
           Good == {m \in 0 .. N : Has(m)}
<1>0. N \in Nat /\ \A n \in 1 .. N : Len(seqs[n]) \in Nat
  <2>1. \A n \in 1 .. N : seqs[n] \in Seq(S)
    BY ElementOfSeq
  <2> QED BY <2>1, LenProperties
<1>1. 0 \in Good
  <2>1. [n \in 0 .. 0 |-> 0] \in [0 .. 0 -> Nat] /\ [n \in 0 .. 0 |-> 0][0] = 0 /\ 1 .. 0 = {}
    OBVIOUS
  <2>2. Has(0)
    BY <2>1
  <2> HIDE DEF Has
  <2> QED BY <1>0, <2>2
<1>2. ASSUME NEW m \in 1 .. N, m - 1 \in Good PROVE m \in Good
  <2>1. PICK g \in [0 .. m - 1 -> Nat] :
          g[0] = 0 /\ \A n \in 1 .. m - 1 : g[n] = g[n - 1] + Len(seqs[n])
    BY <1>2
  <2> DEFINE l == Len(seqs[m])
             h == [n \in 0 .. m |-> IF n = m THEN g[m - 1] + l ELSE g[n]]
  <2>2. l \in Nat /\ m \in Nat /\ m > 0
    BY <1>0
  <2>3. h \in [0 .. m -> Nat]
    <3> HIDE DEF l
    <3> QED BY <2>2
  <2>4. h[0] = 0 /\ \A n \in 1 .. m : h[n] = h[n - 1] + Len(seqs[n])
    BY <2>1, <2>2
  <2>5. Has(m)
    <3> HIDE DEF h
    <3> QED BY <2>3, <2>4
  <2> HIDE DEF Has
  <2> QED BY <1>0, <2>5
<1>3. \A m \in 0 .. N : m \in Good
  <2> HIDE DEF Good, N
  <2> QED BY <1>0, <1>1, <1>2, UpToN
<1>4. Has(N)
  <2> HIDE DEF Has
  <2> QED BY <1>0, <1>3
<1> QED BY <1>0, <1>4 DEF Totals

(* The flattened beginnings are joined one by one. *)
LEMMA FlatsDef ==
  ASSUME NEW S, NEW seqs \in Seq(Seq(S))
  PROVE  /\ Flats(S, seqs) \in [0 .. Len(seqs) -> Seq(S)] /\ Flats(S, seqs)[0] = <<>>
         /\ \A n \in 1 .. Len(seqs) : Flats(S, seqs)[n] = Flats(S, seqs)[n - 1] \o seqs[n]
<1> DEFINE N == Len(seqs)
           Has(m) == \E g \in [0 .. m -> Seq(S)] :
                       g[0] = <<>> /\ \A n \in 1 .. m : g[n] = g[n - 1] \o seqs[n]
           Good == {m \in 0 .. N : Has(m)}
<1>0. N \in Nat /\ \A n \in 1 .. N : seqs[n] \in Seq(S)
  BY ElementOfSeq
<1>1. 0 \in Good
  <2> DEFINE e == [n \in 0 .. 0 |-> <<>>]
  <2>0. <<>> \in Seq(S)
    OBVIOUS
  <2>1. e \in [0 .. 0 -> Seq(S)] /\ e[0] = <<>> /\ 1 .. 0 = {}
    BY <2>0
  <2>2. Has(0)
    <3> HIDE DEF e
    <3> QED BY <2>1
  <2> HIDE DEF Has
  <2> QED BY <1>0, <2>2
<1>2. ASSUME NEW m \in 1 .. N, m - 1 \in Good PROVE m \in Good
  <2>1. PICK g \in [0 .. m - 1 -> Seq(S)] :
          g[0] = <<>> /\ \A n \in 1 .. m - 1 : g[n] = g[n - 1] \o seqs[n]
    BY <1>2
  <2> DEFINE c == g[m - 1] \o seqs[m]
             h == [n \in 0 .. m |-> IF n = m THEN c ELSE g[n]]
  <2>2. m \in Nat /\ m > 0 /\ m - 1 \in 0 .. m - 1
    BY <1>0
  <2>3. c \in Seq(S)
    <3>1. g[m - 1] \in Seq(S) /\ seqs[m] \in Seq(S)
      BY <1>0, <2>2
    <3> QED BY <3>1, ConcatProperties
  <2>4. h \in [0 .. m -> Seq(S)]
    <3> HIDE DEF c
    <3> QED BY <2>2, <2>3
  <2>5. h[0] = <<>> /\ \A n \in 1 .. m : h[n] = h[n - 1] \o seqs[n]
    <3>1. h[0] = <<>> /\ h[m] = c /\ \A n \in 0 .. m - 1 : h[n] = g[n]
      <4> HIDE DEF c
      <4> QED BY <2>1, <2>2
    <3> HIDE DEF h
    <3>2. \A n \in 1 .. m - 1 : h[n] = h[n - 1] \o seqs[n]
      <4> SUFFICES ASSUME NEW n \in 1 .. m - 1 PROVE h[n] = h[n - 1] \o seqs[n]
        OBVIOUS
      <4>1. n \in 0 .. m - 1 /\ n - 1 \in 0 .. m - 1
        BY <2>2
      <4>2. h[n] = g[n] /\ h[n - 1] = g[n - 1] /\ g[n] = g[n - 1] \o seqs[n]
        BY <2>1, <3>1, <4>1
      <4> QED BY <4>2
    <3>3. h[m] = h[m - 1] \o seqs[m]
      BY <2>2, <3>1
    <3>4. \A n \in 1 .. m : n = m \/ n \in 1 .. m - 1
      BY <2>2
    <3> QED BY <3>1, <3>2, <3>3, <3>4
  <2>6. Has(m)
    <3> HIDE DEF h
    <3> QED BY <2>4, <2>5
  <2> HIDE DEF Has
  <2> QED BY <1>0, <2>6
<1>3. \A m \in 0 .. N : m \in Good
  <2> HIDE DEF Good, N
  <2> QED BY <1>0, <1>1, <1>2, UpToN
<1>4. Has(N)
  <2> HIDE DEF Has
  <2> QED BY <1>0, <1>3
<1> QED BY <1>4 DEF Flats

(* FlattenSeq is the last of the flattened beginnings. *)
LEMMA FlattenDef ==
  ASSUME NEW S, NEW seqs \in Seq(Seq(S))
  PROVE  FlattenSeq(seqs) = Flats(S, seqs)[Len(seqs)]
<1> DEFINE N == Len(seqs)
           g == Flats(S, seqs)
<1>1. /\ N \in Nat /\ g \in [0 .. N -> Seq(S)] /\ g[0] = <<>>
      /\ \A n \in 1 .. N : (g[n] = g[n - 1] \o seqs[n] /\ seqs[n] \in Seq(S))
  <2>1. N \in Nat
    BY LenProperties
  <2>2. \A n \in 1 .. N : seqs[n] \in Seq(S)
    BY ElementOfSeq
  <2>3. g \in [0 .. N -> Seq(S)] /\ g[0] = <<>> /\ \A n \in 1 .. N : g[n] = g[n - 1] \o seqs[n]
    BY FlatsDef
  <2> HIDE DEF g, N
  <2> QED BY <2>1, <2>2, <2>3
<1> HIDE DEF g
<1>2. CASE N = 0
  <2>1. seqs = <<>>
    BY <1>2, EmptySeq
  <2>2. FlattenSeq(seqs) = seqs
    BY <1>2 DEF FlattenSeq
  <2> QED BY <1>1, <1>2, <2>1, <2>2 DEF g
<1>3. CASE N # 0
  <2> DEFINE Sum(f) == [i \in 1 .. Len(seqs) |-> IF i = 1 THEN seqs[i] ELSE f[i - 1] \o seqs[i]]
             flatten == CHOOSE f : f = Sum(f)
  <2>1. \E f : f = Sum(f)
    <3> DEFINE f == [i \in 1 .. N |-> g[i]]
    <3>1. g[1] = seqs[1]
      <4>1. 1 \in 1 .. N /\ 1 - 1 = 0
        BY <1>1, <1>3
      <4>2. g[1] = <<>> \o seqs[1] /\ seqs[1] \in Seq(S)
        BY <1>1, <4>1
      <4> QED BY <4>2, ConcatEmptySeq
    <3>2. \A i \in 1 .. N : i # 1 => g[i] = f[i - 1] \o seqs[i]
      <4> SUFFICES ASSUME NEW i \in 1 .. N, i # 1 PROVE g[i] = f[i - 1] \o seqs[i]
        OBVIOUS
      <4>1. i - 1 \in 1 .. N
        BY <1>1
      <4>2. f[i - 1] = g[i - 1]
        BY <4>1
      <4> HIDE DEF f
      <4> QED BY <1>1, <4>2
    <3>3. Sum(f) = f
      <4>1. \A i \in 1 .. N : (IF i = 1 THEN seqs[i] ELSE f[i - 1] \o seqs[i]) = g[i]
        BY <3>1, <3>2
      <4> QED BY <4>1
    <3> HIDE DEF Sum, f
    <3> QED BY <3>3
  <2>2. flatten = Sum(flatten)
    <3> HIDE DEF Sum
    <3> QED BY <2>1
  <2>3. FlattenSeq(seqs) = flatten[N]
    BY <1>3 DEF FlattenSeq
  <2> HIDE DEF flatten
  <2>4. \A i \in 1 .. N : flatten[i] = IF i = 1 THEN seqs[i] ELSE flatten[i - 1] \o seqs[i]
    BY <2>2
  <2> DEFINE Good == {m \in 0 .. N : m = 0 \/ flatten[m] = g[m]}
  <2>5. 0 \in Good
    BY <1>1
  <2>6. ASSUME NEW m \in 1 .. N, m - 1 \in Good PROVE m \in Good
    <3>1. flatten[m] = g[m]
      <4>1. CASE m = 1
        <5>1. g[1] = <<>> \o seqs[1] /\ seqs[1] \in Seq(S) /\ flatten[1] = seqs[1]
          <6>1. 1 \in 1 .. N /\ 1 - 1 = 0
            BY <1>1, <1>3
          <6> QED BY <1>1, <2>4, <6>1
        <5> QED BY <4>1, <5>1, ConcatEmptySeq
      <4>2. CASE m # 1
        <5>1. m - 1 # 0 /\ flatten[m - 1] = g[m - 1]
          BY <2>6, <4>2
        <5>2. flatten[m] = flatten[m - 1] \o seqs[m] /\ g[m] = g[m - 1] \o seqs[m]
          BY <1>1, <2>4, <4>2
        <5> QED BY <5>1, <5>2
      <4> QED BY <4>1, <4>2
    <3> QED BY <1>1, <3>1
  <2>7. \A m \in 0 .. N : m \in Good
    <3> HIDE DEF Good, N
    <3> QED BY <1>1, <2>5, <2>6, UpToN
  <2>8. N \in Good
    <3>1. N \in 0 .. N
      BY <1>1
    <3> HIDE DEF Good
    <3> QED BY <2>7, <3>1
  <2> QED BY <1>3, <2>3, <2>8 DEF g
<1> QED BY <1>2, <1>3 DEF g

(* The totals never decrease. *)
LEMMA TotalsMonotone ==
  ASSUME NEW S, NEW seqs \in Seq(Seq(S)),
         NEW a \in 0 .. Len(seqs), NEW b \in 0 .. Len(seqs), a <= b
  PROVE  Totals(seqs)[a] <= Totals(seqs)[b]
<1> DEFINE off == Totals(seqs)
           N == Len(seqs)
           Good == {m \in 0 .. N : a <= m => off[a] <= off[m]}
<1>1. /\ N \in Nat /\ off \in [0 .. N -> Nat]
      /\ \A n \in 1 .. N : off[n] >= off[n - 1]
  <2>1. /\ off \in [0 .. N -> Nat] /\ N \in Nat
        /\ \A n \in 1 .. N : off[n] = off[n - 1] + Len(seqs[n]) /\ Len(seqs[n]) \in Nat
    BY TotalsDef, LenProperties
  <2> HIDE DEF off, N
  <2>2. ASSUME NEW n \in 1 .. N PROVE off[n] >= off[n - 1]
    <3>1. n - 1 \in 0 .. N
      BY <2>1
    <3> DEFINE x == off[n - 1]
               l == Len(seqs[n])
    <3>2. x \in Nat /\ l \in Nat /\ off[n] = x + l
      BY <2>1, <3>1
    <3> HIDE DEF x, l
    <3>3. x + l >= x
      BY <3>2
    <3> QED BY <3>2, <3>3 DEF x
  <2> QED BY <2>1, <2>2
<1> HIDE DEF off, N
<1>2. 0 \in Good
  BY <1>1 DEF N
<1>3. ASSUME NEW m \in 1 .. N, m - 1 \in Good PROVE m \in Good
  <2>1. m - 1 \in 0 .. N /\ m \in 0 .. N /\ a \in 0 .. N
    BY <1>1 DEF N
  <2>2. a <= m - 1 => off[a] <= off[m - 1]
    BY <1>3
  <2>3. off[m] >= off[m - 1] /\ off[m] \in Nat /\ off[m - 1] \in Nat /\ off[a] \in Nat
    BY <1>1, <2>1
  <2>4. ASSUME a <= m PROVE off[a] <= off[m]
    <3>1. CASE a = m
      BY <2>3, <3>1
    <3>2. CASE a # m
      <4>1. a <= m - 1
        BY <2>1, <2>4, <3>2
      <4> QED BY <2>2, <2>3, <4>1
    <3> QED BY <3>1, <3>2
  <2> QED BY <2>1, <2>4
<1>4. \A m \in 0 .. N : m \in Good
  <2> HIDE DEF Good
  <2> QED BY <1>1, <1>2, <1>3, UpToN
<1>5. b \in Good
  BY <1>4 DEF N
<1> QED BY <1>5 DEF off

(* Every place in the flattened sequence is one in a sequence of it. *)
LEMMA TotalsFind ==
  ASSUME NEW S, NEW seqs \in Seq(Seq(S)), NEW p \in 1 .. Totals(seqs)[Len(seqs)]
  PROVE  \E n \in 1 .. Len(seqs) : \E j \in 1 .. Len(seqs[n]) : p = Totals(seqs)[n - 1] + j
<1> DEFINE off == Totals(seqs)
           N == Len(seqs)
           Above == {m \in 0 .. N : p <= off[m]}
<1>1. /\ off \in [0 .. N -> Nat] /\ N \in Nat /\ off[0] = 0
      /\ \A n \in 1 .. N : off[n] = off[n - 1] + Len(seqs[n]) /\ Len(seqs[n]) \in Nat
  BY TotalsDef, LenProperties
<1>2. p \in Nat /\ p > 0 /\ p <= off[N]
  <2>1. off[N] \in Nat
    BY <1>1
  <2> QED BY <2>1
<1> HIDE DEF off, N
<1>3. PICK n \in Above : \A m \in Above : n <= m
  <2>1. Above \in SUBSET Nat /\ N \in Above
    BY <1>1, <1>2
  <2> HIDE DEF Above
  <2> QED BY <2>1, LeastElement
<1>4. n \in 1 .. N /\ p <= off[n]
  <2>1. n # 0
    BY <1>1, <1>2, <1>3
  <2> QED BY <1>1, <1>3, <2>1
<1>5. ~(p <= off[n - 1]) /\ off[n - 1] \in Nat /\ off[n] \in Nat
  <2>1. n - 1 \in 0 .. N /\ n \in 0 .. N
    BY <1>1, <1>4
  <2>2. n - 1 \notin Above
    <3>1. ~(n <= n - 1)
      BY <1>4
    <3> QED BY <1>3, <3>1
  <2> QED BY <1>1, <2>1, <2>2
<1>6. p - off[n - 1] \in 1 .. Len(seqs[n])
  <2> DEFINE x == off[n - 1]
             y == off[n]
             l == Len(seqs[n])
  <2>1. y = x + l /\ l \in Nat /\ x \in Nat /\ p <= y /\ ~(p <= x)
    BY <1>1, <1>4, <1>5
  <2> HIDE DEF x, y, l
  <2>2. p - x \in 1 .. l
    BY <1>2, <2>1
  <2> QED BY <2>2 DEF x, l
<1>7. p = off[n - 1] + (p - off[n - 1])
  BY <1>2, <1>5
<1> QED BY <1>4, <1>6, <1>7 DEF off, N

(* What FlattenSeq holds. *)
LEMMA FlattenAt ==
  ASSUME NEW S, NEW seqs \in Seq(Seq(S))
  PROVE  /\ FlattenSeq(seqs) \in Seq(S)
         /\ Len(FlattenSeq(seqs)) = Totals(seqs)[Len(seqs)]
         /\ \A n \in 1 .. Len(seqs) : \A j \in 1 .. Len(seqs[n]) :
              FlattenSeq(seqs)[Totals(seqs)[n - 1] + j] = seqs[n][j]
<1> DEFINE off == Totals(seqs)
           g == Flats(S, seqs)
           N == Len(seqs)
           At(m) == \A n \in 1 .. m : \A j \in 1 .. Len(seqs[n]) :
                      g[m][off[n - 1] + j] = seqs[n][j]
           Good == {m \in 0 .. N : Len(g[m]) = off[m] /\ At(m)}
<1>1. /\ off \in [0 .. N -> Nat] /\ N \in Nat /\ off[0] = 0
      /\ \A n \in 1 .. N : off[n] = off[n - 1] + Len(seqs[n]) /\ Len(seqs[n]) \in Nat
  BY TotalsDef, LenProperties
<1>2. /\ g \in [0 .. N -> Seq(S)] /\ g[0] = <<>>
      /\ \A n \in 1 .. N : g[n] = g[n - 1] \o seqs[n]
  BY FlatsDef
<1>3. \A n \in 1 .. N : seqs[n] \in Seq(S)
  BY ElementOfSeq
<1>4. \A n \in 1 .. N : \A m \in 0 .. N : n <= m => off[n - 1] + Len(seqs[n]) <= off[m]
  <2> SUFFICES ASSUME NEW n \in 1 .. N, NEW m \in 0 .. N, n <= m
               PROVE  off[n - 1] + Len(seqs[n]) <= off[m]
    OBVIOUS
  <2>1. n \in 0 .. N
    BY <1>1
  <2>2. off[n] <= off[m]
    BY <2>1, TotalsMonotone
  <2>3. off[n] = off[n - 1] + Len(seqs[n])
    BY <1>1
  <2> QED BY <2>2, <2>3
<1> HIDE DEF off, g, N
<1>5. 0 \in Good
  <2>1. Len(g[0]) = 0 /\ 1 .. 0 = {}
    BY <1>2
  <2> QED BY <1>1, <2>1
<1>6. ASSUME NEW m \in 1 .. N, m - 1 \in Good PROVE m \in Good
  <2>1. m - 1 \in 0 .. N /\ m \in 0 .. N /\ m \in Nat /\ m >= 1
    BY <1>1
  <2>2. Len(g[m - 1]) = off[m - 1] /\ At(m - 1)
    BY <1>6
  <2> DEFINE a == g[m - 1]
             b == seqs[m]
             c == g[m]
  <2>3. a \in Seq(S) /\ b \in Seq(S) /\ c = a \o b
    BY <1>2, <1>3, <2>1
  <2>4. /\ Len(c) = Len(a) + Len(b) /\ Len(a) \in Nat /\ Len(b) \in Nat
        /\ \A i \in 1 .. Len(a) : c[i] = a[i]
        /\ \A i \in 1 .. Len(b) : c[Len(a) + i] = b[i]
    <3> HIDE DEF a, b, c
    <3>1. Len(a) \in Nat /\ Len(b) \in Nat
      BY <2>3, LenProperties
    <3>2. /\ Len(a \o b) = Len(a) + Len(b)
          /\ \A i \in 1 .. Len(a) + Len(b) :
               (a \o b)[i] = IF i <= Len(a) THEN a[i] ELSE b[i - Len(a)]
      BY <2>3, ConcatProperties
    <3>3. \A i \in 1 .. Len(b) : Len(a) + i \in 1 .. Len(a) + Len(b) /\ ~(Len(a) + i <= Len(a))
                                 /\ Len(a) + i - Len(a) = i
      BY <3>1
    <3>4. \A i \in 1 .. Len(a) : i \in 1 .. Len(a) + Len(b) /\ i <= Len(a)
      BY <3>1
    <3> QED BY <2>3, <3>1, <3>2, <3>3, <3>4
  <2>5. Len(g[m]) = off[m]
    BY <1>1, <2>2, <2>4
  <2>6. At(m)
    <3> SUFFICES ASSUME NEW n \in 1 .. m, NEW j \in 1 .. Len(seqs[n])
                 PROVE  g[m][off[n - 1] + j] = seqs[n][j]
      OBVIOUS
    <3>0. n \in 1 .. N
      BY <1>1, <2>1
    <3>1. CASE n = m
      BY <2>2, <2>4, <3>1
    <3>2. CASE n # m
      <4>1. n \in 1 .. m - 1 /\ n <= m - 1
        BY <2>1, <3>2
      <4>2. g[m - 1][off[n - 1] + j] = seqs[n][j]
        BY <2>2, <4>1
      <4>3. off[n - 1] + j \in 1 .. Len(a)
        <5>1. off[n - 1] + Len(seqs[n]) <= off[m - 1]
          BY <1>4, <2>1, <3>0, <4>1
        <5>2. off[n - 1] \in Nat /\ off[m - 1] \in Nat /\ Len(seqs[n]) \in Nat
          <6>1. n - 1 \in 0 .. N
            BY <1>1, <3>0
          <6> QED BY <1>1, <2>1, <3>0, <6>1
        <5> DEFINE x == off[n - 1]
                   y == off[m - 1]
                   l == Len(seqs[n])
        <5>3. x + l <= y /\ x \in Nat /\ y \in Nat /\ l \in Nat /\ j \in 1 .. l /\ Len(a) = y
          BY <2>2, <5>1, <5>2
        <5> HIDE DEF x, y, l, a
        <5>4. x + j \in 1 .. Len(a)
          BY <5>3
        <5> QED BY <5>4 DEF x
      <4> QED BY <2>4, <4>2, <4>3
    <3> QED BY <3>1, <3>2
  <2> QED BY <2>1, <2>5, <2>6
<1>7. \A m \in 0 .. N : m \in Good
  <2> HIDE DEF Good
  <2> QED BY <1>1, <1>5, <1>6, UpToN
<1>8. N \in 0 .. N
  BY <1>1
<1>9. Len(g[N]) = off[N] /\ At(N) /\ g[N] \in Seq(S)
  BY <1>2, <1>7, <1>8
<1>10. FlattenSeq(seqs) = g[N]
  BY FlattenDef DEF g, N
<1> QED BY <1>9, <1>10 DEF off, N

(* Nothing flattened is nothing. *)
LEMMA FlattenEmpty == FlattenSeq(<<>>) = <<>>
BY DEF FlattenSeq

(* One more sequence comes at the end. *)
LEMMA FlattenAppend ==
  ASSUME NEW S, NEW seqs \in Seq(Seq(S)), NEW x \in Seq(S)
  PROVE  /\ Append(seqs, x) \in Seq(Seq(S))
         /\ FlattenSeq(Append(seqs, x)) = FlattenSeq(seqs) \o x
<1> DEFINE N == Len(seqs)
           t == Append(seqs, x)
           g == Flats(S, seqs)
           h == Flats(S, t)
           Good == {m \in 0 .. N : h[m] = g[m]}
<1>1. /\ t \in Seq(Seq(S)) /\ Len(t) = N + 1 /\ t[N + 1] = x
      /\ \A i \in 1 .. N : t[i] = seqs[i]
  BY AppendProperties
<1>2. N \in Nat
  BY LenProperties
<1>3. /\ g[0] = <<>> /\ \A n \in 1 .. N : g[n] = g[n - 1] \o seqs[n]
  BY FlatsDef
<1> HIDE DEF t
<1>4. /\ h[0] = <<>> /\ \A n \in 1 .. N + 1 : h[n] = h[n - 1] \o t[n]
  <2>1. /\ h[0] = <<>> /\ \A n \in 1 .. Len(t) : h[n] = h[n - 1] \o t[n]
    BY <1>1, FlatsDef
  <2> QED BY <1>1, <2>1
<1> HIDE DEF g, h, N
<1>5. 0 \in Good
  BY <1>2, <1>3, <1>4
<1>6. ASSUME NEW m \in 1 .. N, m - 1 \in Good PROVE m \in Good
  <2>1. m \in 1 .. N + 1 /\ m \in 0 .. N
    BY <1>2
  <2>2. h[m] = h[m - 1] \o t[m] /\ g[m] = g[m - 1] \o seqs[m] /\ t[m] = seqs[m] /\ h[m - 1] = g[m - 1]
    BY <1>1, <1>3, <1>4, <1>6, <2>1
  <2> QED BY <2>1, <2>2
<1>7. \A m \in 0 .. N : m \in Good
  <2> HIDE DEF Good
  <2> QED BY <1>2, <1>5, <1>6, UpToN
<1>8. N \in 0 .. N /\ N + 1 \in 1 .. N + 1 /\ (N + 1) - 1 = N
  BY <1>2
<1>9. h[N] = g[N]
  BY <1>7, <1>8
<1>10. h[N + 1] = h[(N + 1) - 1] \o t[N + 1]
  BY <1>4, <1>8
<1>11. h[N + 1] = g[N] \o x
  BY <1>1, <1>8, <1>9, <1>10
<1>12. FlattenSeq(seqs) = g[N]
  BY FlattenDef DEF g, N
<1>13. FlattenSeq(t) = h[Len(t)]
  BY <1>1, FlattenDef DEF h
<1> QED BY <1>1, <1>11, <1>12, <1>13 DEF t

-----------------------------------------------------------------------------
(* The records of a set are strings of the set. *)
LEMMA SetRecordsType ==
  ASSUME NEW records \in Seq(Strings), NEW n \in 1 .. Len(records)
  PROVE  SetRecords(records, n) \in Seq({s \in Strings : OneSet(s, records[n])})
<1> DEFINE N == Len(records)
           T == {s \in Strings : OneSet(s, records[n])}
<1>0. /\ N \in Nat /\ DOMAIN records = 1 .. N
      /\ \A m \in 1 .. N : OneSet(records[m], records[n]) => records[m] \in T
  BY ElementOfSeq, LenProperties
<1> HIDE DEF T
<1> DEFINE Step(f, m) == IF m = 0 THEN <<>>
                         ELSE IF OneSet(records[m], records[n]) THEN Append(f[m - 1], records[m])
                         ELSE f[m - 1]
           Are(f, K) == \A m \in 0 .. K : f[m] \in Seq(T) /\ f[m] = Step(f, m)
           Has(K) == \E f \in [0 .. K -> Seq(T)] : Are(f, K)
           Good == {K \in 0 .. N : Has(K)}
<1>1. 0 \in Good
  <2> DEFINE e == [m \in 0 .. 0 |-> <<>>]
  <2>0. <<>> \in Seq(T)
    OBVIOUS
  <2>1. e \in [0 .. 0 -> Seq(T)] /\ e[0] = <<>> /\ \A m \in 0 .. 0 : m = 0
    BY <2>0
  <2>2. Has(0)
    <3> HIDE DEF e
    <3> QED BY <2>0, <2>1
  <2> HIDE DEF Has
  <2> QED BY <1>0, <2>2
<1>2. ASSUME NEW K \in 1 .. N, K - 1 \in Good PROVE K \in Good
  <2>1. PICK f \in [0 .. K - 1 -> Seq(T)] : Are(f, K - 1)
    BY <1>2
  <2>2. K \in Nat /\ K > 0 /\ K - 1 \in 0 .. K - 1 /\ f[K - 1] \in Seq(T)
    BY <1>0, <2>1
  <2> DEFINE x == IF OneSet(records[K], records[n]) THEN Append(f[K - 1], records[K])
                  ELSE f[K - 1]
             h == [m \in 0 .. K |-> IF m = K THEN x ELSE f[m]]
  <2>3. x \in Seq(T)
    <3>1. ASSUME OneSet(records[K], records[n])
          PROVE  Append(f[K - 1], records[K]) \in Seq(T)
      BY <1>0, <2>2, <3>1, AppendProperties
    <3> QED BY <2>2, <3>1
  <2>4. h \in [0 .. K -> Seq(T)] /\ h[K] = x /\ \A m \in 0 .. K - 1 : h[m] = f[m]
    <3> HIDE DEF x
    <3> QED BY <2>2, <2>3
  <2>5. Are(h, K)
    <3> SUFFICES ASSUME NEW m \in 0 .. K PROVE h[m] \in Seq(T) /\ h[m] = Step(h, m)
      OBVIOUS
    <3>1. h[m] \in Seq(T)
      <4> HIDE DEF h, x
      <4> QED BY <2>4
    <3>2. CASE m = K
      <4>1. h[K - 1] = f[K - 1] /\ m # 0
        <5> HIDE DEF h, x
        <5> QED BY <2>2, <2>4, <3>2
      <4>2. h[m] = x
        <5> HIDE DEF h, x
        <5> QED BY <2>4, <3>2
      <4> HIDE DEF h
      <4> QED BY <3>1, <3>2, <4>1, <4>2
    <3>3. CASE m # K
      <4>1. m \in 0 .. K - 1 /\ (m # 0 => m - 1 \in 0 .. K - 1)
        BY <2>2, <3>3
      <4>2. h[m] = f[m] /\ (m # 0 => h[m - 1] = f[m - 1]) /\ f[m] = Step(f, m)
        <5> HIDE DEF h, x, Step
        <5> QED BY <2>1, <2>4, <4>1
      <4> HIDE DEF h, x
      <4> QED BY <3>1, <4>2
    <3> QED BY <3>2, <3>3
  <2>6. Has(K)
    <3> HIDE DEF h, Are
    <3> QED BY <2>4, <2>5
  <2> HIDE DEF Has
  <2> QED BY <1>0, <2>6
<1>3. \A K \in 0 .. N : K \in Good
  <2> HIDE DEF Good, N
  <2> QED BY <1>0, <1>1, <1>2, UpToN
<1>4. Has(N)
  <2> HIDE DEF Has
  <2> QED BY <1>0, <1>3
<1> DEFINE Full(f) == [m \in 0 .. Len(records) |-> Step(f, m)]
           of == CHOOSE f : f = Full(f)
<1>5. \E f : f = Full(f)
  <2>1. PICK f \in [0 .. N -> Seq(T)] : Are(f, N)
    BY <1>4
  <2>2. \A m \in 0 .. N : f[m] = Step(f, m)
    <3> HIDE DEF Step
    <3> QED BY <2>1
  <2>3. f = Full(f)
    <3> HIDE DEF Step
    <3> QED BY <2>2
  <2> HIDE DEF Full
  <2> QED BY <2>3
<1>6. of = Full(of)
  <2> HIDE DEF Full
  <2> QED BY <1>5
<1>7. SetRecords(records, n) = of[N]
  BY DEF SetRecords
<1> HIDE DEF of
<1>8. \A m \in 0 .. N : of[m] = Step(of, m)
  <2> HIDE DEF Step
  <2> QED BY <1>6
<1> DEFINE Typed == {K \in 0 .. N : of[K] \in Seq(T)}
<1>9. 0 \in Typed
  <2>1. of[0] = <<>> /\ 0 \in 0 .. N
    BY <1>0, <1>8
  <2>2. <<>> \in Seq(T)
    OBVIOUS
  <2> QED BY <2>1, <2>2
<1>10. ASSUME NEW K \in 1 .. N, K - 1 \in Typed PROVE K \in Typed
  <2>1. K \in 0 .. N /\ K # 0 /\ of[K - 1] \in Seq(T)
    BY <1>0, <1>10
  <2>2. of[K] = IF OneSet(records[K], records[n]) THEN Append(of[K - 1], records[K])
                ELSE of[K - 1]
    BY <1>8, <2>1
  <2>3. ASSUME OneSet(records[K], records[n])
        PROVE  Append(of[K - 1], records[K]) \in Seq(T)
    BY <1>0, <2>1, <2>3, AppendProperties
  <2> QED BY <2>1, <2>2, <2>3
<1>11. \A K \in 0 .. N : K \in Typed
  <2> HIDE DEF Typed, N
  <2> QED BY <1>0, <1>9, <1>10, UpToN
<1>12. of[N] \in Seq(T)
  BY <1>0, <1>11
<1> QED BY <1>7, <1>12 DEF T

(* The groups of a payload, one for each record: some are empty. *)
Groups(records) == [n \in DOMAIN records |-> Group(records, n)]

(* A standalone card is its group; the group of a set stands at the first  *)
(* of its records.                                                         *)
LEMMA GroupIs ==
  ASSUME NEW records \in Seq(Strings), NEW n \in 1 .. Len(records)
  PROVE  /\ Group(records, n) \in Seq(Strings)
         /\ records[n].card \in Standalone => Group(records, n) = <<records[n]>>
         /\ records[n].card \notin Standalone /\ Group(records, n) # <<>> =>
              /\ \A m \in 1 .. n - 1 : ~OneSet(records[m], records[n])
              /\ \A j \in 1 .. Len(Group(records, n)) : OneSet(Group(records, n)[j], records[n])
<1> DEFINE T == {s \in Strings : OneSet(s, records[n])}
           R == SetRecords(records, n)
<1>1. R \in Seq(T) /\ records[n] \in Strings
  BY SetRecordsType, ElementOfSeq
<1>2. R \in Seq(Strings) /\ \A j \in 1 .. Len(R) : OneSet(R[j], records[n])
  <2> HIDE DEF R
  <2>1. \A j \in 1 .. Len(R) : R[j] \in T
    BY <1>1, ElementOfSeq
  <2>2. T \subseteq Strings
    OBVIOUS
  <2> HIDE DEF T
  <2>3. R \in Seq(Strings)
    BY <1>1, <2>2
  <2> QED BY <2>1, <2>3 DEF T
<1>3. <<records[n]>> \in Seq(Strings) /\ <<>> \in Seq(Strings)
  BY <1>1
<1> QED BY <1>2, <1>3 DEF Group, R

(* The groups are sequences of strings. *)
LEMMA GroupsType ==
  ASSUME NEW records \in Seq(Strings)
  PROVE  /\ Groups(records) \in Seq(Seq(Strings)) /\ Len(Groups(records)) = Len(records)
         /\ \A n \in 1 .. Len(records) : Groups(records)[n] = Group(records, n)
<1> DEFINE N == Len(records)
           G(n) == Group(records, n)
           g == [n \in 1 .. N |-> G(n)]
<1>1. N \in Nat /\ DOMAIN records = 1 .. N
  BY LenProperties
<1>2. \A n \in 1 .. N : G(n) \in Seq(Strings)
  BY GroupIs
<1>3. Groups(records) = g
  BY <1>1 DEF Groups
<1> HIDE DEF N, G
<1>4. g \in Seq(Seq(Strings))
  BY <1>1, <1>2, IsASeq
<1>5. Len(g) = N /\ \A n \in 1 .. N : g[n] = G(n)
  BY <1>1, <1>4, LenProperties
<1> QED BY <1>3, <1>4, <1>5 DEF N, G

(* The records of a payload, grouped, are strings. *)
LEMMA GroupedType ==
  ASSUME NEW records \in Seq(Strings)
  PROVE  /\ Grouped(records) = FlattenSeq(Groups(records))
         /\ Grouped(records) \in Seq(Strings)
<1>1. Grouped(records) = FlattenSeq(Groups(records))
  BY DEF Grouped, Groups
<1> QED BY <1>1, GroupsType, FlattenAt

-----------------------------------------------------------------------------
(* Nothing is cut before the review is confirmed, then the cards are cut   *)
(* from the first string of the first one up to where at stands.           *)
Cut ==
  /\ phase \in {"source", "gather", "review", "engrave", "done", "left"}
  /\ phase \in {"source", "gather", "review"} => at = [card |-> 1, string |-> 1] /\ steel = <<>>
  /\ phase \in {"review", "engrave", "done"} => cards # <<>>
  /\ phase = "done" => at.card = Len(cards) + 1

At ==
  /\ at \in [card : Nat, string : Nat] /\ at.card \in 1 .. Len(cards) + 1
  /\ at.card <= Len(cards) => at.string \in 1 .. Len(cards[at.card])
  /\ at.card = Len(cards) + 1 => at.string = 1

OnSteel ==
  /\ steel \in Seq(Seq(Strings))
  /\ Len(FlattenSeq(steel)) = Totals(cards)[at.card - 1] + at.string - 1
  /\ \A p \in 1 .. Len(FlattenSeq(steel)) : FlattenSeq(steel)[p] = FlattenSeq(cards)[p]
  /\ \A n \in DOMAIN steel : \A s, t \in Range(steel[n]) : s.card = t.card

CutInv == Cut /\ At /\ OnSteel

(* Cards are sequences of strings, none of them empty. *)
LEMMA CardSeqTyped ==
  ASSUME NEW seq \in Seq({CardStrings(c) : c \in Sound})
  PROVE  /\ seq \in Seq(Seq(Strings)) /\ Len(seq) \in Nat /\ DOMAIN seq = 1 .. Len(seq)
         /\ \A n \in 1 .. Len(seq) :
              \E c \in Sound : /\ c \in Cards /\ seq[n] = CardStrings(c)
                               /\ Len(seq[n]) = Total[c] /\ Total[c] \in Nat /\ Total[c] > 0
                               /\ \A j \in 1 .. Len(seq[n]) : seq[n][j].card = c
<1>1. ASSUME NEW c \in Cards
      PROVE  /\ CardStrings(c) \in Seq(Strings) /\ Len(CardStrings(c)) = Total[c]
             /\ \A j \in 1 .. Total[c] : CardStrings(c)[j].card = c
             /\ Total[c] \in Nat /\ Total[c] > 0
  <2>1. Total[c] \in Nat /\ Total[c] > 0
    BY CardAssumption
  <2> DEFINE N == Total[c]
             s == [n \in 1 .. N |-> [card |-> c, index |-> n - 1]]
  <2>2. CardStrings(c) = s
    BY DEF CardStrings
  <2>3. \A n \in 1 .. N : s[n] \in Strings
    <3>1. s = CardStrings(c) /\ DOMAIN s = 1 .. N
      BY <2>2
    <3> HIDE DEF s, N
    <3>2. \A n \in 1 .. N : s[n] \in Range(CardStrings(c))
      BY <3>1 DEF Range
    <3> QED BY <3>2 DEF Strings
  <2>4. \A j \in 1 .. N : s[j].card = c
    OBVIOUS
  <2>5. DOMAIN s = 1 .. N /\ s = [n \in 1 .. N |-> s[n]]
    OBVIOUS
  <2> HIDE DEF s
  <2>6. s \in Seq(Strings)
    <3>1. [n \in 1 .. N |-> s[n]] \in Seq(Strings)
      <4> HIDE DEF N
      <4> QED BY <2>1, <2>3, IsASeq DEF N
    <3> QED BY <2>5, <3>1
  <2>7. Len(s) = N
    <3> HIDE DEF N
    <3>1. s \in Seq(Strings) /\ DOMAIN s = 1 .. N /\ N \in Nat
      BY <2>1, <2>5, <2>6 DEF N
    <3>2. Len(s) \in Nat /\ DOMAIN s = 1 .. Len(s)
      BY <3>1, LenProperties
    <3> QED BY <3>1, <3>2
  <2> QED BY <2>1, <2>2, <2>4, <2>6, <2>7
<1>2. Sound \subseteq Cards
  BY CardAssumption
<1> DEFINE S == {CardStrings(c) : c \in Sound}
<1>3. S \subseteq Seq(Strings)
  BY <1>1, <1>2
<1>4. seq \in Seq(S)
  OBVIOUS
<1>5. seq \in Seq(Seq(Strings))
  <2> HIDE DEF S
  <2> QED BY <1>3, <1>4, SeqMonotonic
<1>6. Len(seq) \in Nat /\ DOMAIN seq = 1 .. Len(seq)
  <2> HIDE DEF S
  <2> QED BY <1>4, LenProperties
<1>7. \A n \in 1 .. Len(seq) : \E c \in Sound : seq[n] = CardStrings(c)
  <2> HIDE DEF S
  <2>1. \A n \in 1 .. Len(seq) : seq[n] \in S
    BY <1>4, <1>6, ElementOfSeq
  <2> QED BY <2>1 DEF S
<1>8. ASSUME NEW n \in 1 .. Len(seq)
      PROVE  \E c \in Sound : /\ c \in Cards /\ seq[n] = CardStrings(c)
                               /\ Len(seq[n]) = Total[c] /\ Total[c] \in Nat /\ Total[c] > 0
                               /\ \A j \in 1 .. Len(seq[n]) : seq[n][j].card = c
  <2>1. PICK c \in Sound : seq[n] = CardStrings(c)
    BY <1>7
  <2>2. c \in Cards
    BY <1>2
  <2> QED BY <1>1, <2>1, <2>2
<1> QED BY <1>5, <1>6, <1>8

(* ... as those of the bundle are. *)
LEMMA CardsTyped ==
  ASSUME CardsType
  PROVE  /\ cards \in Seq(Seq(Strings)) /\ Len(cards) \in Nat /\ DOMAIN cards = 1 .. Len(cards)
         /\ \A n \in 1 .. Len(cards) :
              \E c \in Sound : /\ c \in Cards /\ cards[n] = CardStrings(c)
                               /\ Len(cards[n]) = Total[c] /\ Total[c] \in Nat /\ Total[c] > 0
                               /\ \A j \in 1 .. Len(cards[n]) : cards[n][j].card = c
BY CardSeqTyped DEF CardsType

(* A plate takes the next strings of its card. *)
LEMMA CutPlateKeeps ==
  ASSUME CardsType, CardsWhole, CutInv, CutPlate
  PROVE  CutInv'
<1> DEFINE a == at.card
           b == at.string
           strs == cards[a]
           end == PlateEnd(strs, b)
           plate == SubSeq(strs, b, end)
           l == Len(strs)
           x == Totals(cards)[a - 1]
           F == FlattenSeq(steel)
           G == FlattenSeq(cards)
<1>1. /\ phase = "engrave" /\ a <= Len(cards) /\ steel' = Append(steel, plate)
      /\ at' = IF end = l THEN [card |-> a + 1, string |-> 1] ELSE [at EXCEPT !.string = end + 1]
      /\ phase' = phase /\ cards' = cards
  BY DEF CutPlate, NextString, gatherer
<1>2. a \in 1 .. Len(cards) /\ a \in Nat /\ Len(cards) \in Nat /\ b \in 1 .. l /\ b \in Nat
      /\ cards \in Seq(Seq(Strings)) /\ at = [card |-> a, string |-> b]
  BY <1>1, CardsTyped DEF CutInv, At
<1>3. PICK c \in Sound : /\ strs = CardStrings(c) /\ l = Total[c] /\ Total[c] \in Nat
                         /\ \A j \in 1 .. l : strs[j].card = c
  BY <1>2, CardsTyped
<1>4. strs \in Seq(Strings) /\ l \in Nat
  BY <1>2, <1>3, ElementOfSeq
<1>5. end \in b .. l /\ end \in Nat
  <2>1. PerPlate \in Nat /\ PerPlate > 0
    BY CardAssumption
  <2> HIDE DEF l, b, strs
  <2> QED BY <1>2, <1>3, <2>1 DEF PlateEnd, l
<1>6. /\ Totals(cards)[a] = x + l /\ x \in Nat
      /\ \A j \in 1 .. l : G[x + j] = strs[j]
  <2>1. Totals(cards) \in [0 .. Len(cards) -> Nat] /\ a - 1 \in 0 .. Len(cards)
    BY <1>2, TotalsDef
  <2>2. Totals(cards)[a] = x + l
    BY <1>2, TotalsDef
  <2>3. \A j \in 1 .. l : G[x + j] = strs[j]
    BY <1>2, FlattenAt
  <2>4. x \in Nat
    BY <2>1
  <2> QED BY <2>2, <2>3, <2>4
<1> HIDE DEF end
<1>7. /\ plate \in Seq(Strings) /\ Len(plate) = end - b + 1
      /\ \A i \in 1 .. end - b + 1 : plate[i] = strs[b + i - 1]
  <2>1. \A i \in b .. end : strs[i] \in Strings
    <3>1. \A i \in b .. end : i \in 1 .. l
      BY <1>2, <1>4, <1>5
    <3> QED BY <1>4, <3>1, ElementOfSeq
  <2>2. /\ plate \in Seq(Strings) /\ Len(plate) = IF b <= end THEN end - b + 1 ELSE 0
        /\ \A i \in 1 .. end - b + 1 : plate[i] = strs[b + i - 1]
    <3> HIDE DEF strs, b
    <3>1. b \in Int /\ end \in Int
      BY <1>2, <1>5
    <3> QED BY <2>1, <3>1, SubSeqProperties
  <2>3. b <= end
    BY <1>2, <1>5
  <2> QED BY <2>2, <2>3
<1>8. F \in Seq(Strings) /\ Len(F) = x + b - 1 /\ Len(F) \in Nat
  <2>1. steel \in Seq(Seq(Strings))
    BY DEF CutInv, OnSteel
  <2>2. F \in Seq(Strings)
    BY <2>1, FlattenAt
  <2>3. Len(F) = x + b - 1
    BY DEF CutInv, OnSteel
  <2> QED BY <2>2, <2>3, LenProperties
<1> HIDE DEF plate
<1>9. steel' \in Seq(Seq(Strings)) /\ FlattenSeq(steel') = F \o plate
  BY <1>1, <1>7, FlattenAppend DEF CutInv, OnSteel
<1> DEFINE H == FlattenSeq(steel')
<1> HIDE DEF F, G, strs, x, b, l
<1>10. Len(H) = x + end
  <2>1. Len(H) = Len(F) + Len(plate)
    BY <1>7, <1>8, <1>9, ConcatProperties
  <2> HIDE DEF H
  <2> QED BY <1>2, <1>5, <1>6, <1>7, <1>8, <2>1
<1>11. \A p \in 1 .. x + end : H[p] = G[p]
  <2> SUFFICES ASSUME NEW p \in 1 .. x + end PROVE H[p] = G[p]
    OBVIOUS
  <2>1. p \in 1 .. Len(F) + Len(plate)
    BY <1>2, <1>5, <1>6, <1>7, <1>8
  <2>2. H[p] = IF p <= Len(F) THEN F[p] ELSE plate[p - Len(F)]
    BY <1>7, <1>8, <1>9, <2>1, ConcatProperties
  <2>3. CASE p <= Len(F)
    <3>1. p \in 1 .. Len(F)
      BY <1>8, <2>3
    <3>2. F[p] = G[p]
      BY <3>1 DEF F, G, CutInv, OnSteel
    <3> QED BY <2>2, <2>3, <3>2
  <2>4. CASE ~(p <= Len(F))
    <3> DEFINE i == p - Len(F)
    <3>1. i \in 1 .. end - b + 1 /\ b + i - 1 \in 1 .. l /\ x + (b + i - 1) = p
      <4>1. Len(F) = x + b - 1 /\ x \in Nat /\ b \in 1 .. l /\ l \in Nat /\ end \in b .. l
        BY <1>2, <1>3, <1>4, <1>5, <1>6, <1>8 DEF l
      <4> DEFINE y == Len(F)
      <4> HIDE DEF y
      <4>2. y = x + b - 1 /\ p \in Nat /\ ~(p <= y)
        BY <4>1, <2>4 DEF y
      <4>3. p - y \in 1 .. end - b + 1 /\ b + (p - y) - 1 \in 1 .. l /\ x + (b + (p - y) - 1) = p
        BY <4>1, <4>2
      <4> QED BY <4>3 DEF y
    <3>2. H[p] = plate[i] /\ plate[i] = strs[b + i - 1]
      BY <1>7, <2>2, <2>4, <3>1
    <3>3. G[x + (b + i - 1)] = strs[b + i - 1]
      <4> HIDE DEF i
      <4> QED BY <1>6, <3>1
    <3> QED BY <3>1, <3>2, <3>3
  <2> QED BY <2>3, <2>4
<1>12. at' \in [card : Nat, string : Nat] /\ at'.card \in 1 .. Len(cards) + 1
  <2> DEFINE n == Len(cards)
  <2>1. n \in Nat /\ a \in 1 .. n /\ end + 1 \in Nat
    BY <1>2, <1>5
  <2> HIDE DEF n
  <2>2. a + 1 \in 1 .. n + 1 /\ a \in 1 .. n + 1 /\ a \in Nat /\ a + 1 \in Nat /\ 1 \in Nat
    BY <2>1
  <2>3. CASE end = l
    <3>1. at' = [card |-> a + 1, string |-> 1]
      BY <1>1, <2>3
    <3> HIDE DEF a
    <3> QED BY <2>2, <3>1 DEF n
  <2>4. CASE end # l
    <3>1. at' = [card |-> a, string |-> end + 1]
      BY <1>1, <1>2, <2>4
    <3> HIDE DEF a
    <3> QED BY <2>1, <2>2, <3>1 DEF n
  <2> QED BY <2>3, <2>4
<1>13. /\ at'.card <= Len(cards) => at'.string \in 1 .. Len(cards[at'.card])
       /\ at'.card = Len(cards) + 1 => at'.string = 1
       /\ Totals(cards)[at'.card - 1] + at'.string - 1 = x + end
  <2>1. CASE end = l
    <3>1. at'.card = a + 1 /\ at'.string = 1 /\ a + 1 - 1 = a
      BY <1>1, <1>2, <2>1
    <3>2. a + 1 <= Len(cards) => 1 \in 1 .. Len(cards[a + 1])
      <4>1. ASSUME a + 1 <= Len(cards) PROVE 1 \in 1 .. Len(cards[a + 1])
        <5>1. a + 1 \in 1 .. Len(cards)
          BY <1>2, <4>1
        <5>2. Len(cards[a + 1]) \in Nat /\ Len(cards[a + 1]) > 0
          BY <5>1, CardsTyped
        <5> QED BY <5>2
      <4> QED BY <4>1
    <3>3. Totals(cards)[a] + 1 - 1 = x + end
      <4> DEFINE y == Totals(cards)[a]
      <4> HIDE DEF y
      <4>1. y = x + l
        BY <1>6 DEF y
      <4>2. y + 1 - 1 = x + end
        BY <4>1, <1>5, <1>6, <2>1
      <4> QED BY <4>2 DEF y
    <3>4. at'.card - 1 = a
      <4> HIDE DEF a
      <4> QED BY <1>2, <3>1
    <3>5. at'.card <= Len(cards) => at'.string \in 1 .. Len(cards[at'.card])
      <4> HIDE DEF a
      <4> QED BY <3>1, <3>2, Zenon
    <3>6. Totals(cards)[at'.card - 1] + at'.string - 1 = x + end
      <4> HIDE DEF a
      <4> QED BY <3>1, <3>3, <3>4, Zenon
    <3> QED BY <3>1, <3>5, <3>6
  <2>2. CASE end # l
    <3>1. at'.card = a /\ at'.string = end + 1
      BY <1>1, <1>2, <2>2
    <3>2. end + 1 \in 1 .. l /\ a # Len(cards) + 1 /\ x + (end + 1) - 1 = x + end
      BY <1>2, <1>4, <1>5, <1>6, <2>2
    <3> QED BY <3>1, <3>2 DEF l, strs, x
  <2> QED BY <2>1, <2>2
<1>14. \A n \in DOMAIN steel' : \A s, t \in Range(steel'[n]) : s.card = t.card
  <2>1. \A s \in Range(plate) : s.card = c
    <3> SUFFICES ASSUME NEW s \in Range(plate) PROVE s.card = c
      OBVIOUS
    <3>1. PICK i \in DOMAIN plate : s = plate[i]
      BY DEF Range
    <3>2. i \in 1 .. end - b + 1
      BY <1>7, <3>1, LenProperties
    <3>3. b + i - 1 \in 1 .. l
      BY <1>2, <1>4, <1>5, <3>2
    <3> QED BY <1>3, <1>7, <3>1, <3>2, <3>3 DEF l
  <2>2. /\ DOMAIN steel' = 1 .. Len(steel) + 1 /\ DOMAIN steel = 1 .. Len(steel) /\ Len(steel) \in Nat
        /\ steel'[Len(steel) + 1] = plate /\ \A n \in 1 .. Len(steel) : steel'[n] = steel[n]
    <3>1. steel \in Seq(Seq(Strings))
      BY DEF CutInv, OnSteel
    <3>2. /\ Append(steel, plate) \in Seq(Seq(Strings)) /\ Len(Append(steel, plate)) = Len(steel) + 1
          /\ \A i \in 1 .. Len(steel) : Append(steel, plate)[i] = steel[i]
          /\ Append(steel, plate)[Len(steel) + 1] = plate
      BY <1>7, <3>1, AppendProperties
    <3>3. DOMAIN Append(steel, plate) = 1 .. Len(steel) + 1
      BY <3>2, LenProperties
    <3> QED BY <1>1, <3>1, <3>2, <3>3, LenProperties
  <2> SUFFICES ASSUME NEW n \in DOMAIN steel' PROVE \A s, t \in Range(steel'[n]) : s.card = t.card
    OBVIOUS
  <2>3. CASE n \in DOMAIN steel
    <3>1. steel'[n] = steel[n]
      BY <2>2, <2>3
    <3> QED BY <2>3, <3>1 DEF CutInv, OnSteel
  <2>4. CASE n \notin DOMAIN steel
    <3>1. n = Len(steel) + 1
      BY <2>2, <2>4
    <3> QED BY <2>1, <2>2, <3>1
  <2> QED BY <2>3, <2>4
<1>15. Cut'
  BY <1>1 DEF CutInv, Cut
<1>16. At'
  BY <1>1, <1>12, <1>13 DEF At
<1>17. OnSteel'
  BY <1>1, <1>9, <1>10, <1>11, <1>13, <1>14 DEF OnSteel, G
<1> QED BY <1>15, <1>16, <1>17 DEF CutInv

(* No card has been cut yet. *)
LEMMA NothingCut ==
  ASSUME CardsType, CardsWhole, phase \in {"source", "gather", "review", "left"},
         at = [card |-> 1, string |-> 1], steel = <<>>, phase = "review" => cards # <<>>
  PROVE  CutInv
<1>1. /\ cards \in Seq(Seq(Strings)) /\ Len(cards) \in Nat
      /\ \A n \in 1 .. Len(cards) : Len(cards[n]) \in Nat /\ Len(cards[n]) > 0
  BY CardsTyped
<1>2. Cut
  BY DEF Cut
<1>3. At
  <2>1. at \in [card : Nat, string : Nat]
    BY <1>1
  <2>2. at.card = 1 /\ at.string = 1 /\ 1 \in 1 .. Len(cards) + 1
    BY <1>1
  <2>3. 1 <= Len(cards) => 1 \in 1 .. Len(cards)
    BY <1>1
  <2>4. 1 <= Len(cards) => 1 \in 1 .. Len(cards[1])
    BY <1>1, <2>3
  <2> QED BY <2>1, <2>2, <2>4 DEF At
<1>4. OnSteel
  <2>1. steel \in Seq(Seq(Strings)) /\ FlattenSeq(steel) = <<>> /\ DOMAIN steel = {}
    BY FlattenEmpty
  <2>2. Len(FlattenSeq(steel)) = 0 /\ Totals(cards)[at.card - 1] = 0 /\ at.string = 1
    BY <1>1, <2>1, TotalsDef
  <2>3. 0 = 0 + 1 - 1 /\ 1 .. 0 = {}
    OBVIOUS
  <2> QED BY <2>1, <2>2, <2>3 DEF OnSteel
<1> QED BY <1>2, <1>3, <1>4 DEF CutInv

(* Every step keeps it. *)
LEMMA StepCut == GathererInv /\ GathererInv' /\ CutInv /\ [Next]_vars => CutInv'
<1> SUFFICES ASSUME GathererInv, GathererInv', CutInv, [Next]_vars PROVE CutInv'
  OBVIOUS
<1>0. CardsType /\ CardsWhole /\ CardsType' /\ CardsWhole'
  BY DEF GathererInv
<1>1. (CardsType /\ CardsWhole /\ phase \in {"source", "gather", "review", "left"}
       /\ at = [card |-> 1, string |-> 1] /\ steel = <<>> /\ (phase = "review" => cards # <<>>)
       => CutInv)'
  BY NothingCut, PTL
<1>2. CASE Choose \/ Feed \/ Scan \/ Done \/ ReviewBack
  <2>1. at = [card |-> 1, string |-> 1] /\ steel = <<>> /\ at' = at /\ steel' = steel
        /\ phase' \in {"gather", "review"} /\ (phase' = "review" => cards' # <<>>)
    BY <1>2 DEF CutInv, Cut, Choose, Feed, Scan, Done, ReviewBack, Scanning, engraving
  <2> QED BY <1>0, <1>1, <2>1
<1>3. CASE Leave
  <2>1. at = [card |-> 1, string |-> 1] /\ steel = <<>> /\ at' = at /\ steel' = steel /\ phase' = "left"
    BY <1>3 DEF CutInv, Cut, Leave, Scanning, engraving
  <2> QED BY <1>0, <1>1, <2>1
<1>4. CASE CutPlate
  BY <1>0, <1>4, CutPlateKeeps
<1>5. ASSUME cards' = cards, at' = at, steel' = steel, Cut' PROVE CutInv'
  BY <1>5 DEF CutInv, At, OnSteel
<1>6. CASE Confirm \/ Abort
  BY <1>5, <1>6 DEF Confirm, Abort, gatherer, engraving, CutInv, Cut
<1>7. CASE Finish
  <2>1. at.card = Len(cards) + 1
    <3>1. at.card \in 1 .. Len(cards) + 1 /\ at.card > Len(cards) /\ Len(cards) \in Nat
      BY <1>0, <1>7, CardsTyped DEF Finish, CutInv, At
    <3> QED BY <3>1
  <2> QED BY <1>5, <1>7, <2>1 DEF Finish, gatherer, engraving, CutInv, Cut
<1>8. CASE UNCHANGED vars
  BY <1>5, <1>8 DEF vars, gatherer, engraving, CutInv, Cut
<1> QED BY <1>2, <1>3, <1>4, <1>6, <1>7, <1>8 DEF Next

(* The invariant of the gatherer with that of the cutting. *)
THEOREM CutHolds == Spec => [](GathererInv /\ CutInv)
<1>1. Init => GathererInv /\ CutInv
  <2> SUFFICES ASSUME Init PROVE GathererInv /\ CutInv
    OBVIOUS
  <2>1. GathererInv
    BY EmptyGatherer DEF Init
  <2> QED BY <2>1, NothingCut DEF Init, GathererInv
<1>2. GathererInv /\ CutInv /\ [Next]_vars => (GathererInv /\ CutInv)'
  BY StepKeeps, StepCut
<1> QED BY <1>1, <1>2, PTL DEF Spec

(* Where a card of the bundle lies in the flattened bundle. *)
LEMMA CardPlace ==
  ASSUME CardsType, CardsWhole, NEW k \in 1 .. Len(cards), NEW c \in Sound, NEW F,
         c \in Cards, cards[k] = CardStrings(c), F = FlattenSeq(cards)
  PROVE  \E lo \in {n \in DOMAIN F : F[n].card = c} :
           /\ {n \in DOMAIN F : F[n].card = c} = lo .. lo + Total[c] - 1
           /\ SubSeq(F, lo, lo + Total[c] - 1) = CardStrings(c)
<1> DEFINE x == Totals(cards)[k - 1]
           y == Totals(cards)[k]
           l == Total[c]
           m == Len(F)
           on == {n \in DOMAIN F : F[n].card = c}
<1>1. cards \in Seq(Seq(Strings)) /\ Len(cards) \in Nat /\ DOMAIN cards = 1 .. Len(cards)
  BY CardsTyped
<1>2. l \in Nat /\ l > 0 /\ Len(cards[k]) = l
  BY CardsTyped, CardStringsDiffer, CardAssumption
<1>3. x \in Nat /\ y = x + l /\ y <= m /\ m \in Nat /\ F \in Seq(Strings) /\ DOMAIN F = 1 .. m
  <2>1. Totals(cards) \in [0 .. Len(cards) -> Nat] /\ y = x + l
    BY <1>1, <1>2, TotalsDef
  <2>2. k - 1 \in 0 .. Len(cards) /\ k \in 0 .. Len(cards) /\ Len(cards) \in 0 .. Len(cards) /\ k <= Len(cards)
    BY <1>1
  <2>3. y <= Totals(cards)[Len(cards)]
    BY <1>1, <2>2, TotalsMonotone
  <2>4. m = Totals(cards)[Len(cards)] /\ F \in Seq(Strings)
    BY <1>1, FlattenAt
  <2>5. m \in Nat /\ DOMAIN F = 1 .. m
    BY <2>4, LenProperties
  <2>6. x \in Nat
    BY <2>1, <2>2
  <2> QED BY <2>1, <2>3, <2>4, <2>5, <2>6
<1>4. \A j \in 1 .. l : F[x + j] = CardStrings(c)[j]
  <2>1. \A j \in 1 .. Len(cards[k]) : FlattenSeq(cards)[Totals(cards)[k - 1] + j] = cards[k][j]
    BY <1>1, FlattenAt
  <2>2. \A j \in 1 .. l : F[x + j] = cards[k][j]
    BY <1>2, <2>1
  <2> QED BY <2>2
<1>5. \A j \in 1 .. l : CardStrings(c)[j].card = c
  BY DEF CardStrings
<1> HIDE DEF x, y, l, m
<1> DEFINE lo == x + 1
<1>6. \A n \in lo .. lo + l - 1 : n \in DOMAIN F /\ n - x \in 1 .. l /\ x + (n - x) = n
  BY <1>2, <1>3
<1>7. \A n \in lo .. lo + l - 1 : n \in on
  <2> SUFFICES ASSUME NEW n \in lo .. lo + l - 1 PROVE n \in on
    OBVIOUS
  <2>1. F[x + (n - x)] = CardStrings(c)[n - x] /\ CardStrings(c)[n - x].card = c
    BY <1>4, <1>5, <1>6
  <2> HIDE DEF lo
  <2> QED BY <1>6, <2>1
<1>8. \A n \in on : n \in lo .. lo + l - 1
  <2> SUFFICES ASSUME NEW n \in on PROVE n \in lo .. lo + l - 1
    OBVIOUS
  <2>1. n \in 1 .. m /\ F[n].card = c
    BY <1>3
  <2>2. m = Totals(cards)[Len(cards)]
    BY <1>1, FlattenAt DEF m
  <2>3. PICK i \in 1 .. Len(cards) : \E j \in 1 .. Len(cards[i]) : n = Totals(cards)[i - 1] + j
    BY <1>1, <2>1, <2>2, TotalsFind
  <2>4. PICK j \in 1 .. Len(cards[i]) : n = Totals(cards)[i - 1] + j
    BY <2>3
  <2>5. F[n] = cards[i][j]
    BY <1>1, <2>4, FlattenAt
  <2>6. PICK d \in Sound : cards[i] = CardStrings(d) /\ \A q \in 1 .. Len(cards[i]) : cards[i][q].card = d
    BY CardsTyped
  <2>7. d = c
    BY <2>1, <2>4, <2>5, <2>6
  <2>8. i = k
    BY <1>1, <2>6, <2>7 DEF CardsWhole, IsInjective
  <2>9. j \in 1 .. l /\ n = x + j
    BY <1>2, <2>4, <2>8 DEF x
  <2> QED BY <1>2, <1>3, <2>9
<1>9. on = lo .. lo + l - 1
  <2> HIDE DEF on, lo
  <2> QED BY <1>7, <1>8
<1>10. lo \in on /\ lo + l - 1 <= m /\ lo >= 1
  <2>1. lo \in lo .. lo + l - 1
    BY <1>2, <1>3
  <2>2. lo \in on
    <3> HIDE DEF on, lo
    <3> QED BY <1>7, <2>1
  <2> HIDE DEF on
  <2> QED BY <1>2, <1>3, <2>2
<1>11. SubSeq(F, lo, lo + l - 1) = CardStrings(c)
  <2> DEFINE s == SubSeq(F, lo, lo + l - 1)
             t == CardStrings(c)
  <2>1. /\ s \in Seq(Strings) /\ Len(s) = l /\ \A q \in 1 .. l : s[q] = F[lo + q - 1]
    <3> DEFINE hi == lo + l - 1
    <3>1. lo \in Int /\ hi \in Int /\ lo <= hi /\ hi - lo + 1 = l
      BY <1>2, <1>3
    <3>2. \A i \in lo .. hi : F[i] \in Strings
      <4>1. \A i \in lo .. hi : i \in 1 .. m
        BY <1>3, <1>6
      <4> HIDE DEF lo, hi
      <4> QED BY <1>3, <4>1, ElementOfSeq DEF m
    <3> HIDE DEF lo, hi
    <3>3. /\ SubSeq(F, lo, hi) \in Seq(Strings)
          /\ Len(SubSeq(F, lo, hi)) = IF lo <= hi THEN hi - lo + 1 ELSE 0
          /\ \A i \in 1 .. hi - lo + 1 : SubSeq(F, lo, hi)[i] = F[lo + i - 1]
      BY <3>1, <3>2, SubSeqProperties
    <3> QED BY <3>1, <3>3 DEF hi
  <2>2. t \in Seq(Strings) /\ Len(t) = l
    <3>1. \E d \in Sound : cards[k] = CardStrings(d) /\ Len(cards[k]) = Total[d]
      BY CardsTyped
    <3>2. cards[k] \in Seq(Strings)
      BY <1>1, ElementOfSeq
    <3> QED BY <1>2, <3>2
  <2>3. \A q \in 1 .. l : lo + q - 1 = x + q
    BY <1>2, <1>3
  <2>4. \A q \in 1 .. l : s[q] = t[q]
    <3> HIDE DEF s, t, lo
    <3> QED BY <1>4, <2>1, <2>3 DEF t
  <2> HIDE DEF s, t
  <2>5. s = t
    BY <2>1, <2>2, <2>4, SeqEqual
  <2> QED BY <2>5 DEF s, t
<1> HIDE DEF on, lo
<1>12. \E z \in on : on = z .. z + l - 1 /\ SubSeq(F, z, z + l - 1) = CardStrings(c)
  BY <1>9, <1>10, <1>11
<1> QED BY <1>12 DEF on, l

(* A bundle that is cut is whole on steel. *)
LEMMA CutIsWhole == GathererInv /\ CutInv => SteelIsWhole
<1> SUFFICES ASSUME GathererInv, CutInv, phase = "done"
             PROVE  /\ \A c \in Cards : CutTogether(c)
                    /\ \A n \in DOMAIN steel : \A s, t \in Range(steel[n]) : s.card = t.card
                    /\ steel # <<>>
  BY DEF SteelIsWhole
<1> DEFINE F == FlattenSeq(steel)
           G == FlattenSeq(cards)
           N == Len(cards)
<1>1. /\ CardsType /\ CardsWhole /\ cards # <<>> /\ at.card = N + 1 /\ at.string = 1
      /\ steel \in Seq(Seq(Strings))
  BY DEF GathererInv, CutInv, Cut, At, OnSteel
<1>2. cards \in Seq(Seq(Strings)) /\ N \in Nat /\ N > 0
  <2>1. cards \in Seq(Seq(Strings)) /\ N \in Nat
    BY <1>1, CardsTyped
  <2>2. N # 0
    BY <1>1, <2>1, EmptySeq
  <2> QED BY <2>1, <2>2
<1>3. Totals(cards)[N] \in Nat /\ Len(G) = Totals(cards)[N] /\ G \in Seq(Strings) /\ F \in Seq(Strings)
  <2>1. Totals(cards) \in [0 .. N -> Nat] /\ N \in 0 .. N
    BY <1>2, TotalsDef
  <2>2. Len(G) = Totals(cards)[N] /\ G \in Seq(Strings)
    BY <1>2, FlattenAt
  <2>3. F \in Seq(Strings)
    BY <1>1, FlattenAt
  <2> QED BY <2>1, <2>2, <2>3
<1>4. Len(F) = Len(G)
  <2> DEFINE y == Totals(cards)[N]
  <2>1. Len(F) = Totals(cards)[at.card - 1] + at.string - 1
    BY DEF CutInv, OnSteel
  <2>2. at.card - 1 = N
    BY <1>1, <1>2
  <2>3. Len(F) = y + 1 - 1
    BY <1>1, <2>1, <2>2
  <2>4. y \in Nat
    BY <1>3
  <2> HIDE DEF y
  <2>5. y + 1 - 1 = y
    BY <2>4
  <2> QED BY <1>3, <2>3, <2>5 DEF y
<1>5. F = G
  <2>1. \A p \in 1 .. Len(F) : F[p] = G[p]
    BY DEF CutInv, OnSteel
  <2> HIDE DEF F, G
  <2> QED BY <1>3, <1>4, <2>1, SeqEqual
<1>6. ASSUME NEW c \in Cards PROVE CutTogether(c)
  <2>1. CASE \E n \in DOMAIN F : F[n].card = c
    <3>1. PICK n \in DOMAIN F : F[n].card = c
      BY <2>1
    <3>2. n \in 1 .. Totals(cards)[N]
      BY <1>3, <1>4, <3>1, LenProperties
    <3>3. PICK i \in 1 .. N : \E j \in 1 .. Len(cards[i]) : n = Totals(cards)[i - 1] + j
      BY <1>2, <3>2, TotalsFind
    <3>4. PICK j \in 1 .. Len(cards[i]) : n = Totals(cards)[i - 1] + j
      BY <3>3
    <3>5. G[n] = cards[i][j]
      BY <1>2, <3>4, FlattenAt
    <3>6. PICK d \in Sound : cards[i] = CardStrings(d) /\ \A q \in 1 .. Len(cards[i]) : cards[i][q].card = d
      BY <1>1, CardsTyped
    <3>7. d = c
      BY <1>5, <3>1, <3>4, <3>5, <3>6
    <3>8. \E lo \in {q \in DOMAIN F : F[q].card = c} :
            /\ {q \in DOMAIN F : F[q].card = c} = lo .. lo + Total[c] - 1
            /\ SubSeq(F, lo, lo + Total[c] - 1) = CardStrings(c)
      <4>1. F = FlattenSeq(cards)
        BY <1>5
      <4> HIDE DEF F
      <4> QED BY <1>1, <3>6, <3>7, <4>1, CardPlace
    <3> QED BY <3>8 DEF CutTogether
  <2>2. CASE ~ \E n \in DOMAIN F : F[n].card = c
    BY <2>2 DEF CutTogether
  <2> QED BY <2>1, <2>2
<1>7. steel # <<>>
  <2>1. ASSUME steel = <<>> PROVE FALSE
    <3>1. Len(G) = 0
      BY <1>4, <2>1, FlattenEmpty
    <3>2. 1 \in 1 .. N
      BY <1>2
    <3>3. Len(cards[1]) \in Nat /\ Len(cards[1]) > 0
      BY <1>1, <3>2, CardsTyped
    <3>4. 1 - 1 = 0 /\ 0 \in 0 .. N /\ 1 \in 0 .. N /\ N \in 0 .. N /\ 1 <= N
      BY <1>2
    <3>5. Totals(cards)[1] = Totals(cards)[0] + Len(cards[1]) /\ Totals(cards)[0] = 0
      BY <1>2, <3>2, <3>4, TotalsDef
    <3>6. Totals(cards)[1] <= Totals(cards)[N]
      BY <1>2, <3>4, TotalsMonotone
    <3> QED BY <1>3, <3>1, <3>3, <3>5, <3>6
  <2> QED BY <2>1
<1> QED BY <1>6, <1>7 DEF CutInv, OnSteel

(* When the set is cut, every card that has a string on steel has all of   *)
(* them there, once, in order and together, and no plate holds two cards'. *)
THEOREM SteelStaysWhole == Spec => []SteelIsWhole
BY CutHolds, CutIsWhole, PTL

-----------------------------------------------------------------------------
(* Whole sound cards, none twice, no two with one key. *)
Distinct(seq) ==
  /\ seq \in Seq({CardStrings(c) : c \in Sound}) /\ IsInjective(seq)
  /\ \A m, n \in DOMAIN seq : \A c, d \in Chunked :
       seq[m] = CardStrings(c) /\ seq[n] = CardStrings(d) /\ Key[c] = Key[d] => m = n

Begins(s, t) == Len(s) <= Len(t) /\ \A n \in 1 .. Len(s) : t[n] = s[n]

(* The strings of the earlier cards are fed; the next is the p-th of them. *)
Replaying == phase = "gather" /\ feed # <<>> /\ kept # <<>>
FedOf(F, p) ==
  /\ Len(feed) = Len(F) - p + 1
  /\ \A q \in 1 .. Len(feed) : feed[q] = F[p + q - 1]
FedFrom(p) == FedOf(FlattenSeq(kept), p)

(* The next is the j-th string of the i-th card: the cards before it are   *)
(* there again, its own set holds the chunks before j, the sets of the     *)
(* cards after it are empty.                                               *)
SetsFrom(i, j) ==
  /\ \A c \in Chunked : kept[i] = CardStrings(c) =>
       /\ DOMAIN sets[Key[c]].has = 0 .. j - 2
       /\ \A x \in 0 .. j - 2 : sets[Key[c]].has[x] = c
       /\ sets[Key[c]].total = IF j = 1 THEN 0 ELSE Total[c]
  /\ \A n \in 1 .. Len(kept) : n > i => \A c \in Chunked :
       kept[n] = CardStrings(c) => sets[Key[c]].total = 0
ReplayAt(i, j) ==
  /\ FedFrom(Totals(kept)[i - 1] + j)
  /\ Len(cards) = i - 1 /\ \A n \in 1 .. i - 1 : cards[n] = kept[n]
  /\ SetsFrom(i, j)
Midway == \E i \in 1 .. Len(kept) : \E j \in 1 .. Len(kept[i]) : ReplayAt(i, j)

ReplayInv ==
  /\ Distinct(kept) /\ feed \in Seq(Strings)
  /\ phase = "source" => kept = <<>>
  /\ Replaying => Midway
  /\ ~Replaying => Begins(kept, cards)

(* The cards of a bundle are distinct. *)
LEMMA CardsDistinct == GathererInv => Distinct(cards)
<1> SUFFICES ASSUME GathererInv PROVE Distinct(cards)
  OBVIOUS
<1>1. cards \in Seq({CardStrings(c) : c \in Sound}) /\ IsInjective(cards)
  BY DEF GathererInv, CardsType, CardsWhole
<1>2. ASSUME NEW m \in DOMAIN cards, NEW n \in DOMAIN cards, NEW c \in Chunked, NEW d \in Chunked,
             cards[m] = CardStrings(c), cards[n] = CardStrings(d), Key[c] = Key[d]
      PROVE  m = n
  <2>1. Collected(sets[Key[c]]) = CardStrings(c) /\ Collected(sets[Key[d]]) = CardStrings(d)
    BY <1>2 DEF GathererInv, AddedIsComplete
  <2>2. cards[m] = cards[n]
    BY <1>2, <2>1
  <2> QED BY <1>1, <2>2 DEF IsInjective
<1> QED BY <1>1, <1>2 DEF Distinct

(* An offer adds at most one card, at the end. *)
LEMMA OfferAdds ==
  ASSUME GathererInv, NEW s, Offer(s)
  PROVE  Begins(cards, cards')
<1>1. cards' = cards \/ \E x : cards' = Append(cards, x)
  BY DEF Offer, AddStandalone, AddChunk, gatherer
<1>2. Len(cards) \in Nat /\ DOMAIN cards = 1 .. Len(cards)
  BY CardsTyped DEF GathererInv
<1>3. ASSUME NEW x, cards' = Append(cards, x) PROVE Begins(cards, cards')
  <2>1. cards \in Seq(Seq(Strings) \cup {x})
    <3>1. cards \in Seq(Seq(Strings))
      BY CardsTyped DEF GathererInv
    <3>2. Seq(Strings) \subseteq Seq(Strings) \cup {x}
      OBVIOUS
    <3> DEFINE A == Seq(Strings)
               B == Seq(Strings) \cup {x}
    <3> HIDE DEF A, B
    <3>3. Seq(A) \subseteq Seq(B)
      BY <3>2, SeqMonotonic DEF A, B
    <3> QED BY <3>1, <3>3 DEF A, B
  <2> DEFINE B == Seq(Strings) \cup {x}
  <2>2. x \in B
    OBVIOUS
  <2> HIDE DEF B
  <2>3. Len(cards') = Len(cards) + 1 /\ \A n \in 1 .. Len(cards) : cards'[n] = cards[n]
    BY <1>3, <2>1, <2>2, AppendProperties DEF B
  <2> QED BY <1>2, <2>3 DEF Begins
<1>4. cards' = cards => Begins(cards, cards')
  BY <1>2 DEF Begins
<1> QED BY <1>1, <1>3, <1>4

(* A beginning of a beginning is one. *)
LEMMA BeginsTransitive ==
  ASSUME NEW r, NEW s, NEW t, Begins(r, s), Begins(s, t),
         Len(r) \in Nat, Len(s) \in Nat, Len(t) \in Nat
  PROVE  Begins(r, t)
<1>1. Len(r) <= Len(s) /\ Len(s) <= Len(t)
  BY DEF Begins
<1>2. Len(r) <= Len(t) /\ \A n \in 1 .. Len(r) : n \in 1 .. Len(s)
  BY <1>1
<1> QED BY <1>2 DEF Begins

(* The replay starts with nothing captured. *)
LEMMA ReplayStarts ==
  ASSUME GathererInv, CutInv, ReviewBack
  PROVE  ReplayInv'
<1>1. /\ phase' = "gather" /\ kept' = cards /\ feed' = FlattenSeq(cards) /\ cards' = <<>>
      /\ sets' = [k \in Keys |-> Unprimed] /\ cards # <<>>
  BY DEF ReviewBack, Again, CutInv, Cut
<1>2. Distinct(kept)'
  <2>1. Distinct(cards)
    BY CardsDistinct
  <2> QED BY <1>1, <2>1 DEF Distinct
<1>3. /\ cards \in Seq(Seq(Strings)) /\ Len(cards) \in Nat /\ 1 \in 1 .. Len(cards)
      /\ Len(cards[1]) \in Nat /\ 1 \in 1 .. Len(cards[1])
  <2>1. cards \in Seq(Seq(Strings)) /\ Len(cards) \in Nat
    BY CardsTyped DEF GathererInv
  <2>2. Len(cards) # 0
    BY <1>1, <2>1, EmptySeq
  <2>3. 1 \in 1 .. Len(cards)
    BY <2>1, <2>2
  <2>4. Len(cards[1]) \in Nat /\ Len(cards[1]) > 0
    BY <2>3, CardsTyped DEF GathererInv
  <2> QED BY <2>1, <2>3, <2>4
<1>4. FlattenSeq(cards) \in Seq(Strings) /\ Len(FlattenSeq(cards)) \in Nat
  BY <1>3, FlattenAt, LenProperties
<1>5. \A c \in Chunked : Key[c] \in Keys
  BY DEF Chunked, Keys
<1>6. Midway'
  <2>1. Totals(cards)[0] = 0
    BY <1>3, TotalsDef
  <2>2. FedFrom(1)'
    <3> DEFINE F == FlattenSeq(cards)
               l == Len(F)
    <3>1. l \in Nat /\ feed' = F /\ FlattenSeq(kept)' = F
      BY <1>1, <1>4
    <3> HIDE DEF F
    <3>2. l = l - 1 + 1 /\ \A q \in 1 .. l : 1 + q - 1 = q
      <4> HIDE DEF l
      <4> QED BY <3>1
    <3>3. Len(feed)' = l /\ Len(FlattenSeq(kept))' = l
      BY <3>1
    <3> QED BY <3>1, <3>2, <3>3 DEF FedFrom, FedOf
  <2>3. SetsFrom(1, 1)'
    <3>1. 0 .. 1 - 2 = {} /\ DOMAIN Unprimed.has = {} /\ Unprimed.total = 0
      BY DEF Unprimed
    <3>2. \A c \in Chunked : sets'[Key[c]] = Unprimed
      BY <1>1, <1>5
    <3> QED BY <3>1, <3>2 DEF SetsFrom
  <2>4. Len(cards') = 1 - 1 /\ 1 .. 1 - 1 = {}
    BY <1>1
  <2>5. ReplayAt(1, 1)'
    <3>1. Totals(kept)'[1 - 1] + 1 = 1
      BY <1>1, <2>1
    <3> QED BY <2>2, <2>3, <2>4, <3>1 DEF ReplayAt
  <2>6. 1 \in 1 .. Len(kept)' /\ 1 \in 1 .. Len(kept'[1])
    BY <1>1, <1>3
  <2> QED BY <2>5, <2>6 DEF Midway
<1>7. Replaying'
  <2>1. Len(FlattenSeq(cards)) # 0
    <3>1. \E q \in 1 .. Len(cards[1]) : TRUE
      BY <1>3
    <3> DEFINE off == Totals(cards)
               N == Len(cards)
    <3>2. off[1] = off[0] + Len(cards[1]) /\ off[0] = 0
      BY <1>3, TotalsDef
    <3>3. off[1] <= off[N] /\ off[N] \in Nat
      <4>1. 1 \in 0 .. N /\ N \in 0 .. N /\ 1 <= N
        BY <1>3
      <4>2. off \in [0 .. N -> Nat]
        BY <1>3, TotalsDef
      <4> QED BY <1>3, <4>1, <4>2, TotalsMonotone
    <3>4. Len(FlattenSeq(cards)) = off[N]
      BY <1>3, FlattenAt
    <3> HIDE DEF off, N
    <3> QED BY <1>3, <3>2, <3>3, <3>4
  <2>2. FlattenSeq(cards) # <<>>
    BY <2>1
  <2> QED BY <1>1, <2>2 DEF Replaying
<1>8. (phase = "source" => kept = <<>>)' /\ (feed \in Seq(Strings))'
  BY <1>1, <1>4
<1> QED BY <1>2, <1>6, <1>7, <1>8 DEF ReplayInv

(* The feed moves on by one string. *)
LEMMA FeedMoves ==
  ASSUME feed \in Seq(Strings), feed # <<>>, feed' = Tail(feed),
         NEW F \in Seq(Strings), NEW p \in Nat, p >= 1, FedOf(F, p)
  PROVE  /\ Head(feed) = F[p] /\ FedOf(F, p + 1)'
         /\ (feed' = <<>> <=> p = Len(F))
<1> DEFINE l == Len(F)
           m == Len(feed)
<1>1. l \in Nat /\ m \in Nat /\ m > 0
  <2>1. m # 0
    BY EmptySeq
  <2> QED BY <2>1, LenProperties
<1>2. m = l - p + 1 /\ \A q \in 1 .. m : feed[q] = F[p + q - 1]
  BY DEF FedOf
<1>3. /\ Head(feed) = feed[1] /\ feed' \in Seq(Strings) /\ Len(feed') = m - 1
      /\ \A q \in 1 .. m - 1 : feed'[q] = feed[q + 1]
  <2>1. /\ Head(feed) = feed[1] /\ Tail(feed) \in Seq(Strings) /\ Len(Tail(feed)) = m - 1
        /\ \A q \in 1 .. Len(Tail(feed)) : Tail(feed)[q] = feed[q + 1]
    BY HeadTailProperties, LenProperties
  <2> QED BY <2>1
<1> HIDE DEF l, m
<1>5. Head(feed) = F[p]
  <2>1. 1 \in 1 .. m /\ p + 1 - 1 = p
    BY <1>1
  <2> QED BY <1>2, <1>3, <2>1
<1>6. m - 1 = l - (p + 1) + 1 /\ (m - 1 = 0 <=> p = l)
  BY <1>1, <1>2
<1>7. \A q \in 1 .. m - 1 : feed'[q] = F[(p + 1) + q - 1]
  <2> SUFFICES ASSUME NEW q \in 1 .. m - 1 PROVE feed'[q] = F[(p + 1) + q - 1]
    OBVIOUS
  <2>1. q + 1 \in 1 .. m /\ p + (q + 1) - 1 = (p + 1) + q - 1
    BY <1>1
  <2>2. feed[q + 1] = F[p + (q + 1) - 1]
    BY <1>2, <2>1
  <2> QED BY <1>3, <2>1, <2>2
<1>8. FedOf(F, p + 1)'
  <2>1. Len(feed)' = l - (p + 1) + 1 /\ \A q \in 1 .. Len(feed)' : feed'[q] = F[(p + 1) + q - 1]
    BY <1>3, <1>6, <1>7
  <2> QED BY <2>1 DEF FedOf, l
<1>9. feed' = <<>> <=> m - 1 = 0
  BY <1>3, EmptySeq
<1> QED BY <1>5, <1>6, <1>8, <1>9 DEF l

(* Where the j-th string of the i-th card stands, and what follows it. *)
LEMMA NextPlace ==
  ASSUME NEW seqs \in Seq(Seq(Strings)), NEW i \in 1 .. Len(seqs), NEW j \in 1 .. Len(seqs[i])
  PROVE  LET p == Totals(seqs)[i - 1] + j
             l == Len(FlattenSeq(seqs)) IN
         /\ p \in Nat /\ p >= 1 /\ FlattenSeq(seqs)[p] = seqs[i][j]
         /\ j < Len(seqs[i]) => p < l
         /\ j = Len(seqs[i]) => p = Totals(seqs)[i]
         /\ j = Len(seqs[i]) /\ p # l => i < Len(seqs)
<1> DEFINE off == Totals(seqs)
           N == Len(seqs)
           k == Len(seqs[i])
           x == off[i - 1]
           y == off[i]
           z == off[N]
           F == FlattenSeq(seqs)
<1>1. off \in [0 .. N -> Nat] /\ N \in Nat /\ y = x + k /\ k \in Nat
  BY TotalsDef, LenProperties
<1>2. i - 1 \in 0 .. N /\ i \in 0 .. N /\ N \in 0 .. N /\ i <= N
  BY <1>1
<1>3. y <= z /\ Len(F) = z /\ F[x + j] = seqs[i][j]
  BY <1>2, TotalsMonotone, FlattenAt
<1>4. x \in Nat /\ y \in Nat /\ z \in Nat
  BY <1>1, <1>2
<1>5. i = N => y = z
  OBVIOUS
<1> HIDE DEF off, N, k, x, y, z, F
<1>6. j \in 1 .. k
  BY DEF k
<1>7. x + j \in Nat /\ x + j >= 1 /\ (j < k => x + j < z) /\ (j = k => x + j = y)
  BY <1>1, <1>3, <1>4, <1>6
<1>8. j = k /\ x + j # z => i < N
  BY <1>1, <1>2, <1>5, <1>7
<1> QED BY <1>3, <1>7, <1>8 DEF off, N, k, x, y, z, F

(* The set of a card that is fed again, grown by the next of its strings. *)
LEMMA GrownAgain ==
  ASSUME GathererInv, NEW c \in Chunked, NEW j \in 1 .. Total[c],
         NEW s, s = [card |-> c, index |-> j - 1], s \in Strings,
         DOMAIN sets[Key[c]].has = 0 .. j - 2, \A x \in 0 .. j - 2 : sets[Key[c]].has[x] = c,
         sets[Key[c]].total = IF j = 1 THEN 0 ELSE Total[c]
  PROVE  LET set == sets[Key[c]]
             grown == Grown(set, s) IN
         /\ Fits(set, s)
         /\ DOMAIN grown.has = 0 .. j - 1 /\ grown.total = Total[c]
         /\ \A x \in 0 .. j - 1 : grown.has[x] = c
         /\ Complete(grown) <=> j = Total[c]
         /\ j = Total[c] => Collected(grown) = CardStrings(c)
<1> DEFINE k == Key[c]
           set == sets[k]
           grown == Grown(set, s)
           l == Total[c]
<1>1. l \in Nat /\ l > 0 /\ k \in Keys /\ s.card = c /\ s.index = j - 1
  BY CardAssumption DEF Chunked, Keys
<1>2. SetOK(k, set)
  BY <1>1 DEF GathererInv, SetsOK
<1>3. j \in Nat /\ j >= 1 /\ j <= l
  BY <1>1
<1>4. DOMAIN set.has = 0 .. j - 2 /\ set.total = IF j = 1 THEN 0 ELSE l
  OBVIOUS
<1>5. \A x \in 0 .. j - 2 : set.has[x] = c
  OBVIOUS
<1>6. ~Complete(set)
  <2>1. ASSUME Complete(set) PROVE FALSE
    <3>1. DOMAIN set.has = 0 .. set.total - 1 /\ set.total > 0
      BY <1>2, <2>1, CompleteDomain
    <3>2. j # 1 /\ set.total = l
      BY <1>4, <3>1
    <3>3. 0 .. j - 2 = 0 .. l - 1
      BY <1>4, <3>1, <3>2
    <3> HIDE DEF l
    <3>4. l - 1 \in 0 .. l - 1 /\ l - 1 \notin 0 .. j - 2
      BY <1>1, <1>3
    <3> QED BY <3>3, <3>4
  <2> QED BY <2>1
<1>7. Fits(set, s)
  <2>1. Primed(set) => set.total = Total[s.card]
    BY <1>1, <1>4 DEF Primed
  <2>2. s.index \notin DOMAIN set.has
    BY <1>1, <1>3, <1>4
  <2> QED BY <1>6, <2>1, <2>2 DEF Fits
<1> HIDE DEF set
<1>8. /\ DOMAIN grown.has = DOMAIN set.has \cup {j - 1} /\ grown.total = l
      /\ \A i \in DOMAIN grown.has : grown.has[i] = IF i = j - 1 THEN c ELSE set.has[i]
  BY <1>1 DEF Grown
<1>9. SetOK(k, grown)
  BY <1>1, <1>2, <1>7, GrownOK
<1> HIDE DEF grown, l
<1>10. DOMAIN grown.has = 0 .. j - 1
  <2>1. (0 .. j - 2) \cup {j - 1} = 0 .. j - 1
    BY <1>3
  <2> QED BY <1>4, <1>8, <2>1
<1>11. \A x \in 0 .. j - 1 : grown.has[x] = c
  <2> SUFFICES ASSUME NEW x \in 0 .. j - 1 PROVE grown.has[x] = c
    OBVIOUS
  <2>1. grown.has[x] = IF x = j - 1 THEN c ELSE set.has[x]
    BY <1>8, <1>10
  <2>2. x # j - 1 => x \in 0 .. j - 2
    BY <1>3
  <2> QED BY <1>5, <2>1, <2>2
<1>12. Complete(grown) => j = l
  <2> SUFFICES ASSUME Complete(grown) PROVE j = l
    OBVIOUS
  <2>1. DOMAIN grown.has = 0 .. l - 1
    BY <1>8, <1>9, CompleteDomain
  <2>2. l - 1 \in 0 .. l - 1
    BY <1>1
  <2>3. l - 1 \in 0 .. j - 1
    BY <1>10, <2>1, <2>2
  <2> QED BY <1>1, <1>3, <2>3
<1>13. j = l => Complete(grown)
  <2> SUFFICES ASSUME j = l PROVE Complete(grown)
    OBVIOUS
  <2>1. 0 \in Int /\ l - 1 \in Int
    BY <1>1
  <2>2. Cardinality(0 .. l - 1) = IF 0 > l - 1 THEN 0 ELSE l - 1 - 0 + 1
    BY <2>1, FS_Interval
  <2>3. Cardinality(0 .. l - 1) = l
    BY <1>1, <2>2
  <2> QED BY <1>1, <1>8, <1>10, <2>3 DEF Complete, Primed
<1>14. j = l => Collected(grown) = CardStrings(c)
  <2> SUFFICES ASSUME j = l PROVE Collected(grown) = CardStrings(c)
    OBVIOUS
  <2>1. \A n \in 1 .. l : n - 1 \in 0 .. j - 1
    BY <1>1, <1>3
  <2>2. \A n \in 1 .. l : grown.has[n - 1] = c
    BY <1>11, <2>1
  <2>3. Collected(grown) = [n \in 1 .. l |-> [card |-> grown.has[n - 1], index |-> n - 1]]
    BY <1>8 DEF Collected
  <2>4. CardStrings(c) = [n \in 1 .. l |-> [card |-> c, index |-> n - 1]]
    BY DEF CardStrings, l
  <2> QED BY <2>2, <2>3, <2>4
<1> QED BY <1>7, <1>8, <1>10, <1>11, <1>12, <1>13, <1>14 DEF set, grown, l

(* A string of an earlier card is taken again as it was the first time. *)
LEMMA OfferAgain ==
  ASSUME GathererInv, Distinct(kept), NEW i \in 1 .. Len(kept), NEW j \in 1 .. Len(kept[i]),
         ReplayAt(i, j), NEW s, s = kept[i][j], Offer(s),
         NEW c \in Sound, kept[i] = CardStrings(c)
  PROVE  /\ j < Len(kept[i]) => /\ c \in Chunked /\ cards' = cards
                                /\ sets' = [sets EXCEPT ![Key[c]] = Grown(sets[Key[c]], s)]
         /\ j = Len(kept[i]) =>
              /\ cards' = Append(cards, kept[i])
              /\ \A k \in Keys : (c \in Chunked => k # Key[c]) => sets'[k] = sets[k]
<1>1. kept \in Seq({CardStrings(d) : d \in Sound})
  BY DEF Distinct
<1>2. /\ kept \in Seq(Seq(Strings)) /\ Len(kept) \in Nat /\ DOMAIN kept = 1 .. Len(kept)
      /\ c \in Cards
  BY <1>1, CardSeqTyped, CardAssumption
<1>3. Len(kept[i]) = Total[c] /\ Total[c] \in Nat /\ Total[c] > 0
  <2>1. \E d \in Sound : /\ d \in Cards /\ kept[i] = CardStrings(d) /\ Len(kept[i]) = Total[d]
                         /\ Total[d] \in Nat /\ Total[d] > 0
    BY <1>1, CardSeqTyped
  <2> QED BY <1>2, <2>1, CardStringsDiffer
<1>4. j \in 1 .. Total[c] /\ s = [card |-> c, index |-> j - 1]
  <2>1. j \in 1 .. Total[c]
    BY <1>3
  <2> QED BY <2>1 DEF CardStrings
<1>5. s \in Strings
  <2>1. kept[i] \in Seq(Strings)
    BY <1>2, ElementOfSeq
  <2> QED BY <2>1, ElementOfSeq
<1>6. s.card = c /\ s.index = j - 1
  BY <1>4
<1>7. CASE c \in Standalone
  <2>1. Total[c] = 1 /\ j = 1 /\ c \notin Chunked
    BY <1>4, <1>7, CardAssumption DEF Chunked
  <2>2. CardStrings(c) \notin Range(cards)
    <3>1. Len(cards) = i - 1 /\ \A n \in 1 .. i - 1 : cards[n] = kept[n]
      BY DEF ReplayAt
    <3>2. DOMAIN cards = 1 .. i - 1
      BY <3>1, CardsTyped DEF GathererInv
    <3>3. \A n \in 1 .. i - 1 : n \in DOMAIN kept /\ i \in DOMAIN kept /\ n # i
      BY <1>2
    <3> QED BY <3>1, <3>2, <3>3 DEF Range, Distinct, IsInjective
  <2>3. AddStandalone(c)
    BY <1>5, <1>6, <1>7, <2>2 DEF Offer, Ignored
  <2> QED BY <1>3, <2>1, <2>3 DEF AddStandalone
<1>8. CASE c \notin Standalone
  <2>1. c \in Chunked
    BY <1>2, <1>8 DEF Chunked
  <2> DEFINE set == sets[Key[c]]
             grown == Grown(set, s)
  <2>2. /\ DOMAIN set.has = 0 .. j - 2 /\ \A x \in 0 .. j - 2 : set.has[x] = c
    BY <2>1 DEF ReplayAt, SetsFrom
  <2>3. set.total = IF j = 1 THEN 0 ELSE Total[c]
    BY <2>1 DEF ReplayAt, SetsFrom
  <2>4. /\ Fits(set, s) /\ DOMAIN grown.has = 0 .. j - 1 /\ grown.total = Total[c]
        /\ \A x \in 0 .. j - 1 : grown.has[x] = c
        /\ Complete(grown) <=> j = Total[c]
        /\ j = Total[c] => Collected(grown) = CardStrings(c)
    BY <1>4, <1>5, <2>1, <2>2, <2>3, GrownAgain
  <2>5. AddChunk(s)
    BY <1>5, <1>6, <1>8, <2>4 DEF Offer, Ignored, SetOf
  <2> HIDE DEF set, grown
  <2>6. Decodes(grown)
    <3>1. Total[c] = grown.total /\ \A x \in DOMAIN grown.has : grown.has[x] = c
      BY <2>4
    <3> QED BY <3>1 DEF Decodes
  <2>7. CASE j = Total[c]
    <3>1. sets' = [sets EXCEPT ![Key[c]] = grown] /\ cards' = Append(cards, Collected(grown))
      BY <1>6, <2>4, <2>5, <2>6, <2>7 DEF AddChunk, SetOf, set, grown
    <3>2. \A k \in Keys : k # Key[c] => sets'[k] = sets[k]
      BY <3>1 DEF GathererInv, SetsOK
    <3> QED BY <1>3, <2>1, <2>4, <2>7, <3>1, <3>2
  <2>8. CASE j # Total[c]
    <3>1. sets' = [sets EXCEPT ![Key[c]] = grown] /\ cards' = cards
      BY <1>6, <2>4, <2>5, <2>8 DEF AddChunk, SetOf, set, grown
    <3> QED BY <1>3, <2>1, <2>8, <3>1 DEF grown, set
  <2> QED BY <2>7, <2>8
<1> QED BY <1>7, <1>8

(* The replay goes on, or all of the earlier cards are there again. *)
LEMMA ReplayFeeds ==
  ASSUME GathererInv, ReplayInv, Feed, Replaying
  PROVE  ReplayInv'
<1>1. /\ feed # <<>> /\ Offer(Head(feed)) /\ feed' = Tail(feed) /\ phase' = phase /\ kept' = kept
      /\ phase = "gather" /\ kept # <<>>
  BY DEF Feed, Replaying
<1>2. /\ Distinct(kept) /\ feed \in Seq(Strings) /\ Midway
  BY DEF ReplayInv
<1>3. PICK i \in 1 .. Len(kept) : \E j \in 1 .. Len(kept[i]) : ReplayAt(i, j)
  BY <1>2 DEF Midway
<1>4. PICK j \in 1 .. Len(kept[i]) : ReplayAt(i, j)
  BY <1>3
<1> DEFINE l == Len(FlattenSeq(kept))
           s == Head(feed)
           N == Len(kept)
           k == Len(kept[i])
<1>5. kept \in Seq({CardStrings(c) : c \in Sound})
  BY <1>2 DEF Distinct
<1>6. kept \in Seq(Seq(Strings)) /\ N \in Nat /\ DOMAIN kept = 1 .. N
  BY <1>5, CardSeqTyped
<1>7. PICK c \in Sound : /\ c \in Cards /\ kept[i] = CardStrings(c) /\ k = Total[c] /\ k \in Nat /\ k > 0
  BY <1>5, CardSeqTyped
<1>21. Totals(kept)[i - 1] + j \in Nat
  BY <1>6, NextPlace
<1>22. PICK p \in Nat : p = Totals(kept)[i - 1] + j
  BY <1>21
<1>8. /\ p \in Nat /\ p >= 1 /\ FlattenSeq(kept)[p] = kept[i][j]
      /\ j < k => p < l
      /\ j = k => p = Totals(kept)[i]
      /\ j = k /\ p # l => i < N
  BY <1>6, <1>22, NextPlace
<1>9. FedFrom(p)
  BY <1>4, <1>22 DEF ReplayAt
<1>10. s = FlattenSeq(kept)[p] /\ FedFrom(p + 1)' /\ (feed' = <<>> <=> p = l)
  <2>1. FlattenSeq(kept) \in Seq(Strings)
    BY <1>6, FlattenAt
  <2>2. PICK F \in Seq(Strings) : F = FlattenSeq(kept)
    BY <2>1
  <2>3. FedOf(F, p) /\ feed \in Seq(Strings)
    BY <1>2, <1>9, <2>2 DEF FedFrom
  <2>4. s = F[p] /\ FedOf(F, p + 1)' /\ (feed' = <<>> <=> p = Len(F))
    BY <1>1, <1>8, <2>3, FeedMoves
  <2>5. FlattenSeq(kept') = F
    BY <1>1, <2>2
  <2> QED BY <2>2, <2>4, <2>5 DEF FedFrom, l
<1>11. s = kept[i][j]
  BY <1>8, <1>10
<1> HIDE DEF s
<1>12. /\ j < k => /\ c \in Chunked /\ cards' = cards
                   /\ sets' = [sets EXCEPT ![Key[c]] = Grown(sets[Key[c]], s)]
       /\ j = k =>
            /\ cards' = Append(cards, kept[i])
            /\ \A q \in Keys : (c \in Chunked => q # Key[c]) => sets'[q] = sets[q]
  BY <1>1, <1>2, <1>4, <1>7, <1>11, OfferAgain DEF s
<1>13. Len(cards) = i - 1 /\ \A n \in 1 .. i - 1 : cards[n] = kept[n]
  BY <1>4 DEF ReplayAt
<1>14. SetsFrom(i, j)
  BY <1>4 DEF ReplayAt
<1>15. Distinct(kept)' /\ (phase = "source" => kept = <<>>)' /\ (feed \in Seq(Strings))'
  <2>1. feed' \in Seq(Strings)
    BY <1>1, <1>2, HeadTailProperties
  <2> QED BY <1>1, <1>2, <2>1 DEF Distinct
<1>16. \A d \in Chunked : Key[d] \in Keys
  BY DEF Chunked, Keys
<1>17. ASSUME NEW n \in 1 .. N, n > i, NEW d \in Chunked, kept[n] = CardStrings(d)
       PROVE  (c \in Chunked => Key[d] # Key[c]) /\ sets[Key[d]].total = 0
  <2>1. sets[Key[d]].total = 0
    BY <1>14, <1>17 DEF SetsFrom
  <2>2. n # i
    BY <1>6, <1>17
  <2> QED BY <1>2, <1>6, <1>7, <1>17, <2>1, <2>2 DEF Distinct
<1>18. CASE j < k
  <2> DEFINE grown == Grown(sets[Key[c]], s)
  <2>1. c \in Chunked /\ cards' = cards /\ sets' = [sets EXCEPT ![Key[c]] = grown]
    BY <1>12, <1>18
  <2>2. /\ DOMAIN grown.has = 0 .. j - 1 /\ grown.total = Total[c]
        /\ \A x \in 0 .. j - 1 : grown.has[x] = c
    <3>1. j \in 1 .. Total[c] /\ s = [card |-> c, index |-> j - 1]
      <4>1. j \in 1 .. Total[c]
        BY <1>7
      <4> QED BY <1>7, <1>11, <4>1 DEF CardStrings
    <3>2. s \in Strings
      <4>1. kept[i] \in Seq(Strings)
        BY <1>6, ElementOfSeq
      <4> QED BY <1>11, <4>1, ElementOfSeq
    <3>3. /\ DOMAIN sets[Key[c]].has = 0 .. j - 2 /\ \A x \in 0 .. j - 2 : sets[Key[c]].has[x] = c
          /\ sets[Key[c]].total = IF j = 1 THEN 0 ELSE Total[c]
      BY <1>7, <1>14, <2>1 DEF SetsFrom
    <3> QED BY <2>1, <3>1, <3>2, <3>3, GrownAgain
  <2> HIDE DEF grown
  <2>3. sets'[Key[c]] = grown /\ \A q \in Keys : q # Key[c] => sets'[q] = sets[q]
    BY <1>16, <2>1 DEF GathererInv, SetsOK
  <2>4. j \in Nat /\ j >= 1 /\ j + 1 \in 1 .. k /\ (j + 1) - 2 = j - 1 /\ j + 1 # 1
    BY <1>7, <1>18
  <2>5. SetsFrom(i, j + 1)'
    <3>1. ASSUME NEW d \in Chunked, kept[i] = CardStrings(d)
          PROVE  /\ DOMAIN sets'[Key[d]].has = 0 .. (j + 1) - 2
                 /\ \A x \in 0 .. (j + 1) - 2 : sets'[Key[d]].has[x] = d
                 /\ sets'[Key[d]].total = IF j + 1 = 1 THEN 0 ELSE Total[d]
      <4>1. d = c
        BY <1>7, <3>1, CardStringsDiffer DEF Chunked
      <4> QED BY <2>2, <2>3, <2>4, <4>1
    <3>2. ASSUME NEW n \in 1 .. N, n > i, NEW d \in Chunked, kept[n] = CardStrings(d)
          PROVE  sets'[Key[d]].total = 0
      BY <1>16, <1>17, <2>1, <2>3, <3>2
    <3> QED BY <1>1, <3>1, <3>2 DEF SetsFrom
  <2>6. FedFrom(Totals(kept)[i - 1] + (j + 1))'
    <3>1. Totals(kept)'[i - 1] + (j + 1) = p + 1
      <4> DEFINE x == Totals(kept)[i - 1]
      <4>1. x \in Nat
        <5>1. Totals(kept) \in [0 .. N -> Nat] /\ i - 1 \in 0 .. N
          BY <1>6, TotalsDef
        <5> QED BY <5>1
      <4> HIDE DEF x
      <4>2. x + (j + 1) = (x + j) + 1
        BY <2>4, <4>1
      <4> QED BY <1>1, <1>22, <4>2 DEF x
    <3> QED BY <1>10, <3>1 DEF FedFrom, FedOf
  <2>7. ReplayAt(i, j + 1)'
    BY <1>1, <1>13, <2>1, <2>5, <2>6 DEF ReplayAt
  <2>8. Midway'
    BY <1>1, <2>4, <2>7 DEF Midway
  <2>9. Replaying'
    <3>1. p # l
      <4> HIDE DEF l
      <4> QED BY <1>8, <1>18
    <3> QED BY <1>1, <1>10, <3>1 DEF Replaying
  <2> QED BY <1>15, <2>8, <2>9 DEF ReplayInv
<1>19. CASE j = k
  <2>1. cards' = Append(cards, kept[i]) /\ \A q \in Keys : (c \in Chunked => q # Key[c]) => sets'[q] = sets[q]
    BY <1>12, <1>19
  <2>2. Len(cards') = i /\ \A n \in 1 .. i : cards'[n] = kept[n]
    <3>1. cards \in Seq(Seq(Strings)) /\ kept[i] \in Seq(Strings)
      BY <1>6, CardsTyped, ElementOfSeq DEF GathererInv
    <3>2. /\ Len(cards') = (i - 1) + 1 /\ cards'[(i - 1) + 1] = kept[i]
          /\ \A n \in 1 .. i - 1 : cards'[n] = cards[n]
      BY <1>13, <2>1, <3>1, AppendProperties
    <3>3. (i - 1) + 1 = i /\ \A n \in 1 .. i : n = i \/ n \in 1 .. i - 1
      BY <1>6
    <3> QED BY <1>13, <3>2, <3>3
  <2>3. CASE p = l
    <3>1. feed' = <<>>
      BY <1>10, <2>3
    <3>2. i = N
      <4>1. i < N => FALSE
        <5> SUFFICES ASSUME i < N PROVE FALSE
          OBVIOUS
        <5> DEFINE off == Totals(kept)
        <5>1. i + 1 \in 1 .. N /\ i + 1 \in 0 .. N /\ N \in 0 .. N /\ i + 1 <= N /\ (i + 1) - 1 = i
          BY <1>6
        <5>2. off[i + 1] = off[i] + Len(kept[i + 1]) /\ off[i + 1] <= off[N]
          BY <1>6, <5>1, TotalsDef, TotalsMonotone
        <5>3. l = off[N] /\ p = off[i]
          BY <1>6, <1>8, <1>19, FlattenAt
        <5>4. Len(kept[i + 1]) \in Nat /\ Len(kept[i + 1]) > 0
          BY <1>5, <5>1, CardSeqTyped
        <5>5. off[i] \in Nat /\ off[N] \in Nat
          <6>1. off \in [0 .. N -> Nat] /\ i \in 0 .. N
            BY <1>6, TotalsDef
          <6> QED BY <5>1, <6>1
        <5> HIDE DEF off, l
        <5> QED BY <2>3, <5>2, <5>3, <5>4, <5>5
      <4>2. i \in 1 .. N /\ N \in Nat
        BY <1>6
      <4> HIDE DEF N
      <4> QED BY <4>1, <4>2
    <3>3. Begins(kept, cards)'
      <4>1. Len(kept') <= Len(cards') /\ \A n \in 1 .. Len(kept') : cards'[n] = kept'[n]
        BY <1>1, <1>6, <2>2, <3>2
      <4> QED BY <4>1 DEF Begins
    <3>4. ~Replaying'
      BY <3>1 DEF Replaying
    <3> QED BY <1>15, <3>3, <3>4 DEF ReplayInv
  <2>4. CASE p # l
    <3>1. i < N
      <4> HIDE DEF l
      <4> QED BY <1>8, <1>19, <2>4
    <3>2. i + 1 \in 1 .. N /\ (i + 1) - 1 = i /\ (\A n \in 1 .. N : n > i + 1 => n > i) /\ i + 1 > i
      BY <1>6, <3>1
    <3>3. 1 \in 1 .. Len(kept[i + 1])
      <4>1. Len(kept[i + 1]) \in Nat /\ Len(kept[i + 1]) > 0
        BY <1>5, <3>2, CardSeqTyped
      <4> QED BY <4>1
    <3>4. SetsFrom(i + 1, 1)'
      <4>1. ASSUME NEW n \in 1 .. N, n > i, NEW d \in Chunked, kept[n] = CardStrings(d)
            PROVE  sets'[Key[d]].total = 0 /\ DOMAIN sets'[Key[d]].has = {}
        <5>1. sets'[Key[d]] = sets[Key[d]] /\ sets[Key[d]].total = 0
          BY <1>16, <1>17, <2>1, <4>1
        <5>2. DOMAIN sets[Key[d]].has \subseteq 0 .. 0 - 1
          BY <1>16, <5>1 DEF GathererInv, SetsOK, SetOK
        <5> QED BY <5>1, <5>2
      <4>2. 0 .. 1 - 2 = {}
        OBVIOUS
      <4>3. ASSUME NEW d \in Chunked, kept[i + 1] = CardStrings(d)
            PROVE  /\ DOMAIN sets'[Key[d]].has = 0 .. 1 - 2
                   /\ \A x \in 0 .. 1 - 2 : sets'[Key[d]].has[x] = d
                   /\ sets'[Key[d]].total = IF 1 = 1 THEN 0 ELSE Total[d]
        BY <3>2, <4>1, <4>2, <4>3
      <4>4. \A n \in 1 .. N : n > i + 1 => \A d \in Chunked :
              kept[n] = CardStrings(d) => sets'[Key[d]].total = 0
        BY <3>2, <4>1
      <4> QED BY <1>1, <4>3, <4>4 DEF SetsFrom
    <3>5. FedFrom(Totals(kept)[(i + 1) - 1] + 1)'
      <4>1. Totals(kept)'[(i + 1) - 1] + 1 = p + 1
        BY <1>1, <1>8, <1>19, <3>2
      <4> QED BY <1>10, <4>1 DEF FedFrom, FedOf
    <3>6. ReplayAt(i + 1, 1)'
      <4>1. Len(cards)' = (i + 1) - 1 /\ \A n \in 1 .. (i + 1) - 1 : cards'[n] = kept'[n]
        BY <1>1, <2>2, <3>2
      <4> QED BY <3>4, <3>5, <4>1 DEF ReplayAt
    <3>7. Midway'
      BY <1>1, <3>2, <3>3, <3>6 DEF Midway
    <3>8. Replaying'
      BY <1>1, <1>10, <2>4 DEF Replaying
    <3> QED BY <1>15, <3>7, <3>8 DEF ReplayInv
  <2> QED BY <2>3, <2>4
<1>20. j < k \/ j = k
  BY <1>7
<1> QED BY <1>18, <1>19, <1>20

(* The bundle has a length. *)
LEMMA CardsLength == GathererInv => Len(cards) \in Nat
BY CardsTyped DEF GathererInv

(* Every step keeps the replay. *)
LEMMA StepReplay ==
  GathererInv /\ GathererInv' /\ CutInv /\ payload \in Payloads /\ ReplayInv /\ [Next]_vars
    => ReplayInv'
<1> SUFFICES ASSUME GathererInv, GathererInv', CutInv, payload \in Payloads, ReplayInv, [Next]_vars
             PROVE  ReplayInv'
  OBVIOUS
<1>1. /\ Len(kept) \in Nat /\ Len(cards) \in Nat /\ Len(cards') \in Nat
  <2>1. kept \in Seq({CardStrings(c) : c \in Sound})
    BY DEF ReplayInv, Distinct
  <2>2. Len(cards) \in Nat /\ Len(kept) \in Nat
    BY <2>1, CardsTyped, CardSeqTyped DEF GathererInv
  <2>3. (GathererInv => Len(cards) \in Nat)'
    BY CardsLength, PTL
  <2> QED BY <2>2, <2>3
<1>2. ASSUME kept' = kept, feed' \in Seq(Strings), phase' = "source" => kept = <<>>, ~Replaying, ~Replaying',
             Begins(cards, cards')
      PROVE  ReplayInv'
  <2>1. Begins(kept, cards)
    BY <1>2 DEF ReplayInv
  <2>2. Begins(kept, cards')
    BY <1>1, <1>2, <2>1, BeginsTransitive
  <2>3. Begins(kept, cards)'
    BY <1>2, <2>2 DEF Begins
  <2> QED BY <1>2, <2>3 DEF ReplayInv, Distinct
<1>3. ASSUME kept' = kept, feed' \in Seq(Strings), kept = <<>> PROVE ReplayInv'
  <2>1. Begins(kept, cards)'
    <3>1. Len(kept') = 0 /\ 1 .. 0 = {}
      BY <1>3
    <3> QED BY <1>1, <3>1 DEF Begins
  <2>2. ~Replaying'
    BY <1>3 DEF Replaying
  <2> QED BY <1>3, <2>1, <2>2 DEF ReplayInv, Distinct
<1>4. cards' = cards => Begins(cards, cards')
  BY <1>1 DEF Begins
<1>5. feed \in Seq(Strings) /\ (phase = "source" => kept = <<>>)
  BY DEF ReplayInv
<1>6. CASE Choose
  <2>1. feed' \in Seq(Strings)
    <3>1. payload \in Seq(Strings) /\ <<>> \in Seq(Strings)
      BY CardAssumption
    <3>2. Grouped(payload) \in Seq(Strings)
      BY <3>1, GroupedType
    <3> QED BY <1>6, <3>1, <3>2 DEF Choose
  <2> QED BY <1>3, <1>5, <1>6, <2>1 DEF Choose
<1>7. CASE Feed
  <2>1. CASE Replaying
    BY <1>7, <2>1, ReplayFeeds
  <2>2. CASE ~Replaying
    <3>1. kept = <<>> /\ kept' = kept
      BY <1>7, <2>2 DEF Feed, Replaying
    <3>2. feed' \in Seq(Strings)
      BY <1>5, <1>7, HeadTailProperties DEF Feed
    <3> QED BY <1>3, <3>1, <3>2
  <2> QED BY <2>1, <2>2
<1>8. CASE Scan
  <2>1. Begins(cards, cards')
    BY <1>8, OfferAdds DEF Scan
  <2> QED BY <1>2, <1>5, <1>8, <2>1 DEF Scan, Scanning, Replaying
<1>9. CASE ReviewBack
  BY <1>9, ReplayStarts
<1>10. CASE Done
  BY <1>2, <1>4, <1>5, <1>10 DEF Done, Scanning, Replaying
<1>11. CASE Leave
  BY <1>2, <1>4, <1>5, <1>11 DEF Leave, Scanning, Replaying, gatherer
<1>12. CASE Confirm \/ Finish \/ Abort
  BY <1>2, <1>4, <1>5, <1>12 DEF Confirm, Finish, Abort, Replaying, gatherer
<1>13. CASE CutPlate
  BY <1>2, <1>4, <1>5, <1>13 DEF CutPlate, Replaying, gatherer
<1>14. CASE UNCHANGED vars
  <2>1. phase' = phase /\ kept' = kept /\ feed' = feed /\ cards' = cards /\ sets' = sets
    BY <1>14 DEF vars, gatherer
  <2>2. CASE ~Replaying
    BY <1>2, <1>4, <1>5, <2>1, <2>2 DEF Replaying
  <2>3. CASE Replaying
    <3>1. PICK i \in 1 .. Len(kept) : \E j \in 1 .. Len(kept[i]) : ReplayAt(i, j)
      BY <2>3 DEF ReplayInv, Midway
    <3>2. PICK j \in 1 .. Len(kept[i]) : ReplayAt(i, j)
      BY <3>1
    <3>3. SetsFrom(i, j)' /\ FedFrom(Totals(kept)[i - 1] + j)'
      BY <2>1, <3>2 DEF ReplayAt, SetsFrom, FedFrom, FedOf
    <3>4. ReplayAt(i, j)'
      BY <2>1, <3>2, <3>3 DEF ReplayAt
    <3>5. Midway'
      BY <2>1, <3>4 DEF Midway
    <3> QED BY <2>1, <2>3, <3>5 DEF ReplayInv, Distinct, Replaying
  <2> QED BY <2>2, <2>3
<1> QED BY <1>6, <1>7, <1>8, <1>9, <1>10, <1>11, <1>12, <1>13, <1>14 DEF Next

BundleInv == GathererInv /\ CutInv /\ payload \in Payloads /\ ReplayInv

(* The invariants of the bundle program together. *)
THEOREM BundleHolds == Spec => []BundleInv
<1>1. Init => BundleInv
  <2> SUFFICES ASSUME Init PROVE BundleInv
    OBVIOUS
  <2>1. GathererInv
    BY EmptyGatherer DEF Init
  <2>2. CutInv
    BY <2>1, NothingCut DEF Init, GathererInv
  <2>3. ReplayInv
    <3>1. kept = <<>> /\ cards = <<>> /\ feed = <<>> /\ DOMAIN <<>> = {} /\ Len(<<>>) = 0
      BY DEF Init
    <3>2. Begins(kept, cards)
      BY <3>1 DEF Begins
    <3>3. Distinct(kept)
      BY <3>1 DEF Distinct, IsInjective
    <3>4. ~Replaying
      BY <3>1 DEF Replaying
    <3> QED BY <3>1, <3>2, <3>3, <3>4 DEF ReplayInv
  <2> QED BY <2>1, <2>2, <2>3 DEF BundleInv, Init
<1>2. payload \in Payloads /\ [Next]_vars => payload' \in Payloads
  BY DEF Next, Choose, Feed, Scan, Done, Leave, ReviewBack, Confirm, CutPlate, Finish, Abort, vars
<1>3. BundleInv /\ [Next]_vars => BundleInv'
  BY <1>2, StepKeeps, StepCut, StepReplay DEF BundleInv
<1> QED BY <1>1, <1>3, PTL DEF Spec

(* Every variable has its type, and a set holds chunks of its key below    *)
(* its total.                                                              *)
THEOREM BundleTypes == Spec => []TypeOK
<1>1. BundleInv => TypeOK
  <2> SUFFICES ASSUME BundleInv PROVE TypeOK
    OBVIOUS
  <2>1. \A k \in Keys : /\ sets[k].total \in Nat
                        /\ DOMAIN sets[k].has \subseteq 0 .. sets[k].total - 1
                        /\ \A i \in DOMAIN sets[k].has : Key[sets[k].has[i]] = k
    BY DEF BundleInv, GathererInv, SetsOK, SetOK
  <2>2. cards \in Seq(Seq(Strings))
    BY CardsTyped DEF BundleInv, GathererInv
  <2>3. kept \in Seq(Seq(Strings))
    BY CardSeqTyped DEF BundleInv, ReplayInv, Distinct
  <2>4. /\ phase \in {"source", "gather", "review", "engrave", "done", "left"}
        /\ feed \in Seq(Strings) /\ at.card \in 1 .. Len(cards) + 1 /\ at.string \in Nat
        /\ steel \in Seq(Seq(Strings))
    BY DEF BundleInv, ReplayInv, CutInv, Cut, At, OnSteel
  <2> QED BY <2>1, <2>2, <2>3, <2>4 DEF TypeOK
<1> QED BY <1>1, BundleHolds, PTL

(* Going back at the review loses no card and no place: the new gatherer   *)
(* takes each string of the earlier cards as the old one did.              *)
THEOREM ResumeKeepsCards == Spec => []ResumeKeeps
<1>1. BundleInv => ResumeKeeps
  <2> SUFFICES ASSUME BundleInv, Scanning PROVE IsPrefix(kept, cards)
    BY DEF ResumeKeeps
  <2>1. Begins(kept, cards)
    BY DEF BundleInv, ReplayInv, Replaying, Scanning
  <2>2. kept \in Seq(Seq(Strings)) /\ cards \in Seq(Seq(Strings)) /\ Len(kept) \in Nat /\ Len(cards) \in Nat
    BY CardSeqTyped, CardsTyped DEF BundleInv, ReplayInv, Distinct, GathererInv
  <2> DEFINE n == Len(kept)
             a == SubSeq(kept, 1, n)
             b == SubSeq(cards, 1, n)
             S == Seq(Strings)
  <2>3. n <= Len(cards) /\ \A i \in 1 .. n : cards[i] = kept[i]
    BY <2>1 DEF Begins
  <2>4. (\A i \in 1 .. n : i \in 1 .. Len(cards)) /\ 1 \in Int /\ n \in Int
    BY <2>2, <2>3
  <2>5. (\A i \in 1 .. n : kept[i] \in S) /\ \A i \in 1 .. n : cards[i] \in S
    BY <2>2, <2>4, ElementOfSeq
  <2> HIDE DEF S, n
  <2>6. \A i \in 1 .. n - 1 + 1 : 1 + i - 1 = i /\ i \in 1 .. n
    BY <2>2 DEF n
  <2>7. /\ a \in Seq(S) /\ Len(a) = (IF 1 <= n THEN n - 1 + 1 ELSE 0)
        /\ \A i \in 1 .. n - 1 + 1 : a[i] = kept[1 + i - 1]
    BY <2>4, <2>5, SubSeqProperties
  <2>8. /\ b \in Seq(S) /\ Len(b) = (IF 1 <= n THEN n - 1 + 1 ELSE 0)
        /\ \A i \in 1 .. n - 1 + 1 : b[i] = cards[1 + i - 1]
    BY <2>4, <2>5, SubSeqProperties
  <2>9. \A i \in 1 .. Len(a) : i \in 1 .. n /\ i \in 1 .. n - 1 + 1
    BY <2>2, <2>7 DEF n
  <2>10. \A i \in 1 .. Len(a) : a[i] = b[i]
    BY <2>3, <2>6, <2>7, <2>8, <2>9
  <2> HIDE DEF a, b
  <2>11. a = b
    BY <2>7, <2>8, <2>10, SeqEqual
  <2> QED BY <2>3, <2>11 DEF IsPrefix, a, b, n
<1> QED BY <1>1, BundleHolds, PTL

-----------------------------------------------------------------------------
(* The n-th record of the payload is the first of the card's set. *)
FirstAt(card, n) ==
  /\ payload[n] = card[1] \/ OneSet(payload[n], card[1])
  /\ \A m \in 1 .. n - 1 : payload[m] # card[1] /\ ~OneSet(payload[m], card[1])

(* The payload is fed, and the next string is the j-th of the n-th group:  *)
(* the cards so far began at a record up to the n-th, in order, and the    *)
(* sound standalone cards before it are all there.                         *)
Feeding == feed # <<>> /\ kept = <<>>
Begun(n) == \A m \in DOMAIN cards : \E f \in 1 .. n : FirstAt(cards[m], f)
SinglesSeen(n) ==
  \A m \in 1 .. n - 1 :
    payload[m].card \in Standalone \cap Sound => CardStrings(payload[m].card) \in Range(cards)
FedAt(n, j) ==
  /\ FedOf(Grouped(payload), Totals(Groups(payload))[n - 1] + j)
  /\ Begun(n) /\ SinglesSeen(n) /\ InRecordOrder(cards)

OrderInv ==
  /\ phase = "source" => cards = <<>>
  /\ Feeding => /\ phase = "gather"
                /\ \E n \in 1 .. Len(payload) : \E j \in 1 .. Len(Groups(payload)[n]) : FedAt(n, j)

(* There is one first record. *)
LEMMA FirstIs ==
  ASSUME NEW card, NEW n \in DOMAIN payload, payload \in Seq(Strings), FirstAt(card, n)
  PROVE  FirstRecord(card) = n
<1>1. Len(payload) \in Nat /\ DOMAIN payload = 1 .. Len(payload)
  BY LenProperties
<1>2. ASSUME NEW m \in DOMAIN payload, FirstAt(card, m) PROVE m = n
  <2>1. m \in Nat /\ n \in Nat /\ m >= 1 /\ n >= 1
    BY <1>1
  <2>2. ~(m < n) /\ ~(n < m)
    <3>1. (m < n => m \in 1 .. n - 1) /\ (n < m => n \in 1 .. m - 1)
      BY <2>1
    <3> QED BY <1>2, <3>1 DEF FirstAt
  <2> QED BY <2>1, <2>2
<1>3. FirstRecord(card) = CHOOSE m \in DOMAIN payload : FirstAt(card, m)
  BY DEF FirstRecord, FirstAt
<1> QED BY <1>2, <1>3

(* Where the places of two groups are the same, the groups between them    *)
(* are empty.                                                              *)
LEMMA EmptyBetween ==
  ASSUME NEW S, NEW seqs \in Seq(Seq(S)),
         NEW a \in 0 .. Len(seqs), NEW b \in 0 .. Len(seqs), a <= b,
         Totals(seqs)[b] <= Totals(seqs)[a],
         NEW m \in a + 1 .. b
  PROVE  seqs[m] = <<>>
<1> DEFINE off == Totals(seqs)
           N == Len(seqs)
<1>1. /\ off \in [0 .. N -> Nat] /\ N \in Nat
      /\ \A n \in 1 .. N : off[n] = off[n - 1] + Len(seqs[n]) /\ Len(seqs[n]) \in Nat
  BY TotalsDef, LenProperties
<1>2. /\ m \in 1 .. N /\ m - 1 \in 0 .. N /\ m \in 0 .. N /\ a <= m - 1 /\ m <= b
      /\ m - 1 \in Nat
  BY <1>1
<1>3. off[a] <= off[m - 1] /\ off[m] <= off[b]
  BY <1>2, TotalsMonotone
<1>4. off[m] = off[m - 1] + Len(seqs[m]) /\ Len(seqs[m]) \in Nat
  BY <1>1, <1>2
<1>5. off[a] \in Nat /\ off[b] \in Nat /\ off[m] \in Nat /\ off[m - 1] \in Nat
  BY <1>1, <1>2
<1>6. off[b] <= off[a]
  OBVIOUS
<1> HIDE DEF off
<1>7. Len(seqs[m]) = 0
  <2>1. \A w, x, y, z, l \in Nat : w <= x /\ y <= z /\ z <= w /\ y = x + l => l = 0
    OBVIOUS
  <2> QED
    BY <1>3, <1>4, <1>5, <1>6, <2>1
<1>8. seqs[m] \in Seq(S)
  BY <1>2, ElementOfSeq
<1> QED BY <1>7, <1>8, EmptySeq

(* The place after the j-th of the n-th group is in that group or, with    *)
(* nothing between them, in a later one.                                   *)
LEMMA PlaceAfter ==
  ASSUME NEW S, NEW seqs \in Seq(Seq(S)),
         NEW n \in 1 .. Len(seqs), NEW j \in 1 .. Len(seqs[n]),
         NEW k \in 1 .. Len(seqs), NEW i \in 1 .. Len(seqs[k]),
         Totals(seqs)[k - 1] + i = Totals(seqs)[n - 1] + j + 1
  PROVE  n <= k /\ \A m \in n + 1 .. k - 1 : seqs[m] = <<>>
<1> DEFINE off == Totals(seqs)
           N == Len(seqs)
<1>1. /\ off \in [0 .. N -> Nat] /\ N \in Nat
      /\ \A m \in 1 .. N : off[m] = off[m - 1] + Len(seqs[m]) /\ Len(seqs[m]) \in Nat
  BY TotalsDef, LenProperties
<1>2. n \in 0 .. N /\ n - 1 \in 0 .. N /\ k \in 0 .. N /\ k - 1 \in 0 .. N /\ n \in Nat /\ k \in Nat
  BY <1>1
<1>3. off[n] = off[n - 1] + Len(seqs[n]) /\ off[k] = off[k - 1] + Len(seqs[k])
  BY <1>1
<1>4. off[n] \in Nat /\ off[n - 1] \in Nat /\ off[k] \in Nat /\ off[k - 1] \in Nat
  BY <1>1, <1>2
<1>5. Len(seqs[n]) \in Nat /\ Len(seqs[k]) \in Nat
  BY <1>1
<1>6. off[k - 1] + i = off[n - 1] + j + 1
  OBVIOUS
<1>7. k <= n - 1 => off[k] <= off[n - 1]
  BY <1>2, TotalsMonotone
<1> DEFINE u == off[n - 1]
           v == off[n]
           w == off[k - 1]
           z == off[k]
           x == Len(seqs[n])
           y == Len(seqs[k])
<1>8. /\ v = u + x /\ z = w + y /\ w + i = u + j + 1 /\ (k <= n - 1 => z <= u)
      /\ u \in Nat /\ v \in Nat /\ w \in Nat /\ z \in Nat /\ x \in Nat /\ y \in Nat
  BY <1>3, <1>4, <1>5, <1>6, <1>7
<1>9. i \in 1 .. y /\ j \in 1 .. x
  OBVIOUS
<1> HIDE DEF off, N, u, v, w, x, y, z
<1>10. n <= k
  <2> SUFFICES ASSUME k <= n - 1 PROVE FALSE
    BY <1>2
  <2> QED BY <1>8, <1>9
<1>11. w <= v
  BY <1>8, <1>9
<1>12. ASSUME NEW m \in n + 1 .. k - 1 PROVE seqs[m] = <<>>
  <2>1. n <= k - 1
    BY <1>2
  <2>2. Totals(seqs)[k - 1] <= Totals(seqs)[n]
    BY <1>11 DEF w, v, off
  <2>3. m \in n + 1 .. k - 1
    OBVIOUS
  <2>4. n \in 0 .. Len(seqs) /\ k - 1 \in 0 .. Len(seqs)
    BY <1>2 DEF N
  <2> QED BY <2>1, <2>2, <2>3, <2>4, EmptyBetween
<1> QED BY <1>10, <1>12

(* A card is one of strings, the first of which names it. *)
LEMMA CardHead ==
  ASSUME NEW c \in Cards
  PROVE  CardStrings(c)[1] = [card |-> c, index |-> 0] /\ CardStrings(c)[1].card = c
<1>1. 1 \in 1 .. Total[c]
  BY CardAssumption
<1> QED BY <1>1 DEF CardStrings

(* The order of the records is that of the payload, which stays.           *)
LEMMA SameOrder ==
  ASSUME payload' = payload
  PROVE  InRecordOrder(cards)' <=> InRecordOrder(cards')
<1>1. PICK P : P = payload
  OBVIOUS
<1> DEFINE Is(y, k) == /\ P[k] = y[1] \/ OneSet(P[k], y[1])
                       /\ \A m \in 1 .. k - 1 : P[m] # y[1] /\ ~OneSet(P[m], y[1])
           R(y) == CHOOSE k \in DOMAIN P : Is(y, k)
<1>2. payload = P /\ payload' = P
  BY <1>1
<1>3. ASSUME NEW y PROVE FirstRecord(y) = R(y)
  BY <1>2 DEF FirstRecord
<1>4. ASSUME NEW y PROVE FirstRecord(y)' = R(y)
  BY <1>2 DEF FirstRecord
<1> HIDE DEF R
<1> DEFINE Sorted == \A a, b \in DOMAIN cards' : a < b => R(cards'[a]) < R(cards'[b])
<1>5. InRecordOrder(cards') <=> Sorted
  BY <1>3 DEF InRecordOrder
<1>6. InRecordOrder(cards)' <=> Sorted
  <2>1. InRecordOrder(cards)' <=>
          (\A a, b \in DOMAIN cards : a < b => FirstRecord(cards[a]) < FirstRecord(cards[b]))'
    BY DEF InRecordOrder
  <2> QED BY <1>4, <2>1
<1> QED BY <1>5, <1>6

(* A card that is added behind cards that began earlier keeps the order.   *)
LEMMA OrderGrows ==
  ASSUME payload \in Seq(Strings), payload' = payload, CardsType, NEW n \in DOMAIN payload,
         NEW x, cards' = Append(cards, x), FirstAt(x, n), InRecordOrder(cards),
         \A m \in DOMAIN cards : \E f \in 1 .. n - 1 : FirstAt(cards[m], f)
  PROVE  InRecordOrder(cards)' /\ Begun(n)'
<1> DEFINE l == Len(cards)
<1>1. /\ l \in Nat /\ DOMAIN cards = 1 .. l /\ DOMAIN cards' = 1 .. l + 1
      /\ cards'[l + 1] = x /\ \A m \in 1 .. l : cards'[m] = cards[m]
  <2>1. cards \in Seq({CardStrings(c) : c \in Sound})
    BY DEF CardsType
  <2>2. /\ Len(Append(cards, x)) = l + 1 /\ Append(cards, x)[l + 1] = x
        /\ \A m \in 1 .. l : Append(cards, x)[m] = cards[m]
        /\ DOMAIN Append(cards, x) = 1 .. l + 1
    BY <2>1
  <2> QED BY <2>1, <2>2, LenProperties
<1>2. DOMAIN payload = 1 .. Len(payload) /\ Len(payload) \in Nat /\ n \in Nat /\ n >= 1
  BY LenProperties
<1>3. FirstRecord(x) = n
  BY FirstIs
<1>4. ASSUME NEW m \in 1 .. l PROVE FirstRecord(cards[m]) < n
  <2>1. PICK f \in 1 .. n - 1 : FirstAt(cards[m], f)
    BY <1>1
  <2>2. f \in DOMAIN payload /\ f < n
    BY <1>2
  <2>3. FirstRecord(cards[m]) = f
    BY <2>1, <2>2, FirstIs
  <2> QED BY <2>2, <2>3
<1> HIDE DEF l
<1>5. InRecordOrder(cards')
  <2> SUFFICES ASSUME NEW a \in 1 .. l + 1, NEW b \in 1 .. l + 1, a < b
               PROVE  FirstRecord(cards'[a]) < FirstRecord(cards'[b])
    BY <1>1 DEF InRecordOrder
  <2>1. a \in 1 .. l /\ cards'[a] = cards[a]
    BY <1>1
  <2>2. CASE b = l + 1
    BY <1>1, <1>3, <1>4, <2>1, <2>2
  <2>3. CASE b # l + 1
    <3>1. b \in 1 .. l /\ cards'[b] = cards[b]
      BY <1>1, <2>3
    <3> QED BY <1>1, <2>1, <3>1 DEF InRecordOrder
  <2> QED BY <2>2, <2>3
<1>6. InRecordOrder(cards)'
  BY <1>5, SameOrder
<1>7. Begun(n)'
  <2> SUFFICES ASSUME NEW m \in 1 .. l + 1
               PROVE  \E f \in 1 .. n : FirstAt(cards'[m], f)
    BY <1>1 DEF Begun, FirstAt
  <2>1. CASE m = l + 1
    BY <1>1, <1>2, <2>1
  <2>2. CASE m # l + 1
    <3>1. m \in 1 .. l
      BY <1>1, <2>2
    <3>2. PICK f \in 1 .. n - 1 : FirstAt(cards[m], f)
      BY <1>1, <3>1
    <3>3. f \in 1 .. n
      BY <1>2
    <3> QED BY <1>1, <3>1, <3>2, <3>3
  <2> QED BY <2>1, <2>2
<1> QED BY <1>6, <1>7

(* A standalone card of the n-th record is new, and begins there.          *)
LEMMA SingleOrders ==
  ASSUME GathererInv, payload \in Seq(Strings), payload' = payload, NEW n \in DOMAIN payload,
         NEW s, s = payload[n], s.card \in Standalone, AddStandalone(s.card),
         Begun(n), SinglesSeen(n), InRecordOrder(cards)
  PROVE  InRecordOrder(cards)' /\ Begun(n)'
<1> DEFINE c == s.card
           x == CardStrings(c)
<1>1. c \in Sound /\ c \in Cards /\ x \notin Range(cards) /\ cards' = Append(cards, x)
  BY CardAssumption DEF AddStandalone
<1>2. s \in Strings
  <2>1. DOMAIN payload = 1 .. Len(payload)
    BY LenProperties
  <2> QED BY <2>1, ElementOfSeq
<1>3. x[1] = s /\ x[1].card = c
  <2>1. PICK d \in Cards : s \in Range(CardStrings(d))
    BY <1>2 DEF Strings
  <2>2. PICK k \in 1 .. Total[d] : s = [card |-> d, index |-> k - 1]
    BY <2>1 DEF Range, CardStrings
  <2>3. d = c /\ Total[c] = 1 /\ k = 1
    BY <2>2, CardAssumption
  <2> QED BY <1>1, <2>2, <2>3, CardHead
<1> HIDE DEF x, c
<1>4. c \in Standalone
  BY DEF c
<1>5. FirstAt(x, n)
  <2>1. ASSUME NEW m \in 1 .. n - 1 PROVE payload[m] # x[1]
    <3> SUFFICES ASSUME payload[m] = x[1] PROVE FALSE
      OBVIOUS
    <3>1. CardStrings(payload[m].card) \in Range(cards)
      BY <1>1, <1>3, <1>4 DEF SinglesSeen
    <3> QED BY <1>1, <1>3, <3>1 DEF x
  <2>2. \A m \in 1 .. n - 1 : ~OneSet(payload[m], x[1])
    BY <1>3, <1>4 DEF OneSet
  <2> QED BY <1>3, <2>1, <2>2 DEF FirstAt
<1>6. ASSUME NEW m \in DOMAIN cards PROVE \E f \in 1 .. n - 1 : FirstAt(cards[m], f)
  <2>1. PICK f \in 1 .. n : FirstAt(cards[m], f)
    BY DEF Begun
  <2>2. f # n
    <3> SUFFICES ASSUME f = n PROVE FALSE
      OBVIOUS
    <3>1. payload[n] = cards[m][1]
      BY <2>1, <1>4 DEF FirstAt, OneSet, c
    <3>2. PICK d \in Sound : cards[m] = CardStrings(d)
      BY DEF GathererInv, CardsWhole
    <3>3. d = c
      <4>1. d \in Cards /\ CardStrings(d)[1].card = d
        BY CardAssumption, CardHead
      <4>2. payload[n].card = c
        BY <1>3
      <4> QED BY <3>1, <3>2, <4>1, <4>2
    <3> QED BY <1>1, <3>2, <3>3 DEF Range, x
  <2>3. n \in Nat
    <3>1. DOMAIN payload = 1 .. Len(payload) /\ Len(payload) \in Nat
      BY LenProperties
    <3> QED BY <3>1
  <2> QED BY <2>1, <2>2, <2>3
<1> QED BY <1>1, <1>5, <1>6, OrderGrows DEF GathererInv

(* A card of the n-th group is the only one of its set, and begins there.  *)
LEMMA SetOrders ==
  ASSUME GathererInv, payload \in Seq(Strings), payload' = payload, NEW n \in DOMAIN payload,
         \A m \in 1 .. n - 1 : ~OneSet(payload[m], payload[n]),
         NEW s \in Strings, OneSet(s, payload[n]), AddChunk(s),
         Begun(n), InRecordOrder(cards)
  PROVE  InRecordOrder(cards)' /\ Begun(n)'
<1> DEFINE k == Key[s.card]
           grown == Grown(sets[k], s)
<1>1. CASE cards' = cards
  <2>1. InRecordOrder(cards)'
    BY <1>1 DEF InRecordOrder, FirstRecord
  <2>2. Begun(n)'
    BY <1>1 DEF Begun, FirstAt
  <2> QED BY <2>1, <2>2
<1>2. CASE cards' # cards
  <2>1. s.card \in Chunked /\ k \in Keys
    BY StringShape DEF Chunked, Keys, OneSet
  <2>2. /\ Complete(grown) /\ Decodes(grown) /\ ~Complete(sets[k]) /\ Fits(sets[k], s)
        /\ cards' = Append(cards, Collected(grown))
    BY <1>2 DEF AddChunk, SetOf, Fits
  <2>3. SetOK(k, grown)
    BY <2>1, <2>2, GrownOK DEF GathererInv, SetsOK
  <2> HIDE DEF grown
  <2>4. PICK c \in Sound : c \in Chunked /\ Key[c] = k /\ Collected(grown) = CardStrings(c)
    BY <2>2, <2>3, Whole
  <2> DEFINE x == CardStrings(c)
  <2>5. x[1].card = c /\ c \notin Standalone
    BY <2>4, CardHead DEF Chunked
  <2> HIDE DEF x
  <2>6. payload[n].card \notin Standalone /\ Key[payload[n].card] = k
    BY DEF OneSet
  <2>7. FirstAt(x, n)
    <3>1. OneSet(payload[n], x[1])
      BY <2>4, <2>5, <2>6 DEF OneSet
    <3>2. ASSUME NEW m \in 1 .. n - 1, payload[m] = x[1] \/ OneSet(payload[m], x[1])
          PROVE  OneSet(payload[m], payload[n])
      BY <2>4, <2>5, <2>6, <3>2 DEF OneSet
    <3> QED BY <3>1, <3>2 DEF FirstAt
  <2>8. ASSUME NEW m \in DOMAIN cards PROVE \E f \in 1 .. n - 1 : FirstAt(cards[m], f)
    <3>1. PICK f \in 1 .. n : FirstAt(cards[m], f)
      BY DEF Begun
    <3>2. f # n
      <4> SUFFICES ASSUME f = n PROVE FALSE
        OBVIOUS
      <4>1. PICK d \in Sound : cards[m] = CardStrings(d)
        BY DEF GathererInv, CardsWhole
      <4>2. d \in Cards /\ cards[m][1].card = d
        BY <4>1, CardHead, CardAssumption
      <4>3. d \in Chunked /\ Key[d] = k
        BY <2>6, <3>1, <4>2 DEF FirstAt, OneSet, Chunked
      <4>4. Complete(sets[k])
        BY <4>1, <4>3 DEF GathererInv, AddedIsComplete
      <4> QED BY <2>2, <4>4
    <3>3. n \in Nat
      <4>1. DOMAIN payload = 1 .. Len(payload) /\ Len(payload) \in Nat
        BY LenProperties
      <4> QED BY <4>1
    <3> QED BY <3>1, <3>2, <3>3
  <2>9. cards' = Append(cards, x)
    BY <2>2, <2>4 DEF x
  <2> QED BY <2>7, <2>8, <2>9, OrderGrows DEF GathererInv
<1> QED BY <1>1, <1>2

(* What a string of the n-th group adds keeps the order.                   *)
LEMMA OfferOrders ==
  ASSUME GathererInv, payload \in Seq(Strings), payload' = payload, NEW n \in 1 .. Len(payload),
         NEW j \in 1 .. Len(Group(payload, n)), NEW s, s = Group(payload, n)[j], Offer(s),
         Begun(n), SinglesSeen(n), InRecordOrder(cards)
  PROVE  /\ InRecordOrder(cards)' /\ Begun(n)' /\ SinglesSeen(n)'
         /\ payload[n].card \in Standalone \cap Sound =>
              CardStrings(payload[n].card) \in Range(cards')
<1>1. n \in DOMAIN payload /\ payload[n] \in Strings
  BY LenProperties, ElementOfSeq
<1>2. s \in Strings
  BY GroupIs, ElementOfSeq
<1>3. Range(cards) \subseteq Range(cards')
  <2>1. Begins(cards, cards')
    BY OfferAdds
  <2>2. Len(cards) \in Nat /\ DOMAIN cards = 1 .. Len(cards)
    BY CardsTyped DEF GathererInv
  <2>3. CardsType'
    BY OfferKeeps DEF GathererInv
  <2>4. Len(cards') \in Nat /\ DOMAIN cards' = 1 .. Len(cards')
    BY <2>3, LenProperties DEF CardsType
  <2>5. \A m \in DOMAIN cards : m \in DOMAIN cards' /\ cards'[m] = cards[m]
    BY <2>1, <2>2, <2>4 DEF Begins
  <2> QED BY <2>5 DEF Range
<1>4. SinglesSeen(n)'
  BY <1>3 DEF SinglesSeen
<1>5. CASE payload[n].card \in Standalone
  <2>1. s = payload[n]
    <3>1. Group(payload, n) = <<payload[n]>>
      BY <1>5, GroupIs
    <3> QED BY <3>1
  <2>2. CASE AddStandalone(s.card)
    <3>1. InRecordOrder(cards)' /\ Begun(n)'
      BY <1>1, <1>5, <2>1, <2>2, SingleOrders
    <3>2. CardStrings(s.card) \in Range(cards')
      <4>1. cards' = Append(cards, CardStrings(s.card)) /\ Len(cards) \in Nat
        BY <2>2, CardsTyped DEF AddStandalone, GathererInv
      <4>2. /\ Len(cards) + 1 \in DOMAIN Append(cards, CardStrings(s.card))
            /\ Append(cards, CardStrings(s.card))[Len(cards) + 1] = CardStrings(s.card)
        BY <4>1 DEF GathererInv, CardsType
      <4> QED BY <4>1, <4>2 DEF Range
    <3> QED BY <1>4, <2>1, <3>1, <3>2
  <2>3. CASE ~AddStandalone(s.card)
    <3>1. Ignored(s) /\ cards' = cards /\ sets' = sets
      BY <1>5, <2>1, <2>3 DEF Offer, gatherer
    <3>2. s.card \in Sound => CardStrings(s.card) \in Range(cards)
      BY <1>2, <1>5, <2>1, <3>1 DEF Ignored
    <3>3. InRecordOrder(cards)' /\ Begun(n)'
      BY <3>1 DEF InRecordOrder, FirstRecord, Begun, FirstAt
    <3> QED BY <1>4, <2>1, <3>1, <3>2, <3>3
  <2> QED BY <2>2, <2>3
<1>6. CASE payload[n].card \notin Standalone
  <2>1. OneSet(s, payload[n]) /\ \A m \in 1 .. n - 1 : ~OneSet(payload[m], payload[n])
    <3>1. Group(payload, n) # <<>>
      OBVIOUS
    <3> QED BY <1>6, <3>1, GroupIs
  <2>2. CASE AddChunk(s)
    BY <1>1, <1>2, <1>4, <1>6, <2>1, <2>2, SetOrders
  <2>3. CASE ~AddChunk(s)
    <3>1. cards' = cards
      BY <2>1, <2>3 DEF Offer, gatherer, OneSet
    <3>2. InRecordOrder(cards)' /\ Begun(n)'
      BY <3>1 DEF InRecordOrder, FirstRecord, Begun, FirstAt
    <3> QED BY <1>4, <1>6, <3>2
  <2> QED BY <2>2, <2>3
<1> QED BY <1>5, <1>6

(* While the payload is fed the cards keep its order, up to the last step. *)
LEMMA FeedOrders ==
  ASSUME GathererInv, payload \in Seq(Strings), feed \in Seq(Strings), OrderInv, Feeding, Feed
  PROVE  InRecordOrder(cards)' /\ OrderInv'
<1>1. /\ phase = "gather" /\ phase' = phase /\ kept' = kept /\ payload' = payload
      /\ feed # <<>> /\ kept = <<>> /\ Offer(Head(feed)) /\ feed' = Tail(feed)
  BY DEF Feeding, Feed
<1>2. PICK g \in Seq(Seq(Strings)) : g = Groups(payload)
  BY GroupsType
<1>3. PICK F \in Seq(Strings) : F = Grouped(payload)
  BY GroupedType
<1> DEFINE N == Len(payload)
<1>4. /\ F = FlattenSeq(g) /\ Len(g) = N /\ N \in Nat /\ DOMAIN payload = 1 .. N
      /\ \A n \in 1 .. N : g[n] = Group(payload, n)
  BY <1>2, <1>3, GroupedType, GroupsType, LenProperties
<1>5. PICK n \in 1 .. N : \E j \in 1 .. Len(Groups(payload)[n]) : FedAt(n, j)
  BY DEF OrderInv
<1>6. PICK j \in 1 .. Len(g[n]) : FedAt(n, j)
  BY <1>2, <1>5
<1>7. n \in 1 .. Len(g)
  BY <1>4
<1>8. PICK p \in Nat : p = Totals(g)[n - 1] + j
  BY <1>6, <1>7, NextPlace
<1>9. p >= 1 /\ F[p] = g[n][j] /\ p \in 1 .. Len(F)
  <2>1. p >= 1 /\ F[p] = g[n][j] /\ (j < Len(g[n]) => p < Len(F)) /\ (j = Len(g[n]) => p = Totals(g)[n])
    BY <1>4, <1>6, <1>7, <1>8, NextPlace
  <2>2. Len(F) \in Nat /\ Len(F) = Totals(g)[Len(g)]
    BY <1>4, FlattenAt, LenProperties
  <2>3. Totals(g)[n] <= Totals(g)[Len(g)]
    <3>1. n \in 0 .. Len(g) /\ Len(g) \in 0 .. Len(g) /\ n <= Len(g)
      BY <1>4
    <3> QED BY <3>1, TotalsMonotone
  <2>4. j < Len(g[n]) \/ j = Len(g[n])
    <3>1. g[n] \in Seq(Strings)
      BY <1>7, ElementOfSeq
    <3>2. Len(g[n]) \in Nat
      BY <3>1, LenProperties
    <3> QED BY <3>2
  <2> QED BY <2>1, <2>2, <2>3, <2>4
<1>10. FedOf(F, p) /\ Begun(n) /\ SinglesSeen(n) /\ InRecordOrder(cards)
  BY <1>2, <1>3, <1>6, <1>8 DEF FedAt
<1>11. Head(feed) = F[p] /\ FedOf(F, p + 1)' /\ (feed' = <<>> <=> p = Len(F))
  BY <1>1, <1>9, <1>10, FeedMoves
<1>12. j \in 1 .. Len(Group(payload, n)) /\ Head(feed) = Group(payload, n)[j]
  BY <1>4, <1>9, <1>11
<1>13. /\ InRecordOrder(cards)' /\ Begun(n)' /\ SinglesSeen(n)'
       /\ payload[n].card \in Standalone \cap Sound =>
            CardStrings(payload[n].card) \in Range(cards')
  <2>1. PICK s : s = Head(feed)
    OBVIOUS
  <2>2. Offer(s) /\ s = Group(payload, n)[j] /\ n \in 1 .. Len(payload)
    BY <1>1, <1>12, <2>1
  <2> QED BY <1>1, <1>10, <1>12, <2>2, OfferOrders
<1>14. ASSUME feed' # <<>>
       PROVE  (\E k \in 1 .. Len(payload) : \E i \in 1 .. Len(Groups(payload)[k]) : FedAt(k, i))'
  <2>1. p + 1 \in 1 .. Totals(g)[Len(g)]
    <3>1. Len(F) \in Nat /\ Len(F) = Totals(g)[Len(g)]
      BY <1>4, FlattenAt, LenProperties
    <3> QED BY <1>9, <1>11, <1>14, <3>1
  <2>2. PICK k \in 1 .. Len(g) : \E i \in 1 .. Len(g[k]) : p + 1 = Totals(g)[k - 1] + i
    BY <2>1, TotalsFind
  <2>3. PICK i \in 1 .. Len(g[k]) : p + 1 = Totals(g)[k - 1] + i
    BY <2>2
  <2>4. n <= k /\ \A m \in n + 1 .. k - 1 : g[m] = <<>>
    <3>1. Totals(g)[k - 1] + i = Totals(g)[n - 1] + j + 1
      BY <1>8, <2>3
    <3> QED BY <1>6, <1>7, <3>1, PlaceAfter
  <2>5. k \in 1 .. N /\ k \in Nat /\ n \in Nat
    BY <1>4
  <2>6. Begun(k)'
    <3>1. \A f \in 1 .. n : f \in 1 .. k
      BY <2>4, <2>5
    <3> QED BY <1>13, <3>1 DEF Begun
  <2>7. SinglesSeen(k)'
    <3> SUFFICES ASSUME NEW m \in 1 .. k - 1, payload[m].card \in Standalone \cap Sound
                 PROVE  CardStrings(payload[m].card) \in Range(cards')
      BY <1>1 DEF SinglesSeen
    <3>1. CASE m < n
      <4>1. m \in 1 .. n - 1
        BY <2>5, <3>1
      <4> QED BY <1>1, <1>13, <4>1 DEF SinglesSeen
    <3>2. CASE m = n
      BY <1>13, <3>2
    <3>3. CASE m > n
      <4>1. m \in n + 1 .. k - 1 /\ m \in 1 .. N
        BY <2>5, <3>3
      <4>2. g[m] = <<payload[m]>>
        BY <1>4, <4>1, <3>3, GroupIs
      <4>3. g[m] = <<>>
        BY <2>4, <4>1
      <4>4. PICK r : r = payload[m]
        OBVIOUS
      <4>5. <<r>> # <<>>
        OBVIOUS
      <4> QED BY <4>2, <4>3, <4>4, <4>5, Zenon
    <3> QED BY <2>5, <3>1, <3>2, <3>3
  <2>8. Grouped(payload') = F /\ Groups(payload') = g
    BY <1>1, <1>2, <1>3
  <2>9. FedAt(k, i)'
    <3>1. FedOf(F, Totals(g)[k - 1] + i)'
      BY <1>11, <2>3
    <3>2. FedOf(Grouped(payload), Totals(Groups(payload))[k - 1] + i)'
      BY <2>8, <3>1
    <3> QED BY <1>13, <2>6, <2>7, <3>2 DEF FedAt
  <2>10. k \in 1 .. Len(payload') /\ i \in 1 .. Len(Groups(payload')[k])
    BY <1>1, <2>3, <2>5, <2>8
  <2> QED BY <2>9, <2>10
<1>15. OrderInv'
  BY <1>1, <1>14 DEF OrderInv, Feeding
<1> QED BY <1>13, <1>15

(* The first string of a payload: no card is there yet, and what is before *)
(* its group is empty.                                                     *)
LEMMA PayloadStarts ==
  ASSUME payload \in Seq(Strings), cards = <<>>, Choose, feed' # <<>>
  PROVE  OrderInv'
<1>1. PICK g \in Seq(Seq(Strings)) : g = Groups(payload)
  BY GroupsType
<1>2. PICK F \in Seq(Strings) : F = Grouped(payload)
  BY GroupedType
<1>3. /\ F = FlattenSeq(g) /\ Len(g) = Len(payload) /\ Len(payload) \in Nat
      /\ \A n \in 1 .. Len(payload) : g[n] = Group(payload, n)
  BY <1>1, <1>2, GroupedType, GroupsType, LenProperties
<1>4. /\ phase' = "gather" /\ payload' = payload /\ cards' = <<>> /\ kept' = kept /\ feed' = F
  BY <1>2 DEF Choose, gatherer
<1>5. Len(F) \in Nat /\ Len(F) >= 1 /\ Len(F) = Totals(g)[Len(g)]
  <2>1. Len(F) \in Nat /\ Len(F) # 0
    BY <1>4, EmptySeq, LenProperties
  <2> QED BY <1>3, <2>1, FlattenAt
<1>6. PICK n \in 1 .. Len(g) : \E j \in 1 .. Len(g[n]) : 1 = Totals(g)[n - 1] + j
  <2>1. 1 \in 1 .. Totals(g)[Len(g)]
    BY <1>5
  <2> QED BY <2>1, TotalsFind
<1>7. PICK j \in 1 .. Len(g[n]) : 1 = Totals(g)[n - 1] + j
  BY <1>6
<1>8. ASSUME NEW m \in 1 .. n - 1 PROVE g[m] = <<>>
  <2>1. 0 \in 0 .. Len(g) /\ n - 1 \in 0 .. Len(g) /\ 0 <= n - 1 /\ m \in 0 + 1 .. n - 1
    BY <1>3
  <2>2. Totals(g)[n - 1] <= Totals(g)[0]
    <3>1. Totals(g)[0] = 0 /\ Totals(g)[n - 1] \in Nat
      BY <2>1, TotalsDef
    <3>2. j \in Nat /\ j >= 1
      <4>1. g[n] \in Seq(Strings)
        BY ElementOfSeq
      <4> QED BY <4>1, LenProperties
    <3> QED BY <1>7, <3>1, <3>2
  <2> QED BY <2>1, <2>2, EmptyBetween
<1>9. FedOf(F, Totals(g)[n - 1] + j)'
  <2>1. FedOf(F, 1)'
    <3>1. Len(F) = Len(F) - 1 + 1 /\ \A q \in 1 .. Len(F) : 1 + q - 1 = q
      BY <1>5
    <3>2. Len(feed') = Len(F) - 1 + 1 /\ \A q \in 1 .. Len(feed') : feed'[q] = F[1 + q - 1]
      BY <1>4, <3>1
    <3> QED BY <3>2 DEF FedOf
  <2> QED BY <1>7, <2>1
<1>10. Begun(n)' /\ InRecordOrder(cards)'
  BY <1>4 DEF Begun, InRecordOrder
<1>11. SinglesSeen(n)'
  <2>1. ASSUME NEW m \in 1 .. n - 1 PROVE payload[m].card \notin Standalone
    <3>1. m \in 1 .. Len(payload)
      BY <1>3
    <3>2. Len(<<payload[m]>>) = 1 /\ Len(<<>>) = 0 /\ g[m] = <<>>
      BY <1>8
    <3>3. payload[m].card \in Standalone => g[m] = <<payload[m]>>
      BY <1>3, <3>1, GroupIs
    <3> QED BY <3>2, <3>3
  <2> QED BY <1>4, <2>1 DEF SinglesSeen
<1>12. Grouped(payload') = F /\ Groups(payload') = g
  BY <1>1, <1>2, <1>4
<1>13. FedAt(n, j)'
  <2>1. FedOf(Grouped(payload), Totals(Groups(payload))[n - 1] + j)'
    BY <1>9, <1>12
  <2> QED BY <1>10, <1>11, <2>1 DEF FedAt
<1>14. n \in 1 .. Len(payload') /\ j \in 1 .. Len(Groups(payload')[n])
  BY <1>3, <1>4, <1>12
<1> QED BY <1>4, <1>13, <1>14 DEF OrderInv

(* Every step keeps the order.                                             *)
LEMMA StepOrder ==
  BundleInv /\ OrderInv /\ [Next]_vars
    => /\ OrderInv'
       /\ feed # <<>> /\ feed' = <<>> /\ kept = <<>> => InRecordOrder(cards')
<1> SUFFICES ASSUME BundleInv, OrderInv, [Next]_vars
             PROVE  /\ OrderInv'
                    /\ feed # <<>> /\ feed' = <<>> /\ kept = <<>> => InRecordOrder(cards')
  OBVIOUS
<1>1. GathererInv /\ payload \in Seq(Strings) /\ feed \in Seq(Strings)
  BY CardAssumption DEF BundleInv, ReplayInv
<1>2. ASSUME ~Feeding', phase' # "source" PROVE OrderInv'
  BY <1>2 DEF OrderInv, Feeding
<1>3. CASE Choose
  <2>1. phase = "source" /\ cards = <<>> /\ phase' = "gather"
    BY <1>3 DEF Choose, OrderInv
  <2>2. OrderInv'
    BY <1>1, <1>2, <1>3, <2>1, PayloadStarts DEF Feeding
  <2>3. feed = <<>>
    BY <2>1 DEF BundleInv, ReplayInv, OrderInv, Feeding
  <2> QED BY <2>2, <2>3
<1>4. CASE Feed
  <2>1. CASE Feeding
    <3>1. InRecordOrder(cards)' /\ OrderInv' /\ payload' = payload
      BY <1>1, <1>4, <2>1, FeedOrders DEF Feed
    <3> QED BY <3>1, SameOrder
  <2>2. CASE ~Feeding
    BY <1>2, <1>4, <2>2 DEF Feed, Feeding
  <2> QED BY <2>1, <2>2
<1>5. CASE Scan \/ Done \/ Leave
  <2>1. feed = <<>> /\ feed' = <<>> /\ phase' # "source"
    BY <1>5 DEF Scan, Done, Leave, Scanning
  <2> QED BY <1>2, <2>1 DEF Feeding
<1>6. CASE ReviewBack
  <2>1. phase = "review" /\ phase' = "gather" /\ kept' = cards /\ cards # <<>>
    BY <1>6 DEF ReviewBack, BundleInv, CutInv, Cut
  <2>2. ~(feed # <<>> /\ kept = <<>>)
    BY <2>1 DEF OrderInv, Feeding
  <2> QED BY <1>2, <2>1, <2>2 DEF Feeding
<1>7. CASE Confirm \/ CutPlate \/ Finish \/ Abort
  <2>1. phase # "gather" /\ phase' # "source" /\ feed' = feed /\ kept' = kept
    BY <1>7 DEF Confirm, CutPlate, Finish, Abort
  <2>2. ~Feeding
    BY <2>1 DEF OrderInv
  <2> QED BY <1>2, <2>1, <2>2 DEF Feeding
<1>8. CASE UNCHANGED vars
  <2>1. /\ phase' = phase /\ payload' = payload /\ feed' = feed /\ cards' = cards /\ kept' = kept
    BY <1>8 DEF vars, gatherer
  <2>2. InRecordOrder(cards)' = InRecordOrder(cards)
    BY <2>1 DEF InRecordOrder, FirstRecord
  <2>3. OrderInv'
    BY <2>1, <2>2 DEF OrderInv, Feeding, FedAt, FedOf, Begun, SinglesSeen, FirstAt
  <2> QED BY <2>1, <2>3
<1> QED BY <1>3, <1>4, <1>5, <1>6, <1>7, <1>8 DEF Next

(* For any cards and payloads: when the payload has been fed, the cards    *)
(* stand in the order in which their sets first appear in it, though each  *)
(* was added with its last chunk (groupRecordsByCard).                     *)
THEOREM RecordsKeepOrder == Spec => PayloadOrder
<1>1. Init => OrderInv
  BY DEF Init, OrderInv, Feeding
<1>2. BundleInv /\ OrderInv /\ [Next]_vars
        => OrderInv' /\ [feed # <<>> /\ feed' = <<>> /\ kept = <<>> => InRecordOrder(cards')]_vars
  BY StepOrder
<1> QED BY <1>1, <1>2, BundleHolds, PTL DEF Spec, PayloadOrder
=============================================================================
