--------------------------- MODULE MultisigProofs ---------------------------
(***************************************************************************)
(* What holds of MultisigSession for any seeds, cards, policies and bounds *)
(* on them: the plates are those of the policy, and what is called         *)
(* verified is those plates.                                               *)
(***************************************************************************)
EXTENDS MultisigSession, FiniteSetTheorems, SequenceTheorems, TLAPS

(* Every inhabited set of naturals has a least element: of the slots with  *)
(* one key there is a first.  Initial intervals that end in S are finite,  *)
(* and the inclusion of finite sets is well founded.                       *)
LEMMA LeastElement ==
  ASSUME NEW S \in SUBSET Nat, S # {}
  PROVE  \E m \in S : \A k \in S : m <= k
<1> DEFINE Below == {0..n : n \in S}
<1>1. Below \subseteq FiniteSubsetsOf(Nat) /\ Below # {}
  <2>1. \A n \in S : IsFiniteSet(0..n) /\ (0..n) \in SUBSET Nat
    BY FS_Interval
  <2>2. \A n \in S : (0..n) \in FiniteSubsetsOf(Nat)
    BY <2>1 DEF FiniteSubsetsOf
  <2>3. PICK n \in S : TRUE
    OBVIOUS
  <2> QED
    BY <2>2, <2>3
<1>2. \E x \in Below : \A y \in Below : <<y, x>> \notin StrictSubsetOrdering(Nat)
  <2> HIDE DEF Below
  <2> QED
    BY <1>1, FS_StrictSubsetOrderingWellFounded, WFMin
<1>3. PICK m \in S : \A k \in S : <<0..k, 0..m>> \notin StrictSubsetOrdering(Nat)
  BY <1>2
<1>4. ASSUME NEW k \in S, k < m
      PROVE  FALSE
  <2> DEFINE small == 0..k
             large == 0..m
  <2>1. small \subseteq large /\ m \in large /\ m \notin small
    BY <1>4
  <2>2. small \in SUBSET Nat /\ large \in SUBSET Nat
    OBVIOUS
  <2>3. <<small, large>> \notin StrictSubsetOrdering(Nat)
    BY <1>3
  <2> HIDE DEF small, large
  <2> QED
    BY <2>1, <2>2, <2>3 DEF StrictSubsetOrdering
<1> QED
  BY <1>4

Verifying == {"offer", "present", "words", "phrase", "share", "next", "document"}
Attempt == {"words", "phrase", "share", "next"}

Proves(s, seed) == policy[s].xpub = Derived(seed, policy[s].path)
PlateOf(s, seed) == Plate(seed, policy[s].path, md1)

(* The plates cut are those of the expected slots. *)
SteelFits ==
  /\ IsFiniteSet(DOMAIN policy) /\ DOMAIN policy \in SUBSET Nat
  /\ expected # {} /\ expected \subseteq DOMAIN policy /\ full \in BOOLEAN
  /\ \A s \in expected : \E seed \in Seeds : Proves(s, seed) /\ PlateOf(s, seed) \in steel
  /\ \A p \in steel : \E s \in expected, seed \in Seeds : Proves(s, seed) /\ p = PlateOf(s, seed)

(* A leg is one of the plates cut, for a slot with its key. *)
Leg ==
  {l \in [slot : expected, plate : steel, share : Words \cup {"none"}] : l.plate.xpub = policy[l.slot].xpub}
LegsFit(ls) == ls \in Seq(Leg) /\ \A i, j \in DOMAIN ls : ls[i].slot = ls[j].slot => i = j
EntryFits ==
  /\ entry \in [words : Words \cup {"none"}, phrase : Phrases \cup {NoPhrase}]
  /\ pc \in {"phrase", "share"} => entry.words \in Words
ShownFits ==
  pc \in Attempt => shown \in [1..Cardinality(expected) -> Bench] /\ IsInjective(shown)
RecFits ==
  /\ rec \in [pass : BOOLEAN, full : BOOLEAN, legs : Nat, supplied : Nat, adverse : BOOLEAN]
  /\ pc \notin Verifying => ~rec.pass
ReadBackInv ==
  /\ pc \in Verifying => SteelFits
  /\ LegsFit(legs) /\ EntryFits /\ ShownFits /\ RecFits
  /\ VerifiedIsSteel
  /\ pc \in Attempt \cup {"present", "document"} => ~told

-----------------------------------------------------------------------------
(* Derivations do not collide. *)
LEMMA DerivedIsInjective ==
  ASSUME NEW a \in Seeds, NEW b \in Seeds, NEW p, Derived(a, p) = Derived(b, p)
  PROVE  a = b
BY DEF Derived, Seeds

(* An enumeration of a set names each of its members once. *)
LEMMA AscendingIsInjective ==
  ASSUME NEW S \in SUBSET Nat, IsFiniteSet(S), NEW q \in Ascending(S)
  PROVE  q \in Seq(S) /\ \A i, j \in DOMAIN q : q[i] = q[j] => i = j
<1>1. Cardinality(S) \in Nat
  BY FS_CardinalityType
<1>2. q \in Seq(S) /\ DOMAIN q = 1..Cardinality(S)
  BY <1>1 DEF Ascending
<1>3. ASSUME NEW i \in DOMAIN q, NEW j \in DOMAIN q, i < j
      PROVE  q[i] # q[j]
  <2>1. q[i] < q[j] /\ q[i] \in Nat
    BY <1>2, <1>3 DEF Ascending
  <2> QED
    BY <2>1
<1> QED
  BY <1>1, <1>2, <1>3

(* The legs of a further seed, for slots not yet proved. *)
LEMMA DerivedLegsFit ==
  ASSUME SteelFits, LegsFit(legs), NEW seed \in Seeds,
         NEW share \in Words \cup {"none"},
         NEW order \in Ascending(FreshSlots(AllUserSlots(seed, policy)))
  PROVE  LegsFit(legs \o Rederived(seed, order, share))
<1> DEFINE slots == FreshSlots(AllUserSlots(seed, policy))
           new == Rederived(seed, order, share)
           ls == legs \o new
<1>1. slots \subseteq expected /\ slots \cap Covered = {} /\ \A s \in slots : Proves(s, seed)
  BY DEF FreshSlots, AllUserSlots, Proves
<1>2. slots \in SUBSET Nat /\ IsFiniteSet(slots)
  BY <1>1, FS_Subset DEF SteelFits
<1>3. order \in Seq(slots) /\ \A i, j \in DOMAIN order : order[i] = order[j] => i = j
  <2> HIDE DEF slots
  <2> QED
    BY <1>2, AscendingIsInjective DEF slots
<1>4. \A s \in slots : PlateOf(s, seed) \in steel /\ PlateOf(s, seed).xpub = policy[s].xpub
  <2> SUFFICES ASSUME NEW s \in slots
               PROVE  PlateOf(s, seed) \in steel /\ PlateOf(s, seed).xpub = policy[s].xpub
    OBVIOUS
  <2>1. PICK other \in Seeds : Proves(s, other) /\ PlateOf(s, other) \in steel
    BY <1>1 DEF SteelFits
  <2>2. other = seed
    BY <1>1, <2>1, DerivedIsInjective DEF Proves
  <2> QED
    BY <1>1, <2>1, <2>2 DEF PlateOf, Plate, Proves
<1>5. /\ new \in Seq(Leg) /\ DOMAIN new = DOMAIN order
      /\ \A i \in DOMAIN order : new[i].slot = order[i]
  <2>1. DOMAIN order = 1..Len(order) /\ Len(order) \in Nat /\ \A i \in DOMAIN order : order[i] \in slots
    BY <1>3
  <2>2. \A i \in DOMAIN order : new[i] = [slot |-> order[i], plate |-> PlateOf(order[i], seed), share |-> share]
    BY DEF Rederived, PlateOf
  <2>3. DOMAIN new = DOMAIN order /\ new = [i \in DOMAIN order |-> new[i]]
    BY DEF Rederived
  <2> HIDE DEF new
  <2>4. \A i \in DOMAIN order : new[i] \in Leg
    <3> SUFFICES ASSUME NEW i \in DOMAIN order
                 PROVE  new[i] \in Leg
      OBVIOUS
    <3> DEFINE p == PlateOf(order[i], seed)
    <3>1. p \in steel /\ p.xpub = policy[order[i]].xpub /\ order[i] \in expected
      BY <2>1, <1>1, <1>4
    <3>2. new[i] = [slot |-> order[i], plate |-> p, share |-> share]
      BY <2>2
    <3> HIDE DEF p
    <3> QED
      BY <3>1, <3>2 DEF Leg
  <2> QED
    BY <2>1, <2>2, <2>3, <2>4
<1> HIDE DEF new, slots
<1>6. ls \in Seq(Leg)
  BY <1>5 DEF LegsFit
<1>7. ASSUME NEW i \in DOMAIN ls, NEW j \in DOMAIN ls, ls[i].slot = ls[j].slot
      PROVE  i = j
  <2>1. /\ legs \in Seq(Leg) /\ \A k \in DOMAIN legs : legs[k].slot \in Covered
        /\ \A k \in DOMAIN new : new[k].slot \in slots
    BY <1>3, <1>5 DEF LegsFit, Covered
  <2>2. /\ DOMAIN ls = 1..(Len(legs) + Len(new)) /\ Len(legs) \in Nat /\ Len(new) \in Nat
        /\ \A k \in DOMAIN ls : ls[k] = IF k <= Len(legs) THEN legs[k] ELSE new[k - Len(legs)]
    BY <2>1, <1>5
  <2>3. \A k \in DOMAIN ls : IF k <= Len(legs) THEN k \in DOMAIN legs ELSE k - Len(legs) \in DOMAIN new
    BY <2>1, <2>2, <1>5
  <2>4. CASE i <= Len(legs) /\ j <= Len(legs)
    BY <2>2, <2>3, <2>4, <1>7 DEF LegsFit
  <2>5. CASE ~(i <= Len(legs)) /\ ~(j <= Len(legs))
    <3>1. order[i - Len(legs)] = order[j - Len(legs)]
      BY <2>2, <2>3, <2>5, <1>5, <1>7
    <3>2. i - Len(legs) = j - Len(legs)
      BY <3>1, <2>3, <2>5, <1>3, <1>5
    <3> QED
      BY <3>2, <2>2
  <2>6. CASE (i <= Len(legs)) # (j <= Len(legs))
    BY <2>1, <2>2, <2>3, <2>6, <1>1, <1>7
  <2> QED
    BY <2>4, <2>5, <2>6
<1> QED
  BY <1>6, <1>7 DEF LegsFit, new

(* Every plate of the bench is a plate. *)
IsPlate(p) == p = [xpub |-> p.xpub, path |-> p.path, fp |-> p.fp, stub |-> p.stub]
LEMMA BenchHoldsPlates ==
  ASSUME SteelFits, NEW p \in Bench
  PROVE  IsPlate(p)
<1>1. \A q \in steel : IsPlate(q)
  BY DEF SteelFits, PlateOf, Plate, IsPlate
<1>2. CASE p \in steel
  BY <1>1, <1>2
<1>3. CASE p \in Strangers
  BY <1>3, StrangerAssumption DEF IsPlate
<1>4. CASE \E q \in steel : p = [q EXCEPT !.stub = <<>>]
  BY <1>1, <1>4 DEF IsPlate
<1>5. CASE \E q \in steel : p = [q EXCEPT !.path = @ + 1]
  BY <1>1, <1>5 DEF IsPlate
<1> QED
  BY <1>2, <1>3, <1>4, <1>5 DEF Bench

(* There are no more plates than expected slots. *)
LEMMA SteelIsBounded ==
  ASSUME SteelFits
  PROVE  /\ IsFiniteSet(expected) /\ Cardinality(expected) \in Nat
         /\ IsFiniteSet(steel) /\ Cardinality(steel) <= Cardinality(expected)
<1>1. IsFiniteSet(expected) /\ Cardinality(expected) \in Nat
  BY FS_Subset, FS_CardinalityType DEF SteelFits
<1> DEFINE f == [s \in expected |-> PlateOf(s, CHOOSE seed \in Seeds : Proves(s, seed))]
<1>2. \A s \in expected : f[s] \in steel
  <2> SUFFICES ASSUME NEW s \in expected
               PROVE  f[s] \in steel
    OBVIOUS
  <2>1. PICK seed \in Seeds : Proves(s, seed) /\ PlateOf(s, seed) \in steel
    BY DEF SteelFits
  <2>2. \A other \in Seeds : Proves(s, other) => other = seed
    BY <2>1, DerivedIsInjective DEF Proves
  <2>3. (CHOOSE other \in Seeds : Proves(s, other)) = seed
    BY <2>1, <2>2
  <2> QED
    BY <2>1, <2>3
<1>3. \A p \in steel : \E s \in expected : f[s] = p
  <2> SUFFICES ASSUME NEW p \in steel
               PROVE  \E s \in expected : f[s] = p
    OBVIOUS
  <2>1. PICK s \in expected, seed \in Seeds : Proves(s, seed) /\ p = PlateOf(s, seed)
    BY DEF SteelFits
  <2>2. \A other \in Seeds : Proves(s, other) => other = seed
    BY <2>1, DerivedIsInjective DEF Proves
  <2>3. (CHOOSE other \in Seeds : Proves(s, other)) = seed
    BY <2>1, <2>2
  <2> QED
    BY <2>1, <2>3
<1>4. f \in Surjection(expected, steel)
  <2>1. f \in [expected -> steel]
    BY <1>2
  <2> HIDE DEF f
  <2> QED
    BY <2>1, <1>3 DEF Surjection
<1> QED
  BY <1>1, <1>4, FS_Surjection

(* As many legs as expected slots, each at a slot of its own: all slots.   *)
LEMMA LegsCover ==
  ASSUME SteelFits, NEW ls, LegsFit(ls), Len(ls) >= Cardinality(expected)
  PROVE  {ls[i].slot : i \in DOMAIN ls} = expected
<1> DEFINE f == [i \in 1..Len(ls) |-> ls[i].slot]
           slots == {ls[i].slot : i \in DOMAIN ls}
<1>1. ls \in Seq(Leg) /\ DOMAIN ls = 1..Len(ls) /\ Len(ls) \in Nat /\ \A i \in DOMAIN ls : ls[i] \in Leg
  BY DEF LegsFit
<1>2. slots \subseteq expected
  BY <1>1 DEF Leg
<1>3. IsFiniteSet(expected) /\ Cardinality(expected) \in Nat
  BY SteelIsBounded
<1>4. f \in Bijection(1..Len(ls), slots)
  <2>1. f \in [1..Len(ls) -> slots]
    BY <1>1
  <2>2. \A i, j \in 1..Len(ls) : f[i] = f[j] => i = j
    BY <1>1 DEF LegsFit
  <2>3. \A s \in slots : \E i \in 1..Len(ls) : f[i] = s
    BY <1>1
  <2> HIDE DEF f, slots
  <2> QED
    BY <2>1, <2>2, <2>3 DEF Bijection, Injection, Surjection, IsInjective
<1>5. Cardinality(slots) = Len(ls)
  <2>1. IsFiniteSet(1..Len(ls)) /\ Cardinality(1..Len(ls)) = Len(ls)
    <3>1. \A m \in Nat : IsFiniteSet(1..m) /\ Cardinality(1..m) = m
      BY FS_Interval
    <3> QED
      BY <1>1, <3>1
  <2>2. ExistsBijection(1..Len(ls), slots)
    BY <1>4 DEF ExistsBijection
  <2> HIDE DEF slots
  <2> QED
    BY <2>1, <2>2, FS_Bijection
<1> HIDE DEF slots
<1>6. Cardinality(slots) <= Cardinality(expected) /\ (Cardinality(slots) = Cardinality(expected) => slots = expected)
  BY <1>2, <1>3, FS_Subset
<1>7. Cardinality(slots) = Cardinality(expected)
  BY <1>1, <1>3, <1>5, <1>6
<1> QED
  BY <1>6, <1>7 DEF slots

(* A comparison without a difference and without a plate left over: what   *)
(* was presented is what was cut.                                          *)
LEMMA AllShown ==
  ASSUME SteelFits, NEW ls, LegsFit(ls), LegsAll(ls),
         shown \in [1..Cardinality(expected) -> Bench], IsInjective(shown)
  PROVE  /\ ToSet(shown) = steel
         /\ \A i \in DOMAIN ls : full => ls[i].share = ls[i].plate.fp[1]
<1> DEFINE n == Cardinality(expected)
<1>1. IsFiniteSet(steel) /\ Cardinality(steel) <= n /\ n \in Nat
  BY SteelIsBounded
<1>2. \A k \in DOMAIN ls : ClaimedMatches(ls[k], shown[Claims(ls)[k]])
  BY DEF LegsAll, LegsPartial
<1>3. \A i \in DOMAIN shown : \E k \in DOMAIN ls : i = Claims(ls)[k]
  BY DEF LegsAll, LegsUnclaimed
<1>4. \A k \in DOMAIN ls : ls[k] \in Leg
  BY DEF LegsFit
<1>5. ASSUME NEW i \in DOMAIN shown
      PROVE  shown[i] \in steel
  <2>1. PICK k \in DOMAIN ls : i = Claims(ls)[k]
    BY <1>3
  <2>2. ClaimedMatches(ls[k], shown[i])
    BY <1>2, <2>1
  <2>3. ls[k].plate \in steel
    BY <1>4 DEF Leg
  <2>4. IsPlate(shown[i]) /\ IsPlate(ls[k].plate)
    BY <2>3, BenchHoldsPlates DEF Bench
  <2>5. ls[k].plate.stub = md1
    BY <2>3 DEF SteelFits, PlateOf, Plate
  <2>6. shown[i] = ls[k].plate
    BY <2>2, <2>4, <2>5 DEF ClaimedMatches, IsPlate
  <2> QED
    BY <2>3, <2>6
<1>6. ToSet(shown) = steel
  <2> DEFINE T == ToSet(shown)
  <2>1. T \subseteq steel
    BY <1>5 DEF ToSet
  <2>2. shown \in Bijection(1..n, T)
    BY DEF ToSet, Bijection, Injection, Surjection, IsInjective
  <2>3. Cardinality(T) = n
    <3>1. ExistsBijection(1..n, T)
      BY <2>2 DEF ExistsBijection
    <3>2. IsFiniteSet(1..n) /\ Cardinality(1..n) = n
      BY <1>1, FS_Interval
    <3> HIDE DEF T, n
    <3> QED
      BY <3>1, <3>2, FS_Bijection
  <2> HIDE DEF T, n
  <2>4. Cardinality(T) <= Cardinality(steel) /\ Cardinality(steel) \in Nat
        /\ (Cardinality(steel) = Cardinality(T) => steel = T)
    BY <1>1, <2>1, FS_Subset, FS_CardinalityType
  <2> QED
    BY <1>1, <2>3, <2>4 DEF T
<1>7. \A i \in DOMAIN ls : full => ls[i].share = ls[i].plate.fp[1]
  BY <1>2 DEF ClaimedMatches
<1> QED
  BY <1>6, <1>7
-----------------------------------------------------------------------------
(* Nothing but the record of the last attempt leaves an attempt. *)
LEMMA ResultKeeps ==
  ASSUME ReadBackInv, pc \in Attempt \cup {"present"}, NEW r, Result(r), UNCHANGED given,
         \/ UNCHANGED <<rec, proof>> /\ (pc' = "document" => ~told')
         \/ Adverse /\ pc' = "offer"
  PROVE  ReadBackInv'
<1>1. SteelFits'
  BY DEF ReadBackInv, Verifying, Attempt, SteelFits, given, Proves, PlateOf, Plate
<1>2. pc' \in {"offer", "document"} /\ legs' = <<>> /\ entry' = NoEntry
  BY DEF Result
<1>3. LegsFit(legs)' /\ EntryFits' /\ ShownFits'
  BY <1>2 DEF EntryFits, ShownFits, NoEntry, Attempt, LegsFit
<1>4. RecFits' /\ rec'.pass = rec.pass /\ rec'.full = rec.full /\ rec'.supplied = rec.supplied /\ proof' = proof
  BY <1>2 DEF Adverse, ReadBackInv, RecFits, Verifying, Attempt
<1>5. VerifiedIsSteel'
  BY <1>4 DEF ReadBackInv, VerifiedIsSteel, Status, given
<1> QED
  BY <1>1, <1>2, <1>3, <1>4, <1>5 DEF ReadBackInv, Attempt
(* Every end of the seed loop. *)
LEMMA FinishKeeps ==
  ASSUME ReadBackInv, pc \in Attempt, NEW ls, LegsFit(ls), NEW corrected, UNCHANGED given, Finish(ls, corrected)
  PROVE  ReadBackInv'
<1>1. SteelFits /\ SteelFits' /\ ~told
  BY DEF ReadBackInv, Verifying, Attempt, SteelFits, given, Proves, PlateOf, Plate
<1>2. pc' \in {"offer", "document"} /\ legs' = <<>> /\ entry' = NoEntry
  BY DEF Finish, Result
<1>3. LegsFit(legs') /\ EntryFits' /\ ShownFits'
  <2>1. LegsFit(<<>>)
    BY DEF LegsFit
  <2> QED
    BY <1>2, <2>1 DEF EntryFits, ShownFits, NoEntry, Attempt
<1>4. LegsFit(legs)'
  BY <1>2 DEF LegsFit
<1>5. CASE \E r : Result(r) /\ (\/ UNCHANGED <<rec, proof>> /\ (pc' = "document" => ~told')
                                \/ Adverse /\ pc' = "offer")
  BY <1>5, ResultKeeps
<1>6. CASE Passed(ls) /\ LegsAll(ls) /\ Len(ls) >= Cardinality(expected)
  <2>1. shown \in [1..Cardinality(expected) -> Bench] /\ IsInjective(shown)
    BY DEF ReadBackInv, ShownFits
  <2>2. ToSet(shown) = steel /\ \A i \in DOMAIN ls : full => ls[i].share = ls[i].plate.fp[1]
    BY <1>1, <1>6, <2>1, AllShown
  <2>3. {ls[i].slot : i \in DOMAIN ls} = expected
    BY <1>1, <1>6, LegsCover
  <2>4. \A i \in DOMAIN ls : ls[i] \in Leg
    BY DEF LegsFit
  <2>5. proof' = [shown |-> ToSet(shown), legs |-> ToSet(ls)]
    BY <1>6 DEF Passed
  <2>6. Cardinality(DOMAIN policy \ expected) \in Nat
        /\ Cardinality(DOMAIN policy \ expected) = Cardinality(DOMAIN policy) - Cardinality(expected)
    <3>1. (DOMAIN policy) \cap expected = expected
      BY <1>1 DEF SteelFits
    <3> QED
      BY <1>1, <3>1, FS_Difference, FS_CardinalityType DEF SteelFits
  <2>7. RecFits' /\ rec'.full = full /\ rec'.supplied = Cardinality(DOMAIN policy \ expected)
    <3>1. Len(ls) \in Nat
      BY DEF LegsFit
    <3> QED
      BY <1>1, <1>2, <1>6, <2>3, <2>6, <3>1 DEF Passed, ReadBackInv, RecFits, Verifying, SteelFits
  <2>8. /\ proof'.shown = steel
        /\ {l.slot : l \in proof'.legs} = expected
        /\ \A l \in proof'.legs : l.plate.xpub = policy[l.slot].xpub /\ l.plate \in steel
                                  /\ (full => l.share = l.plate.fp[1])
    BY <2>2, <2>3, <2>4, <2>5 DEF ToSet, Leg
  <2>9. VerifiedIsSteel'
    <3>1. rec'.supplied >= Cardinality(DOMAIN policy) - Cardinality(expected)
      BY <2>6, <2>7
    <3>2. UNCHANGED <<policy, expected, full, steel>>
      BY DEF given
    <3> QED
      BY <2>7, <2>8, <3>1, <3>2 DEF VerifiedIsSteel
  <2>10. ~told'
    BY <1>1, <1>6 DEF Passed
  <2> QED
    BY <1>1, <1>2, <1>3, <1>4, <2>7, <2>9, <2>10 DEF ReadBackInv
<1>7. CASE \E r : Result(r) /\ Quiet
  BY <1>1, <1>5, <1>7 DEF Quiet
<1>8. CASE Result("incomplete") /\ UNCHANGED <<rec, proof>>
  <2>1. pc' = "offer"
    BY <1>8 DEF Result
  <2> QED
    BY <1>5, <1>8, <2>1
<1>9. CASE Result("failed") /\ Adverse
  <2>1. pc' = "offer"
    BY <1>9 DEF Result
  <2> QED
    BY <1>5, <1>9, <2>1
<1> QED
  BY <1>6, <1>7, <1>8, <1>9 DEF Finish

LEMMA GivenKeepsSteel ==
  ASSUME SteelFits, UNCHANGED given
  PROVE  SteelFits'
BY DEF SteelFits, given, Proves, PlateOf, Plate

(* The next leg, or the end of the loop. *)
LEMMA DeriveKeeps ==
  ASSUME ReadBackInv, pc \in Attempt, NEW seed \in Seeds, NEW share \in Words \cup {"none"},
         UNCHANGED given, Derive(seed, FreshSlots(AllUserSlots(seed, policy)), share)
  PROVE  ReadBackInv'
<1>1. SteelFits /\ SteelFits'
  BY GivenKeepsSteel DEF ReadBackInv, Attempt, Verifying
<1> PICK order \in Ascending(FreshSlots(AllUserSlots(seed, policy))) :
      LET ls == legs \o Rederived(seed, order, share)
      IN \/ Finish(ls, FALSE)
         \/ legs' = ls /\ entry' = NoEntry /\ pc' = "next" /\ UNCHANGED <<shown, rec, told, proof>>
  BY DEF Derive
<1> DEFINE ls == legs \o Rederived(seed, order, share)
<1>2. LegsFit(ls)
  BY <1>1, DerivedLegsFit DEF ReadBackInv
<1> HIDE DEF ls
<1>3. CASE Finish(ls, FALSE)
  BY <1>2, <1>3, FinishKeeps
<1>4. CASE legs' = ls /\ entry' = NoEntry /\ pc' = "next" /\ UNCHANGED <<shown, rec, told, proof>>
  <2>1. LegsFit(legs)'
    BY <1>2, <1>4 DEF LegsFit, Leg, given
  <2>2. EntryFits' /\ ShownFits' /\ RecFits' /\ VerifiedIsSteel' /\ ~told'
    BY <1>4 DEF ReadBackInv, EntryFits, ShownFits, RecFits, VerifiedIsSteel, Status, NoEntry, Attempt, Verifying,
                given, Bench
  <2> QED
    BY <1>1, <1>4, <2>1, <2>2 DEF ReadBackInv
<1> QED
  BY <1>3, <1>4 DEF ls

(* A screen that leads to another of the attempt. *)
LEMMA ScreenKeeps ==
  ASSUME ReadBackInv, pc \in Attempt \cup {"present", "offer"}, EntryFits', ShownFits',
         pc' \in Verifying, pc' # "offer" => ~told', UNCHANGED <<given, legs, rec, proof>>
  PROVE  ReadBackInv'
<1>1. SteelFits'
  BY GivenKeepsSteel DEF ReadBackInv, Attempt, Verifying
<1>2. LegsFit(legs)' /\ RecFits' /\ VerifiedIsSteel'
  BY DEF ReadBackInv, LegsFit, Leg, RecFits, VerifiedIsSteel, Status, given, Attempt, Verifying
<1> QED
  BY <1>1, <1>2 DEF ReadBackInv, Attempt

(* A correctable mistake. *)
Stopped ==
  \/ legs = <<>> /\ Result(NoLegs(TRUE)) /\ told' = TRUE /\ UNCHANGED <<rec, proof>>
  \/ legs # <<>> /\ Finish(legs, TRUE)

LEMMA StoppedKeeps ==
  ASSUME ReadBackInv, pc \in Attempt, UNCHANGED given, Stopped
  PROVE  ReadBackInv'
<1>1. CASE Result(NoLegs(TRUE)) /\ UNCHANGED <<rec, proof>>
  <2>1. pc' = "offer"
    BY <1>1 DEF Result, NoLegs
  <2> QED
    BY <1>1, <2>1, ResultKeeps
<1>2. CASE Finish(legs, TRUE)
  BY <1>2, FinishKeeps DEF ReadBackInv
<1> QED
  BY <1>1, <1>2 DEF Stopped

LEMMA VerifyStep ==
  ASSUME ReadBackInv, VerifyNext
  PROVE  ReadBackInv'
<1>1. CASE Offer
  <2>1. /\ pc = "offer" /\ pc' \in {"document", "present"} /\ ~told'
        /\ UNCHANGED <<given, shown, legs, entry, rec, proof>>
    <3>1. expected # {}
      BY <1>1 DEF Offer, ReadBackInv, Verifying, SteelFits
    <3> QED
      BY <1>1, <3>1 DEF Offer
  <2>2. EntryFits' /\ ShownFits'
    BY <2>1 DEF ReadBackInv, EntryFits, ShownFits, Attempt
  <2> QED
    BY <2>1, <2>2, ScreenKeeps DEF Verifying
<1>2. CASE Present
  <2>1. CASE \E r \in {"abandoned", "incomplete", "failed"} :
               Result(r) /\ UNCHANGED given /\ (Quiet \/ (r # "abandoned" /\ Adverse))
    <3>1. PICK r \in {"abandoned", "incomplete", "failed"} :
               Result(r) /\ UNCHANGED given /\ (Quiet \/ (r # "abandoned" /\ Adverse))
      BY <2>1
    <3>2. CASE Quiet
      BY <1>2, <3>1, <3>2, ResultKeeps DEF Present, Quiet, ReadBackInv
    <3>3. CASE r # "abandoned" /\ Adverse
      <4>1. pc' = "offer"
        BY <3>1, <3>3 DEF Result
      <4> QED
        BY <1>2, <3>1, <3>3, <4>1, ResultKeeps DEF Present
    <3> QED
      BY <3>1, <3>2, <3>3
  <2>2. CASE /\ shown' \in [1..Cardinality(expected) -> Bench] /\ IsInjective(shown')
             /\ pc' = "words" /\ UNCHANGED <<given, legs, entry, rec, told, proof>>
    <3>1. ShownFits' /\ EntryFits'
      BY <2>2 DEF ReadBackInv, ShownFits, EntryFits, Bench, given
    <3> QED
      BY <1>2, <2>2, <3>1, ScreenKeeps DEF Present, ReadBackInv, Verifying
  <2> QED
    BY <1>2, <2>1, <2>2 DEF Present
<1>3. CASE TypeWords
  <2>1. CASE Finish(legs, FALSE)
    BY <1>3, <2>1, FinishKeeps DEF TypeWords, ReadBackInv, Attempt
  <2>2. CASE pc' = "phrase" /\ \E w \in Words : entry' = [entry EXCEPT !.words = w] /\ UNCHANGED <<shown, legs, rec, told, proof>>
    <3>1. ShownFits' /\ EntryFits'
      BY <1>3, <2>2 DEF TypeWords, ReadBackInv, ShownFits, EntryFits, Bench, given, Attempt
    <3> QED
      BY <1>3, <2>2, <3>1, ScreenKeeps DEF TypeWords, ReadBackInv, Verifying, Attempt
  <2> QED
    BY <1>3, <2>1, <2>2 DEF TypeWords
<1>4. CASE TypePhrase
  <2>1. UNCHANGED given /\ pc = "phrase" /\ entry.words \in Words
    BY <1>4 DEF TypePhrase, ReadBackInv, EntryFits
  <2>2. CASE pc' = "words" /\ UNCHANGED verifying
    <3>1. ShownFits' /\ EntryFits'
      BY <2>1, <2>2 DEF verifying, ReadBackInv, ShownFits, EntryFits, Bench, given, Attempt
    <3> QED
      BY <2>1, <2>2, <3>1, ScreenKeeps DEF verifying, ReadBackInv, Verifying, Attempt
  <2>3. CASE Stopped
    BY <2>1, <2>3, StoppedKeeps DEF Attempt
  <2>4. ASSUME NEW p \in Phrases \cup {NoPhrase}, entry' = [entry EXCEPT !.phrase = p], pc' = "share",
               UNCHANGED <<shown, legs, rec, told, proof>>
        PROVE  ReadBackInv'
    <3>1. ShownFits' /\ EntryFits'
      BY <2>1, <2>4 DEF ReadBackInv, ShownFits, EntryFits, Bench, given, Attempt
    <3> QED
      BY <2>1, <2>4, <3>1, ScreenKeeps DEF ReadBackInv, Verifying, Attempt
  <2>5. ASSUME NEW p \in Phrases \cup {NoPhrase},
               Derive(<<entry.words, p>>, FreshSlots(AllUserSlots(<<entry.words, p>>, policy)), "none")
        PROVE  ReadBackInv'
    <3>1. <<entry.words, p>> \in Seeds
      BY <2>1 DEF Seeds
    <3> QED
      BY <2>1, <2>5, <3>1, DeriveKeeps DEF Attempt
  <2>6. \/ pc' = "words" /\ UNCHANGED verifying
        \/ Stopped
        \/ \E p \in Phrases \cup {NoPhrase} :
             \/ entry' = [entry EXCEPT !.phrase = p] /\ pc' = "share" /\ UNCHANGED <<shown, legs, rec, told, proof>>
             \/ Derive(<<entry.words, p>>, FreshSlots(AllUserSlots(<<entry.words, p>>, policy)), "none")
    BY <1>4 DEF TypePhrase, Stopped
  <2> QED
    BY <2>2, <2>3, <2>4, <2>5, <2>6
<1>5. CASE TypeShare
  <2> DEFINE seed == <<entry.words, entry.phrase>>
  <2>1. UNCHANGED given /\ pc = "share" /\ seed \in Seeds
    BY <1>5 DEF TypeShare, ReadBackInv, EntryFits, Seeds
  <2>2. CASE pc' = "phrase" /\ UNCHANGED verifying
    <3>1. ShownFits' /\ EntryFits'
      BY <2>1, <2>2 DEF verifying, ReadBackInv, ShownFits, EntryFits, Bench, given, Attempt
    <3> QED
      BY <2>1, <2>2, <3>1, ScreenKeeps DEF verifying, ReadBackInv, Verifying, Attempt
  <2>3. CASE Stopped
    BY <2>1, <2>3, StoppedKeeps DEF Attempt
  <2>4. ASSUME NEW w \in Words, Derive(seed, FreshSlots(AllUserSlots(seed, policy)), w)
        PROVE  ReadBackInv'
    BY <2>1, <2>4, DeriveKeeps DEF Attempt
  <2>5. \/ pc' = "phrase" /\ UNCHANGED verifying
        \/ Stopped
        \/ \E w \in Words : Derive(seed, FreshSlots(AllUserSlots(seed, policy)), w)
    BY <1>5 DEF TypeShare, Stopped
  <2> QED
    BY <2>2, <2>3, <2>4, <2>5
<1>6. CASE NextSeed
  <2>1. CASE Finish(legs, FALSE)
    BY <1>6, <2>1, FinishKeeps DEF NextSeed, ReadBackInv, Attempt
  <2>2. CASE pc' = "words" /\ entry' = NoEntry /\ UNCHANGED <<shown, legs, rec, told, proof>>
    <3>1. ShownFits' /\ EntryFits'
      BY <1>6, <2>2 DEF NextSeed, ReadBackInv, ShownFits, EntryFits, NoEntry, Bench, given, Attempt
    <3> QED
      BY <1>6, <2>2, <3>1, ScreenKeeps DEF NextSeed, ReadBackInv, Verifying, Attempt
  <2> QED
    BY <1>6, <2>1, <2>2 DEF NextSeed
<1> QED
  BY <1>1, <1>2, <1>3, <1>4, <1>5, <1>6 DEF VerifyNext
-----------------------------------------------------------------------------
(* Building a policy. *)
Choosing == {"front", "params", "source", "supply"}
Holding == {"seed", "passphrase", "gate", "form", "mode"}

ParamsFit ==
  /\ params \in [n : Nat, self : SUBSET Nat, fromCard : BOOLEAN, fps : BOOLEAN]
  /\ params.self \subseteq 1..params.n
  /\ pc \in Holding \cup {"source"} => params.self # {}
(* Each number names a registered seed; while the passphrase of the last   *)
(* one is asked for, none names that one yet.                              *)
RegFits ==
  /\ reg \in Seq(Seeds) /\ ids \in Seq(Nat)
  /\ \A i \in DOMAIN ids : ids[i] \in 1..Len(reg) /\ (pc = "passphrase" => ids[i] < Len(reg))
  /\ pc \in Choosing => reg = <<>> /\ ids = <<>>
  /\ pc = "passphrase" => Len(reg) > 0
AskedInOrder ==
  /\ pc \in {"seed", "passphrase"} => Len(ids) < Cardinality(params.self)
  /\ pc \in {"gate", "form", "mode"} => Len(ids) = Cardinality(params.self)
AnsweredFits ==
  pc \in Holding \cup Verifying \cup {"end"} /\ reg # <<>> =>
    \A s \in params.self : Rank(s) <= Len(ids) => s \in DOMAIN answered /\ answered[s] = SeedOf(s)
PolicyFits ==
  pc \in {"form", "mode"} => policy = Assembled /\ ~GateRefuses /\ ~AssemblyRefuses
(* Nothing is cut before the mode is chosen, nor read back before that.    *)
NotYet ==
  /\ pc \in Choosing \cup Holding => steel = {} /\ legs = <<>>
  /\ pc = "end" => legs = <<>>
  /\ pc \in Choosing \cup Holding \cup Verifying \cup {"end"}
SteelStays ==
  pc \in Verifying \cup {"end"} /\ reg # <<>> /\ steel # {} =>
    /\ Cardinality(steel) = Cardinality(expected)
    /\ \A s \in expected : Plate(answered[s], policy[s].path, md1) \in steel
                           /\ policy[s].xpub = Derived(answered[s], policy[s].path)
    /\ \A s, t \in DOMAIN policy : s # t => policy[s].xpub # policy[t].xpub

BuildInv ==
  /\ ParamsFit /\ RegFits /\ AskedInOrder /\ AnsweredFits /\ PolicyFits /\ NotYet /\ SteelStays

MultisigInv == ReadBackInv /\ BuildInv

(* Held slots are numbered from one, each with a number of its own. *)
LEMMA RankIsNumbering ==
  ASSUME ParamsFit
  PROVE  /\ IsFiniteSet(params.self) /\ Cardinality(params.self) \in Nat
         /\ \A s \in params.self : Rank(s) \in 1..Cardinality(params.self)
         /\ \A s, t \in params.self : Rank(s) = Rank(t) => s = t
         /\ \A k \in 1..Cardinality(params.self) : \E s \in params.self : Rank(s) = k
<1> DEFINE S == params.self
           Upto(s) == {t \in S : t <= s}
<1>1. S \subseteq Nat /\ IsFiniteSet(S) /\ Cardinality(S) \in Nat
  <2>1. IsFiniteSet(1..params.n)
    BY FS_Interval DEF ParamsFit
  <2> QED
    BY <2>1, FS_Subset, FS_CardinalityType DEF ParamsFit
<1>2. \A s \in S : Rank(s) = Cardinality(Upto(s)) /\ Upto(s) \subseteq S /\ s \in Upto(s)
  BY <1>1 DEF Rank
<1>3. \A s \in S : IsFiniteSet(Upto(s)) /\ Rank(s) \in Nat /\ Rank(s) <= Cardinality(S)
  <2> HIDE DEF Upto, S
  <2> QED
    BY <1>1, <1>2, FS_Subset, FS_CardinalityType
<1>4. \A s \in S : Rank(s) # 0
  BY <1>2, <1>3, FS_EmptySet
<1>5. ASSUME NEW s \in S, NEW t \in S, s < t
      PROVE  Rank(s) # Rank(t)
  <2>1. Upto(s) \subseteq Upto(t) /\ t \in Upto(t) /\ t \notin Upto(s)
    BY <1>1, <1>5
  <2> HIDE DEF Upto
  <2> QED
    BY <1>2, <1>3, <2>1, FS_Subset
<1>6. \A s, t \in S : Rank(s) = Rank(t) => s = t
  BY <1>1, <1>5
<1>7. \A s \in S : Rank(s) \in 1..Cardinality(S)
  <2>1. \A c, k \in Nat : k <= c /\ k # 0 => k \in 1..c
    OBVIOUS
  <2> QED
    BY <1>1, <1>3, <1>4, <2>1
<1>8. \A k \in 1..Cardinality(S) : \E s \in S : Rank(s) = k
  <2> DEFINE f == [s \in S |-> Rank(s)]
             T == 1..Cardinality(S)
  <2>1. f \in Injection(S, T)
    BY <1>6, <1>7 DEF Injection, IsInjective
  <2>2. IsFiniteSet(T) /\ Cardinality(T) = Cardinality(S)
    <3>1. \A n \in Nat : IsFiniteSet(1..n) /\ Cardinality(1..n) = n
      BY FS_Interval
    <3> QED
      BY <1>1, <3>1
  <2>3. f \in Surjection(S, T)
    <3> HIDE DEF f, T
    <3> QED
      BY <2>1, <2>2, FS_Injection
  <2> QED
    BY <2>3 DEF Surjection
<1> QED
  BY <1>1, <1>6, <1>7, <1>8

LEMMA BuildInit == Init => MultisigInv
<1> SUFFICES ASSUME Init PROVE MultisigInv
  OBVIOUS
<1>1. ReadBackInv
  BY DEF Init, InitVerify, ReadBackInv, LegsFit, EntryFits, ShownFits, RecFits, VerifiedIsSteel, Status,
         Verifying, Attempt, NoEntry
<1>2. BuildInv
  BY DEF Init, InitVerify, InitBuild, BuildInv, ParamsFit, RegFits, AskedInOrder, AnsweredFits, PolicyFits,
         NotYet, SteelStays, NoParams, Choosing, Holding, Verifying
<1> QED
  BY <1>1, <1>2 DEF MultisigInv
(* Before the mode is chosen there is nothing to read back. *)
LEMMA BuildKeepsReadBack ==
  ASSUME MultisigInv, pc \in Choosing \cup Holding, pc' \notin Verifying, UNCHANGED verifying
  PROVE  ReadBackInv'
<1>1. pc' \notin Attempt \cup {"present", "document", "phrase", "share"} /\ pc \notin Verifying
  BY DEF Choosing, Holding, Verifying, Attempt
<1>2. legs' = <<>> /\ rec' = rec /\ entry' = entry /\ ~rec.pass
  BY <1>1 DEF verifying, MultisigInv, BuildInv, NotYet, ReadBackInv, RecFits
<1> QED
  BY <1>1, <1>2 DEF ReadBackInv, MultisigInv, LegsFit, EntryFits, ShownFits, RecFits, VerifiedIsSteel, Status

LEMMA ChoosingKeeps ==
  ASSUME MultisigInv, ChooseFlow \/ Params \/ Source
  PROVE  MultisigInv'
<1>1. pc \in Choosing /\ pc' \in {"params", "supply", "source", "seed", "end"} /\ UNCHANGED <<given, verifying>>
      /\ UNCHANGED <<reg, ids, answered, template>>
  BY DEF ChooseFlow, Params, Source, Go, Exit, building, Choosing
<1>2. ReadBackInv'
  BY <1>1, BuildKeepsReadBack DEF Verifying
<1>3. ParamsFit'
  <2>1. CASE ChooseFlow
    BY <2>1 DEF ChooseFlow, building, MultisigInv, BuildInv, ParamsFit, Holding
  <2>2. CASE Params
    <3>1. CASE Exit /\ UNCHANGED params
      BY <3>1 DEF Exit, MultisigInv, BuildInv, ParamsFit, Holding
    <3>2. ASSUME NEW n \in 2..MaxSlots, NEW fps \in BOOLEAN, NEW self \in (SUBSET (1..n)) \ {{}},
                 params' = [n |-> n, self |-> self, fromCard |-> FALSE, fps |-> fps]
          PROVE  ParamsFit'
      <4>1. self # {} /\ self \subseteq 1..n /\ n \in Nat /\ self \in SUBSET Nat
        BY BuildAssumption
      <4> QED
        BY <3>2, <4>1 DEF ParamsFit
    <3> QED
      BY <2>2, <3>1, <3>2 DEF Params
  <2>3. CASE Source
    <3>1. PICK fromCard \in BOOLEAN : params' = [params EXCEPT !.fromCard = fromCard]
      BY <2>3 DEF Source
    <3>2. params \in [n : Nat, self : SUBSET Nat, fromCard : BOOLEAN, fps : BOOLEAN]
          /\ params.self \subseteq 1..params.n /\ params.self # {}
      BY <2>3 DEF Source, MultisigInv, BuildInv, ParamsFit
    <3>3. params' \in [n : Nat, self : SUBSET Nat, fromCard : BOOLEAN, fps : BOOLEAN]
          /\ params'.self = params.self /\ params'.n = params.n
      BY <3>1, <3>2
    <3> QED
      BY <3>2, <3>3 DEF ParamsFit
  <2> QED
    BY <2>1, <2>2, <2>3
<1>4. reg = <<>> /\ ids = <<>> /\ steel = {} /\ legs = <<>>
  BY <1>1 DEF MultisigInv, BuildInv, RegFits, NotYet
<1>5. AskedInOrder'
  <2>1. ParamsFit' => IsFiniteSet(params'.self) /\ Cardinality(params'.self) \in Nat
    <3> SUFFICES ASSUME ParamsFit'
                 PROVE  IsFiniteSet(params'.self) /\ Cardinality(params'.self) \in Nat
      OBVIOUS
    <3>1. IsFiniteSet(1..params'.n)
      BY FS_Interval DEF ParamsFit
    <3>2. IsFiniteSet(params'.self)
      BY <3>1, FS_Subset DEF ParamsFit
    <3> QED
      BY <3>2, FS_CardinalityType
  <2>2. pc' = "seed" => params'.self # {}
    BY <1>3 DEF ParamsFit, Holding
  <2>3. pc' = "seed" => Cardinality(params'.self) > 0
    BY <1>3, <2>1, <2>2, FS_EmptySet
  <2> QED
    BY <1>1, <1>4, <2>3 DEF AskedInOrder
<1>6. RegFits'
  BY <1>1, <1>4 DEF RegFits
<1>7. AnsweredFits' /\ PolicyFits' /\ NotYet' /\ SteelStays'
  BY <1>1, <1>4 DEF AnsweredFits, PolicyFits, NotYet, SteelStays, given, verifying, Choosing, Holding
<1> QED
  BY <1>2, <1>3, <1>5, <1>6, <1>7 DEF MultisigInv, BuildInv

LEMMA AllButLast ==
  ASSUME NEW S, NEW q \in Seq(S), Len(q) > 0
  PROVE  /\ SubSeq(q, 1, Len(q) - 1) \in Seq(S) /\ Len(SubSeq(q, 1, Len(q) - 1)) = Len(q) - 1
         /\ \A k \in 1..(Len(q) - 1) : SubSeq(q, 1, Len(q) - 1)[k] = q[k]
<1> DEFINE n == Len(q) - 1
<1>1. n \in Nat /\ \A k \in 1..n : q[k] \in S
  OBVIOUS
<1>2. /\ SubSeq(q, 1, n) \in Seq(S) /\ Len(SubSeq(q, 1, n)) = IF 1 <= n THEN n - 1 + 1 ELSE 0
      /\ \A k \in 1..(n - 1 + 1) : SubSeq(q, 1, n)[k] = q[1 + k - 1]
  <2> HIDE DEF n
  <2> QED
    BY <1>1, SubSeqProperties
<1> HIDE DEF n
<1>3. (IF 1 <= n THEN n - 1 + 1 ELSE 0) = n /\ n - 1 + 1 = n /\ \A k \in 1..n : 1 + k - 1 = k
  BY <1>1
<1>4. /\ SubSeq(q, 1, n) \in Seq(S) /\ Len(SubSeq(q, 1, n)) = n
      /\ \A k \in 1..n : SubSeq(q, 1, n)[k] = q[k]
  <2> SUFFICES ASSUME NEW k \in 1..n
               PROVE  SubSeq(q, 1, n)[k] = q[k]
    BY <1>2, <1>3
  <2>1. k \in 1..(n - 1 + 1) /\ 1 + k - 1 = k
    BY <1>3
  <2> QED
    BY <1>2, <2>1
<1> QED
  BY <1>4 DEF n

(* Back keeps the numbers that are left. *)
LEMMA DeclinedKeeps ==
  ASSUME MultisigInv, pc \in {"seed", "passphrase"}, Declined, UNCHANGED <<given, verifying, params, cards, answered, template>>,
         \/ pc = "seed" /\ reg' = reg
         \/ pc = "passphrase" /\ reg' = SubSeq(reg, 1, Len(reg) - 1)
  PROVE  MultisigInv'
<1>1. pc' \in {"seed", "end"} /\ ReadBackInv' /\ ParamsFit' /\ PolicyFits' /\ NotYet' /\ SteelStays'
  BY BuildKeepsReadBack DEF Declined, Exit, Go, given, verifying, MultisigInv, BuildInv, ParamsFit, PolicyFits, NotYet, SteelStays,
       Choosing, Holding, Verifying
<1>2. /\ reg \in Seq(Seeds) /\ ids \in Seq(Nat) /\ reg' \in Seq(Seeds) /\ Len(reg') <= Len(reg)
      /\ \A k \in 1..Len(reg') : reg'[k] = reg[k]
      /\ \A i \in DOMAIN ids : ids[i] \in 1..Len(reg')
  <2>1. /\ reg \in Seq(Seeds) /\ ids \in Seq(Nat)
        /\ \A i \in DOMAIN ids : ids[i] \in 1..Len(reg) /\ (pc = "passphrase" => ids[i] < Len(reg))
        /\ pc = "passphrase" => Len(reg) > 0
    BY DEF MultisigInv, BuildInv, RegFits
  <2>2. CASE pc = "seed" /\ reg' = reg
    BY <2>1, <2>2
  <2>3. CASE pc = "passphrase" /\ reg' = SubSeq(reg, 1, Len(reg) - 1)
    <3>1. /\ reg' \in Seq(Seeds) /\ Len(reg') = Len(reg) - 1 /\ Len(reg) \in Nat
          /\ \A k \in 1..Len(reg') : reg'[k] = reg[k]
      BY <2>1, <2>3, AllButLast
    <3>2. \A i \in DOMAIN ids : ids[i] \in 1..(Len(reg) - 1)
      BY <2>1, <2>3, <3>1
    <3> QED
      BY <2>1, <3>1, <3>2
  <2> QED
    BY <2>2, <2>3
<1>3. /\ ids' \in Seq(Nat) /\ Len(ids') <= Len(ids) /\ (pc' = "seed" => Len(ids') < Len(ids))
      /\ \A i \in DOMAIN ids' : ids'[i] = ids[i] /\ i \in DOMAIN ids
  <2>1. CASE ids' = ids /\ pc' = "end"
    BY <1>2, <2>1
  <2>2. CASE ids # <<>> /\ ids' = SubSeq(ids, 1, Len(ids) - 1)
    <3>1. Len(ids) \in Nat \ {0}
      BY <1>2, <2>2
    <3> QED
      BY <1>2, <2>2, <3>1
  <2> QED
    BY <2>1, <2>2 DEF Declined, StepBack, Exit, Go
<1>4. RegFits'
  BY <1>1, <1>2, <1>3 DEF RegFits, Choosing
<1>5. AskedInOrder'
  <2>1. Cardinality(params.self) \in Nat /\ Len(ids) < Cardinality(params.self) /\ params' = params
    BY RankIsNumbering DEF MultisigInv, BuildInv, AskedInOrder
  <2> QED
    BY <1>1, <1>2, <1>3, <2>1 DEF AskedInOrder
<1>6. AnsweredFits'
  <2> SUFFICES ASSUME NEW s \in params'.self, Rank(s)' <= Len(ids'), reg' # <<>>
               PROVE  s \in DOMAIN answered' /\ answered'[s] = SeedOf(s)'
    BY DEF AnsweredFits
  <2>1. s \in params.self /\ Rank(s)' = Rank(s) /\ Rank(s) \in Nat \ {0}
    <3>1. params' = params /\ s \in params.self
      OBVIOUS
    <3>2. Rank(s) \in 1..Cardinality(params.self) /\ Cardinality(params.self) \in Nat
      BY <3>1, RankIsNumbering DEF MultisigInv, BuildInv
    <3> QED
      BY <3>1, <3>2 DEF Rank
  <2>2. Rank(s) \in DOMAIN ids' /\ Rank(s) <= Len(ids) /\ reg # <<>>
    BY <1>2, <1>3, <2>1
  <2>3. s \in DOMAIN answered /\ answered[s] = SeedOf(s)
    BY <2>1, <2>2 DEF MultisigInv, BuildInv, AnsweredFits, Holding
  <2>4. SeedOf(s)' = SeedOf(s)
    BY <1>2, <1>3, <2>1, <2>2 DEF SeedOf
  <2> QED
    BY <2>3, <2>4
<1> QED
  BY <1>1, <1>4, <1>5, <1>6 DEF MultisigInv, BuildInv
LEMMA EnterSeedKeeps ==
  ASSUME MultisigInv, EnterSeed
  PROVE  MultisigInv'
<1>1. CASE Declined /\ UNCHANGED reg
  BY <1>1, DeclinedKeeps DEF EnterSeed
<1>2. ASSUME NEW w \in Words, reg' = Append(reg, <<w, NoPhrase>>), pc' = "passphrase", UNCHANGED ids
      PROVE  MultisigInv'
  <2>1. UNCHANGED <<given, verifying, params, cards, ids, answered, template>> /\ pc = "seed"
    BY <1>2 DEF EnterSeed
  <2>2. ReadBackInv' /\ ParamsFit' /\ PolicyFits' /\ NotYet' /\ SteelStays' /\ AskedInOrder'
    BY <1>2, <2>1, BuildKeepsReadBack DEF given, verifying, MultisigInv, BuildInv, ParamsFit, PolicyFits, NotYet, SteelStays,
       AskedInOrder, Choosing, Holding, Verifying
  <2>3. /\ reg \in Seq(Seeds) /\ ids \in Seq(Nat) /\ \A i \in DOMAIN ids : ids[i] \in 1..Len(reg)
    BY DEF MultisigInv, BuildInv, RegFits
  <2>4. <<w, NoPhrase>> \in Seeds
    BY DEF Seeds
  <2>5. reg' \in Seq(Seeds) /\ Len(reg') = Len(reg) + 1 /\ \A k \in 1..Len(reg) : reg'[k] = reg[k]
    BY <1>2, <2>3, <2>4
  <2>6. RegFits'
    BY <1>2, <2>1, <2>3, <2>5 DEF RegFits, Choosing
  <2>7. AnsweredFits'
    <3> SUFFICES ASSUME NEW s \in params'.self, Rank(s)' <= Len(ids')
                 PROVE  s \in DOMAIN answered' /\ answered'[s] = SeedOf(s)'
      BY DEF AnsweredFits
    <3>1. s \in params.self /\ Rank(s)' = Rank(s) /\ params' = params /\ ids' = ids
      BY <2>1 DEF Rank
    <3>2. Rank(s) \in 1..Cardinality(params.self) /\ Cardinality(params.self) \in Nat
      BY <3>1, RankIsNumbering DEF MultisigInv, BuildInv
    <3>3. Rank(s) \in DOMAIN ids
      BY <2>3, <3>1, <3>2
    <3>4. reg # <<>> /\ SeedOf(s)' = SeedOf(s)
      BY <2>3, <2>5, <3>1, <3>3 DEF SeedOf
    <3>5. s \in DOMAIN answered /\ answered[s] = SeedOf(s)
      BY <2>1, <3>1, <3>4 DEF MultisigInv, BuildInv, AnsweredFits, Holding
    <3> QED
      BY <2>1, <3>4, <3>5
  <2> QED
    BY <2>2, <2>6, <2>7 DEF MultisigInv, BuildInv
<1> QED
  BY <1>1, <1>2 DEF EnterSeed, Go

LEMMA PassphraseKeeps ==
  ASSUME MultisigInv, SeedPassphrase
  PROVE  MultisigInv'
<1>1. CASE Declined /\ reg' = SubSeq(reg, 1, Len(reg) - 1) /\ UNCHANGED answered
  BY <1>1, DeclinedKeeps DEF SeedPassphrase
<1>2. ASSUME NEW p \in Phrases \cup {NoPhrase},
             reg' = [reg EXCEPT ![Len(reg)][2] = p], ids' = Append(ids, Len(reg)),
             answered' = [s \in params.self |-> IF s = Asked THEN reg'[Len(reg)]
                          ELSE IF s \in DOMAIN answered THEN answered[s] ELSE reg'[Len(reg)]],
             pc' = IF Len(ids') = Cardinality(params.self) THEN "gate" ELSE "seed"
      PROVE  MultisigInv'
  <2> DEFINE c == Cardinality(params.self)
  <2>1. UNCHANGED <<given, verifying, params, cards, template>> /\ pc = "passphrase" /\ pc' \in {"gate", "seed"}
    BY <1>2 DEF SeedPassphrase
  <2>2. ReadBackInv' /\ ParamsFit' /\ PolicyFits' /\ NotYet' /\ SteelStays'
    BY <2>1, BuildKeepsReadBack DEF given, verifying, MultisigInv, BuildInv, ParamsFit, PolicyFits, NotYet, SteelStays,
       Choosing, Holding, Verifying
  <2>3. /\ reg \in Seq(Seeds) /\ ids \in Seq(Nat) /\ Len(reg) \in Nat \ {0} /\ Len(ids) \in Nat
        /\ \A i \in DOMAIN ids : ids[i] \in 1..(Len(reg) - 1)
    BY <2>1 DEF MultisigInv, BuildInv, RegFits
  <2>4. /\ reg' \in Seq(Seeds) /\ Len(reg') = Len(reg) /\ \A k \in 1..(Len(reg) - 1) : reg'[k] = reg[k]
    <3>1. reg[Len(reg)] \in Seeds
      BY <2>3
    <3>2. [reg[Len(reg)] EXCEPT ![2] = p] \in Seeds
      BY <3>1 DEF Seeds
    <3>3. reg' = [reg EXCEPT ![Len(reg)] = [reg[Len(reg)] EXCEPT ![2] = p]]
      BY <1>2
    <3> QED
      BY <2>3, <3>2, <3>3
  <2>5. /\ ids' \in Seq(Nat) /\ Len(ids') = Len(ids) + 1 /\ ids'[Len(ids) + 1] = Len(reg)
        /\ \A i \in DOMAIN ids : ids'[i] = ids[i]
    BY <1>2, <2>3
  <2>6. RegFits'
    <3>1. \A i \in DOMAIN ids' : ids'[i] \in 1..Len(reg')
      BY <2>3, <2>4, <2>5
    <3> QED
      BY <2>1, <2>4, <2>5, <3>1 DEF RegFits, Choosing
  <2>7. c \in Nat /\ Len(ids) < c
    BY <2>1, RankIsNumbering DEF MultisigInv, BuildInv, AskedInOrder
  <2>8. AskedInOrder'
    BY <1>2, <2>1, <2>3, <2>5, <2>7 DEF AskedInOrder
  <2>9. Asked \in params.self /\ Rank(Asked) = Len(ids) + 1
    <3>1. Len(ids) + 1 \in 1..c
      BY <2>3, <2>7
    <3>2. \E s \in params.self : Rank(s) = Len(ids) + 1
      BY <3>1, RankIsNumbering DEF MultisigInv, BuildInv
    <3> QED
      BY <3>2 DEF Asked
  <2>10. AnsweredFits'
    <3> SUFFICES ASSUME NEW s \in params'.self, Rank(s)' <= Len(ids')
                 PROVE  s \in DOMAIN answered' /\ answered'[s] = SeedOf(s)'
      BY DEF AnsweredFits
    <3>1. s \in params.self /\ Rank(s)' = Rank(s) /\ params' = params
      BY <2>1 DEF Rank
    <3>2. Rank(s) \in 1..c /\ c \in Nat /\ (Rank(s) = Len(ids) + 1 => s = Asked)
      BY <3>1, <2>9, RankIsNumbering DEF MultisigInv, BuildInv
    <3>3. SeedOf(s)' = reg'[ids'[Rank(s)]]
      BY <3>1 DEF SeedOf
    <3>4. CASE s = Asked
      <4>1. answered'[s] = reg'[Len(reg)] /\ s \in DOMAIN answered'
        BY <1>2, <3>1, <3>4
      <4> QED
        BY <2>5, <2>9, <3>3, <3>4, <4>1
    <3>5. CASE s # Asked
      <4>1. Rank(s) \in DOMAIN ids /\ Rank(s) <= Len(ids)
        BY <2>3, <2>5, <3>1, <3>2, <3>5
      <4>2. ids'[Rank(s)] = ids[Rank(s)] /\ ids[Rank(s)] \in 1..(Len(reg) - 1)
        BY <2>3, <2>5, <4>1
      <4>3. SeedOf(s)' = SeedOf(s)
        BY <2>4, <3>3, <4>2 DEF SeedOf
      <4>4. reg # <<>>
        BY <2>3
      <4>5. s \in DOMAIN answered /\ answered[s] = SeedOf(s)
        BY <2>1, <3>1, <4>1, <4>4 DEF MultisigInv, BuildInv, AnsweredFits, Holding
      <4>6. s \in DOMAIN answered' /\ answered'[s] = answered[s]
        BY <1>2, <3>1, <3>5, <4>5
      <4> QED
        BY <4>3, <4>5, <4>6
    <3> QED
      BY <3>4, <3>5
  <2> QED
    BY <2>2, <2>6, <2>8, <2>10 DEF MultisigInv, BuildInv
<1> QED
  BY <1>1, <1>2 DEF SeedPassphrase, Go

(* The registered seeds, their numbers and the answers outlast what follows. *)
LEMMA RestKeepsSeeds ==
  ASSUME MultisigInv, pc \in {"gate", "form", "mode"}, UNCHANGED <<params, reg, ids, answered>>,
         pc' \in {"form", "mode", "offer", "end"}
  PROVE  ParamsFit' /\ RegFits' /\ AskedInOrder' /\ AnsweredFits'
<1>1. ParamsFit' /\ RegFits' /\ AskedInOrder'
  BY DEF MultisigInv, BuildInv, ParamsFit, RegFits, AskedInOrder, Choosing, Holding
<1>2. AnsweredFits'
  BY DEF MultisigInv, BuildInv, AnsweredFits, Holding, SeedOf, Rank
<1> QED
  BY <1>1, <1>2

LEMMA GateFormKeep ==
  ASSUME MultisigInv, Gate \/ Form
  PROVE  MultisigInv'
<1>1. /\ pc \in {"gate", "form"} /\ pc' \in {"form", "mode", "end"}
      /\ UNCHANGED <<params, reg, ids, answered, cards, expected, full, steel, verifying>>
  BY DEF Gate, Form, Go, Exit, building
<1>2. ReadBackInv'
  BY <1>1, BuildKeepsReadBack DEF Choosing, Holding, Verifying
<1>3. PolicyFits'
  <2>1. Assembled' = Assembled /\ GateRefuses' = GateRefuses /\ AssemblyRefuses' = AssemblyRefuses
    BY <1>1 DEF Assembled, SlotKey, TakesCard, CardOf, SeedOf, Rank, AccountOfSlot, GateRefuses, AssemblyRefuses
  <2> QED
    BY <1>1, <2>1 DEF Gate, Form, Go, Exit, MultisigInv, BuildInv, PolicyFits
<1>4. NotYet' /\ SteelStays'
  BY <1>1 DEF verifying, MultisigInv, BuildInv, NotYet, SteelStays, Choosing, Holding, Verifying
<1> QED
  BY <1>1, <1>2, <1>3, <1>4, RestKeepsSeeds DEF MultisigInv, BuildInv
(* Each held slot's seed derives the key the policy lists there. *)
LEMMA HeldSlotFits ==
  ASSUME MultisigInv, pc = "mode", NEW s \in params.self
  PROVE  /\ SeedOf(s) \in Seeds /\ s \in DOMAIN policy /\ s \in DOMAIN answered /\ answered[s] = SeedOf(s)
         /\ HeldOrigin(s) = policy[s].path /\ policy[s].xpub = Derived(SeedOf(s), policy[s].path)
<1>1. Rank(s) \in 1..Cardinality(params.self) /\ Len(ids) = Cardinality(params.self)
      /\ Cardinality(params.self) \in Nat
  BY RankIsNumbering DEF MultisigInv, BuildInv, AskedInOrder
<1>2. reg \in Seq(Seeds) /\ ids \in Seq(Nat) /\ \A i \in DOMAIN ids : ids[i] \in 1..Len(reg)
  BY DEF MultisigInv, BuildInv, RegFits
<1>3. Rank(s) \in DOMAIN ids /\ Rank(s) <= Len(ids)
  BY <1>1, <1>2
<1>4. SeedOf(s) \in Seeds /\ reg # <<>>
  BY <1>2, <1>3 DEF SeedOf
<1>5. s \in DOMAIN answered /\ answered[s] = SeedOf(s)
  BY <1>3, <1>4 DEF MultisigInv, BuildInv, AnsweredFits, Holding
<1>6. policy = Assembled /\ ~GateRefuses /\ s \in 1..params.n
  BY DEF MultisigInv, BuildInv, PolicyFits, ParamsFit
<1>7. s \in DOMAIN policy /\ policy[s] = SlotKey(s)
  BY <1>6 DEF Assembled
<1>8. CASE params.fromCard
  <2>1. CardOf(s).xpub = Derived(SeedOf(s), CardOf(s).path)
    BY <1>6, <1>8 DEF GateRefuses
  <2> QED
    BY <1>4, <1>5, <1>7, <1>8, <2>1 DEF SlotKey, TakesCard, HeldOrigin
<1>9. CASE ~params.fromCard
  BY <1>4, <1>5, <1>7, <1>9 DEF SlotKey, TakesCard, HeldOrigin
<1> QED
  BY <1>8, <1>9

LEMMA ModeKeeps ==
  ASSUME MultisigInv, Mode
  PROVE  MultisigInv'
<1>1. /\ pc = "mode" /\ pc' \in {"end", "offer"}
      /\ UNCHANGED <<policy, md1, verifying, params, reg, ids, answered, cards, template>>
  BY DEF Mode, Go, Exit, building
<1>2. ParamsFit' /\ RegFits' /\ AskedInOrder' /\ AnsweredFits' /\ PolicyFits'
  BY <1>1, RestKeepsSeeds DEF PolicyFits
<1>3. CASE Exit /\ UNCHANGED <<expected, full, steel>>
  <2>1. ReadBackInv'
    BY <1>1, <1>3, BuildKeepsReadBack DEF Holding, Verifying, Exit
  <2>2. NotYet' /\ SteelStays'
    BY <1>1, <1>3 DEF Exit, verifying, MultisigInv, BuildInv, NotYet, SteelStays, Choosing, Holding, Verifying
  <2> QED
    BY <1>2, <2>1, <2>2 DEF MultisigInv, BuildInv
<1>4. CASE full' \in BOOLEAN /\ expected' = params.self /\ steel' = EngraveTail
  <2> DEFINE P(s) == Plate(SeedOf(s), policy[s].path, md1)
             S == params.self
  <2>1. \A s \in S : /\ SeedOf(s) \in Seeds /\ s \in DOMAIN policy /\ answered[s] = SeedOf(s)
                      /\ HeldOrigin(s) = policy[s].path /\ policy[s].xpub = Derived(SeedOf(s), policy[s].path)
    BY <1>1, HeldSlotFits
  <2>2. steel' = {P(s) : s \in S}
    BY <1>4, <2>1 DEF EngraveTail
  <2>3. policy = Assembled /\ ~AssemblyRefuses /\ IsFiniteSet(S) /\ S # {} /\ params.n \in Nat
    BY <1>1, RankIsNumbering DEF MultisigInv, BuildInv, PolicyFits, ParamsFit, Holding
  <2>4. DOMAIN policy = 1..params.n /\ IsFiniteSet(DOMAIN policy)
    BY <2>3, FS_Interval DEF Assembled
  <2>5. \A s, t \in DOMAIN policy : s # t => policy[s].xpub # policy[t].xpub
    BY <2>3, <2>4 DEF AssemblyRefuses, Assembled
  <2>6. SteelFits'
    <3>1. policy' = policy /\ md1' = md1
      BY <1>1
    <3>2. /\ IsFiniteSet(DOMAIN policy') /\ DOMAIN policy' \in SUBSET Nat
          /\ expected' # {} /\ expected' \subseteq DOMAIN policy' /\ full' \in BOOLEAN
      BY <1>1, <1>4, <2>1, <2>3, <2>4
    <3>3. \A s \in expected' : \E seed \in Seeds : Proves(s, seed)' /\ PlateOf(s, seed)' \in steel'
      <4> SUFFICES ASSUME NEW s \in S
                   PROVE  \E seed \in Seeds : policy'[s].xpub = Derived(seed, policy'[s].path)
                                             /\ Plate(seed, policy'[s].path, md1') \in steel'
        BY <1>4 DEF Proves, PlateOf
      <4>1. SeedOf(s) \in Seeds /\ policy[s].xpub = Derived(SeedOf(s), policy[s].path) /\ P(s) \in steel'
        BY <2>1, <2>2
      <4> QED
        BY <3>1, <4>1
    <3>4. \A p \in steel' : \E s \in expected', seed \in Seeds : Proves(s, seed)' /\ p = PlateOf(s, seed)'
      <4> SUFFICES ASSUME NEW p \in steel'
                   PROVE  \E s \in S, seed \in Seeds : policy'[s].xpub = Derived(seed, policy'[s].path)
                                             /\ p = Plate(seed, policy'[s].path, md1')
        BY <1>4 DEF Proves, PlateOf
      <4>1. PICK s \in S : p = P(s)
        BY <2>2
      <4> QED
        BY <3>1, <2>1, <4>1
    <3> QED
      BY <3>2, <3>3, <3>4 DEF SteelFits
  <2>7. ReadBackInv'
    <3>1. legs' = <<>> /\ rec' = rec /\ entry' = entry /\ ~rec.pass
      BY <1>1 DEF verifying, MultisigInv, BuildInv, NotYet, ReadBackInv, RecFits, Holding, Verifying
    <3> QED
      BY <1>1, <2>6, <3>1 DEF ReadBackInv, MultisigInv, LegsFit, EntryFits, ShownFits, RecFits, VerifiedIsSteel, Status,
         Attempt
  <2>8. SteelStays'
    <3>1. Cardinality(steel') = Cardinality(expected')
      <4> DEFINE f == [s \in S |-> P(s)]
      <4>1. \A s, t \in S : P(s) = P(t) => s = t
        <5> SUFFICES ASSUME NEW s \in S, NEW t \in S, P(s) = P(t)
                     PROVE  s = t
          OBVIOUS
        <5>1. P(s).xpub = policy[s].xpub /\ P(t).xpub = policy[t].xpub
          BY <2>1 DEF Plate
        <5> QED
          BY <5>1, <2>1, <2>5
      <4>2. f \in Bijection(S, steel')
        BY <2>2, <4>1 DEF Bijection, Injection, Surjection, IsInjective
      <4>3. ExistsBijection(S, steel')
        BY <4>2 DEF ExistsBijection
      <4> QED
        BY <1>4, <2>3, <4>3, FS_Bijection
    <3>2. \A s \in S : Plate(answered'[s], policy'[s].path, md1') \in steel'
                       /\ policy'[s].xpub = Derived(answered'[s], policy'[s].path)
      BY <1>1, <2>1, <2>2
    <3> QED
      BY <1>1, <1>4, <2>5, <3>1, <3>2 DEF SteelStays
  <2>9. NotYet'
    BY <1>1 DEF verifying, MultisigInv, BuildInv, NotYet, Holding, Choosing, Verifying
  <2> QED
    BY <1>2, <2>7, <2>8, <2>9 DEF MultisigInv, BuildInv
<1> QED
  BY <1>3, <1>4 DEF Mode

(* One slot at least has each distinct key. *)
LEMMA FirstOfPlateFits ==
  ASSUME NEW keys \in Supplied, NEW slots \in SUBSET (DOMAIN keys)
  PROVE  \A s \in slots : \E t \in FirstOfPlate(slots, keys) : keys[t] = keys[s]
<1> SUFFICES ASSUME NEW s \in slots
             PROVE  \E t \in FirstOfPlate(slots, keys) : keys[t] = keys[s]
  OBVIOUS
<1> DEFINE same == {t \in slots : keys[t] = keys[s]}
<1>1. same \in SUBSET Nat /\ same # {}
  BY BuildAssumption
<1>2. PICK m \in same : \A k \in same : m <= k
  <2> HIDE DEF same
  <2> QED
    BY <1>1, LeastElement
<1>3. \A t \in slots : t < m => keys[t] # keys[m]
  <2> SUFFICES ASSUME NEW t \in slots, t < m, keys[t] = keys[m]
               PROVE  FALSE
    OBVIOUS
  <2>1. t \in same /\ t \in Nat /\ m \in Nat
    BY <1>1, <1>2
  <2> QED
    BY <1>2, <2>1
<1> QED
  BY <1>2, <1>3 DEF FirstOfPlate

LEMMA SupplyKeeps ==
  ASSUME MultisigInv, Supply
  PROVE  MultisigInv'
<1>1. pc = "supply" /\ pc' \in {"end", "offer"} /\ UNCHANGED <<verifying, building>>
  BY DEF Supply, Go, Exit
<1>2. reg = <<>> /\ ids = <<>> /\ steel = {} /\ legs = <<>>
  BY <1>1 DEF MultisigInv, BuildInv, RegFits, NotYet, Choosing
<1>3. BuildInv'
  <2>1. ParamsFit' /\ RegFits' /\ AskedInOrder' /\ AnsweredFits' /\ PolicyFits' /\ SteelStays'
    BY <1>1, <1>2 DEF building, MultisigInv, BuildInv, ParamsFit, RegFits, AskedInOrder, AnsweredFits, PolicyFits,
       SteelStays, Choosing, Holding
  <2>2. NotYet'
    BY <1>1, <1>2 DEF verifying, NotYet, Choosing, Holding, Verifying
  <2> QED
    BY <2>1, <2>2 DEF BuildInv
<1>4. CASE pc' = "end"
  BY <1>1, <1>3, <1>4, BuildKeepsReadBack DEF MultisigInv, Choosing, Verifying
<1>5. ASSUME NEW keys \in Supplied, NEW seed \in Seeds, AllUserSlots(seed, keys) # {},
             policy' = keys, md1' = keys, full' \in BOOLEAN,
             expected' = FirstOfPlate(AllUserSlots(seed, keys), keys),
             steel' = {Plate(seed, keys[s].path, keys) : s \in AllUserSlots(seed, keys)}
      PROVE  ReadBackInv'
  <2> DEFINE slots == AllUserSlots(seed, keys)
             first == FirstOfPlate(slots, keys)
  <2>1. slots \subseteq DOMAIN keys /\ \A s \in slots : keys[s].xpub = Derived(seed, keys[s].path)
    BY DEF AllUserSlots
  <2>2. first \subseteq slots /\ \A s \in slots : \E t \in first : keys[t] = keys[s]
    <3>1. first \subseteq slots
      BY DEF FirstOfPlate
    <3> HIDE DEF slots
    <3> QED
      BY <2>1, <3>1, FirstOfPlateFits
  <2>3. IsFiniteSet(DOMAIN keys) /\ DOMAIN keys \in SUBSET Nat
    <3>1. DOMAIN keys = 1..Len(keys) /\ Len(keys) \in Nat
      BY BuildAssumption
    <3>2. \A n \in Nat : IsFiniteSet(1..n) /\ (1..n) \in SUBSET Nat
      BY FS_Interval
    <3> QED
      BY <3>1, <3>2
  <2>4. SteelFits'
    <3>1. /\ IsFiniteSet(DOMAIN policy') /\ DOMAIN policy' \in SUBSET Nat
          /\ expected' # {} /\ expected' \subseteq DOMAIN policy' /\ full' \in BOOLEAN
      BY <1>5, <2>1, <2>2, <2>3
    <3>2. \A s \in expected' : policy'[s].xpub = Derived(seed, policy'[s].path)
                               /\ Plate(seed, policy'[s].path, md1') \in steel'
      BY <1>5, <2>1, <2>2
    <3>3. \A p \in steel' : \E s \in expected' : policy'[s].xpub = Derived(seed, policy'[s].path)
                                                 /\ p = Plate(seed, policy'[s].path, md1')
      <4> SUFFICES ASSUME NEW p \in steel'
                   PROVE  \E s \in expected' : policy'[s].xpub = Derived(seed, policy'[s].path)
                                               /\ p = Plate(seed, policy'[s].path, md1')
        OBVIOUS
      <4>1. PICK s \in slots : p = Plate(seed, keys[s].path, keys)
        BY <1>5
      <4>2. PICK t \in first : keys[t] = keys[s]
        BY <2>2
      <4> QED
        BY <1>5, <3>2, <4>1, <4>2
    <3> QED
      BY <3>1, <3>2, <3>3 DEF SteelFits, Proves, PlateOf
  <2>5. legs' = <<>> /\ rec' = rec /\ entry' = entry /\ ~rec.pass
    BY <1>1, <1>2 DEF verifying, MultisigInv, ReadBackInv, RecFits, Verifying
  <2> QED
    BY <1>1, <2>4, <2>5 DEF ReadBackInv, MultisigInv, LegsFit, EntryFits, ShownFits, RecFits, VerifiedIsSteel, Status,
         Attempt
<1> QED
  BY <1>1, <1>3, <1>4, <1>5 DEF Supply, MultisigInv, Exit

-----------------------------------------------------------------------------
LEMMA MultisigStep == MultisigInv /\ [Next]_vars => MultisigInv'
<1> SUFFICES ASSUME MultisigInv, [Next]_vars
             PROVE  MultisigInv'
  OBVIOUS
<1>1. CASE ChooseFlow \/ Params \/ Source
  BY <1>1, ChoosingKeeps
<1>2. CASE EnterSeed \/ SeedPassphrase
  BY <1>2, EnterSeedKeeps, PassphraseKeeps
<1>3. CASE Gate \/ Form
  BY <1>3, GateFormKeep
<1>4. CASE Mode \/ Supply
  BY <1>4, ModeKeeps, SupplyKeeps
<1>5. CASE VerifyNext /\ UNCHANGED building
  <2>1. ReadBackInv'
    BY <1>5, VerifyStep DEF MultisigInv
  <2>2. pc \in Verifying /\ pc' \in Verifying /\ UNCHANGED given
    BY <1>5 DEF VerifyNext, Offer, Present, TypeWords, TypePhrase, TypeShare, NextSeed, Derive, Finish, Result, Verifying
  <2>3. BuildInv'
    BY <1>5, <2>2 DEF MultisigInv, BuildInv, ParamsFit, RegFits, AskedInOrder, AnsweredFits, PolicyFits, NotYet, SteelStays,
       building, given, SeedOf, Rank, Verifying, Choosing, Holding
  <2> QED
    BY <2>1, <2>3 DEF MultisigInv
<1>6. CASE UNCHANGED vars
  <2>1. ReadBackInv'
    BY <1>6 DEF vars, verifying, given, MultisigInv, ReadBackInv, SteelFits, Proves, PlateOf, LegsFit, Leg, EntryFits,
       ShownFits, Bench, RecFits, VerifiedIsSteel, Status
  <2>2. Assembled' = Assembled /\ GateRefuses' = GateRefuses /\ AssemblyRefuses' = AssemblyRefuses
    BY <1>6 DEF vars, building, Assembled, SlotKey, TakesCard, CardOf, SeedOf, Rank, AccountOfSlot, GateRefuses, AssemblyRefuses
  <2>3. BuildInv'
    BY <1>6, <2>2 DEF vars, verifying, building, given, MultisigInv, BuildInv, ParamsFit, RegFits, AskedInOrder, AnsweredFits,
       PolicyFits, NotYet, SteelStays, SeedOf, Rank
  <2> QED
    BY <2>1, <2>3 DEF MultisigInv
<1> QED
  BY <1>1, <1>2, <1>3, <1>4, <1>5, <1>6 DEF Next, BuildNext

LEMMA MultisigAlways == Spec => []MultisigInv
<1>1. MultisigInv /\ [Next]_vars => MultisigInv'
  BY MultisigStep
<1> QED
  BY BuildInit, <1>1, PTL DEF Spec

(* For any number of slots, seeds and cards, whatever is asked again: the  *)
(* plates a build cuts hold the key and path of their slot and the seed    *)
(* last given for it (buildMultisigPolicyFlow, buildEngraveTail).          *)
THEOREM SteelAlwaysPolicy == Spec => []SteelIsPolicy
<1>1. MultisigInv => SteelIsPolicy
  BY DEF MultisigInv, BuildInv, SteelStays, SteelIsPolicy, Verifying
<1> QED
  BY <1>1, MultisigAlways, PTL

(* For any policy and any plates presented, in any number of attempts:     *)
(* "verified" is said only of the very plates that were cut                *)
(* (multisigVerifyFlow, verifyStatusFor).                                  *)
THEOREM VerifiedAlwaysSteel == Spec => []VerifiedIsSteel
<1>1. MultisigInv => VerifiedIsSteel
  BY DEF MultisigInv, ReadBackInv
<1> QED
  BY <1>1, MultisigAlways, PTL

(* For any policy: who is told how to put a check right is asked again     *)
(* before the document (multisigVerifyFlow and its two callers).           *)
THEOREM RemedyAlwaysReoffered == Spec => []RemedyReoffered
<1>1. MultisigInv => RemedyReoffered
  BY DEF MultisigInv, ReadBackInv, RemedyReoffered
<1> QED
  BY <1>1, MultisigAlways, PTL

=============================================================================
