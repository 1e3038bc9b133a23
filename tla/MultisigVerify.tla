---------------------------- MODULE MultisigVerify ----------------------------
(***************************************************************************)
(* The read-back of a multisig set (gui/multisig_verify.go over            *)
(* bundle/verify.go) and the status its restore document states            *)
(* (gui/verify_status.go): plates are presented, seeds typed again, the    *)
(* key of each engraved slot re-derived and compared, and the operator is  *)
(* asked again while something can be put right.                           *)
(*                                                                         *)
(* A key is the words, passphrase and path it is derived from, a master    *)
(* fingerprint the words and passphrase, a policy the key and path of each *)
(* slot, and its stub the policy itself: derivations do not collide.       *)
(* Wording and the wiping of typed words are left out.                     *)
(***************************************************************************)
EXTENDS Integers, Sequences, FiniteSets, FiniteSetsExt, SequencesExt

CONSTANTS Words,      \* seeds an operator may type
          Phrases,    \* passphrases that are not empty
          Strangers,  \* key plates of somebody else
          MaxForeign  \* bound on plates of one attempt that were not cut in this run

NoPhrase == "no passphrase"
Seeds == Words \X (Phrases \cup {NoPhrase})
Derived(seed, path) == <<seed[1], seed[2], path>>
Plate(seed, path, md1) == [xpub |-> Derived(seed, path), path |-> path, fp |-> seed, stub |-> md1]

ASSUME StrangerAssumption ==
  \A p \in Strangers : p = [xpub |-> p.xpub, path |-> p.path, fp |-> p.fp, stub |-> p.stub]

VARIABLES
  pc,
  policy,     \* key and path of each slot
  md1,        \* the policy as engraved, the full one or its template
  expected,   \* the slots whose plates this run cut
  full,       \* seed shares are cut and compared
  steel,      \* the key plates cut
  shown,      \* the key plates presented, in the order captured
  legs,       \* the slots re-derived in this attempt: slot, plate, share words
  entry,      \* the seed being typed
  rec,        \* verifyRecord
  told,       \* this attempt showed a way to put things right
  proof       \* what the last pass rests on

given == <<policy, md1, expected, full, steel>>
verifying == <<shown, legs, entry, rec, told, proof>>

NoEntry == [words |-> "none", phrase |-> NoPhrase]
NoProof == [shown |-> {}, legs |-> {}]
InitVerify ==
  /\ policy = <<>> /\ md1 = <<>> /\ expected = {} /\ full = FALSE /\ steel = {}
  /\ shown = <<>> /\ legs = <<>> /\ entry = NoEntry /\ told = FALSE
  /\ rec = [pass |-> FALSE, full |-> FALSE, legs |-> 0, supplied |-> 0, adverse |-> FALSE]
  /\ proof = NoProof

AllUserSlots(seed, keys) == {s \in DOMAIN keys : keys[s].xpub = Derived(seed, keys[s].path)}
Covered == {legs[i].slot : i \in DOMAIN legs}
FreshSlots(slots) == (expected \cap slots) \ Covered

-----------------------------------------------------------------------------
MatchesByKey(leg, plate) == plate.xpub = leg.plate.xpub /\ (full => leg.share = leg.plate.fp[1])

(* bundle.Verify of one leg against one plate; the two policies are known  *)
(* to be equal by now.                                                     *)
ClaimedMatches(leg, plate) ==
  /\ plate.stub = md1
  /\ plate.fp = leg.plate.fp /\ plate.xpub = leg.plate.xpub /\ plate.path = leg.plate.path
  /\ full => leg.share = leg.plate.fp[1]

(* Each leg claims the first plate left that carries its key; 0 is none.   *)
Claims(ls) ==
  LET claim[k \in DOMAIN ls] ==
        LET free == {i \in DOMAIN shown : shown[i].xpub = ls[k].plate.xpub
                                          /\ i \notin {claim[j] : j \in 1..(k - 1)}}
        IN IF free = {} THEN 0 ELSE Min(free)
  IN claim

LegsPartial(ls) ==
  \A k \in DOMAIN ls : Claims(ls)[k] # 0 /\ ClaimedMatches(ls[k], shown[Claims(ls)[k]])
LegsUnclaimed(ls) == DOMAIN shown \ {Claims(ls)[k] : k \in DOMAIN ls}
LegsAll(ls) == LegsPartial(ls) /\ LegsUnclaimed(ls) = {}

(* Only these two results ask again. *)
Result(r) ==
  /\ pc' = IF r \in {"incomplete", "failed"} THEN "offer" ELSE "document"
  /\ shown' = <<>> /\ legs' = <<>> /\ entry' = NoEntry

Adverse == rec' = [rec EXCEPT !.adverse = TRUE] /\ told' = TRUE /\ UNCHANGED proof
Quiet == UNCHANGED <<rec, told, proof>>

Passed(ls) ==
  /\ rec' = [rec EXCEPT !.pass = TRUE, !.full = full, !.legs = Len(ls),
                        !.supplied = Cardinality(DOMAIN policy \ {ls[i].slot : i \in DOMAIN ls})]
  /\ proof' = [shown |-> ToSet(shown), legs |-> ToSet(ls)]
  /\ UNCHANGED told

(* The end of the seed loop, with the legs there are. *)
NoLegsAbandoned(corrected) == "abandoned"
NoLegs(corrected) == IF corrected THEN "incomplete" ELSE "abandoned"
Finish(ls, corrected) ==
  \/ ls = <<>> /\ Result(NoLegs(corrected)) /\ Quiet
  \/ /\ ls # <<>> /\ Len(ls) < Cardinality(expected)
     /\ \/ LegsPartial(ls) /\ Result("incomplete") /\ told' = TRUE /\ UNCHANGED <<rec, proof>>
        \/ ~LegsPartial(ls) /\ Result("failed") /\ Adverse
  \/ /\ ls # <<>> /\ Len(ls) >= Cardinality(expected)
     /\ \/ LegsAll(ls) /\ Result("complete") /\ Passed(ls)
        \/ ~LegsAll(ls) /\ Result("failed") /\ Adverse

-----------------------------------------------------------------------------
(* The loop of the two callers, and what one attempt asks for. *)
Offer ==
  /\ pc = "offer"
  /\ \/ pc' = "document" /\ told' = FALSE                    \* Skip, CONTINUE
     \/ expected # {} /\ pc' = "present" /\ told' = FALSE
     \/ expected = {} /\ pc' = "document" /\ UNCHANGED told  \* refused
  /\ UNCHANGED <<given, shown, legs, entry, rec, proof>>

(* What lies on the bench: this run's plates, the same keys bound to       *)
(* another policy or stamped with another path, other people's.            *)
Bench ==
  steel \cup Strangers \cup {[p EXCEPT !.stub = <<>>] : p \in steel} \cup {[p EXCEPT !.path = @ + 1] : p \in steel}

Present ==
  /\ pc = "present"
  /\ \/ Result("abandoned") /\ Quiet
     \/ Result("incomplete") /\ Adverse                      \* no md1 or no key card
     \/ Result("failed") /\ Adverse                          \* another policy
     \/ \E k \in 1..(Cardinality(expected) + 1) :
          /\ k # Cardinality(expected) /\ Result("incomplete") /\ Adverse
     \/ /\ shown' \in {q \in [1..Cardinality(expected) -> Bench] :
                       IsInjective(q) /\ Cardinality(ToSet(q) \ steel) <= MaxForeign}
        /\ pc' = "words" /\ UNCHANGED <<legs, entry, rec, told, proof>>
  /\ UNCHANGED given

(* Back at the seed ends the loop with what was proved so far. *)
TypeWords ==
  /\ pc = "words"
  /\ \/ Finish(legs, FALSE)
     \/ \E w \in Words :
          /\ entry' = [entry EXCEPT !.words = w] /\ pc' = "phrase"
          /\ UNCHANGED <<shown, legs, rec, told, proof>>
  /\ UNCHANGED given

Ascending(slots) ==
  {q \in [1..Cardinality(slots) -> slots] : \A i, j \in DOMAIN q : i < j => q[i] < q[j]}
Rederived(seed, order, share) ==
  [i \in DOMAIN order |-> [slot |-> order[i], plate |-> Plate(seed, policy[order[i]].path, md1),
                          share |-> share]]

(* The legs of this seed, then the next seed or the comparison. *)
Derive(seed, slots, share) ==
  \E order \in Ascending(slots) :
    LET ls == legs \o Rederived(seed, order, share)
    IN \/ Len(ls) >= Cardinality(expected) /\ Finish(ls, FALSE)
       \/ /\ Len(ls) < Cardinality(expected)
          /\ legs' = ls /\ entry' = NoEntry /\ pc' = "next" /\ UNCHANGED <<shown, rec, told, proof>>

(* A seed with no slot left to prove is a correctable mistake: the loop    *)
(* ends, and the caller asks again.                                        *)
TypePhrase ==
  /\ pc = "phrase"
  /\ \/ /\ pc' = "words" /\ UNCHANGED verifying              \* Back
     \/ \E p \in Phrases \cup {NoPhrase} :
          LET slots == FreshSlots(AllUserSlots(<<entry.words, p>>, policy))
          IN \/ /\ slots = {}
                /\ \/ legs = <<>> /\ Result(NoLegs(TRUE)) /\ told' = TRUE /\ UNCHANGED <<rec, proof>>
                   \/ legs # <<>> /\ Finish(legs, TRUE)
             \/ /\ slots # {} /\ full
                /\ entry' = [entry EXCEPT !.phrase = p] /\ pc' = "share"
                /\ UNCHANGED <<shown, legs, rec, told, proof>>
             \/ slots # {} /\ ~full /\ Derive(<<entry.words, p>>, slots, "none")
  /\ UNCHANGED given

TypeShare ==
  /\ pc = "share"
  /\ \/ pc' = "phrase" /\ UNCHANGED verifying                \* Back
     \/ /\ \/ legs = <<>> /\ Result(NoLegs(TRUE)) /\ told' = TRUE /\ UNCHANGED <<rec, proof>>
           \/ legs # <<>> /\ Finish(legs, TRUE)              \* not a share
     \/ LET seed == <<entry.words, entry.phrase>>
        IN \E w \in Words : Derive(seed, FreshSlots(AllUserSlots(seed, policy)), w)
  /\ UNCHANGED given

NextSeed ==
  /\ pc = "next"
  /\ \/ Finish(legs, FALSE)                            \* STOP HERE, Back
     \/ pc' = "words" /\ entry' = NoEntry /\ UNCHANGED <<shown, legs, rec, told, proof>>
  /\ UNCHANGED given

VerifyNext == Offer \/ Present \/ TypeWords \/ TypePhrase \/ TypeShare \/ NextSeed

-----------------------------------------------------------------------------
(* verifyStatusFor *)
Status ==
  IF rec.pass THEN IF rec.adverse THEN "verified on retry" ELSE "verified"
  ELSE IF rec.adverse THEN "did not pass" ELSE "not fully checked"

-----------------------------------------------------------------------------
(* Properties *)

(* The document says "verified" only of the very plates this run cut: in   *)
(* one attempt all of them and nothing else were presented, the key of     *)
(* each was derived again from a seed typed there, with its share when     *)
(* shares were cut, and no cosigner is passed off as proved.               *)
VerifiedIsSteel ==
  Status \in {"verified", "verified on retry"} =>
    /\ proof.shown = steel
    /\ {l.slot : l \in proof.legs} = expected
    /\ \A l \in proof.legs : l.plate.xpub = policy[l.slot].xpub /\ l.plate \in steel
                             /\ (rec.full => l.share = l.plate.fp[1])
    /\ rec.full = full
    /\ rec.supplied >= Cardinality(DOMAIN policy) - Cardinality(expected)

(* A screen that tells the operator what to do about a check is followed   *)
(* by the offer to check again, never by the document.                     *)
RemedyReoffered == pc = "document" => ~told

=============================================================================
