--------------------------- MODULE MultisigSession ---------------------------
(***************************************************************************)
(* The multisig program (gui/multisig*.go): a policy is supplied as md1    *)
(* or built from the seeds of the slots the operator holds and the key     *)
(* cards of a payload, its plates are cut, read back (MultisigVerify) and  *)
(* a restore document shown.                                               *)
(*                                                                         *)
(* Slots count from 1.  The script types differ only in a component of     *)
(* every path and are one here; thresholds, labels, the screens that only  *)
(* inform, and the wiping of the seeds are left out, and cutting is the    *)
(* part of BundleGather it is: it ends done or not.                        *)
(***************************************************************************)
EXTENDS MultisigVerify

CONSTANTS MaxSlots,   \* five in the code
          Payloads,   \* sequences of key cards a payload may hold
          Supplied,   \* policies an operator may supply
          MaxSeeds    \* bound on registered seeds

ASSUME BuildAssumption ==
  /\ MaxSlots \in Nat /\ MaxSeeds \in Nat
  /\ \A keys \in Supplied : Len(keys) \in Nat /\ DOMAIN keys = 1..Len(keys)

NoFp == <<>>            \* the card states none
Root == -1             \* a card that names no path

VARIABLES
  params,    \* number of slots, slots held, keys checked against cards, fingerprints
  cards,     \* the key cards chosen, in slot order
  reg,       \* seedRegistry: every seed registered and not dropped
  ids,       \* the registered seed of each held slot, in the order asked
  answered,  \* the seed last taken for each slot; no part of the program
  template   \* the template is cut, not the full policy

building == <<params, cards, reg, ids, answered, template>>
vars == <<pc, given, verifying, building>>

NoParams == [n |-> 0, self |-> {}, fromCard |-> FALSE, fps |-> FALSE]
InitBuild ==
  /\ params = NoParams /\ cards = <<>> /\ reg = <<>> /\ ids = <<>> /\ answered = <<>> /\ template = FALSE
Init == pc = "front" /\ InitVerify /\ InitBuild

Rank(slot) == Cardinality({s \in params.self : s <= slot})
Exit == pc' = "end"
Go(next) == pc' = next

ChooseFlow ==
  /\ pc = "front"
  /\ pc' \in {"params", "supply"}
  /\ UNCHANGED <<given, verifying, building>>

-----------------------------------------------------------------------------
(* Where the keys come from *)

OpenSlots(p) == IF p.fromCard THEN p.n ELSE p.n - Cardinality(p.self)

(* The pickers of script, n, k, slots and fingerprints, then "is your key  *)
(* on a card?", which is asked when the payload could fill every slot.     *)
Params ==
  /\ pc = "params"
  /\ \/ Exit /\ UNCHANGED params
     \/ \E n \in 2..MaxSlots, fps \in BOOLEAN : \E self \in (SUBSET (1..n)) \ {{}} :
          /\ params' = [n |-> n, self |-> self, fromCard |-> FALSE, fps |-> fps]
          /\ Go("source")
  /\ UNCHANGED <<given, verifying, cards, reg, ids, answered, template>>

(* Every subsequence of the payload's cards that fills the open slots. *)
Picks(payload, open) ==
  {[i \in 1..open |-> payload[SetToSortSeq(s, <)[i]]] : s \in kSubset(open, DOMAIN payload)}

Source ==
  /\ pc = "source"
  /\ \E payload \in Payloads, fromCard \in BOOLEAN :
       /\ fromCard => Len(payload) >= params.n
       /\ params' = [params EXCEPT !.fromCard = fromCard]
       /\ \/ Go("params") /\ UNCHANGED cards                         \* Back
          \/ Exit /\ UNCHANGED cards                                 \* Back at the review or a pick
          \/ /\ Len(payload) < OpenSlots(params') /\ Exit /\ UNCHANGED cards
          \/ /\ Len(payload) >= OpenSlots(params')
             /\ cards' \in Picks(payload, OpenSlots(params')) /\ Go("seed")
  /\ UNCHANGED <<given, verifying, reg, ids, answered, template>>

-----------------------------------------------------------------------------
(* A seed for each held slot *)

StepBack == SubSeq(ids, 1, Len(ids) - 1)

(* Back asks for the slot before; at the first it leaves. *)
Declined ==
  \/ ids = <<>> /\ Exit /\ UNCHANGED ids
  \/ ids # <<>> /\ ids' = StepBack /\ Go("seed")

Asked == CHOOSE s \in params.self : Rank(s) = Len(ids) + 1

(* The seed is registered before its passphrase is asked for. *)
EnterSeed ==
  /\ pc = "seed"
  /\ \/ Declined /\ UNCHANGED reg
     \/ \E w \in Words :
          /\ Len(reg) < MaxSeeds
          /\ reg' = Append(reg, <<w, NoPhrase>>)
          /\ Go("passphrase") /\ UNCHANGED ids
  /\ UNCHANGED <<given, verifying, params, cards, answered, template>>

(* Back at the question drops the seed; at the keyboard it asks again. *)
SeedPassphrase ==
  /\ pc = "passphrase"
  /\ \/ Declined /\ reg' = SubSeq(reg, 1, Len(reg) - 1) /\ UNCHANGED answered
     \/ \E p \in Phrases \cup {NoPhrase} :
          /\ reg' = [reg EXCEPT ![Len(reg)][2] = p]
          /\ ids' = Append(ids, Len(reg))
          /\ answered' = [s \in params.self |-> IF s = Asked THEN reg'[Len(reg)]
                          ELSE IF s \in DOMAIN answered THEN answered[s] ELSE reg'[Len(reg)]]
          /\ Go(IF Len(ids') = Cardinality(params.self) THEN "gate" ELSE "seed")
  /\ UNCHANGED <<given, verifying, params, cards, template>>

-----------------------------------------------------------------------------
(* What each slot holds, and whether it may *)

SeedByRank(slot) == reg[Rank(slot)]
SeedOf(slot) == reg[ids[Rank(slot)]]
TakesCard(slot) == slot \notin params.self \/ params.fromCard
CardOf(slot) == cards[Cardinality({t \in 1..slot : TakesCard(t)})]

(* The next account of the slot's master. *)
AccountOfSlot(slot) == Cardinality({t \in params.self : t < slot /\ SeedOf(t) = SeedOf(slot)})

(* The path of a held slot's key. *)
OriginDerived(slot) == AccountOfSlot(slot)
HeldOrigin(slot) == IF params.fromCard THEN CardOf(slot).path ELSE AccountOfSlot(slot)

SlotKey(slot) ==
  IF TakesCard(slot) THEN [xpub |-> CardOf(slot).xpub, path |-> CardOf(slot).path]
  ELSE [xpub |-> Derived(SeedOf(slot), AccountOfSlot(slot)), path |-> AccountOfSlot(slot)]
Assembled == [slot \in 1..params.n |-> SlotKey(slot)]

(* buildSlotGate: a held card's key is the seed's, and so is a fingerprint *)
(* it states.                                                              *)
GateRefuses ==
  params.fromCard /\ \E s \in params.self :
    \/ CardOf(s).xpub # Derived(SeedOf(s), CardOf(s).path)
    \/ CardOf(s).fp \notin {NoFp, SeedOf(s)}

(* assembleBuildPolicy *)
AssemblyRefuses ==
  \/ params.fps /\ \E s \in 1..params.n : TakesCard(s) /\ CardOf(s).fp = NoFp
  \/ \E s, t \in 1..params.n : s # t /\ SlotKey(s).xpub = SlotKey(t).xpub
  \/ \E s \in 1..params.n : SlotKey(s).path = Root

(* Gate, key sources, self keys, assembly, policy review. *)
Gate ==
  /\ pc = "gate"
  /\ \/ Exit /\ UNCHANGED policy
     \/ ~GateRefuses /\ ~AssemblyRefuses /\ policy' = Assembled /\ Go("form")
  /\ UNCHANGED <<md1, expected, full, steel, verifying, building>>

(* The full policy, also on Back, or the template after its consent. *)
Form ==
  /\ pc = "form"
  /\ \/ Exit /\ UNCHANGED <<md1, template>>
     \/ md1' = policy /\ template' = FALSE /\ Go("mode")
     \/ md1' = <<"template">> \o policy /\ template' = TRUE /\ Go("mode")
  /\ UNCHANGED <<policy, expected, full, steel, verifying, params, cards, reg, ids, answered>>

EngraveTail == {Plate(SeedOf(s), HeldOrigin(s), md1) : s \in params.self}

(* The warning, the mode, the census and the cutting. *)
Mode ==
  /\ pc = "mode"
  /\ \/ Exit /\ UNCHANGED <<expected, full, steel>>
     \/ /\ full' \in BOOLEAN
        /\ expected' = params.self /\ steel' = EngraveTail
        /\ Go(IF template THEN "end" ELSE "offer")
  /\ UNCHANGED <<policy, md1, verifying, building>>

-----------------------------------------------------------------------------
(* A supplied policy *)

FirstOfPlate(slots, keys) == {s \in slots : \A t \in slots : t < s => keys[t] # keys[s]}

(* One seed, every slot it matches, one plate per distinct key. *)
Supply ==
  /\ pc = "supply"
  /\ \/ Exit /\ UNCHANGED given
     \/ \E keys \in Supplied, seed \in Seeds :
          LET slots == AllUserSlots(seed, keys)
          IN \/ slots = {} /\ Exit /\ UNCHANGED given
             \/ /\ slots # {}
                /\ policy' = keys /\ md1' = keys /\ full' \in BOOLEAN
                /\ expected' = FirstOfPlate(slots, keys)
                /\ steel' = {Plate(seed, keys[s].path, keys) : s \in slots}
                /\ Go("offer")
  /\ UNCHANGED <<verifying, building>>

-----------------------------------------------------------------------------
BuildNext == ChooseFlow \/ Params \/ Source \/ EnterSeed \/ SeedPassphrase \/ Gate \/ Form \/ Mode \/ Supply
Next == BuildNext \/ (VerifyNext /\ UNCHANGED building)
Spec == Init /\ [][Next]_vars

-----------------------------------------------------------------------------
(* Properties *)

(* What a build cuts is what its policy says: each held slot has a plate   *)
(* of its own with the key and path the policy lists there, derived from   *)
(* the seed last given for that very slot, and no two slots share a key.   *)
SteelIsPolicy ==
  pc \in {"offer", "end"} /\ reg # <<>> /\ steel # {} =>
    /\ Cardinality(steel) = Cardinality(expected)
    /\ \A s \in expected : Plate(answered[s], policy[s].path, md1) \in steel
                           /\ policy[s].xpub = Derived(answered[s], policy[s].path)
    /\ \A s, t \in DOMAIN policy : s # t => policy[s].xpub # policy[t].xpub
=============================================================================
