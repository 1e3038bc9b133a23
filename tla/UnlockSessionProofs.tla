------------------------ MODULE UnlockSessionProofs ------------------------
(***************************************************************************)
(* What holds of UnlockSession for any regions and any number of records:  *)
(* what was decided about a payload on one screen still stands on every    *)
(* screen that offers a part of it, and no way out leaves a buffer of the  *)
(* program's own with its bytes.                                           *)
(***************************************************************************)
EXTENDS UnlockSession, FiniteSetTheorems, TLAPS

(* Every inhabited set of naturals has a least element: of refused records *)
(* there is a first.  Initial intervals that end in S are finite, and the  *)
(* inclusion of finite sets is well founded.                               *)
LEMMA LeastElement ==
  ASSUME NEW S \in SUBSET Nat, S # {}
  PROVE  \E m \in S : \A k \in S : m <= k
<1> DEFINE Below == {0..n : n \in S}
<1>1. Below \subseteq FiniteSubsetsOf(Nat) /\ Below # {}
  <2>1. \A n \in S : IsFiniteSet(0..n) /\ (0..n) \in SUBSET Nat
    BY FS_Interval
  <2>2. \A n \in S : (0..n) \in FiniteSubsetsOf(Nat)
    BY <2>1 DEF FiniteSubsetsOf
  <2>3. PICK n \in S : TRUE
    OBVIOUS
  <2> QED
    BY <2>2, <2>3
<1>2. \E x \in Below : \A y \in Below : <<y, x>> \notin StrictSubsetOrdering(Nat)
  <2> HIDE DEF Below
  <2> QED
    BY <1>1, FS_StrictSubsetOrderingWellFounded, WFMin
<1>3. PICK m \in S : \A k \in S : <<0..k, 0..m>> \notin StrictSubsetOrdering(Nat)
  BY <1>2
<1>4. ASSUME NEW k \in S, k < m
      PROVE  FALSE
  <2> DEFINE small == 0..k
             large == 0..m
  <2>1. small \subseteq large /\ m \in large /\ m \notin small
    BY <1>4
  <2>2. small \in SUBSET Nat /\ large \in SUBSET Nat
    OBVIOUS
  <2>3. <<small, large>> \notin StrictSubsetOrdering(Nat)
    BY <1>3
  <2> HIDE DEF small, large
  <2> QED
    BY <2>1, <2>2, <2>3 DEF StrictSubsetOrdering
<1> QED
  BY <1>4

Copies(c) == \A i \in DOMAIN c : c[i] \in [class : Classes, live : BOOLEAN]

At(screens, nexts) == pc \in screens \/ (pc = "error" /\ after \in nexts)
Before == {"hash", "ask", "words", "derive", "open", "admit", "warn"}
Offering1 == {"offer", "seed", "engrave"}
Listing == {"nothing", "list", "variant", "cut"}

(* The inspection refused nothing of the public section. *)
PublicIsSound ==
  At(Before, {"words"}) =>
    /\ Len(region.public) <= MaxRecords
    /\ \A i \in DOMAIN region.public : region.public[i] = "card"

(* An unsealed payload never comes to the word entry, nor a sealed one to  *)
(* the warning.                                                            *)
RightRoute ==
  /\ At({"ask", "words", "derive", "open", "admit"}, {"words"}) => Sealed
  /\ pc = "warn" => ~Sealed
  /\ pc = "admit" => typed = "right"

Decided ==
  At(Offering1 \cup Listing, {"next", "list"}) =>
    Whole /\ (IF Sealed THEN typed = "right" ELSE warned)

RouteInv ==
  /\ pc = "error" => after \in {"out", "words", "next", "list"}
  /\ pc # "menu" => region \in Regions
  /\ PublicIsSound /\ RightRoute /\ Decided

(* What the program's own buffers may hold on each screen. *)
LiveInv ==
  /\ pc = "menu" => live = {} /\ public = <<>> /\ secret = <<>>
  /\ At({"hash", "ask", "warn", "out"} \cup Listing, {"out", "words", "list"}) => live \subseteq {"blob"}
  /\ At(Listing, {"list"}) /\ Sealed => live = {}
  /\ pc = "words" => live \subseteq {"blob", "words"} /\ guard = "passphrase"
  /\ pc = "derive" => live \subseteq {"blob", "words", "pass"}
  /\ pc = "open" => live \subseteq {"blob", "words", "pass", "key"}
  /\ pc = "admit" => live \subseteq {"blob", "words", "pass", "key", "plaintext"}
  /\ pc \in {"offer", "engrave"} => live = {}
  /\ At({"seed"}, {"next"}) => live \subseteq {"parsed"}

(* Whose turn has passed is wiped. *)
SecretInv ==
  /\ Copies(secret) /\ Copies(public)
  /\ At(Before, {"words"}) => secret = <<>>
  /\ At(Offering1, {"next"}) => Secrets \subseteq left /\ guard = "secret"
  /\ pc = "engrave" => Secrets \subseteq {i \in left : i # Turn}
  /\ At(Listing, {"list"}) => Secrets = {}
  /\ pc = "error" /\ after = "out" => Secrets = {}
  /\ "encrypted" \notin stray

UnlockInv == RouteInv /\ LiveInv /\ SecretInv

-----------------------------------------------------------------------------
LEMMA RegionType ==
  ASSUME NEW r \in Regions
  PROVE  /\ r.public \in Seq(Classes) /\ r.secret \in Seq(Classes)
         /\ r.public # <<>> \/ r.secret # <<>>
BY RegionAssumption

(* A section that is admitted holds only records of its own classes: the   *)
(* first one that is refused would give the error.                         *)
LEMMA AdmittedIsPermitted ==
  ASSUME NEW records \in Seq(Classes), NEW section,
         Admission(records, section).err = "ok", Split(records) = "ok"
  PROVE  /\ Len(records) <= MaxRecords
         /\ Admission(records, section).out = Fresh(records)
         /\ \A i \in DOMAIN records :
              Permitted(records[i], section) /\ records[i] # "long"
<1>1. Len(records) <= MaxRecords
  BY RegionAssumption DEF Split
<1> DEFINE bad == {i \in DOMAIN records : Refusal(records[i], section) # "ok"}
<1>2. bad = {}
  <2> SUFFICES ASSUME bad # {} PROVE FALSE
    OBVIOUS
  <2>1. Refusal(records[Min(bad)], section) = "ok"
    BY DEF Admission
  <2>2. \E m \in bad : \A k \in bad : m <= k
    <3>1. bad \in SUBSET Nat
      OBVIOUS
    <3> HIDE DEF bad
    <3> QED
      BY <3>1, LeastElement
  <2>3. Min(bad) \in bad
    <3> HIDE DEF bad
    <3> QED
      BY <2>2 DEF Min
  <2> QED
    BY <2>1, <2>3
<1>3. ASSUME NEW i \in DOMAIN records
      PROVE  Permitted(records[i], section) /\ records[i] # "long"
  BY <1>2 DEF Refusal
<1>4. Admission(records, section).out = Fresh(records)
  BY <1>2 DEF Admission
<1> QED
  BY <1>1, <1>3, <1>4

LEMMA FreshOfNone ==
  ASSUME NEW records \in Seq(Classes), Fresh(records) = <<>>
  PROVE  records = <<>>
<1>1. DOMAIN Fresh(records) = 1..Len(records)
  BY DEF Fresh
<1>2. DOMAIN <<>> = 1..0
  OBVIOUS
<1>3. Len(records) \in Nat /\ (1..Len(records)) = 1..0
  BY <1>1, <1>2
<1>4. 1 \notin 1..Len(records)
  BY <1>3
<1>5. Len(records) = 0
  BY <1>3, <1>4
<1> QED
  BY <1>5

LEMMA ZeroedIsDead ==
  ASSUME NEW c, Copies(c)
  PROVE  ~AnyLive(Zeroed(c)) /\ Copies(Zeroed(c))
BY DEF Copies, AnyLive, Zeroed

LEMMA DeadIsNotLost ==
  ASSUME NEW c, NEW section, section # "encrypted" \/ ~AnyLive(c)
  PROVE  "encrypted" \notin Lost(c, section)
BY DEF Lost

(* What was copied before a refusal is zeroed. *)
LEMMA AdmissionOut ==
  ASSUME NEW records \in Seq(Classes), NEW section
  PROVE  /\ Admission(records, section).err = "ok" =>
              Copies(Admission(records, section).out)
         /\ Admission(records, section).err # "ok" => ~AnyLive(Admission(records, section).out)
<1> DEFINE bad == {i \in DOMAIN records : Refusal(records[i], section) # "ok"}
<1>1. CASE bad = {}
  <2>1. Admission(records, section) = [err |-> "ok", out |-> Fresh(records)]
    BY <1>1 DEF Admission
  <2>2. Copies(Fresh(records))
    BY DEF Fresh, Copies
  <2> QED
    BY <2>1, <2>2
<1>2. CASE bad # {}
  <2> DEFINE copied == Fresh(SubSeq(records, 1, Min(bad) - 1))
  <2>1. Admission(records, section) = [err |-> Refusal(records[Min(bad)], section), out |-> Wiped(copied)]
    BY <1>2 DEF Admission
  <2>2. \E m \in bad : \A k \in bad : m <= k
    <3>1. bad \in SUBSET Nat
      OBVIOUS
    <3> HIDE DEF bad
    <3> QED
      BY <1>2, <3>1, LeastElement
  <2>3. Min(bad) \in bad
    <3> HIDE DEF bad
    <3> QED
      BY <2>2 DEF Min
  <2>4. ~AnyLive(Wiped(copied))
    <3>1. Min(bad) \in 1..Len(records)
      BY <2>3
    <3>2. SubSeq(records, 1, Min(bad) - 1) \in Seq(Classes)
      <4> HIDE DEF bad
      <4> QED
        BY <3>1
    <3>3. Copies(copied)
      <4> HIDE DEF bad
      <4> QED
        BY <3>2 DEF Fresh, Copies
    <3> HIDE DEF copied
    <3> QED
      BY <3>3, ZeroedIsDead DEF Wiped
  <2> QED
    BY <2>1, <2>3, <2>4
<1> QED
  BY <1>1, <1>2

(* What passes the inspection. *)
LEMMA InspectedIsSound ==
  ASSUME region' \in Regions, Inspection.err = "ok"
  PROVE  /\ Len(region'.public) <= MaxRecords
         /\ \A i \in DOMAIN region'.public : region'.public[i] = "card"
         /\ Inspection.out = Fresh(region'.public) /\ Copies(Inspection.out)
<1>1. region'.public \in Seq(Classes)
  BY RegionType
<1>2. /\ Split(region'.public) = "ok"
      /\ Inspection = Admission(region'.public, "public")
      /\ Admission(region'.public, "public").err = "ok"
      /\ ~\E i \in DOMAIN region'.public : region'.public[i] = "lone"
  BY DEF Inspection
<1>3. /\ Len(region'.public) <= MaxRecords
      /\ Admission(region'.public, "public").out = Fresh(region'.public)
      /\ \A i \in DOMAIN region'.public : Permitted(region'.public[i], "public") /\ region'.public[i] # "long"
  BY <1>1, <1>2, AdmittedIsPermitted
<1>4. Copies(Fresh(region'.public))
  BY <1>1 DEF Copies, Fresh
<1> QED
  BY <1>2, <1>3, <1>4 DEF Permitted, Cards

(* What the opening admits makes the whole payload sound; what it refuses  *)
(* keeps no byte.                                                          *)
LEMMA OpeningIsSound ==
  ASSUME region \in Regions, \A i \in DOMAIN region.public : region.public[i] = "card"
  PROVE  /\ Opening.err = "ok" => Whole /\ Copies(Opening.out)
         /\ Opening.err # "ok" => ~AnyLive(Opening.out)
<1>1. region.secret \in Seq(Classes)
  BY RegionType
<1>2. ~AnyLive(<<>>)
  BY DEF AnyLive
<1>3. CASE Split(region.secret) # "ok" \/ Len(region.public) + Len(region.secret) > MaxRecords
  <2>1. Opening.out = <<>> /\ Opening.err # "ok"
    BY <1>3 DEF Opening
  <2> QED
    BY <2>1, <1>2
<1>4. CASE Split(region.secret) = "ok" /\ ~(Len(region.public) + Len(region.secret) > MaxRecords)
  <2>1. Opening = Admission(region.secret, "encrypted")
    BY <1>4 DEF Opening
  <2>2. Opening.err # "ok" => ~AnyLive(Opening.out)
    BY <2>1, <1>1, AdmissionOut
  <2>3. ASSUME Opening.err = "ok"
        PROVE  Whole /\ Copies(Opening.out)
    <3>1. \A i \in DOMAIN region.secret :
            Permitted(region.secret[i], "encrypted") /\ region.secret[i] # "long"
      BY <2>1, <2>3, <1>1, <1>4, AdmittedIsPermitted
    <3>2. \A i \in DOMAIN region.secret : region.secret[i] \in Cards \cup {"mnemonic", "codex32"}
      BY <3>1 DEF Permitted, SecretClasses
    <3>3. Len(region.public) + Len(region.secret) <= MaxRecords
      <4>1. Len(region.public) \in Nat /\ Len(region.secret) \in Nat /\ MaxRecords \in Nat
        BY <1>1, RegionType, RegionAssumption
      <4>2. \A a, b, m \in Nat : ~(a + b > m) => a + b <= m
        OBVIOUS
      <4> QED
        BY <4>1, <4>2, <1>4
    <3> QED
      BY <2>1, <2>3, <1>1, <3>2, <3>3, AdmissionOut DEF Whole
  <2> QED
    BY <2>2, <2>3
<1> QED
  BY <1>3, <1>4

-----------------------------------------------------------------------------
LEMMA UnlockInit == Init => UnlockInv
BY DEF Init, UnlockInv, RouteInv, LiveInv, SecretInv, PublicIsSound, RightRoute, Decided, At, Before,
       Offering1, Listing, Secrets, Copies, NoRegion

(* The record whose turn it was is gone, however its screens were left.    *)
LEMMA TurnIsWiped ==
  ASSUME Copies(secret), secret' = ZeroAt(secret, Turn)
  PROVE  Copies(secret') /\ Secrets' = {i \in Secrets : i # Turn}
<1> DEFINE z == ZeroAt(secret, Turn)
<1>1. /\ Copies(z) /\ DOMAIN z = DOMAIN secret
      /\ \A i \in DOMAIN secret : z[i].class = secret[i].class /\ (z[i].live <=> secret[i].live /\ i # Turn)
  <2> DEFINE t == Turn
  <2>1. z = ZeroAt(secret, t)
    OBVIOUS
  <2> HIDE DEF t, z
  <2>2. \A i \in DOMAIN secret : secret[i] \in [class : Classes, live : BOOLEAN]
    BY DEF Copies
  <2>3. \A i \in DOMAIN secret : z[i] = [secret[i] EXCEPT !.live = IF i = t THEN FALSE ELSE @]
    BY <2>1, <2>2 DEF ZeroAt
  <2>4. DOMAIN z = DOMAIN secret
    BY <2>1 DEF ZeroAt
  <2> QED
    BY ZenonT(30), <2>2, <2>3, <2>4 DEF Copies, t
<1>2. secret' = z
  OBVIOUS
<1> HIDE DEF z
<1>3. Copies(secret')
  BY <1>1, <1>2 DEF Copies
<1> QED
  BY <1>1, <1>2, <1>3 DEF Secrets

LEMMA IdleKeeps ==
  ASSUME UnlockInv,
         UNCHANGED <<region, pc, after, live, public, secret, stray, guard, left, typed, warned>>
  PROVE  UnlockInv'
<1> USE DEF At
<1>1. RouteInv'
  BY DEF UnlockInv, RouteInv, PublicIsSound, RightRoute, Decided, Sealed, Whole
<1>2. LiveInv'
  BY DEF UnlockInv, LiveInv, Sealed
<1>3. SecretInv'
  BY DEF UnlockInv, SecretInv, Secrets, Turn, Copies
<1> QED
  BY <1>1, <1>2, <1>3 DEF UnlockInv

(* A turn that ends leads to the next one or to the plate list. *)
LEMMA NextSecretKeeps ==
  ASSUME UnlockInv, At(Offering1, {"next"}), NextSecret,
         UNCHANGED <<region, done, public, stray, typed, warned>>
  PROVE  UnlockInv'
<1> USE DEF At, Before, Offering1, Listing, Go
<1>1. RouteInv'
  <2>1. Whole /\ (IF Sealed THEN typed = "right" ELSE warned)
    BY DEF UnlockInv, RouteInv, Decided
  <2>2. Whole' /\ (IF Sealed' THEN typed' = "right" ELSE warned')
    BY <2>1 DEF Whole, Sealed
  <2>3. pc' \in {"offer", "nothing", "list"} /\ region' \in Regions
    BY DEF NextSecret, Offering, ShowPlates, UnlockInv, RouteInv
  <2> QED
    BY <2>2, <2>3 DEF RouteInv, PublicIsSound, RightRoute, Decided
<1>2. live' = {}
  BY DEF NextSecret, UnlockInv, LiveInv
<1>3. LiveInv'
  BY <1>2 DEF NextSecret, Offering, ShowPlates, LiveInv
<1>4. SecretInv'
  <2>1. Copies(secret') /\ Secrets' = {i \in Secrets : i # Turn} /\ Secrets \subseteq left
    BY TurnIsWiped DEF NextSecret, UnlockInv, SecretInv
  <2>2. Copies(public') /\ "encrypted" \notin stray'
    BY DEF UnlockInv, SecretInv, Copies
  <2>3. CASE left \ {Turn} # {}
    BY <2>1, <2>2, <2>3 DEF NextSecret, Offering, SecretInv
  <2>4. CASE left \ {Turn} = {}
    <3>1. Secrets' = {} /\ pc' \in {"nothing", "list"}
      BY <2>1, <2>4 DEF NextSecret, Offering, ShowPlates
    <3> QED
      BY <2>1, <2>2, <3>1 DEF SecretInv
  <2> QED
    BY <2>3, <2>4
<1> QED
  BY <1>1, <1>3, <1>4 DEF UnlockInv

LEMMA UnlockStep == UnlockInv /\ [Next]_vars => UnlockInv'
<1> SUFFICES ASSUME UnlockInv, [Next]_vars
             PROVE  UnlockInv'
  OBVIOUS
<1> USE DEF At, Before, Offering1, Listing
<1>1. CASE Enter
  <2>1. region' \in Regions /\ secret' = <<>> /\ live' \subseteq {"blob"} /\ "encrypted" \notin stray'
    <3>1. "encrypted" \notin stray /\ "encrypted" \notin Lost(Inspection.out, "public")
      BY DeadIsNotLost DEF UnlockInv, SecretInv
    <3> QED
      BY <1>1, <3>1 DEF Enter, UnlockInv, LiveInv
  <2>2. Copies(public') /\ Copies(secret') /\ Secrets' = {}
    <3>1. Copies(<<>>)
      BY DEF Copies
    <3>2. public' = <<>> \/ (Inspection.err = "ok" /\ public' = Inspection.out)
      BY <1>1 DEF Enter
    <3>3. Copies(public')
      BY <2>1, <3>1, <3>2, InspectedIsSound
    <3> QED
      BY <2>1, <3>1, <3>3 DEF Secrets
  <2>3. RouteInv'
    <3>1. CASE pc' = "error" /\ after' = "out"
      BY <2>1, <3>1 DEF RouteInv, PublicIsSound, RightRoute, Decided
    <3>2. CASE pc' \in {"hash", "ask"} /\ Inspection.err = "ok" /\ (public' = <<>> => pc' = "ask")
               /\ public' = Inspection.out /\ (pc' = "ask" => public' = <<>>)
      <4>1. pc' = "ask" => region'.secret # <<>>
        <5>1. pc' = "ask" => region'.public = <<>>
          BY <2>1, <3>2, RegionType, InspectedIsSound, FreshOfNone
        <5> QED
          BY <5>1, <2>1, RegionType
      <4> QED
        BY <2>1, <3>2, <4>1, InspectedIsSound DEF RouteInv, PublicIsSound, RightRoute, Decided, Sealed
    <3> QED
      BY <1>1, <3>1, <3>2 DEF Enter, Error, Go
  <2>4. LiveInv'
    BY <1>1, <2>1 DEF Enter, LiveInv, Error, Go
  <2>5. SecretInv'
    BY <1>1, <2>1, <2>2 DEF Enter, SecretInv, Error, Go
  <2> QED
    BY <2>3, <2>4, <2>5 DEF UnlockInv
<1> USE DEF UnlockInv, RouteInv, PublicIsSound, RightRoute, Decided, LiveInv, SecretInv, Go, Error
<1>2. CASE HashSeen
  BY <1>2 DEF HashSeen, Sealed, Secrets
<1>3. CASE Asked
  BY <1>3 DEF Asked, AskWords, Sealed, Secrets
<1>4. CASE TypeWords
  BY <1>4 DEF TypeWords, Answers, Sealed, Secrets
<1>5. CASE Derive
  BY <1>5 DEF Derive, Answers, Sealed, Secrets
<1>6. CASE Open
  BY <1>6 DEF Open, Sealed, Secrets
<1>7. CASE Admit
  <2>1. region' = region /\ region \in Regions /\ Sealed /\ typed' = "right" /\ Sealed'
        /\ \A i \in DOMAIN region.public : region.public[i] = "card"
    BY <1>7 DEF Admit, Sealed
  <2>2. CASE Opening.err = "ok"
    <3>1. Whole' /\ Copies(secret') /\ live' = {}
      BY <1>7, <2>1, <2>2, OpeningIsSound DEF Admit, Whole
    <3>2. Secrets' \subseteq SecretsOf(secret')
      BY DEF Secrets, SecretsOf
    <3>3. left' = SecretsOf(secret') /\ Offering(secret', SecretsOf(secret')) /\ stray' = stray /\ public' = public
      BY <1>7, <2>2 DEF Admit, Offering
    <3>4. Copies(public')
      BY <3>3 DEF Copies
    <3> HIDE DEF UnlockInv, RouteInv, PublicIsSound, RightRoute, Decided, LiveInv, SecretInv
    <3>5. "encrypted" \notin stray'
      BY <3>3 DEF UnlockInv, SecretInv
    <3>6. CASE SecretsOf(secret') # {}
      <4>1. pc' = "offer" /\ guard' = "secret"
        BY <3>3, <3>6 DEF Offering
      <4> QED
        BY <2>1, <3>1, <3>2, <3>3, <3>4, <3>5, <4>1
           DEF UnlockInv, RouteInv, PublicIsSound, RightRoute, Decided, LiveInv, SecretInv
    <3>7. CASE SecretsOf(secret') = {}
      <4>1. pc' \in {"nothing", "list"}
        BY <3>3, <3>7 DEF Offering, ShowPlates
      <4> QED
        BY <2>1, <3>1, <3>2, <3>4, <3>5, <3>7, <4>1
           DEF UnlockInv, RouteInv, PublicIsSound, RightRoute, Decided, LiveInv, SecretInv
    <3> QED
      BY <3>6, <3>7
  <2>3. CASE Opening.err # "ok"
    <3>1. "encrypted" \notin Lost(Opening.out, "encrypted") /\ "encrypted" \notin stray
      BY <2>1, <2>3, OpeningIsSound, DeadIsNotLost
    <3>2. /\ pc' = "error" /\ after' = "out" /\ live' = live \ {"plaintext", "key", "pass", "words"}
          /\ secret' = <<>> /\ public' = public /\ "encrypted" \notin stray'
      BY <1>7, <2>3, <3>1 DEF Admit
    <3>3. Copies(secret') /\ Secrets' = {} /\ Copies(public')
      BY <3>2 DEF Copies, Secrets
    <3> QED
      BY <1>7, <2>1, <3>2, <3>3 DEF Admit
  <2> QED
    BY <2>2, <2>3
<1>8. CASE Offer
  <2>1. CASE NextSecret /\ UNCHANGED <<region, done, public, stray, typed, warned>>
    BY <1>8, <2>1, NextSecretKeeps DEF Offer
  <2>2. CASE secret' = ZeroAt(secret, Turn) /\ pc' = "engrave" /\ UNCHANGED <<live, guard, left, after>>
    <3>1. Copies(secret') /\ Secrets' = {i \in Secrets : i # Turn} /\ Turn' = Turn
      BY <2>2, TurnIsWiped DEF Turn
    <3> QED
      BY <1>8, <2>2, <3>1 DEF Offer, Sealed, Whole
  <2>3. CASE UNCHANGED <<secret, left, guard>> /\ (pc' = "seed" \/ (pc' = "error" /\ after' = "next"))
             /\ live' \subseteq live \cup {"parsed"}
    BY <1>8, <2>3 DEF Offer, Sealed, Whole, Secrets, Copies
  <2> QED
    BY <1>8, <2>1, <2>2, <2>3 DEF Offer
<1>9. CASE Seed
  <2>1. CASE NextSecret /\ UNCHANGED <<region, done, public, stray, typed, warned>>
    BY <1>9, <2>1, NextSecretKeeps DEF Seed
  <2>2. CASE secret' = ZeroAt(secret, Turn) /\ pc' = "engrave" /\ live' = live \ {"parsed"}
             /\ UNCHANGED <<guard, left, after>>
    <3>1. Copies(secret') /\ Secrets' = {i \in Secrets : i # Turn} /\ Turn' = Turn
      BY <2>2, TurnIsWiped DEF Turn
    <3> QED
      BY <1>9, <2>2, <3>1 DEF Seed, Sealed, Whole
  <2>3. CASE UNCHANGED <<secret, live, left, guard>> /\ pc' = "error" /\ after' = "next"
    BY <1>9, <2>3 DEF Seed, Sealed, Whole, Secrets, Copies
  <2> QED
    BY <1>9, <2>1, <2>2, <2>3 DEF Seed
<1>10. CASE Engrave
  BY <1>10, NextSecretKeeps DEF Engrave
<1>11. CASE Warn
  <2>1. Secrets = {} /\ Secrets' = {} /\ Copies(secret') /\ Copies(public')
    BY <1>11 DEF Warn, Secrets, Copies
  <2>2. CASE pc' = "out"
    BY <1>11, <2>1, <2>2 DEF Warn
  <2>3. CASE warned' /\ pc' \in {"nothing", "list"}
    <3>1. ~Sealed /\ ~Sealed' /\ region' = region
      BY <1>11 DEF Warn, Sealed
    <3>2. Whole'
      <4>1. region.secret = <<>> /\ region.public \in Seq(Classes)
        BY <1>11, <3>1, RegionType DEF Warn, Sealed
      <4>2. DOMAIN region.secret = {} /\ Len(region.secret) = 0 /\ Len(region.public) \in Nat
        BY <4>1
      <4> QED
        BY <1>11, <3>1, <4>2 DEF Warn, Whole
    <3> QED
      BY <1>11, <2>1, <2>3, <3>1, <3>2 DEF Warn
  <2> QED
    BY <1>11, <2>2, <2>3 DEF Warn, ShowPlates
<1>12. CASE List
  BY <1>12 DEF List, Answers, Sealed, Secrets, Whole
<1>13. CASE Variant
  BY <1>13 DEF Variant, Answers, Sealed, Secrets, Whole
<1>14. CASE Cut
  BY <1>14 DEF Cut, Answers, Sealed, Secrets, Whole
<1>15. CASE NothingSeen
  BY <1>15 DEF NothingSeen, Sealed, Secrets
<1>16. CASE ErrorSeen
  <2>1. CASE after = "words"
    BY <1>16, <2>1 DEF ErrorSeen, AskWords, Sealed, Secrets
  <2>2. CASE after = "next"
    <3>1. NextSecret
      BY <1>16, <2>2 DEF ErrorSeen
    <3> QED
      BY <1>16, <2>2, <3>1, NextSecretKeeps DEF ErrorSeen
  <2>3. CASE after \in {"out", "list"}
    BY <1>16, <2>3 DEF ErrorSeen, Sealed, Secrets, Whole, Copies
  <2> QED
    BY <1>16, <2>1, <2>2, <2>3 DEF ErrorSeen
<1>17. CASE Leave
  <2>1. /\ "encrypted" \notin Lost(PayloadWipe.public, "public")
        /\ "encrypted" \notin Lost(PayloadWipe.secret, "encrypted")
    BY ZeroedIsDead, DeadIsNotLost DEF PayloadWipe
  <2>2. Copies(<<>>)
    BY DEF Copies
  <2> QED
    BY <1>17, <2>1, <2>2 DEF Leave, Secrets
<1>18. CASE Expire
  <2>1. UNCHANGED <<region, pc, after, live, public, secret, stray, guard, left, typed, warned>>
    BY <1>18 DEF Expire
  <2> QED
    BY <2>1, IdleKeeps
<1>19. CASE UNCHANGED vars
  BY <1>19, IdleKeeps DEF vars
<1> QED
  BY <1>1, <1>2, <1>3, <1>4, <1>5, <1>6, <1>7, <1>8, <1>9, <1>10, <1>11, <1>12, <1>13, <1>14, <1>15,
     <1>16, <1>17, <1>18, <1>19 DEF Next, Running

-----------------------------------------------------------------------------
LEMMA UnlockAlways == Spec => []UnlockInv
<1>1. UnlockInv /\ [Next]_vars => UnlockInv'
  BY UnlockStep
<1> QED
  BY UnlockInit, <1>1, PTL DEF Spec

(* For every region and cap: nothing of a payload is offered unless all of *)
(* it was admitted, and it was opened or confirmed (unlockFlow).           *)
THEOREM OnlyWholeAlways == Spec => []OnlyWholeOffered
<1>1. UnlockInv => OnlyWholeOffered
  BY DEF UnlockInv, RouteInv, Decided, At, Offering1, Listing, OnlyWholeOffered
<1> QED
  BY <1>1, UnlockAlways, PTL

(* For every region and cap, however the program is left and however many  *)
(* times it is entered: no buffer the program or seal/ undertakes to zero  *)
(* keeps its bytes after it, every screen over one stands under the wipe   *)
(* guard, and the record and the parsed words of a secret are zero when    *)
(* its plate is cut (unlockFlow and the deferred wipes).                   *)
THEOREM BuffersAlwaysConfined == Spec => []BuffersConfined
<1>1. UnlockInv => NothingLeft
  BY DEF UnlockInv, LiveInv, SecretInv, NothingLeft
<1>2. UnlockInv => Guarded
  BY DEF UnlockInv, RouteInv, LiveInv, SecretInv, At, Before, Offering1, Listing, Guarded, Screens, Secrets
<1>3. UnlockInv => GoneBeforeCut
  BY DEF UnlockInv, LiveInv, SecretInv, At, Before, Offering1, Listing, GoneBeforeCut
<1> QED
  BY <1>1, <1>2, <1>3, UnlockAlways, PTL DEF BuffersConfined

=============================================================================
