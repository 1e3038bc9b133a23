------------------------------- MODULE Composer -------------------------------
(***************************************************************************)
(* The wallet policy composer (gui/composer_*.go): the operator builds a   *)
(* list of spend paths, seats keys into its slots, reviews the mapping,    *)
(* consents and cuts.  Every screen can be left backwards, and seats are   *)
(* kept wherever the numbering of the slots does not move.                 *)
(*                                                                         *)
(* Kept of a path: its number of keys, whether it has a time lock, and its *)
(* digest.  Thresholds, the order of keys and the values of locks number   *)
(* no slot.  Slots count from 1 (the code's @0).  A path carries an id of  *)
(* its own, which the code does not have: it says which path a seat was    *)
(* chosen for.  An origin is the script and the account of the default     *)
(* derivation; the material of a key is what its xpub binds.               *)
(***************************************************************************)
EXTENDS Naturals, Sequences, FiniteSets, SequencesExt, FiniteSetsExt

CONSTANTS Wrappers,     \* scripts the operator may pick, among "tr", "wsh", "shwsh", "sh"
          Presets,      \* sequences of paths offered under "Start from?"
          Hashes,       \* digests that can be picked, typed or derived
          Payloads,     \* sequences of key records and cards a payload may bring
          Seeds,        \* master fingerprints of the seeds that can be typed
          MaxPaths, MaxKeys, MaxSlots,   \* md.ComposeMaxPaths, ...KeysPerPath, ...Slots
          MaxTyped,     \* bound on the seeds typed
          MaxEdits      \* bound on the edits of the list

NoHash == "no hash"
NoFp == "no fingerprint"
Legacy == {"shwsh", "sh"}

Paths == [id : Nat, n : 0..MaxKeys, lock : BOOLEAN, hash : Hashes \cup {NoHash}]

ASSUME ComposerAssumption ==
  /\ Wrappers \subseteq {"tr", "wsh", "shwsh", "sh"}
  /\ Presets \subseteq Seq(Paths) /\ \A p \in Presets : Len(p) <= MaxPaths
  /\ NoHash \notin Hashes /\ NoFp \notin Seeds
  /\ \A p \in Payloads : /\ p \in Seq({p[r] : r \in 1..Len(p)})
                          /\ \A r \in 1..Len(p) : p[r].kind \in {"key", "card"}
  /\ MaxPaths \in Nat /\ MaxKeys \in Nat /\ MaxSlots \in Nat
  /\ MaxTyped \in Nat /\ MaxEdits \in Nat

VARIABLES
  pc,           \* the screen
  list,         \* [wrapper, paths]: composerState.list
  unspendable,  \* the kind of key path, "nums" or "liana"
  held,         \* digests whose preimage is held: hashlockHeld
  sources,      \* keys, cards and seeds that can be seated
  used,         \* the sources with their flag "used"
  assigned,     \* the seat of each slot; src = 0 is unseated
  at,           \* the slot composerSeatFlow asks for, past the end when done; else 1
  shown, seen,  \* id of the last template shown; last origin shown for each slot
  confirmed,    \* the last step was an edit for which the guard was confirmed
  plates,       \* preimage plates accepted and not yet cut
  edits

vars == <<pc, list, unspendable, held, sources, used, assigned, at, shown, seen,
          confirmed, plates, edits>>

Unseated == [src |-> 0, fp |-> NoFp, origin |-> <<>>, material |-> <<>>, account |-> 0,
             serves |-> {}]

-----------------------------------------------------------------------------
(* What the numbering depends on: md.ValidatePathList and md.numberSlots.  *)
(* Form is the list without the ids and values.                            *)
Form(l) == [i \in DOMAIN l.paths |->
              [n |-> l.paths[i].n, lock |-> l.paths[i].lock, hash |-> l.paths[i].hash # NoHash]]

Counts(f) == [i \in DOMAIN f |-> f[i].n]
Slots(f) == UNION {{i} \X (1..f[i].n) : i \in DOMAIN f}
SlotCount(l) == Cardinality(Slots(Form(l)))

Bare(p) == p.n > 0 /\ ~p.lock /\ ~p.hash

Composes(w, f) ==
  /\ Len(f) \in 1..MaxPaths
  /\ \A i \in DOMAIN f : /\ f[i].n <= MaxKeys
                         /\ f[i].n = 0 => f[i].hash /\ w # "tr"
  /\ \E i \in DOMAIN f : f[i].n > 0
  /\ Cardinality(Slots(f)) <= MaxSlots
  /\ w \in Legacy => Len(f) = 1 /\ Bare(f[1]) /\ f[1].n >= 2
  /\ \A i, j \in DOMAIN f : f[i].n = 0 /\ f[j].n = 0 => i = j

(* Under tr the first path of one bare key becomes the key path, and its   *)
(* slot comes first.                                                       *)
Singles(w, f) == {i \in DOMAIN f : w = "tr" /\ f[i].n = 1 /\ Bare(f[i])}
KeyPathOf(w, f) == IF Singles(w, f) = {} THEN 0 ELSE Min(Singles(w, f))

(* The number of each slot: the key path first, then as listed. *)
Numbering(w, f) ==
  LET key == KeyPathOf(w, f)
      slots == Slots(f)
      rank(path) == IF path = key THEN 0 ELSE path
  IN [x \in slots |-> x[2] + Cardinality({y \in slots : rank(y[1]) < rank(x[1])})]

CountsOnly(w, f) == <<w, Counts(f), <<>>>>
SignatureOf(w, f) == <<w, Counts(f), IF Composes(w, f) THEN <<Numbering(w, f)>> ELSE <<>>>>
ShapeSignature(l) == SignatureOf(l.wrapper, Form(l))

Valid(l) == Composes(l.wrapper, Form(l))

(* The path, by its id, and the place in it that each slot spends on. *)
Serves(l) ==
  LET number == Numbering(l.wrapper, Form(l))
  IN [i \in 1..SlotCount(l) |-> {<<l.paths[x[1]].id, x[2]>> : x \in {y \in DOMAIN number : number[y] = i}}]

-----------------------------------------------------------------------------
(* Edits of the list, each with the discard that follows it.               *)
Seated(i) == assigned[i].src # 0
AnySeat == \E i \in DOMAIN assigned : Seated(i)

Empty(l) == [i \in 1..SlotCount(l) |-> Unseated]

(* composerApplyShapeEdit, after the edit. *)
ApplyShapeEdit(next) ==
  /\ list' = next
  /\ IF ShapeSignature(next) = ShapeSignature(list)
       THEN UNCHANGED <<assigned, used>>
       ELSE assigned' = Empty(next) /\ used' = {}

(* Every edit leaves the rest alone.  The guard, when asked, is confirmed: *)
(* declining it, and an edit given up half way, change nothing.            *)
Editing == pc = "paths" /\ edits < MaxEdits
Edited(asked) ==
  /\ <<list', held'>> # <<list, held>>
  /\ edits' = edits + 1
  /\ confirmed' = (asked /\ AnySeat)
  /\ UNCHANGED <<unspendable, sources, at, shown, seen, plates>>

WithLock(l, i, lock) == [l EXCEPT !.paths[i].lock = lock]
WithHash(l, i, hash) == [l EXCEPT !.paths[i].hash = hash]

(* composerEditCanRenumber: ask the codec with the field cleared and set.  *)
LockAdded(l, i) == ShapeSignature(l) # ShapeSignature(WithLock(l, i, TRUE))
LockCanRenumber(l, i) == ShapeSignature(WithLock(l, i, FALSE)) # ShapeSignature(WithLock(l, i, TRUE))
HashCanRenumber(l, i) ==
  \E h \in Hashes : ShapeSignature(WithHash(l, i, NoHash)) # ShapeSignature(WithHash(l, i, h))

(* Presets keep to the first MaxPaths ids. *)
FreshId == MaxPaths + 1 + edits

(* Numbers of keys composerKeysEdit offers for path i of a list.           *)
KeyCounts(l, i) ==
  LET others == SlotCount([l EXCEPT !.paths[i].n = 0])
  IN {n \in 1..MaxKeys : others + n <= MaxSlots /\ (l.wrapper \in Legacy => n >= 2)}

KeysEdit(i) ==
  /\ \E n \in KeyCounts(list, i) : ApplyShapeEdit([list EXCEPT !.paths[i].n = n])
  /\ UNCHANGED <<pc, held>> /\ Edited(TRUE)

LockEdit(i) ==
  /\ \E lock \in BOOLEAN : ApplyShapeEdit(WithLock(list, i, lock))
  /\ UNCHANGED <<pc, held>> /\ Edited(LockCanRenumber(list, i))

(* A digest comes from the payload, from the keyboard, or with its         *)
(* preimage from a phrase or a record; then the preimage is held.          *)
TakeHash(i, hash) ==
  /\ ApplyShapeEdit(WithHash(list, i, hash))
  /\ held' \in IF hash = NoHash THEN {held} ELSE {held, held \cup {hash}}

HashEdit(i) ==
  /\ \E hash \in Hashes \cup {NoHash} : TakeHash(i, hash)
  /\ UNCHANGED pc /\ Edited(HashCanRenumber(list, i))

RemovePath(i) ==
  /\ ApplyShapeEdit([list EXCEPT !.paths = RemoveAt(list.paths, i)])
  /\ UNCHANGED <<pc, held>> /\ Edited(TRUE)

Swapped(i) == [list EXCEPT !.paths[i - 1] = list.paths[i], !.paths[i] = list.paths[i - 1]]
MoveKeeping(i) == i > 1 /\ ApplyShapeEdit(Swapped(i)) /\ UNCHANGED <<pc, held>> /\ Edited(TRUE)
MoveUp(i) ==
  /\ i > 1
  /\ list' = Swapped(i)
  /\ assigned' = [s \in DOMAIN assigned |-> Unseated] /\ used' = {}
  /\ UNCHANGED <<pc, held>> /\ Edited(TRUE)

Room == Len(list.paths) < MaxPaths
AddPath ==
  /\ Room
  /\ LET path(n, h) == [id |-> FreshId, n |-> n, lock |-> FALSE, hash |-> h]
         grown(n, h) == [list EXCEPT !.paths = Append(list.paths, path(n, h))]
         new == Len(list.paths) + 1
     IN \/ /\ \E n \in KeyCounts(grown(0, NoHash), new) : ApplyShapeEdit(grown(n, NoHash))
           /\ UNCHANGED held
        \/ /\ list.wrapper # "tr"
           /\ \A i \in DOMAIN list.paths : list.paths[i].n > 0 \/ list.paths[i].hash = NoHash
           /\ \E h \in Hashes : /\ ApplyShapeEdit(grown(0, h))
                                /\ held' \in {held, held \cup {h}}
  /\ UNCHANGED pc /\ Edited(TRUE)

ChangeScript ==
  /\ \E w \in Wrappers : ApplyShapeEdit([list EXCEPT !.wrapper = w])
  /\ UNCHANGED <<pc, held>> /\ Edited(TRUE)

-----------------------------------------------------------------------------
(* Script and starting point (composerStartStep); declining the guard      *)
(* leaves the list alone.                                                  *)
Init ==
  /\ pc = "start"
  /\ list = [wrapper |-> "tr", paths |-> <<>>]
  /\ unspendable = "nums" /\ held = {}
  /\ sources \in Payloads /\ used = {}
  /\ assigned = <<>> /\ at = 1
  /\ shown = <<>> /\ seen = <<>>
  /\ confirmed = FALSE /\ plates = {} /\ edits = 0

(* A preset path stands where the path of its place stood. *)
Renamed(paths) ==
  [i \in DOMAIN paths |-> [paths[i] EXCEPT !.id =
     IF Len(paths) = Len(list.paths) THEN list.paths[i].id ELSE i]]

StartFrom(next) ==
  /\ ApplyShapeEdit(next)
  /\ confirmed' = (ShapeSignature(next) # ShapeSignature(list) /\ AnySeat)

StartStep ==
  /\ pc = "start" /\ edits < MaxEdits
  /\ \E w \in Wrappers, paths \in Presets \cup {list.paths} :
       /\ w \in Legacy => paths = list.paths \/ (Len(paths) = 1 /\ paths[1].n > 1)
       /\ StartFrom([wrapper |-> w,
                     paths |-> IF paths = list.paths THEN paths ELSE Renamed(paths)])
  /\ pc' = "paths" /\ edits' = edits + 1
  /\ UNCHANGED <<unspendable, held, sources, at, shown, seen, plates>>

StartDeclined ==
  /\ pc = "start" /\ AnySeat
  /\ pc' = "paths" /\ confirmed' = FALSE
  /\ UNCHANGED <<list, unspendable, held, sources, used, assigned, at, shown, seen,
                 plates, edits>>

(* composerFlowExit wipes the preimages held. *)
Exit(screen) ==
  /\ pc = screen
  /\ pc' = "exit" /\ held' = {} /\ confirmed' = FALSE
  /\ UNCHANGED <<list, unspendable, sources, used, assigned, at, shown, seen,
                 plates, edits>>

(* A screen that changes nothing but where the operator is. *)
Go(from, to) ==
  /\ pc = from /\ pc' = to /\ confirmed' = FALSE /\ at' = 1
  /\ UNCHANGED <<list, unspendable, held, sources, used, assigned, shown, seen, plates, edits>>

Done == Go("paths", "keypath") /\ Valid(list)

-----------------------------------------------------------------------------
(* The unspendable key and the template of each pass.                      *)

(* Two seats of one origin that no two fingerprints tell apart:            *)
(* composerInvariantViolation, resolveOrigins and the self check.          *)
OriginClash ==
  \E i, j \in DOMAIN assigned :
    /\ i # j /\ Seated(i) /\ Seated(j)
    /\ assigned[i].origin = assigned[j].origin
    /\ assigned[i].fp = assigned[j].fp \/ NoFp \in {assigned[i].fp, assigned[j].fp}

(* composerDuplicateXpub, and md.Bind. *)
SameMaterial ==
  \E i, j \in DOMAIN assigned :
    i # j /\ Seated(i) /\ Seated(j) /\ assigned[i].material = assigned[j].material

HasKeyPath == Singles(list.wrapper, Form(list)) # {}

(* composerUnspendableFires; Liana's model class is an outside fact. *)
StaleKind(kind) == kind
KeptKind(kind) == "nums"

KeyPath ==
  /\ pc = "keypath"
  /\ \E inClass \in BOOLEAN :
       IF list.wrapper = "tr" /\ ~OriginClash /\ ~HasKeyPath /\ inClass
         THEN \/ unspendable' \in {"nums", "liana"} /\ pc' = "template"
              \/ UNCHANGED unspendable /\ pc' = "paths"
         ELSE unspendable' = KeptKind(unspendable) /\ pc' = "template"
  /\ confirmed' = FALSE
  /\ UNCHANGED <<list, held, sources, used, assigned, at, shown, seen, plates, edits>>

ScriptType(w) == CASE w = "shwsh" -> 1 [] w = "tr" -> 3 [] OTHER -> 2
DefaultOrigin(account) == <<ScriptType(list.wrapper), account>>

(* resolveOrigins: the unseated slots take, in order, the default accounts *)
(* that no seat declares.                                                  *)
Taken == {assigned[i].origin : i \in {k \in DOMAIN assigned : Seated(k)}}
Before(i) == Cardinality({k \in 1..(i - 1) : ~Seated(k)})
FreeAccount(i) ==
  CHOOSE a \in 0..(2 * Len(assigned)) :
    /\ DefaultOrigin(a) \notin Taken
    /\ Cardinality({b \in 0..(a - 1) : DefaultOrigin(b) \notin Taken}) = Before(i)

(* composerAdvertisedOrigins: the slots the template has no fingerprint of. *)
AdvertisedOrigins ==
  [i \in {k \in DOMAIN assigned : assigned[k].fp = NoFp} |->
     IF Seated(i) THEN assigned[i].origin ELSE DefaultOrigin(FreeAccount(i))]

(* The id of a template leaves the origins out. *)
TemplateId == <<list.wrapper, [i \in DOMAIN list.paths |->
                 <<list.paths[i].n, list.paths[i].lock, list.paths[i].hash>>], unspendable>>

StubDelta(now) ==
  IF shown = <<>> THEN "none"
  ELSE IF shown # TemplateId THEN "id"
  ELSE IF \E i \in DOMAIN now \cap DOMAIN seen : now[i] # seen[i] THEN "origins"
  ELSE "none"

LastDrawOnly(now) == now
Remember(now) == [i \in DOMAIN now \cup DOMAIN seen |-> IF i \in DOMAIN now THEN now[i] ELSE seen[i]]

Template ==
  /\ pc = "template" /\ ~OriginClash
  /\ seen' = Remember(AdvertisedOrigins) /\ shown' = TemplateId
  /\ pc' \in {"seating", "paths"} /\ confirmed' = FALSE
  /\ UNCHANGED <<list, unspendable, held, sources, used, assigned, at, plates, edits>>

TemplateRefused == Go("template", "paths") /\ OriginClash

-----------------------------------------------------------------------------
(* Seating: composerSeatingStep and composerSeatFlow.                      *)
Typing == Cardinality({src \in DOMAIN sources : sources[src].kind = "seed"}) < MaxTyped
Seed(fp) == [kind |-> "seed", fp |-> fp, origin |-> <<>>, material |-> <<>>]
TypeSeed == \E fp \in Seeds : sources' = Append(sources, Seed(fp))

(* The screen asks for the first unseated slot of those from i on. *)
SeatFlow(seats, i) ==
  /\ at' \in i..(SlotCount(list) + 1)
  /\ \A k \in i..(at' - 1) : seats[k].src # 0
  /\ at' \in DOMAIN seats => seats[at'].src = 0
  /\ pc' = "seat"

Keyless == sources = <<>> /\ Go("seating", "policy")

StartSeating ==
  /\ pc = "seating"
  /\ IF sources = <<>> THEN Typing /\ TypeSeed ELSE UNCHANGED sources
  /\ SeatFlow(assigned, 1) /\ confirmed' = FALSE
  /\ UNCHANGED <<list, unspendable, held, used, assigned, shown, seen, plates, edits>>

SeatingBack == sources = <<>> /\ Go("seating", "paths")

(* composerSeedAccountFor: how many earlier slots the same master fills. *)
IsSeedOf(i, fp) == Seated(i) /\ sources[assigned[i].src].kind = "seed" /\ sources[assigned[i].src].fp = fp
SeedAccountFor(slot, fp) == Cardinality({i \in 1..(slot - 1) : IsSeedOf(i, fp)})

SeedSeat(slot, src) ==
  LET fp == sources[src].fp
      account == SeedAccountFor(slot, fp)
      origin == DefaultOrigin(account)
  IN [src |-> src, fp |-> fp, origin |-> origin, material |-> <<fp, origin>>,
      account |-> account, serves |-> Serves(list)[slot]]

RecordSeat(slot, src) ==
  LET r == sources[src]
  IN [src |-> src, fp |-> r.fp, origin |-> r.origin, material |-> r.material,
      account |-> 0, serves |-> Serves(list)[slot]]

Asking == pc = "seat" /\ at \in DOMAIN assigned
TakesUsed(src) == IF sources[src].kind = "seed" THEN used ELSE used \cup {src}

Seat(src) ==
  /\ Asking /\ src \notin used
  /\ assigned' = [assigned EXCEPT ![at] = IF sources[src].kind = "seed" THEN SeedSeat(at, src)
                                                                       ELSE RecordSeat(at, src)]
  /\ used' = TakesUsed(src)
  /\ SeatFlow(assigned', at + 1) /\ confirmed' = FALSE
  /\ UNCHANGED <<list, unspendable, held, sources, shown, seen, plates, edits>>

TypeASeed ==
  /\ Asking /\ Typing /\ TypeSeed /\ confirmed' = FALSE
  /\ UNCHANGED <<pc, list, unspendable, held, used, assigned, at, shown, seen, plates, edits>>

LeaveUnseated ==
  /\ Asking
  /\ SeatFlow(assigned, at + 1) /\ confirmed' = FALSE
  /\ UNCHANGED <<list, unspendable, held, sources, used, assigned, shown, seen, plates, edits>>

ReleaseKeepsUsed(i) ==
  assigned' = [assigned EXCEPT ![i] = Unseated] /\ UNCHANGED used
ReleaseSeat(i) ==
  /\ assigned' = [assigned EXCEPT ![i] = Unseated]
  /\ used' = used \ {assigned[i].src}

SeatBack ==
  /\ Asking /\ at > 1
  /\ ReleaseSeat(at - 1)
  /\ at' = at - 1 /\ confirmed' = FALSE
  /\ UNCHANGED <<pc, list, unspendable, held, sources, shown, seen, plates, edits>>

SeatLeave == Asking /\ at = 1 /\ Go("seat", "paths")

Complete == \A i \in DOMAIN assigned : Seated(i)
AllAsked == at \notin DOMAIN assigned

SeatingEnds == Go("seat", "review") /\ AllAsked
Shortfall == Go("seat", "paths") /\ AllAsked /\ ~Complete

LastSeat(i) == Seated(i) /\ \A k \in DOMAIN assigned : k > i => ~Seated(k)

(* The mapping refused by the review, or left backwards: the last seat is  *)
(* released and the slots are asked for again.                             *)
ReviewBack ==
  /\ pc = "review"
  /\ \/ ~AnySeat /\ pc' = "paths" /\ UNCHANGED <<assigned, used, at>>
     \/ \E i \in DOMAIN assigned : LastSeat(i) /\ ReleaseSeat(i) /\ SeatFlow(assigned', 1)
  /\ confirmed' = FALSE
  /\ UNCHANGED <<list, unspendable, held, sources, shown, seen, plates, edits>>

ReviewAnything == Go("review", "policy")
ReviewPasses == Go("review", "policy") /\ ~OriginClash /\ ~SameMaterial

-----------------------------------------------------------------------------
(* The policy with its keys, consent, and the plates.                      *)
PolicyBack == Go("policy", "paths") /\ Complete
PolicyForward == Go("policy", "consent")

(* composerSelfCheck, after the decoding: the key path and the origins. *)
SelfCheck ==
  /\ ~OriginClash
  /\ unspendable = "liana" => list.wrapper = "tr" /\ ~HasKeyPath

Consent == Go("consent", "engrave") /\ SelfCheck
ConsentBack == Go("consent", "paths")

(* composerPreimagePlateStep: a plate is offered for each preimage held    *)
(* whose digest is on a path.                                              *)
HashesOf(l) == {l.paths[i].hash : i \in DOMAIN l.paths} \ {NoHash}
EveryHeld == held
Offered == held \cap HashesOf(list)

PickPlates ==
  /\ pc = "engrave" /\ pc' = "cut"
  /\ plates' \in SUBSET Offered /\ confirmed' = FALSE
  /\ UNCHANGED <<list, unspendable, held, sources, used, assigned, at, shown, seen, edits>>

EngraveBack == Go("engrave", "paths")

(* The preimage plates come first. *)
CutPreimage ==
  /\ pc = "cut"
  /\ \E h \in plates : plates' = plates \ {h}
  /\ confirmed' = FALSE
  /\ UNCHANGED <<pc, list, unspendable, held, sources, used, assigned, at, shown, seen, edits>>

AbortCut ==
  /\ pc = "cut" /\ pc' = "paths"
  /\ plates' = {} /\ confirmed' = FALSE
  /\ UNCHANGED <<list, unspendable, held, sources, used, assigned, at, shown, seen, edits>>

CutPolicy == plates = {} /\ Exit("cut")

-----------------------------------------------------------------------------
PathEdit == \E i \in DOMAIN list.paths :
              KeysEdit(i) \/ LockEdit(i) \/ HashEdit(i) \/ RemovePath(i) \/ MoveUp(i)
ShapeFlow == (Editing /\ (PathEdit \/ AddPath \/ ChangeScript)) \/ Done \/ Go("paths", "start")
Start == StartStep \/ StartDeclined \/ Exit("start")
EachPass == KeyPath \/ Template \/ TemplateRefused
Seating == \/ Keyless \/ StartSeating \/ SeatingBack
           \/ \E src \in DOMAIN sources : Seat(src)
           \/ TypeASeed \/ LeaveUnseated \/ SeatBack \/ SeatLeave \/ SeatingEnds \/ Shortfall
Review == ReviewBack \/ ReviewPasses
Engrave == \/ PolicyBack \/ PolicyForward \/ Consent \/ ConsentBack
           \/ PickPlates \/ EngraveBack \/ CutPreimage \/ AbortCut \/ CutPolicy

Next == Start \/ ShapeFlow \/ EachPass \/ Seating \/ Review \/ Engrave
Spec == Init /\ [][Next]_vars

-----------------------------------------------------------------------------
(* Seats survive every edit that leaves the numbering alone, so each must  *)
(* still belong to the key of the path it was chosen for, and none may     *)
(* outlive the policy it belongs to.                                       *)
(* Code: composerShapeSignature and the edits of composerPathEdit.         *)
SeatsFit ==
  /\ DOMAIN assigned = 1..SlotCount(list)
  /\ AnySeat => Valid(list)
  /\ LET serves == Serves(list)
     IN \A i \in DOMAIN assigned : Seated(i) => assigned[i].serves = serves[i]

(* A key or card of the payload is offered until it sits in a slot, and    *)
(* sits in one slot; giving the slot up in any way offers it again.        *)
(* Code: the flag used in composerSeatFlow, ReleaseSeat, Discard.          *)
UsedIsSeated ==
  LET single == {i \in DOMAIN assigned : Seated(i) /\ sources[assigned[i].src].kind # "seed"}
  IN /\ used = {assigned[i].src : i \in single}
     /\ \A i, j \in single : assigned[i].src = assigned[j].src => i = j

(* The seating follows the policy: each seat belongs to its key's path, and *)
(* what is taken from the payload is exactly what sits.                    *)
SeatingHolds == SeatsFit /\ UsedIsSeated

(* What reaches the plates: a policy the codec takes, of distinguishable   *)
(* and distinct keys, a Liana key only without a real key path though it   *)
(* was chosen before later edits, and no preimage whose digest is gone.    *)
(* Code: mapping review, composerUnspendableStep, composerPreimagePlates.  *)
ConsentedIsSound ==
  /\ pc \in {"template", "seating", "seat", "review", "policy", "consent", "engrave", "cut"} =>
       (unspendable = "liana" => list.wrapper = "tr" /\ ~HasKeyPath)
  /\ pc \in {"policy", "consent", "engrave", "cut"} =>
       Valid(list) /\ ~OriginClash /\ ~SameMaterial
  /\ plates \subseteq HashesOf(list)

(* An edit takes seats away only after the guard has warned of it.         *)
(* Code: composerEditCanRenumber and composerShapeGuard.                   *)
LosesSeat == \E i \in DOMAIN assigned :
               Seated(i) /\ (i \in DOMAIN assigned' => assigned'[i] # assigned[i])
NoSilentDiscard == [][(pc \in {"paths", "start"} /\ LosesSeat) => (confirmed' = TRUE)]_vars

(* A card may have been made for an origin that was shown: when the origin *)
(* of a slot changes, even after templates that did not show the slot, the *)
(* template says that something moved.                                     *)
(* Code: composerOriginMemory and composerStubDelta.                       *)
OriginsAreFlagged ==
  [][\A i \in DOMAIN seen :
       i \in DOMAIN seen' /\ (seen'[i] # seen[i] => (StubDelta(AdvertisedOrigins) # "none"))]_vars

=============================================================================
