---------------------------- MODULE UnlockSession ----------------------------
(***************************************************************************)
(* The unlock program (gui/unlock_*.go over seal/): the payload of the     *)
(* flash region is inspected, opened with a typed passphrase, its secret   *)
(* records are offered one by one and wiped, and its cards are cut from a  *)
(* list.  An action is what runs between two screens; `done` is ctx.Done,  *)
(* set by the idle wipe or by shutdown, on which every screen gives the    *)
(* answer of its Back and the deferred clears run.                         *)
(*                                                                         *)
(* A record is its class, a copy of it its class and whether its bytes are *)
(* still there.  Key, pass and words are right or wrong; an altered region *)
(* is one the right words do not open.  Layout and labels are left out.    *)
(***************************************************************************)
EXTENDS Integers, Sequences, FiniteSets, FiniteSetsExt

CONSTANTS Regions,    \* [public, secret] records a readable region may declare
          MaxRecords

(* "lone" is a card whose set does not decode, "long" a codex32 secret no  *)
(* plate holds, "upper" a record with a capital, "broken" one that         *)
(* SplitSection refuses, "foreign" anything else, a preimage included.     *)
Classes == {"card", "lone", "mnemonic", "codex32", "long", "upper", "broken", "foreign"}
SecretClasses == {"mnemonic", "codex32", "long"}      \* IsSecret
Cards == {"card", "lone"}                             \* ClassMDMK

ASSUME RegionAssumption ==
  /\ MaxRecords \in Nat
  /\ \A r \in Regions : r \in [public : Seq(Classes), secret : Seq(Classes)] /\ r.public \o r.secret # <<>>

VARIABLES
  region,   \* what the region declares
  pc, after,\* the screen up, and what follows when it is an error
  done,     \* ctx.Done
  live,     \* of "blob", "words", "pass", "key", "plaintext", "parsed", what is not zero
  public, secret,  \* p.Public and p.Secret
  stray,    \* sections a record copy of which nothing holds any more but keeps its bytes
  guard,    \* ctx.wipe
  left,     \* indices of the secret records still to offer
  plates, pick,    \* the plate list, and the row being cut
  typed,    \* the words last accepted
  warned    \* the operator took the unauthenticated payload

vars == <<region, pc, after, done, live, public, secret, stray, guard, left, plates, pick, typed, warned>>

Screens == {"hash", "ask", "words", "derive", "warn", "error", "offer", "seed", "engrave",
            "nothing", "list", "variant", "cut"}
Sealed == region.secret # <<>>
NoRegion == [public |-> <<>>, secret |-> <<>>]

-----------------------------------------------------------------------------
(* seal/: splitting and admitting a section. *)

Fresh(records) == [i \in DOMAIN records |-> [class |-> records[i], live |-> TRUE]]
Zeroed(copies) == [i \in DOMAIN copies |-> [copies[i] EXCEPT !.live = FALSE]]
AnyLive(copies) == \E i \in DOMAIN copies : copies[i].live
Lost(copies, section) == IF AnyLive(copies) THEN {section} ELSE {}
ZeroAt(copies, i) == [copies EXCEPT ![i].live = FALSE]

Split(records) ==
  IF Len(records) > MaxRecords THEN "many"
  ELSE IF \E i \in DOMAIN records : records[i] = "broken" THEN "broken" ELSE "ok"

Permitted(class, section) ==
  class \in Cards \/ (section = "encrypted" /\ class \in SecretClasses)

Refusal(class, section) ==
  IF class = "upper" THEN "uppercase"
  ELSE IF ~Permitted(class, section) THEN "not permitted"
  ELSE IF class = "long" THEN "too long" ELSE "ok"

NotWiped(copies) == copies

(* wipe: what was copied before a refusal. *)
Wiped(copies) == Zeroed(copies)

(* The records in turn, each copied once it passes; the copies are wiped   *)
(* when a later one is refused.                                            *)
Admission(records, section) ==
  LET bad == {i \in DOMAIN records : Refusal(records[i], section) # "ok"}
      first == Min(bad)
  IN IF bad = {} THEN [err |-> "ok", out |-> Fresh(records)]
     ELSE [err |-> Refusal(records[first], section),
           out |-> Wiped(Fresh(SubSeq(records, 1, first - 1)))]

(* The decode of the card sets, once all records are copied: its error     *)
(* returns without a wipe of the copies.                                   *)
Inspection ==
  LET records == region'.public
      admitted == Admission(records, "public")
  IN IF Split(records) # "ok" THEN [err |-> Split(records), out |-> <<>>]
     ELSE IF admitted.err = "ok" /\ \E i \in DOMAIN records : records[i] = "lone"
          THEN [err |-> "undecodable", out |-> admitted.out] ELSE admitted

OpeningOwnCap ==
  IF Split(region.secret) # "ok" THEN [err |-> Split(region.secret), out |-> <<>>]
  ELSE Admission(region.secret, "encrypted")

(* What follows the tag check: the cap counts both sections. *)
Opening ==
  IF Split(region.secret) # "ok" THEN [err |-> Split(region.secret), out |-> <<>>]
  ELSE IF Len(region.public) + Len(region.secret) > MaxRecords THEN [err |-> "many", out |-> <<>>]
  ELSE Admission(region.secret, "encrypted")

-----------------------------------------------------------------------------
(* Screens *)

(* A loop on ctx.Done leaves with the answer of Back. *)
Answers(set, back) == IF done THEN {back} ELSE set \cup {back}

Error(next) == pc' = "error" /\ after' = next
Go(screen) == pc' = screen /\ UNCHANGED after

Init ==
  /\ region = NoRegion /\ pc = "menu" /\ after = "menu" /\ done = FALSE
  /\ live = {} /\ public = <<>> /\ secret = <<>> /\ stray = {} /\ guard = "none"
  /\ left = {} /\ plates = <<>> /\ pick = 0 /\ typed = "none" /\ warned = FALSE

Enter ==
  /\ pc = "menu"
  /\ region' \in Regions
  /\ \/ live' = {} /\ public' = <<>> /\ Error("out") /\ UNCHANGED stray        \* no reader, a read error
     \/ live' = {"blob"} /\ public' = <<>> /\ Error("out") /\ UNCHANGED stray  \* a bad header
     \/ /\ live' = {"blob"}
        /\ IF Inspection.err = "ok"
           THEN /\ public' = Inspection.out
                /\ Go(IF public' # <<>> THEN "hash" ELSE "ask")
                /\ UNCHANGED stray
           ELSE /\ public' = <<>> /\ Error("out")
                /\ stray' = stray \cup Lost(Inspection.out, "public")
  /\ UNCHANGED <<done, secret, guard, left, plates, pick, typed, warned>>

HashSeen ==
  /\ pc = "hash"
  /\ Go(IF Sealed THEN "ask" ELSE "warn")
  /\ UNCHANGED <<region, done, live, public, secret, stray, guard, left, plates, pick, typed, warned>>

(* A turn of the loops around the word entry, on every screen of which the *)
(* guard stands.                                                           *)
AskWords ==
  IF done THEN pc' = "out" /\ guard' = "none" /\ UNCHANGED live
  ELSE pc' = "words" /\ guard' = "passphrase" /\ live' = live \cup {"words"}

Asked ==
  /\ pc = "ask"
  /\ AskWords
  /\ UNCHANGED <<region, after, done, public, secret, stray, left, plates, pick, typed, warned>>

TypeWords ==
  /\ pc = "words"
  /\ \E a \in Answers({"invalid", "right", "wrong"}, "back") :
       \/ /\ a = "back"
          /\ live' = live \ {"words"} /\ guard' = "none" /\ Go("out") /\ UNCHANGED typed
       \/ /\ a = "invalid"
          /\ live' = live \ {"words"} /\ Error("words") /\ UNCHANGED <<guard, typed>>
       \/ /\ a \in {"right", "wrong"}
          /\ live' = live \cup {"pass"} /\ guard' = "none" /\ typed' = a /\ Go("derive")
  /\ UNCHANGED <<region, done, public, secret, stray, left, plates, pick, warned>>

(* Back, or the wipe, leaves before the key is there. *)
Derive ==
  /\ pc = "derive"
  /\ \E a \in Answers({"key"}, "back") :
       \/ a = "back" /\ live' = live \ {"pass", "words"} /\ Go("out")
       \/ a = "key" /\ live' = live \cup {"key"} /\ Go("open")
  /\ UNCHANGED <<region, done, public, secret, stray, guard, left, plates, pick, typed, warned>>

(* The tag is checked before a byte is decrypted. *)
Open ==
  /\ pc = "open"
  /\ IF typed = "right" THEN live' = live \cup {"plaintext"} /\ Go("admit")
     ELSE live' = live \ {"key", "pass", "words"} /\ Error("words")
  /\ UNCHANGED <<region, done, public, secret, stray, guard, left, plates, pick, typed, warned>>

-----------------------------------------------------------------------------
(* What is offered *)

PlatesOf(copies) ==
  LET cards == SelectSeq(copies, LAMBDA r : r.class \in Cards)
  IN [i \in DOMAIN (public \o cards) |-> [copy |-> (public \o cards)[i], cut |-> FALSE]]

ShowPlates(copies) ==
  /\ plates' = PlatesOf(copies)
  /\ Go(IF plates' = <<>> THEN "nothing" ELSE "list")

SecretsOf(copies) == {i \in DOMAIN copies : copies[i].class \in SecretClasses}

(* The session holds the guard while records are left to offer. *)
Offering(copies, rest) ==
  /\ left' = rest
  /\ IF rest # {} THEN guard' = "secret" /\ Go("offer") /\ UNCHANGED plates
     ELSE guard' = "none" /\ ShowPlates(copies)

(* The payload's records change only when all of them are admitted. *)
Admit ==
  /\ pc = "admit"
  /\ IF Opening.err = "ok"
     THEN /\ secret' = Opening.out
          /\ live' = live \ {"plaintext", "key", "pass", "words", "blob"}
          /\ Offering(secret', SecretsOf(secret'))
          /\ UNCHANGED stray
     ELSE /\ stray' = stray \cup Lost(Opening.out, "encrypted")
          /\ live' = live \ {"plaintext", "key", "pass", "words"}
          /\ Error("out")
          /\ UNCHANGED <<secret, guard, left, plates>>
  /\ UNCHANGED <<region, done, public, pick, typed, warned>>

Turn == Min(left)

(* WipeSecretAt, the clear of the parsed words, and the next record. *)
NextSecret ==
  /\ secret' = ZeroAt(secret, Turn)
  /\ live' = live \ {"parsed"}
  /\ Offering(secret', left \ {Turn})

Offer ==
  /\ pc = "offer"
  /\ \E a \in Answers({"cut", "no plate size"}, "skip") :
       \/ a = "skip" /\ NextSecret
       \/ /\ a = "cut" /\ secret[Turn].class = "codex32"
          /\ secret' = ZeroAt(secret, Turn) /\ Go("engrave")
          /\ UNCHANGED <<live, guard, left, plates>>
       \/ /\ a = "no plate size" /\ secret[Turn].class = "codex32"
          /\ Error("next")
          /\ UNCHANGED <<secret, live, guard, left, plates>>
       \/ /\ a = "cut" /\ secret[Turn].class = "mnemonic"
          /\ live' = live \cup {"parsed"} /\ Go("seed")
          /\ UNCHANGED <<secret, guard, left, plates>>
  /\ UNCHANGED <<region, done, public, stray, pick, typed, warned>>

Seed ==
  /\ pc = "seed"
  /\ \E a \in Answers({"engrave", "no plate size"}, "back") :
       \/ a = "back" /\ NextSecret
       \/ a = "no plate size" /\ Error("next") /\ UNCHANGED <<secret, live, guard, left, plates>>
       \/ /\ a = "engrave"
          /\ secret' = ZeroAt(secret, Turn) /\ live' = live \ {"parsed"} /\ Go("engrave")
          /\ UNCHANGED <<guard, left, plates>>
  /\ UNCHANGED <<region, done, public, stray, pick, typed, warned>>

(* The engrave screen, left with the plate cut or not. *)
Engrave ==
  /\ pc = "engrave"
  /\ NextSecret
  /\ UNCHANGED <<region, done, public, stray, pick, typed, warned>>

Warn ==
  /\ pc = "warn"
  /\ \E a \in Answers({"yes"}, "no") :
       \/ a = "no" /\ Go("out") /\ UNCHANGED <<plates, warned>>
       \/ a = "yes" /\ warned' = TRUE /\ ShowPlates(secret)
  /\ UNCHANGED <<region, done, live, public, secret, stray, guard, left, pick, typed>>

-----------------------------------------------------------------------------
(* The plate list *)

List ==
  /\ pc = "list"
  /\ \E a \in Answers({"cut", "no plate size"}, "back") :
       \/ a = "back" /\ Go("out") /\ UNCHANGED pick
       \/ a = "no plate size" /\ Error("list") /\ UNCHANGED pick
       \/ a = "cut" /\ pick' \in DOMAIN plates /\ Go("variant")
  /\ UNCHANGED <<region, done, live, public, secret, stray, guard, left, plates, typed, warned>>

VariantNoBack ==
  /\ pc = "variant"
  /\ \E a \in {"engrave", "back"} : Go(IF a = "engrave" THEN "cut" ELSE IF done THEN "variant" ELSE "list")
  /\ UNCHANGED <<region, done, live, public, secret, stray, guard, left, plates, pick, typed, warned>>

(* This loop has no condition of its own: the picker's Back ends it. *)
Variant ==
  /\ pc = "variant"
  /\ \E a \in Answers({"engrave"}, "back") : Go(IF a = "engrave" THEN "cut" ELSE "list")
  /\ UNCHANGED <<region, done, live, public, secret, stray, guard, left, plates, pick, typed, warned>>

Cut ==
  /\ pc = "cut"
  /\ \E a \in Answers({"taken"}, "not taken") :
       \/ a = "taken" /\ plates' = [plates EXCEPT ![pick].cut = TRUE] /\ Go("list")
       \/ a = "not taken" /\ Go("variant") /\ UNCHANGED plates
  /\ UNCHANGED <<region, done, live, public, secret, stray, guard, left, pick, typed, warned>>

NothingSeen ==
  /\ pc = "nothing" /\ Go("out")
  /\ UNCHANGED <<region, done, live, public, secret, stray, guard, left, plates, pick, typed, warned>>

ErrorSeen ==
  /\ pc = "error"
  /\ \/ after = "words" /\ AskWords /\ UNCHANGED <<after, secret, left, plates>>
     \/ after = "next" /\ NextSecret
     \/ after \in {"out", "list"} /\ Go(after) /\ UNCHANGED <<secret, live, guard, left, plates>>
  /\ UNCHANGED <<region, done, public, stray, pick, typed, warned>>

(* The deferred p.Wipe and clear(blob); nothing holds the payload after. *)
PayloadWipe == [public |-> Zeroed(public), secret |-> Zeroed(secret)]

Leave ==
  /\ pc = "out"
  /\ live' = live \ {"blob"}
  /\ stray' = stray \cup Lost(PayloadWipe.public, "public") \cup Lost(PayloadWipe.secret, "encrypted")
  /\ region' = NoRegion /\ public' = <<>> /\ secret' = <<>> /\ left' = {} /\ plates' = <<>>
  /\ pick' = 0 /\ typed' = "none" /\ warned' = FALSE /\ done' = FALSE
  /\ pc' = "menu" /\ after' = "menu"
  /\ UNCHANGED guard

Expire ==
  /\ pc \in Screens /\ ~done
  /\ done' = TRUE
  /\ UNCHANGED <<region, pc, after, live, public, secret, stray, guard, left, plates, pick, typed, warned>>

Running == HashSeen \/ Asked \/ TypeWords \/ Derive \/ Open \/ Admit \/ Offer \/ Seed \/ Engrave \/ Warn
             \/ List \/ Variant \/ Cut \/ NothingSeen \/ ErrorSeen \/ Leave
Next == Enter \/ Running \/ Expire

(* Once ctx.Done is set no screen waits for anybody. *)
Spec == Init /\ [][Next]_vars /\ WF_vars(done /\ Running)

-----------------------------------------------------------------------------
(* Properties *)

Secrets == {i \in DOMAIN secret : secret[i].live /\ secret[i].class \in SecretClasses}

(* Of the buffers the program and seal/ own and undertake to zero -- blob, *)
(* typed words, passphrase, key, plaintext, the copies of the encrypted    *)
(* records, the []Word of bip39.Parse: none keeps its bytes back at the    *)
(* menu, however the program was left; before that, a screen that can be   *)
(* walked away from while words or records are there stands under the wipe *)
(* guard; and when a plate of a secret is up to be cut its record, its     *)
(* parsed words and the blob are zero.  The seed itself is not gone then:  *)
(* strings, the plate's spline and the buffers below bip39 and seedqr live *)
(* on (gui/unlock_session.go:255-264, seal/session.go:33-41).              *)
(* Code: the deferred clears, wipe, WipeSecretAt, Payload.Wipe.            *)
NothingLeft ==
  /\ "encrypted" \notin stray
  /\ pc = "menu" => live = {} /\ public = <<>> /\ secret = <<>>
Guarded ==
  pc \in Screens \ {"derive"} /\ (Secrets # {} \/ live \cap {"words", "parsed"} # {}) => guard # "none"
GoneBeforeCut ==
  pc \in {"engrave", "cut"} => Secrets \subseteq {i \in left : i # Turn} /\ live \subseteq {"blob"}
                               /\ (Sealed => live = {})
BuffersConfined == NothingLeft /\ Guarded /\ GoneBeforeCut

(* Nothing of a payload is offered unless all of it is: a sealed one was   *)
(* opened with the right words and every record of both sections is one    *)
(* the machine takes; an unsealed one was confirmed.                       *)
Whole ==
  /\ Len(region.public) + Len(region.secret) <= MaxRecords
  /\ \A i \in DOMAIN region.public : region.public[i] = "card"
  /\ \A i \in DOMAIN region.secret : region.secret[i] \in Cards \cup {"mnemonic", "codex32"}
OnlyWholeOffered ==
  pc \in {"offer", "seed", "engrave", "list", "variant", "cut"}
    => Whole /\ (IF Sealed THEN typed = "right" ELSE warned)

(* The idle wipe ends the program wherever it finds it. *)
UnwindEnds == done ~> pc = "menu"

=============================================================================
