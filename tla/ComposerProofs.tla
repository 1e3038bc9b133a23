---------------------------- MODULE ComposerProofs ----------------------------
(***************************************************************************)
(* What holds of Composer for any scripts, presets, payloads, digests,     *)
(* seeds and limits: seats fit the list they stand in, a key of the        *)
(* payload sits in at most one slot, seats go only after a warning, and    *)
(* what is cut has been found sound.                                       *)
(***************************************************************************)
EXTENDS Composer, FiniteSetTheorems, SequenceTheorems, TLAPS

Lists == [wrapper : Wrappers \cup {"tr"}, paths : Seq(Paths)]
AllSources == (UNION {{p[r] : r \in 1..Len(p)} : p \in Payloads}) \cup {Seed(fp) : fp \in Seeds}

Types ==
  /\ list \in Lists /\ sources \in Seq(AllSources) /\ edits \in Nat
  /\ DOMAIN assigned = 1..SlotCount(list)
  /\ \A i \in DOMAIN assigned : assigned[i].src = 0 \/ assigned[i].src \in DOMAIN sources

(* The screens past "Done". *)
Past == {"keypath", "template", "seating", "seat", "review", "policy", "consent", "engrave", "cut"}
PastIsValid == pc \in Past => Valid(list)

(* A slot is asked for only while it is unseated, or its record would stay used. *)
AskedIsFree == pc = "seat" => at \in Nat \ {0} /\ (at \in DOMAIN assigned => ~Seated(at))

SeatsInv == Types /\ PastIsValid /\ AskedIsFree /\ SeatsFit /\ UsedIsSeated

-----------------------------------------------------------------------------
(* The slots are finite, and their number is a number. *)
LEMMA SlotsFinite ==
  ASSUME NEW l \in Lists
  PROVE  IsFiniteSet(Slots(Form(l))) /\ SlotCount(l) \in Nat
<1> DEFINE f == Form(l)
<1>1. MaxKeys \in Nat /\ l.paths \in Seq(Paths)
  BY ComposerAssumption DEF Lists
<1>6. \A i \in DOMAIN l.paths : l.paths[i] \in Paths
  BY <1>1
<1>5. /\ DOMAIN f = 1..Len(l.paths) /\ Len(l.paths) \in Nat
      /\ \A i \in DOMAIN f : f[i].n \in 0..MaxKeys
  BY <1>1, <1>6 DEF Form, Paths
<1>2. IsFiniteSet((1..Len(l.paths)) \X (1..MaxKeys))
  <2>1. IsFiniteSet(1..Len(l.paths)) /\ IsFiniteSet(1..MaxKeys)
    BY <1>1, <1>5, FS_Interval
  <2> QED
    BY <2>1, FS_Product
<1>3. Slots(f) \subseteq (1..Len(l.paths)) \X (1..MaxKeys)
  BY <1>1, <1>5 DEF Slots
<1>4. IsFiniteSet(Slots(f))
  BY <1>2, <1>3, FS_Subset
<1> QED
  BY <1>4, FS_CardinalityType DEF SlotCount

(* Lists of one signature have the same slots. *)
LEMMA SameSignature ==
  ASSUME NEW l \in Lists, NEW m \in Lists, ShapeSignature(l) = ShapeSignature(m)
  PROVE  /\ l.wrapper = m.wrapper /\ Len(l.paths) = Len(m.paths)
         /\ SlotCount(l) = SlotCount(m)
         /\ Valid(l) => Valid(m) /\ Numbering(l.wrapper, Form(l)) = Numbering(m.wrapper, Form(m))
<1>1. l.wrapper = m.wrapper /\ Counts(Form(l)) = Counts(Form(m))
  BY DEF ShapeSignature, SignatureOf
<1>2. DOMAIN Form(l) = DOMAIN Form(m) /\ \A i \in DOMAIN Form(l) : Form(l)[i].n = Form(m)[i].n
  BY <1>1 DEF Counts
<1>3. Len(l.paths) = Len(m.paths)
  BY <1>2 DEF Form, Lists
<1>4. SlotCount(l) = SlotCount(m)
  <2>1. {{i} \X (1..Form(l)[i].n) : i \in DOMAIN Form(l)} = {{i} \X (1..Form(m)[i].n) : i \in DOMAIN Form(m)}
    BY <1>2
  <2> QED
    BY <2>1 DEF SlotCount, Slots
<1>5. ASSUME Valid(l) PROVE Valid(m) /\ Numbering(l.wrapper, Form(l)) = Numbering(m.wrapper, Form(m))
  BY <1>1, <1>5 DEF ShapeSignature, SignatureOf, Valid
<1> QED
  BY <1>1, <1>3, <1>4, <1>5

(* With the ids in place, they serve the same keys of the same paths. *)
LEMMA SameServes ==
  ASSUME NEW l \in Lists, NEW m \in Lists, ShapeSignature(l) = ShapeSignature(m), Valid(l),
         \A i \in 1..Len(l.paths) : l.paths[i].id = m.paths[i].id
  PROVE  Serves(l) = Serves(m)
<1> DEFINE number == Numbering(l.wrapper, Form(l))
<1>1. /\ SlotCount(l) = SlotCount(m) /\ Len(l.paths) = Len(m.paths)
      /\ number = Numbering(m.wrapper, Form(m))
  BY SameSignature
<1>2. \A x \in DOMAIN number : x[1] \in 1..Len(l.paths)
  <2>1. DOMAIN number = Slots(Form(l))
    BY DEF Numbering
  <2>2. \A x \in Slots(Form(l)) : x[1] \in DOMAIN Form(l)
    BY DEF Slots
  <2> QED
    BY <2>1, <2>2 DEF Form, Lists
<1>3. \A x \in DOMAIN number : l.paths[x[1]].id = m.paths[x[1]].id
  BY <1>2
<1>4. ASSUME NEW s \in 1..SlotCount(l)
      PROVE  {<<l.paths[x[1]].id, x[2]>> : x \in {y \in DOMAIN number : number[y] = s}}
           = {<<m.paths[x[1]].id, x[2]>> : x \in {y \in DOMAIN number : number[y] = s}}
  BY <1>3
<1> QED
  BY <1>1, <1>4 DEF Serves
-----------------------------------------------------------------------------
(* What an edit may do: the ids stay where the number of paths stays. *)
KeepsIds(next) ==
  Len(next.paths) = Len(list.paths) =>
    \A i \in 1..Len(list.paths) : list.paths[i].id = next.paths[i].id

(* An edit with its discard leaves the seats fitting. *)
LEMMA EditFits ==
  ASSUME Types, SeatsFit, NEW next \in Lists, KeepsIds(next), ApplyShapeEdit(next)
  PROVE  /\ list' = next /\ DOMAIN assigned' = 1..SlotCount(list') /\ SeatsFit'
         /\ \A i \in DOMAIN assigned' :
              assigned'[i].src = 0 \/ (i \in DOMAIN assigned /\ assigned'[i] = assigned[i])
<1>1. list' = next
  BY DEF ApplyShapeEdit
<1>2. CASE ShapeSignature(next) = ShapeSignature(list)
  <2>1. assigned' = assigned
    BY <1>2 DEF ApplyShapeEdit
  <2>2. SlotCount(list') = SlotCount(list) /\ Len(next.paths) = Len(list.paths)
    BY <1>1, <1>2, SameSignature DEF Types
  <2>3. AnySeat' => Valid(list')
    BY <1>1, <1>2, <2>1, SameSignature DEF Types, SeatsFit, AnySeat, Seated
  <2>4. ASSUME AnySeat PROVE Serves(list') = Serves(list)
    BY <1>1, <1>2, <2>2, <2>4, SameServes DEF Types, SeatsFit, KeepsIds
  <2>5. \A i \in DOMAIN assigned' : Seated(i)' => assigned'[i].serves = Serves(list')[i]
    BY <2>1, <2>4 DEF SeatsFit, AnySeat, Seated
  <2> QED
    BY <1>1, <2>1, <2>2, <2>3, <2>5 DEF Types, SeatsFit
<1>3. CASE ShapeSignature(next) # ShapeSignature(list)
  <2>1. assigned' = Empty(next)
    BY <1>3 DEF ApplyShapeEdit
  <2>2. DOMAIN assigned' = 1..SlotCount(list') /\ \A i \in DOMAIN assigned' : assigned'[i].src = 0
    BY <1>1, <2>1 DEF Empty, Unseated
  <2> QED
    BY <1>1, <2>2 DEF SeatsFit, AnySeat, Seated
<1> QED
  BY <1>2, <1>3

(* Every edit but moving a path ends like this. *)
LEMMA EditStep ==
  ASSUME SeatsInv, NEW next \in Lists, KeepsIds(next), ApplyShapeEdit(next),
         pc' = "paths", edits' = edits + 1, sources' = sources
  PROVE  SeatsInv'
<1>1. /\ list' = next /\ DOMAIN assigned' = 1..SlotCount(list') /\ SeatsFit'
      /\ \A i \in DOMAIN assigned' :
           assigned'[i].src = 0 \/ (i \in DOMAIN assigned /\ assigned'[i] = assigned[i])
  BY EditFits DEF SeatsInv
<1>2. Types'
  BY <1>1 DEF SeatsInv, Types
<1>3. UsedIsSeated'
  <2>1. CASE UNCHANGED <<assigned, used>>
    BY <2>1 DEF SeatsInv, UsedIsSeated, Seated
  <2>2. CASE assigned' = Empty(next) /\ used' = {}
    BY <2>2 DEF UsedIsSeated, Seated, Empty, Unseated
  <2> QED
    BY <2>1, <2>2 DEF ApplyShapeEdit
<1> QED
  BY <1>1, <1>2, <1>3 DEF SeatsInv, PastIsValid, AskedIsFree, Past

(* Screens that leave list and seats alone. *)
LEMMA Unmoved ==
  ASSUME SeatsInv, UNCHANGED <<list, sources, used, assigned, edits>>,
         pc' \in Past => Valid(list), pc' # "seat"
  PROVE  SeatsInv'
<1> QED
  BY DEF SeatsInv, Types, PastIsValid, AskedIsFree, SeatsFit, UsedIsSeated, AnySeat, Seated

LEMMA PathFields ==
  ASSUME NEW l \in Lists, NEW i \in DOMAIN l.paths
  PROVE  /\ DOMAIN l.paths = 1..Len(l.paths) /\ Len(l.paths) \in Nat
         /\ l.paths[i] \in Paths
         /\ \A n \in 0..MaxKeys : [l EXCEPT !.paths[i].n = n] \in Lists
         /\ \A lock \in BOOLEAN : WithLock(l, i, lock) \in Lists
         /\ \A h \in Hashes \cup {NoHash} : WithHash(l, i, h) \in Lists
<1>1. l.paths \in Seq(Paths) /\ l.wrapper \in Wrappers \cup {"tr"} /\ l.paths[i] \in Paths
  BY DEF Lists
<1>2. ASSUME NEW p \in Paths PROVE [l EXCEPT !.paths = [l.paths EXCEPT ![i] = p]] \in Lists
  BY <1>1 DEF Lists
<1>3. \A n \in 0..MaxKeys : [l.paths[i] EXCEPT !.n = n] \in Paths
  BY <1>1 DEF Paths
<1>4. \A lock \in BOOLEAN : [l.paths[i] EXCEPT !.lock = lock] \in Paths
  BY <1>1 DEF Paths
<1>5. \A h \in Hashes \cup {NoHash} : [l.paths[i] EXCEPT !.hash = h] \in Paths
  BY <1>1 DEF Paths
<1>6. \A n \in 0..MaxKeys : [l EXCEPT !.paths[i].n = n] \in Lists
  BY <1>2, <1>3
<1>7. \A lock \in BOOLEAN : WithLock(l, i, lock) \in Lists
  BY <1>2, <1>4 DEF WithLock
<1>8. \A h \in Hashes \cup {NoHash} : WithHash(l, i, h) \in Lists
  BY <1>2, <1>5 DEF WithHash
<1> QED
  BY <1>1, <1>6, <1>7, <1>8

-----------------------------------------------------------------------------
(* The edits of one path. *)
LEMMA FieldEdits ==
  ASSUME SeatsInv, NEW i \in DOMAIN list.paths, KeysEdit(i) \/ LockEdit(i) \/ HashEdit(i),
         Editing
  PROVE  SeatsInv'
<1>1. list \in Lists /\ MaxKeys \in Nat
  BY ComposerAssumption DEF SeatsInv, Types
<1>2. CASE KeysEdit(i)
  <2>1. PICK n \in KeyCounts(list, i) : ApplyShapeEdit([list EXCEPT !.paths[i].n = n])
    BY <1>2 DEF KeysEdit
  <2> DEFINE next == [list EXCEPT !.paths[i].n = n]
  <2>2. n \in 0..MaxKeys
    BY <1>1 DEF KeyCounts
  <2>3. next \in Lists
    BY <1>1, <2>2, PathFields
  <2>4. KeepsIds(next)
    BY <1>1 DEF KeepsIds, Lists, Paths
  <2>5. pc' = "paths" /\ edits' = edits + 1 /\ sources' = sources
    BY <1>2 DEF KeysEdit, Edited, Editing
  <2> QED
    BY <2>1, <2>3, <2>4, <2>5, EditStep
<1>3. CASE LockEdit(i)
  <2>1. PICK lock \in BOOLEAN : ApplyShapeEdit(WithLock(list, i, lock))
    BY <1>3 DEF LockEdit
  <2>2. WithLock(list, i, lock) \in Lists
    BY <1>1, PathFields
  <2>3. KeepsIds(WithLock(list, i, lock))
    BY <1>1 DEF KeepsIds, WithLock, Lists, Paths
  <2>4. pc' = "paths" /\ edits' = edits + 1 /\ sources' = sources
    BY <1>3 DEF LockEdit, Edited, Editing
  <2> QED
    BY <2>1, <2>2, <2>3, <2>4, EditStep
<1>4. CASE HashEdit(i)
  <2>1. PICK hash \in Hashes \cup {NoHash} : ApplyShapeEdit(WithHash(list, i, hash))
    BY <1>4 DEF HashEdit, TakeHash
  <2>2. WithHash(list, i, hash) \in Lists
    BY <1>1, PathFields
  <2>3. KeepsIds(WithHash(list, i, hash))
    BY <1>1 DEF KeepsIds, WithHash, Lists, Paths
  <2>4. pc' = "paths" /\ edits' = edits + 1 /\ sources' = sources
    BY <1>4 DEF HashEdit, Edited, Editing
  <2> QED
    BY <2>1, <2>2, <2>3, <2>4, EditStep
<1> QED
  BY <1>2, <1>3, <1>4

(* Removing a path shortens the list, adding one makes it longer. *)
LEMMA RemovePathStep ==
  ASSUME SeatsInv, NEW i \in DOMAIN list.paths, RemovePath(i), Editing
  PROVE  SeatsInv'
<1> DEFINE next == [list EXCEPT !.paths = RemoveAt(list.paths, i)]
<1>1. list \in Lists /\ list.paths \in Seq(Paths) /\ i \in 1..Len(list.paths)
  BY DEF SeatsInv, Types, Lists
<1>2. /\ RemoveAt(list.paths, i) \in Seq(Paths)
      /\ Len(RemoveAt(list.paths, i)) = Len(list.paths) - 1
  <2>1. /\ SubSeq(list.paths, 1, i - 1) \in Seq(Paths) /\ Len(SubSeq(list.paths, 1, i - 1)) = i - 1
        /\ SubSeq(list.paths, i + 1, Len(list.paths)) \in Seq(Paths)
        /\ Len(SubSeq(list.paths, i + 1, Len(list.paths))) = Len(list.paths) - i
    BY <1>1
  <2> DEFINE a == SubSeq(list.paths, 1, i - 1)
             b == SubSeq(list.paths, i + 1, Len(list.paths))
  <2>2. RemoveAt(list.paths, i) = a \o b
    BY DEF RemoveAt
  <2> HIDE DEF a, b
  <2>3. a \in Seq(Paths) /\ b \in Seq(Paths) /\ Len(a) = i - 1 /\ Len(b) = Len(list.paths) - i
    BY <2>1 DEF a, b
  <2>4. a \o b \in Seq(Paths) /\ Len(a \o b) = Len(a) + Len(b)
    BY <2>3, ConcatProperties
  <2> QED
    BY <1>1, <2>2, <2>3, <2>4
<1>3. next \in Lists /\ KeepsIds(next)
  BY <1>1, <1>2 DEF Lists, KeepsIds
<1>4. pc' = "paths" /\ edits' = edits + 1 /\ sources' = sources /\ ApplyShapeEdit(next)
  BY DEF RemovePath, Edited, Editing
<1> QED
  BY <1>3, <1>4, EditStep

LEMMA AddPathStep ==
  ASSUME SeatsInv, AddPath, Editing
  PROVE  SeatsInv'
<1> DEFINE path(n, h) == [id |-> FreshId, n |-> n, lock |-> FALSE, hash |-> h]
           grown(n, h) == [list EXCEPT !.paths = Append(list.paths, path(n, h))]
<1>1. list \in Lists /\ list.paths \in Seq(Paths) /\ MaxKeys \in Nat /\ FreshId \in Nat
  BY ComposerAssumption DEF SeatsInv, Types, Lists, FreshId
<1>2. PICK n \in 0..MaxKeys, h \in Hashes \cup {NoHash} : ApplyShapeEdit(grown(n, h))
  <2>1. CASE \E n \in KeyCounts(grown(0, NoHash), Len(list.paths) + 1) : ApplyShapeEdit(grown(n, NoHash))
    <3>1. PICK n \in KeyCounts(grown(0, NoHash), Len(list.paths) + 1) : ApplyShapeEdit(grown(n, NoHash))
      BY <2>1
    <3>2. n \in 0..MaxKeys
      BY <1>1 DEF KeyCounts
    <3> QED
      BY <3>1, <3>2
  <2>2. CASE \E h \in Hashes : ApplyShapeEdit(grown(0, h))
    <3>1. PICK h \in Hashes : ApplyShapeEdit(grown(0, h))
      BY <2>2
    <3>2. 0 \in 0..MaxKeys
      BY <1>1
    <3> QED
      BY <3>1, <3>2
  <2> QED
    BY <2>1, <2>2, Zenon DEF AddPath
<1>3. path(n, h) \in Paths
  BY <1>1 DEF Paths
<1>4. /\ Append(list.paths, path(n, h)) \in Seq(Paths)
      /\ Len(Append(list.paths, path(n, h))) = Len(list.paths) + 1 /\ Len(list.paths) \in Nat
  BY <1>1, <1>3
<1>5. grown(n, h) \in Lists /\ KeepsIds(grown(n, h))
  BY <1>1, <1>4 DEF Lists, KeepsIds
<1>6. pc' = "paths" /\ edits' = edits + 1 /\ sources' = sources
  BY DEF AddPath, Edited, Editing
<1> QED
  BY <1>2, <1>5, <1>6, EditStep

LEMMA ChangeScriptStep ==
  ASSUME SeatsInv, ChangeScript, Editing
  PROVE  SeatsInv'
<1>1. PICK w \in Wrappers : ApplyShapeEdit([list EXCEPT !.wrapper = w])
  BY DEF ChangeScript
<1>2. [list EXCEPT !.wrapper = w] \in Lists /\ KeepsIds([list EXCEPT !.wrapper = w])
  BY DEF SeatsInv, Types, Lists, KeepsIds
<1>3. pc' = "paths" /\ edits' = edits + 1 /\ sources' = sources
  BY DEF ChangeScript, Edited, Editing
<1> QED
  BY <1>1, <1>2, <1>3, EditStep

(* Paths that change places bring their slots along. *)
LEMMA SlotsMove ==
  ASSUME NEW f, NEW g, NEW to \in [DOMAIN f -> DOMAIN f], DOMAIN g = DOMAIN f,
         \A k \in DOMAIN f : g[k].n = f[to[k]].n /\ to[to[k]] = k,
         IsFiniteSet(Slots(g))
  PROVE  Cardinality(Slots(f)) = Cardinality(Slots(g))
<1> DEFINE S == Slots(g)
           T == Slots(f)
<1>1. /\ \A x : x \in S <=> \E k \in DOMAIN f : \E o \in 1..f[to[k]].n : x = <<k, o>>
      /\ \A x : x \in T <=> \E k \in DOMAIN f : \E o \in 1..f[k].n : x = <<k, o>>
  BY DEF Slots
<1> HIDE DEF S, T
<1> DEFINE M == [x \in S |-> <<to[x[1]], x[2]>>]
<1>2. M \in [S -> T]
  BY <1>1
<1>3. \A x, y \in S : M[x] = M[y] => x = y
  <2> SUFFICES ASSUME NEW x \in S, NEW y \in S, M[x] = M[y] PROVE x = y
    OBVIOUS
  <2>1. PICK k \in DOMAIN f : \E o \in 1..f[to[k]].n : x = <<k, o>>
    BY <1>1
  <2>2. PICK m \in DOMAIN f : \E q \in 1..f[to[m]].n : y = <<m, q>>
    BY <1>1
  <2>3. to[k] = to[m] /\ x[2] = y[2]
    BY <2>1, <2>2
  <2>4. k = m
    BY <2>3
  <2> QED
    BY <2>1, <2>2, <2>3, <2>4
<1>4. \A t \in T : \E x \in S : M[x] = t
  <2> SUFFICES ASSUME NEW t \in T PROVE \E x \in S : M[x] = t
    OBVIOUS
  <2>1. PICK k \in DOMAIN f : \E o \in 1..f[k].n : t = <<k, o>>
    BY <1>1
  <2>4. PICK o \in 1..f[k].n : t = <<k, o>>
    BY <2>1
  <2>2. <<to[k], o>> \in S
    BY <1>1, <2>4
  <2>3. M[<<to[k], o>>] = t
    BY <2>2, <2>4
  <2> QED
    BY <2>2, <2>3
<1>5. ExistsBijection(S, T)
  <2>1. DOMAIN M = S
    OBVIOUS
  <2> HIDE DEF M
  <2>2. M \in Injection(S, T)
    BY <1>2, <1>3, <2>1, Zenon DEF Injection, IsInjective
  <2>3. M \in Surjection(S, T)
    BY <1>2, <1>4, Zenon DEF Surjection
  <2> QED
    BY <2>2, <2>3, Zenon DEF ExistsBijection, Bijection
<1> QED
  BY <1>5, FS_Bijection DEF S, T

(* A move takes every seat away; the number of slots stays. *)
LEMMA MoveUpStep ==
  ASSUME SeatsInv, NEW i \in DOMAIN list.paths, MoveUp(i), Editing
  PROVE  SeatsInv'
<1>1. list \in Lists /\ list.paths \in Seq(Paths) /\ i \in 1..Len(list.paths) /\ i - 1 \in 1..Len(list.paths)
  BY DEF SeatsInv, Types, Lists, MoveUp
<1> DEFINE n == Len(list.paths)
           to == [k \in 1..n |-> IF k = i THEN i - 1 ELSE IF k = i - 1 THEN i ELSE k]
<1>2. /\ Swapped(i) = [list EXCEPT !.paths = Swapped(i).paths] /\ Len(Swapped(i).paths) = n
      /\ Swapped(i).paths \in Seq(Paths)
      /\ \A k \in 1..n : Swapped(i).paths[k] = list.paths[to[k]]
  <2> DEFINE q == [list.paths EXCEPT ![i - 1] = list.paths[i], ![i] = list.paths[i - 1]]
  <2>1. Swapped(i) = [list EXCEPT !.paths = q] /\ Swapped(i).paths = q
    BY <1>1 DEF Swapped, Lists
  <2>2. q \in Seq(Paths) /\ Len(q) = n
    BY <1>1
  <2>3. \A k \in 1..n : q[k] = list.paths[to[k]]
    BY <1>1
  <2> QED
    BY <2>1, <2>2, <2>3
<1>3. Swapped(i) \in Lists
  BY <1>1, <1>2 DEF Lists
<1>4. to \in [1..n -> 1..n] /\ \A k \in 1..n : to[to[k]] = k
  BY <1>1
<1>5. SlotCount(Swapped(i)) = SlotCount(list)
  <2>1. DOMAIN Form(list) = 1..n /\ DOMAIN Form(Swapped(i)) = 1..n
    BY <1>1, <1>2 DEF Form
  <2>2. \A k \in 1..n : Form(Swapped(i))[k].n = Form(list)[to[k]].n
    BY <1>2, <1>4, <2>1 DEF Form
  <2> HIDE DEF to
  <2> QED
    BY <1>3, <1>4, <2>1, <2>2, SlotsFinite, SlotsMove DEF SlotCount
<1>6. /\ list' = Swapped(i) /\ assigned' = [s \in DOMAIN assigned |-> Unseated] /\ used' = {}
      /\ pc' = "paths" /\ edits' = edits + 1 /\ sources' = sources
  BY DEF MoveUp, Edited, Editing
<1>7. DOMAIN assigned' = 1..SlotCount(list') /\ \A s \in DOMAIN assigned' : assigned'[s].src = 0
  BY <1>5, <1>6 DEF SeatsInv, Types, Unseated
<1>8. Types'
  BY <1>3, <1>6, <1>7 DEF SeatsInv, Types
<1>9. SeatsFit' /\ UsedIsSeated'
  BY <1>6, <1>7 DEF SeatsFit, AnySeat, Seated, UsedIsSeated
<1> QED
  BY <1>6, <1>8, <1>9 DEF SeatsInv, PastIsValid, AskedIsFree, Past

-----------------------------------------------------------------------------
(* The starting point, and the screens that only lead on. *)
LEMMA StartFits ==
  ASSUME SeatsInv, StartStep
  PROVE  SeatsInv'
<1>1. PICK w \in Wrappers, paths \in Presets \cup {list.paths} :
        StartFrom([wrapper |-> w, paths |-> IF paths = list.paths THEN paths ELSE Renamed(paths)])
  BY DEF StartStep
<1> DEFINE new == IF paths = list.paths THEN paths ELSE Renamed(paths)
           next == [wrapper |-> w, paths |-> new]
<1>2. list.paths \in Seq(Paths) /\ paths \in Seq(Paths)
  BY ComposerAssumption DEF SeatsInv, Types, Lists
<1>3. /\ Renamed(paths) \in Seq(Paths)
      /\ Len(Renamed(paths)) = Len(paths)
      /\ Len(paths) = Len(list.paths) =>
           \A i \in 1..Len(paths) : Renamed(paths)[i].id = list.paths[i].id
  <2>1. DOMAIN paths = 1..Len(paths) /\ Len(paths) \in Nat
    BY <1>2
  <2>2. \A i \in 1..Len(paths) : paths[i] \in Paths
    BY <1>2
  <2>3. \A i \in 1..Len(list.paths) : list.paths[i].id \in Nat
    <3>1. \A i \in 1..Len(list.paths) : list.paths[i] \in Paths
      BY <1>2
    <3> QED
      BY <3>1 DEF Paths
  <2>4. \A i \in 1..Len(paths) :
          (IF Len(paths) = Len(list.paths) THEN list.paths[i].id ELSE i) \in Nat
    BY <2>1, <2>3
  <2>5. \A p \in Paths : \A k \in Nat : [p EXCEPT !.id = k] \in Paths /\ [p EXCEPT !.id = k].id = k
    <3> SUFFICES ASSUME NEW p \in Paths, NEW k \in Nat
                 PROVE  [p EXCEPT !.id = k] \in Paths /\ [p EXCEPT !.id = k].id = k
      OBVIOUS
    <3> QED
      BY DEF Paths
  <2>6. \A i \in 1..Len(paths) :
          /\ Renamed(paths)[i] \in Paths
          /\ Renamed(paths)[i].id = IF Len(paths) = Len(list.paths) THEN list.paths[i].id ELSE i
    BY <2>1, <2>2, <2>4, <2>5 DEF Renamed
  <2>7. Renamed(paths) \in [1..Len(paths) -> Paths]
    BY <2>1, <2>6 DEF Renamed
  <2> QED
    BY <2>1, <2>6, <2>7
<1>4. next \in Lists /\ KeepsIds(next)
  BY <1>2, <1>3 DEF Lists, KeepsIds
<1>5. pc' = "paths" /\ edits' = edits + 1 /\ sources' = sources /\ ApplyShapeEdit(next)
  BY <1>1 DEF StartStep, StartFrom
<1> QED
  BY <1>4, <1>5, EditStep

LEMMA GoStep ==
  ASSUME SeatsInv, NEW from, NEW to, Go(from, to), from \in Past \/ to \notin Past \/ Valid(list),
         to # "seat"
  PROVE  SeatsInv'
<1> QED
  BY Unmoved DEF Go, SeatsInv, PastIsValid

LEMMA OtherScreens ==
  ASSUME SeatsInv,
         \/ StartDeclined \/ Exit("start") \/ KeyPath \/ Template
         \/ PickPlates \/ CutPreimage \/ AbortCut \/ CutPolicy
  PROVE  SeatsInv'
<1>1. CASE StartDeclined \/ Exit("start")
  BY <1>1, Unmoved DEF StartDeclined, Exit, Past
<1>2. CASE KeyPath
  BY <1>2, Unmoved DEF KeyPath, SeatsInv, PastIsValid, Past
<1>3. CASE Template
  BY <1>3, Unmoved DEF Template, SeatsInv, PastIsValid, Past
<1>4. CASE PickPlates \/ CutPreimage \/ AbortCut \/ CutPolicy
  BY <1>4, Unmoved DEF PickPlates, CutPreimage, AbortCut, CutPolicy, Exit, SeatsInv, PastIsValid, Past
<1> QED
  BY <1>1, <1>2, <1>3, <1>4

LEMMA Moves ==
  ASSUME SeatsInv,
         \/ Done \/ Go("paths", "start") \/ TemplateRefused \/ Keyless \/ SeatingBack
         \/ SeatLeave \/ SeatingEnds \/ Shortfall \/ ReviewPasses
         \/ PolicyBack \/ PolicyForward \/ Consent \/ ConsentBack \/ EngraveBack
  PROVE  SeatsInv'
<1>1. CASE Done \/ Go("paths", "start") \/ TemplateRefused
  BY <1>1, GoStep DEF Done, TemplateRefused, Past
<1>2. CASE Keyless \/ SeatingBack \/ SeatLeave \/ SeatingEnds \/ Shortfall \/ ReviewPasses
  BY <1>2, GoStep DEF Keyless, SeatingBack, SeatLeave, SeatingEnds, Shortfall, ReviewPasses, Past
<1>3. CASE PolicyBack \/ PolicyForward \/ Consent \/ ConsentBack \/ EngraveBack
  BY <1>3, GoStep DEF PolicyBack, PolicyForward, Consent, ConsentBack, EngraveBack, Past
<1> QED
  BY <1>1, <1>2, <1>3

-----------------------------------------------------------------------------
(* Seating. *)
LEMMA Flow ==
  ASSUME SeatsInv, NEW seats, NEW i \in Nat \ {0}, SeatFlow(seats, i)
  PROVE  pc' = "seat" /\ at' \in Nat \ {0} /\ (at' \in DOMAIN seats => seats[at'].src = 0)
<1>1. SlotCount(list) \in Nat
  BY SlotsFinite DEF SeatsInv, Types
<1> QED
  BY <1>1 DEF SeatFlow

(* A typed seed joins the sources behind those there are. *)
LEMMA SeedStep ==
  ASSUME SeatsInv, TypeSeed \/ UNCHANGED sources,
         UNCHANGED <<list, used, assigned, edits>>, Valid(list),
         pc' = "seat" => at' \in Nat \ {0} /\ (at' \in DOMAIN assigned => assigned[at'].src = 0)
  PROVE  SeatsInv'
<1>1. /\ sources' \in Seq(AllSources)
      /\ \A k \in DOMAIN sources : k \in DOMAIN sources' /\ sources'[k] = sources[k]
  <2>1. CASE TypeSeed
    <3>1. PICK fp \in Seeds : sources' = Append(sources, Seed(fp))
      BY <2>1 DEF TypeSeed
    <3>2. Seed(fp) \in AllSources
      BY DEF AllSources
    <3> HIDE DEF AllSources
    <3> QED
      BY <3>1, <3>2 DEF SeatsInv, Types
  <2>2. CASE UNCHANGED sources
    BY <2>2 DEF SeatsInv, Types
  <2> QED
    BY <2>1, <2>2
<1>2. \A i \in DOMAIN assigned : Seated(i) => sources'[assigned[i].src] = sources[assigned[i].src]
  BY <1>1 DEF SeatsInv, Types, Seated
<1>3. Types' /\ SeatsFit' /\ PastIsValid' /\ AskedIsFree'
  BY <1>1 DEF SeatsInv, Types, SeatsFit, AnySeat, Seated, PastIsValid, AskedIsFree
<1>4. UsedIsSeated'
  BY <1>2 DEF SeatsInv, UsedIsSeated, Seated
<1> QED
  BY <1>3, <1>4 DEF SeatsInv

(* The slot asked for takes a key, a card or a seed that is not used. *)
LEMMA SeatStep ==
  ASSUME SeatsInv, NEW src \in DOMAIN sources, Seat(src)
  PROVE  SeatsInv'
<1> DEFINE seat == IF sources[src].kind = "seed" THEN SeedSeat(at, src) ELSE RecordSeat(at, src)
<1>1. /\ pc = "seat" /\ at \in DOMAIN assigned /\ ~Seated(at) /\ at \in Nat \ {0} /\ Valid(list)
      /\ src \notin used /\ src \in Nat \ {0}
  BY DEF Seat, Asking, SeatsInv, AskedIsFree, PastIsValid, Past, Types
<1>2. seat.src = src /\ seat.serves = Serves(list)[at]
  BY DEF SeedSeat, RecordSeat
<1>3. /\ assigned' = [assigned EXCEPT ![at] = seat] /\ used' = TakesUsed(src)
      /\ UNCHANGED <<list, sources, edits>>
  BY DEF Seat
<1>4. pc' = "seat" /\ at' \in Nat \ {0} /\ (at' \in DOMAIN assigned' => assigned'[at'].src = 0)
  <2>1. SeatFlow(assigned', at + 1) /\ at + 1 \in Nat \ {0}
    BY <1>1 DEF Seat
  <2> QED
    BY <2>1, Flow
<1> HIDE DEF seat
<1>5. /\ DOMAIN assigned' = DOMAIN assigned
      /\ \A i \in DOMAIN assigned : assigned'[i] = IF i = at THEN seat ELSE assigned[i]
  BY <1>3
<1>6. Types' /\ SeatsFit' /\ PastIsValid' /\ AskedIsFree'
  BY <1>1, <1>2, <1>3, <1>4, <1>5
     DEF SeatsInv, Types, SeatsFit, AnySeat, Seated, PastIsValid, AskedIsFree
<1>7. UsedIsSeated'
  <2>1. CASE sources[src].kind = "seed"
    BY <1>1, <1>2, <1>3, <1>5, <2>1 DEF SeatsInv, UsedIsSeated, Seated, TakesUsed
  <2>2. CASE sources[src].kind # "seed"
    BY <1>1, <1>2, <1>3, <1>5, <2>2 DEF SeatsInv, UsedIsSeated, Seated, TakesUsed
  <2> QED
    BY <2>1, <2>2
<1> QED
  BY <1>6, <1>7 DEF SeatsInv

(* A slot that is given up gives its record back. *)
LEMMA ReleaseStep ==
  ASSUME SeatsInv, NEW i \in DOMAIN assigned, ReleaseSeat(i), UNCHANGED <<list, sources, edits>>,
         Valid(list), pc' = "seat", at' \in Nat \ {0}, at' \in DOMAIN assigned' => assigned'[at'].src = 0
  PROVE  SeatsInv'
<1>1. /\ DOMAIN assigned' = DOMAIN assigned
      /\ \A k \in DOMAIN assigned : assigned'[k] = IF k = i THEN Unseated ELSE assigned[k]
      /\ used' = used \ {assigned[i].src} /\ Unseated.src = 0
  BY DEF ReleaseSeat, Unseated
<1>2. Types' /\ SeatsFit' /\ PastIsValid' /\ AskedIsFree'
  BY <1>1 DEF SeatsInv, Types, SeatsFit, AnySeat, Seated, PastIsValid, AskedIsFree
<1>3. UsedIsSeated'
  <2> DEFINE single == {k \in DOMAIN assigned : Seated(k) /\ sources[assigned[k].src].kind # "seed"}
  <2>1. single' = single \ {i}
    BY <1>1 DEF Seated
  <2>2. used = {assigned[k].src : k \in single}
        /\ \A j, k \in single : assigned[j].src = assigned[k].src => j = k
    BY DEF SeatsInv, UsedIsSeated
  <2>3. \A k \in single' : assigned'[k] = assigned[k] /\ assigned'[k].src # assigned[i].src
    <3> SUFFICES ASSUME NEW k \in single'
                 PROVE  assigned'[k] = assigned[k] /\ assigned'[k].src # assigned[i].src
      OBVIOUS
    <3>1. k \in single /\ k # i /\ assigned'[k] = assigned[k]
      BY <1>1, <2>1
    <3>2. CASE i \in single
      BY <2>2, <3>1, <3>2
    <3>3. CASE i \notin single
      BY <3>1, <3>3 DEF Seated
    <3> QED
      BY <3>1, <3>2, <3>3
  <2>4. used' = {assigned'[k].src : k \in single'}
    BY <1>1, <2>1, <2>2, <2>3
  <2>5. \A j, k \in single' : assigned'[j].src = assigned'[k].src => j = k
    BY <2>1, <2>2, <2>3
  <2> QED
    BY <2>4, <2>5 DEF UsedIsSeated
<1> QED
  BY <1>2, <1>3 DEF SeatsInv

LEMMA SeatingStep ==
  ASSUME SeatsInv,
         \/ StartSeating \/ TypeASeed \/ LeaveUnseated \/ SeatBack \/ ReviewBack
         \/ \E src \in DOMAIN sources : Seat(src)
  PROVE  SeatsInv'
<1>1. CASE StartSeating
  <2>1. pc' = "seat" /\ at' \in Nat \ {0} /\ (at' \in DOMAIN assigned => assigned[at'].src = 0)
    BY <1>1, Flow DEF StartSeating
  <2>2. TypeSeed \/ UNCHANGED sources
    BY <1>1 DEF StartSeating
  <2>3. UNCHANGED <<list, used, assigned, edits>> /\ Valid(list)
    BY <1>1 DEF StartSeating, SeatsInv, PastIsValid, Past
  <2> QED
    BY <2>1, <2>2, <2>3, SeedStep
<1>2. CASE TypeASeed
  BY <1>2, SeedStep DEF TypeASeed, Asking, SeatsInv, AskedIsFree, PastIsValid, Past, Seated
<1>3. CASE LeaveUnseated
  <2>1. at \in Nat \ {0} /\ SeatFlow(assigned, at + 1) /\ at + 1 \in Nat \ {0}
    BY <1>3 DEF LeaveUnseated, Asking, SeatsInv, AskedIsFree
  <2>2. pc' = "seat" /\ at' \in Nat \ {0} /\ (at' \in DOMAIN assigned => assigned[at'].src = 0)
    BY <2>1, Flow
  <2>3. UNCHANGED <<sources, list, used, assigned, edits>> /\ Valid(list)
    BY <1>3 DEF LeaveUnseated, Asking, SeatsInv, PastIsValid, Past
  <2> QED
    BY <2>2, <2>3, SeedStep
<1>4. CASE SeatBack
  <2>1. at \in Nat \ {0} /\ at > 1 /\ at - 1 \in DOMAIN assigned /\ SlotCount(list) \in Nat
    BY <1>4, SlotsFinite DEF SeatBack, Asking, SeatsInv, AskedIsFree, Types
  <2>2. /\ ReleaseSeat(at - 1) /\ UNCHANGED <<list, sources, edits>> /\ Valid(list)
        /\ pc' = "seat" /\ at' = at - 1
    BY <1>4 DEF SeatBack, Asking, SeatsInv, PastIsValid, Past
  <2>3. at' \in Nat \ {0} /\ assigned'[at'].src = 0
    BY <2>1, <2>2 DEF ReleaseSeat, Unseated
  <2> QED
    BY <2>1, <2>2, <2>3, ReleaseStep
<1>5. CASE ReviewBack
  <2>1. CASE pc' = "paths" /\ UNCHANGED <<assigned, used, at>>
    BY <1>5, <2>1, Unmoved DEF ReviewBack, Past
  <2>2. CASE \E i \in DOMAIN assigned : LastSeat(i) /\ ReleaseSeat(i) /\ SeatFlow(assigned', 1)
    <3>1. PICK i \in DOMAIN assigned : ReleaseSeat(i) /\ SeatFlow(assigned', 1)
      BY <2>2
    <3>2. pc' = "seat" /\ at' \in Nat \ {0} /\ (at' \in DOMAIN assigned' => assigned'[at'].src = 0)
      BY <3>1, Flow
    <3>3. UNCHANGED <<list, sources, edits>> /\ Valid(list)
      BY <1>5 DEF ReviewBack, SeatsInv, PastIsValid, Past
    <3> QED
      BY <3>1, <3>2, <3>3, ReleaseStep
  <2> QED
    BY <1>5, <2>1, <2>2 DEF ReviewBack
<1>6. CASE \E src \in DOMAIN sources : Seat(src)
  BY <1>6, SeatStep
<1> QED
  BY <1>1, <1>2, <1>3, <1>4, <1>5, <1>6

-----------------------------------------------------------------------------
LEMMA SeatsInit ==
  ASSUME Init
  PROVE  SeatsInv
<1>1. list = [wrapper |-> "tr", paths |-> <<>>] /\ assigned = <<>> /\ used = {} /\ pc = "start" /\ edits = 0
  BY DEF Init
<1>2. list \in Lists
  BY <1>1 DEF Lists
<1>3. SlotCount(list) = 0
  <2>1. DOMAIN Form(list) = {}
    BY <1>1 DEF Form
  <2>2. Slots(Form(list)) = {}
    BY <2>1 DEF Slots
  <2> QED
    BY <2>2, FS_EmptySet DEF SlotCount
<1>4. sources \in Seq(AllSources)
  <2>1. PICK p \in Payloads : sources = p
    BY DEF Init
  <2>2. p \in Seq({p[r] : r \in 1..Len(p)}) /\ {p[r] : r \in 1..Len(p)} \subseteq AllSources
    BY ComposerAssumption DEF AllSources
  <2> QED
    BY <2>1, <2>2
<1>5. DOMAIN assigned = {} /\ DOMAIN assigned = 1..SlotCount(list)
  BY <1>1, <1>3
<1> QED
  BY <1>1, <1>2, <1>4, <1>5
     DEF SeatsInv, Types, PastIsValid, AskedIsFree, SeatsFit, UsedIsSeated, AnySeat, Seated, Past

LEMMA SeatsNext ==
  ASSUME SeatsInv, [Next]_vars
  PROVE  SeatsInv'
<1>1. CASE UNCHANGED vars
  BY <1>1 DEF vars, SeatsInv, Types, PastIsValid, AskedIsFree, SeatsFit, UsedIsSeated, AnySeat, Seated
<1>2. CASE Start
  BY <1>2, StartFits, OtherScreens DEF Start
<1>3. CASE ShapeFlow
  <2>1. CASE Editing /\ PathEdit
    BY <2>1, FieldEdits, RemovePathStep, MoveUpStep DEF PathEdit
  <2>2. CASE Editing /\ (AddPath \/ ChangeScript)
    BY <2>2, AddPathStep, ChangeScriptStep
  <2>3. CASE Done \/ Go("paths", "start")
    BY <2>3, Moves
  <2> QED
    BY <1>3, <2>1, <2>2, <2>3 DEF ShapeFlow
<1>4. CASE EachPass
  BY <1>4, OtherScreens, Moves DEF EachPass
<1>5. CASE Seating
  BY <1>5, SeatingStep, Moves DEF Seating
<1>6. CASE Review \/ Engrave
  BY <1>6, SeatingStep, Moves, OtherScreens DEF Review, Engrave
<1> QED
  BY <1>1, <1>2, <1>3, <1>4, <1>5, <1>6 DEF Next

(* A seat stays only while the slot it was chosen for spends on the same   *)
(* key of the same path (gui/composer_discard.go), and a key or a card is  *)
(* taken as used exactly while it sits in a slot, and sits in one:         *)
(* composerSeatFlow and composerReleaseSeat.                               *)
THEOREM SeatingAlwaysHolds == Spec => []SeatingHolds
<1>1. Init => SeatsInv
  BY SeatsInit
<1>2. SeatsInv /\ [Next]_vars => SeatsInv'
  BY SeatsNext
<1>3. SeatsInv => SeatingHolds
  BY DEF SeatsInv, SeatingHolds
<1> QED
  BY <1>1, <1>2, <1>3, PTL DEF Spec

-----------------------------------------------------------------------------
(* What is consented to and cut. *)
Chosen == {"template", "seating", "seat", "review", "policy", "consent", "engrave", "cut"}
Agreed == {"policy", "consent", "engrave", "cut"}

KindFits == pc \in Chosen => (unspendable = "liana" => list.wrapper = "tr" /\ ~HasKeyPath)
KeysDiffer == pc \in Agreed => ~OriginClash /\ ~SameMaterial
PlatesFit == plates \subseteq HashesOf(list) /\ (plates # {} => pc = "cut")

SoundInv == KindFits /\ KeysDiffer /\ PlatesFit

(* Edits are made with no plates open and before the kind is chosen. *)
LEMMA BackAtList ==
  ASSUME SoundInv, pc # "cut", UNCHANGED plates, pc' \notin Chosen
  PROVE  SoundInv'
<1>1. plates' = {}
  BY DEF SoundInv, PlatesFit
<1> QED
  BY <1>1 DEF SoundInv, KindFits, KeysDiffer, PlatesFit, Chosen, Agreed

LEMMA SoundEdits ==
  ASSUME SoundInv, Start \/ ShapeFlow
  PROVE  SoundInv'
<1>1. pc \in {"start", "paths"} /\ pc' \in {"start", "paths", "keypath", "exit"} /\ UNCHANGED plates
  <2>1. CASE Start
    BY <2>1 DEF Start, StartStep, StartDeclined, Exit
  <2>2. CASE Editing /\ PathEdit
    BY <2>2 DEF PathEdit, KeysEdit, LockEdit, HashEdit, RemovePath, MoveUp, Editing, Edited
  <2>3. CASE Editing /\ (AddPath \/ ChangeScript)
    BY <2>3 DEF AddPath, ChangeScript, Editing, Edited
  <2>4. CASE Done \/ Go("paths", "start")
    BY <2>4 DEF Done, Go
  <2> QED
    BY <2>1, <2>2, <2>3, <2>4 DEF ShapeFlow
<1> QED
  BY <1>1, BackAtList DEF Chosen

(* The screens from the choice of the kind to the plates leave the list.   *)
LEMMA SoundScreens ==
  ASSUME SoundInv, SeatsInv, EachPass \/ Seating \/ Review \/ Engrave
  PROVE  SoundInv'
<1>1. CASE KeyPath
  BY <1>1 DEF KeyPath, KeptKind, SoundInv, KindFits, KeysDiffer, PlatesFit, HasKeyPath, Chosen, Agreed
<1>2. CASE Template \/ TemplateRefused
  BY <1>2 DEF Template, TemplateRefused, Go, SoundInv, KindFits, KeysDiffer, PlatesFit, HasKeyPath,
              Chosen, Agreed
<1>3. CASE Keyless
  <2>1. \A i \in DOMAIN assigned : ~Seated(i)
    BY <1>3 DEF Keyless, SeatsInv, Types, Seated
  <2>2. ~OriginClash' /\ ~SameMaterial'
    BY <1>3, <2>1 DEF Keyless, Go, OriginClash, SameMaterial, Seated
  <2> QED
    BY <1>3, <2>2 DEF Keyless, Go, SoundInv, KindFits, KeysDiffer, PlatesFit, HasKeyPath, Chosen, Agreed
<1>4. CASE \/ StartSeating \/ SeatingBack \/ TypeASeed \/ LeaveUnseated \/ SeatBack
           \/ SeatLeave \/ SeatingEnds \/ Shortfall \/ ReviewBack
           \/ \E src \in DOMAIN sources : Seat(src)
  <2>1. /\ pc \in {"seating", "seat", "review"} /\ pc' \in {"paths", "seat", "review"}
        /\ UNCHANGED <<list, unspendable, plates>>
    BY <1>4 DEF StartSeating, SeatingBack, TypeASeed, LeaveUnseated, SeatBack, SeatLeave, SeatingEnds,
                Shortfall, ReviewBack, Seat, SeatFlow, Asking, Go
  <2> QED
    BY <2>1 DEF SoundInv, KindFits, KeysDiffer, PlatesFit, HasKeyPath, Chosen, Agreed
<1>5. CASE ReviewPasses
  BY <1>5 DEF ReviewPasses, Go, SoundInv, KindFits, KeysDiffer, PlatesFit, HasKeyPath, OriginClash,
              SameMaterial, Seated, Chosen, Agreed
<1>6. CASE PolicyBack \/ PolicyForward \/ Consent \/ ConsentBack \/ EngraveBack
  BY <1>6 DEF PolicyBack, PolicyForward, Consent, ConsentBack, EngraveBack, Go, SoundInv, KindFits,
              KeysDiffer, PlatesFit, HasKeyPath, OriginClash, SameMaterial, Seated, Chosen, Agreed
<1>7. CASE PickPlates \/ CutPreimage \/ AbortCut \/ CutPolicy
  BY <1>7 DEF PickPlates, CutPreimage, AbortCut, CutPolicy, Exit, Offered, SoundInv, KindFits,
              KeysDiffer, PlatesFit, HasKeyPath, OriginClash, SameMaterial, Seated, Chosen, Agreed
<1> QED
  BY <1>1, <1>2, <1>3, <1>4, <1>5, <1>6, <1>7 DEF EachPass, Seating, Review, Engrave

(* What reaches consent and the plates is a policy the codec takes, of     *)
(* keys that differ, with a kind of key path that still fits and no        *)
(* preimage whose digest is gone, however often the list was edited after  *)
(* the choices were made.                                                  *)
THEOREM ConsentedAlwaysSound == Spec => []ConsentedIsSound
<1>1. Init => SeatsInv /\ SoundInv
  BY SeatsInit DEF Init, SoundInv, KindFits, KeysDiffer, PlatesFit, Chosen, Agreed
<1>2. SeatsInv /\ SoundInv /\ [Next]_vars => SeatsInv' /\ SoundInv'
  <2> SUFFICES ASSUME SeatsInv, SoundInv, [Next]_vars PROVE SeatsInv' /\ SoundInv'
    OBVIOUS
  <2>1. CASE UNCHANGED vars
    <3>1. SeatsInv'
      BY SeatsNext
    <3> QED
      BY <2>1, <3>1 DEF vars, SoundInv, KindFits, KeysDiffer, PlatesFit, HasKeyPath, OriginClash,
                        SameMaterial, Seated
  <2> QED
    BY <2>1, SeatsNext, SoundEdits, SoundScreens DEF Next
<1>3. SeatsInv /\ SoundInv => ConsentedIsSound
  BY DEF SeatsInv, SoundInv, PastIsValid, Past, KindFits, KeysDiffer, PlatesFit, ConsentedIsSound,
         Chosen, Agreed
<1> QED
  BY <1>1, <1>2, <1>3, PTL DEF Spec

-----------------------------------------------------------------------------
(* Whatever costs a seat renumbers, and the guard looked for just that.    *)
Discards == assigned' # assigned /\ ShapeSignature(list') # ShapeSignature(list) /\ AnySeat

LEMMA LossDiscards ==
  ASSUME SeatsInv, NEW next, ApplyShapeEdit(next), LosesSeat
  PROVE  Discards /\ list' = next
<1> QED
  BY DEF ApplyShapeEdit, LosesSeat, Discards, AnySeat, Seated

LEMMA LockIsAsked ==
  ASSUME NEW i \in DOMAIN list.paths, list \in Lists, NEW lock \in BOOLEAN,
         ShapeSignature(WithLock(list, i, lock)) # ShapeSignature(list)
  PROVE  LockCanRenumber(list, i)
<1>1. list.paths \in Seq(Paths) /\ list.paths[i] \in Paths /\ list = [list EXCEPT !.paths = list.paths]
  BY DEF Lists
<1>2. list.paths[i].lock \in BOOLEAN
  BY <1>1 DEF Paths
<1>3. [list.paths[i] EXCEPT !.lock = list.paths[i].lock] = list.paths[i]
  BY <1>1 DEF Paths
<1>4. WithLock(list, i, list.paths[i].lock) = list
  BY <1>1, <1>3 DEF WithLock, Lists
<1>5. lock # list.paths[i].lock
  BY <1>4
<1>6. CASE lock = TRUE /\ list.paths[i].lock = FALSE
  BY <1>4, <1>6 DEF LockCanRenumber
<1>7. CASE lock = FALSE /\ list.paths[i].lock = TRUE
  BY <1>4, <1>7 DEF LockCanRenumber
<1> QED
  BY <1>2, <1>5, <1>6, <1>7

(* The signature sees of a digest only that it is there. *)
LEMMA HashIsAsked ==
  ASSUME NEW i \in DOMAIN list.paths, list \in Lists, NEW hash \in Hashes \cup {NoHash},
         ShapeSignature(WithHash(list, i, hash)) # ShapeSignature(list)
  PROVE  HashCanRenumber(list, i)
<1> DEFINE cur == list.paths[i].hash
<1>1. list.paths \in Seq(Paths) /\ list.paths[i] \in Paths
  BY DEF Lists
<1>2. cur \in Hashes \cup {NoHash} /\ [list.paths[i] EXCEPT !.hash = cur] = list.paths[i]
  BY <1>1 DEF Paths
<1>3. WithHash(list, i, cur) = list
  BY <1>1, <1>2 DEF WithHash, Lists
<1>4. ASSUME NEW g \in Hashes, NEW h \in Hashes
      PROVE  ShapeSignature(WithHash(list, i, g)) = ShapeSignature(WithHash(list, i, h))
  <2>1. g # NoHash /\ h # NoHash
    BY ComposerAssumption
  <2>2. /\ WithHash(list, i, g).wrapper = WithHash(list, i, h).wrapper
        /\ DOMAIN WithHash(list, i, g).paths = DOMAIN WithHash(list, i, h).paths
        /\ \A k \in DOMAIN list.paths :
             LET p == WithHash(list, i, g).paths[k]
                 q == WithHash(list, i, h).paths[k]
             IN p.n = q.n /\ p.lock = q.lock /\ (p.hash # NoHash) = (q.hash # NoHash)
    BY <1>1, <2>1 DEF WithHash, Lists, Paths
  <2>3. DOMAIN WithHash(list, i, g).paths = DOMAIN list.paths
    BY <1>1 DEF WithHash, Lists
  <2>4. Form(WithHash(list, i, g)) = Form(WithHash(list, i, h))
    BY <2>2, <2>3 DEF Form
  <2> QED
    BY <2>2, <2>4 DEF ShapeSignature
<1>5. CASE cur = NoHash /\ hash \in Hashes
  BY <1>3, <1>5 DEF HashCanRenumber
<1>6. CASE cur \in Hashes /\ hash = NoHash
  BY <1>3, <1>6 DEF HashCanRenumber
<1> QED
  BY <1>2, <1>3, <1>4, <1>5, <1>6

(* Seats go, at the list of paths, only after the guard has warned and     *)
(* been confirmed: composerEditCanRenumber asks with the field cleared and *)
(* with it set, which is enough.                                           *)
THEOREM NeverSilent == Spec => NoSilentDiscard
<1> DEFINE Warned == (pc \in {"paths", "start"} /\ LosesSeat) => (confirmed' = TRUE)
<1>1. Init => SeatsInv
  BY SeatsInit
<1>2. SeatsInv /\ [Next]_vars => SeatsInv'
  BY SeatsNext
<1>3. SeatsInv /\ [Next]_vars => [Warned]_vars
  <2> SUFFICES ASSUME SeatsInv, Next, pc \in {"paths", "start"}, LosesSeat PROVE confirmed' = TRUE
    BY DEF vars
  <2>1. AnySeat /\ list \in Lists /\ assigned' # assigned
    BY DEF LosesSeat, AnySeat, Seated, SeatsInv, Types
  <2>2. ASSUME NEW i \in DOMAIN list.paths, LockEdit(i) PROVE confirmed' = TRUE
    <3>1. PICK lock \in BOOLEAN : ApplyShapeEdit(WithLock(list, i, lock))
      BY <2>2 DEF LockEdit
    <3>2. LockCanRenumber(list, i)
      BY <2>1, <3>1, LossDiscards, LockIsAsked DEF Discards
    <3> QED
      BY <2>1, <2>2, <3>2 DEF LockEdit, Edited
  <2>3. ASSUME NEW i \in DOMAIN list.paths, HashEdit(i) PROVE confirmed' = TRUE
    <3>1. PICK hash \in Hashes \cup {NoHash} : ApplyShapeEdit(WithHash(list, i, hash))
      BY <2>3 DEF HashEdit, TakeHash
    <3>2. HashCanRenumber(list, i)
      BY <2>1, <3>1, LossDiscards, HashIsAsked DEF Discards
    <3> QED
      BY <2>1, <2>3, <3>2 DEF HashEdit, Edited
  <2>4. CASE ShapeFlow
    BY <2>1, <2>2, <2>3, <2>4
       DEF ShapeFlow, PathEdit, KeysEdit, RemovePath, MoveUp, AddPath, ChangeScript, Edited, Done, Go
  <2>5. CASE StartStep
    <3>1. PICK next : StartFrom(next)
      BY <2>5 DEF StartStep
    <3>2. ShapeSignature(next) # ShapeSignature(list)
      BY <3>1, LossDiscards DEF StartFrom, Discards
    <3> QED
      BY <2>1, <3>1, <3>2 DEF StartFrom
  <2>6. ~StartDeclined /\ ~Exit("start")
    BY <2>1 DEF StartDeclined, Exit
  <2>7. ~EachPass /\ ~Seating /\ ~Review /\ ~Engrave
    BY DEF EachPass, KeyPath, Template, TemplateRefused, Seating, Keyless, StartSeating, SeatingBack,
           Seat, TypeASeed, LeaveUnseated, SeatBack, SeatLeave, SeatingEnds, Shortfall, Asking,
           Review, ReviewBack, ReviewPasses, Engrave, PolicyBack, PolicyForward, Consent,
           ConsentBack, PickPlates, EngraveBack, CutPreimage, AbortCut, CutPolicy, Go, Exit
  <2> QED
    BY <2>4, <2>5, <2>6, <2>7 DEF Next, Start
<1>4. SeatsInv /\ [Next]_vars => [Warned]_vars
  BY <1>3
<1> QED
  BY <1>1, <1>2, <1>4, PTL DEF Spec, NoSilentDiscard, Warned

(* A template that follows another one says so when a slot it or an        *)
(* earlier one showed has a new origin: composerOriginMemory.              *)
THEOREM AlwaysFlagged == Spec => OriginsAreFlagged
<1> DEFINE Memory == shown = <<>> => DOMAIN seen = {}
           Flagged == \A i \in DOMAIN seen :
             i \in DOMAIN seen' /\ (seen'[i] # seen[i] => (StubDelta(AdvertisedOrigins) # "none"))
<1>1. Init => Memory
  BY DEF Init
<1>2. Template => /\ shown' = TemplateId /\ shown' # <<>> /\ seen' = Remember(AdvertisedOrigins)
  BY DEF Template, TemplateId
<1>3. [Next]_vars /\ ~Template => UNCHANGED <<shown, seen>>
  BY DEF Next, vars, Start, StartStep, StartDeclined, Exit, ShapeFlow, PathEdit, KeysEdit, LockEdit,
         HashEdit, RemovePath, MoveUp, AddPath, ChangeScript, Edited, Done, Go, EachPass, KeyPath,
         TemplateRefused, Seating, Keyless, StartSeating, SeatingBack, Seat, TypeASeed,
         LeaveUnseated, SeatBack, SeatLeave, SeatingEnds, Shortfall, Review, ReviewBack,
         ReviewPasses, Engrave, PolicyBack, PolicyForward, Consent, ConsentBack, PickPlates,
         EngraveBack, CutPreimage, AbortCut, CutPolicy
<1>4. Memory /\ [Next]_vars => Memory'
  BY <1>2, <1>3
<1>5. Memory /\ [Next]_vars => [Flagged]_vars
  <2> SUFFICES ASSUME Memory, Next PROVE Flagged
    OBVIOUS
  <2>1. CASE Template
    <3> SUFFICES ASSUME NEW i \in DOMAIN seen
                 PROVE  i \in DOMAIN seen' /\ (seen'[i] # seen[i] => (StubDelta(AdvertisedOrigins) # "none"))
      OBVIOUS
    <3> DEFINE now == AdvertisedOrigins
    <3> HIDE DEF now
    <3>1. seen' = Remember(now) /\ shown # <<>>
      BY <1>2, <2>1 DEF now
    <3>2. i \in DOMAIN seen' /\ seen'[i] = IF i \in DOMAIN now THEN now[i] ELSE seen[i]
      BY <3>1 DEF Remember
    <3>3. seen'[i] # seen[i] => StubDelta(now) # "none"
      BY <3>1, <3>2 DEF StubDelta
    <3> QED
      BY <3>2, <3>3 DEF now
  <2>2. CASE ~Template
    BY <1>3, <2>2
  <2> QED
    BY <2>1, <2>2
<1> QED
  BY <1>1, <1>4, <1>5, PTL DEF Spec, OriginsAreFlagged, Flagged
=============================================================================
