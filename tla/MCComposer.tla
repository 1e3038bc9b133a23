------------------------------ MODULE MCComposer ------------------------------
(* Presets scaled to two keys a path, and a card that carries the first    *)
(* key of the seed that can be typed, declares the origin of the second    *)
(* and has no fingerprint: it may repeat a key of the seed, or its origin. *)
EXTENDS Composer

Path(id, n, lock, hash) == [id |-> id, n |-> n, lock |-> lock, hash |-> hash]

MCPresets == {
  <<Path(1, 2, FALSE, NoHash)>>,                              \* plain-multisig
  <<Path(1, 1, FALSE, NoHash), Path(2, 1, TRUE, NoHash)>>,    \* simple-timelocked-inheritance
  <<Path(1, 1, FALSE, "h1"), Path(2, 1, TRUE, NoHash)>>}      \* hashlock-gated

Record(kind, fp, origin, material) ==
  [kind |-> kind, fp |-> fp, origin |-> origin, material |-> material]

MCPayloads == {<<>>, <<Record("card", NoFp, <<3, 1>>, <<"f1", <<3, 0>>>>)>>}
===============================================================================
