-------------------------- MODULE MCMultisigSession --------------------------
(* Two seeds' words, one passphrase; payloads with a foreign card, a card  *)
(* of the operator's own, one stating a wrong path, one a fingerprint that *)
(* contradicts it and one none; policies with one key in two slots.        *)
EXTENDS MultisigSession

Card(seed, path, stated, fp) == [xpub |-> Derived(seed, path), path |-> stated, fp |-> fp]
Other == <<"other", NoPhrase>>
Own == <<"w1", NoPhrase>>
Key(seed, path) == [xpub |-> Derived(seed, path), path |-> path]

MCPayloads ==
  { <<>>,
    <<Card(Other, 0, 0, Other)>>,
    <<Card(Own, 0, 0, Own), Card(Other, 0, 0, NoFp)>>,
    <<Card(Own, 1, 0, Own), Card(Own, 0, 0, Other), Card(Other, 0, Root, Other)>>,
    <<Card(Own, 0, 0, NoFp), Card(Own, 3, 3, Own), Card(<<"w2", "p">>, 2, 2, NoFp)>> }

MCSupplied ==
  { <<Key(Own, 0), Key(Other, 0)>>,
    <<Key(Own, 0), Key(Own, 1), Key(<<"w1", "p">>, 0)>>,
    <<Key(<<"w2", "p">>, 0), Key(Own, 1), Key(<<"w2", "p">>, 0)>> }

MCStrangers == {Plate(Other, 0, <<"other">>)}

=============================================================================
