---------------------------- MODULE MCBundleGather ----------------------------
(* Cards for BundleGather.  Three key cards carry the id 1, one of them    *)
(* with another number of chunks, and one carries 2; a descriptor carries  *)
(* 1 in its own space; another one is stamped with an id its content does  *)
(* not derive, so it never decodes; the last is a single string.           *)
EXTENDS BundleGather

CONSTANTS key1, key2, key3, key4, desc, stamped, single

MCCards == {key1, key2, key3, key4, desc, stamped, single}
MCStandalone == {single}
MCSound == MCCards \ {stamped}
MCKey == [c \in MCCards \ {single} |->
            <<IF c \in {desc, stamped} THEN "md" ELSE "mk",
              IF c \in {key4, stamped} THEN 2 ELSE 1>>]
MCTotal == [c \in MCCards |-> IF c = single THEN 1 ELSE IF c = key3 THEN 3 ELSE 2]

S(c, i) == [card |-> c, index |-> i]
(* Two interleaved cards; a card in two, a string of another between them; *)
(* a card that is short of a chunk.                                        *)
MCPayloads ==
  {<<S(key1, 0), S(desc, 0), S(desc, 1), S(key1, 1)>>,
   <<S(desc, 1), S(single, 0), S(key2, 0), S(single, 0), S(key1, 1), S(desc, 0)>>,
   <<S(key3, 0), S(key4, 0), S(key3, 2), S(key4, 1)>>}
=============================================================================
