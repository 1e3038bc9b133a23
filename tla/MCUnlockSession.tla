--------------------------- MODULE MCUnlockSession ---------------------------
(* Every pair of sections of at most one public and three encrypted        *)
(* records, over one class of each kind the code tells apart.              *)
EXTENDS UnlockSession, SequencesExt

PublicClasses == {"card", "lone", "mnemonic", "upper"}
EncryptedClasses == {"card", "mnemonic", "codex32", "long", "foreign", "broken"}

MCRegions ==
  {r \in [public : BoundedSeq(PublicClasses, 1), secret : BoundedSeq(EncryptedClasses, 3)] :
     r.public \o r.secret # <<>>}

=============================================================================
