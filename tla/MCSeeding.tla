----------------------------- MODULE MCSeeding ------------------------------
(* Small instances of Seeding for TLC.                                       *)
EXTENDS Seeding, TLC

CONSTANTS admin, client, other, btc

OneSymbol == <<btc>>
\* The variable of both user seeds is set, and the index is switched off.
Production ==
  [variable \in {"SEED_ADMIN_EMAIL", "MONGODB_AUTO_INDEX"} |->
     IF variable = "SEED_ADMIN_EMAIL" THEN other ELSE FALSE]

SeedSymmetry == Permutations(Ids) \cup Permutations(Seeds)
=============================================================================
