--------------------------- MODULE MCAuthSessions ---------------------------
(* Small instances of AuthSessions for TLC.                                  *)
EXTENDS AuthSessions, TLC

AuthSymmetry ==
  Permutations(Users) \cup Permutations(Browsers) \cup Permutations(Tokens)
    \cup Permutations(Calls)
=============================================================================
