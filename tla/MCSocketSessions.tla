-------------------------- MODULE MCSocketSessions --------------------------
(* Small instances of SocketSessions for TLC.                                *)
EXTENDS SocketSessions, TLC

SessionSymmetry ==
  Permutations(Users) \cup Permutations(Sockets) \cup Permutations(Symbols)
=============================================================================
