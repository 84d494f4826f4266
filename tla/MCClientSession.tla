-------------------------- MODULE MCClientSession --------------------------
(* Small instances of ClientSession for TLC.                                 *)
EXTENDS ClientSession, TLC

PageSymmetry == Permutations(Sockets) \cup Permutations(Symbols)
=============================================================================
