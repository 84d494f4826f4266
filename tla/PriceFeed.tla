------------------------------ MODULE PriceFeed ------------------------------
(* What the ticker chain promises to the outside, whatever administrators,   *)
(* the store and shutdown do meanwhile: every broadcast is a quote the       *)
(* exchange sent, in the order it sent them and at most once, quotes may be  *)
(* dropped, one at a time or the rest of a batch together, and every quote   *)
(* is eventually broadcast or dropped.  A restart forgets everything heard.  *)
EXTENDS Naturals, Sequences

CONSTANTS Batches, NotFinite, None

VARIABLES
  heard,   \* batches received since the last restart
  full,    \* how many of them are settled to their end
  part,    \* how many quotes of the next one are settled
  emit     \* the last broadcast

feedVars == <<heard, full, part, emit>>

Init ==
  /\ heard = <<>>
  /\ full = 0
  /\ part = 0
  /\ emit = None

Hear ==
  /\ \E b \in Batches : heard' = Append(heard, b)
  /\ UNCHANGED <<full, part, emit>>

\* The next quote of the batch in hand is settled.
SettleOne ==
  IF part + 1 < Len(heard[full + 1])
    THEN part' = part + 1 /\ full' = full
    ELSE part' = 0 /\ full' = full + 1

Publish ==
  /\ full < Len(heard)
  /\ part < Len(heard[full + 1])
  /\ LET q == heard[full + 1][part + 1] IN
     /\ q.c # NotFinite
     /\ emit' = [batch |-> full + 1, entry |-> part + 1, ps |-> q.s,
                 price |-> q.c]
  /\ SettleOne
  /\ UNCHANGED heard

DropOne ==
  /\ full < Len(heard)
  /\ part < Len(heard[full + 1])
  /\ SettleOne
  /\ UNCHANGED <<heard, emit>>

DropRest ==
  /\ full < Len(heard)
  /\ full' = full + 1
  /\ part' = 0
  /\ UNCHANGED <<heard, emit>>

Restart ==
  /\ heard' = <<>>
  /\ full' = 0
  /\ part' = 0
  /\ emit' = None

Settle == Publish \/ DropOne \/ DropRest
Next == Hear \/ Settle \/ Restart

Spec == Init /\ [][Next]_feedVars
FairSpec == Spec /\ WF_feedVars(Settle)
=============================================================================
