-------------------------- MODULE MCBridgeMatcher ---------------------------
(* BridgeMatcher on a small instance; MCBridgeMatcher.cfg gives the bounds. *)
EXTENDS BridgeMatcher

\* The two transfers can be exchanged, and so every pair of what becomes of them is
\* met once: the first has the lower rank.
FateRank == [failed |-> 0, received |-> 1, rejected |-> 2, timeout |-> 3, closed |-> 4]
Rank(t) == FateRank[fate[t]] + (IF source[t] = This THEN 0 ELSE 5)

FirstTransfer == CHOOSE t \in Transfers : TRUE

MCInit == Init /\ \A t \in Transfers : Rank(FirstTransfer) <= Rank(t)

MCSpec == MCInit /\ [][Next]_vars /\ WF_vars(Projections) /\ WF_vars(Matcher)
=============================================================================
