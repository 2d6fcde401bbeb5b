------------------------------ MODULE MCProposal ------------------------------
(* Proposal on small instances; the .cfg files give the bounds. *)
EXTENDS Proposal, TLC

ProposalSymmetry == Permutations(Accounts) \cup Permutations(Answers) \cup Permutations(Keys)
=============================================================================
