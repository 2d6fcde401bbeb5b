------------------------------ MODULE IndexLog ------------------------------
(***************************************************************************)
(* What indexing promises, whatever the mode: the blocks 0, 1, 2, ... of   *)
(* the chain are applied to the store one at a time, in the order of their *)
(* heights, without a gap, never beyond the tip of the chain, and the      *)
(* height the store reports as last handled is the last one applied.       *)
(*                                                                         *)
(* With Repeats, the last block may be applied again (at least once);      *)
(* without, each block is applied exactly once.                            *)
(*                                                                         *)
(* The detailed specifications (SyncManager, ProjectionRunner) are shown   *)
(* to implement this one.                                                  *)
(***************************************************************************)
EXTENDS Integers, Sequences

CONSTANTS Nil,          \* "nothing handled yet" (a nil *int64)
          Repeats       \* may the last block be applied again?

VARIABLES chain,        \* height of the newest block; 0 is the genesis
          log,          \* the applied blocks, oldest first
          lastHandled   \* the height the store reports as last handled

vars == <<chain, log, lastHandled>>

\* An application: the height it was recorded at and the block it came from.
Entry(height, block) == [height |-> height, block |-> block]

Init ==
    /\ chain = 0
    /\ log = << >>
    /\ lastHandled = Nil

\* The chain produces a block.
Produce ==
    /\ chain' = chain + 1
    /\ UNCHANGED <<log, lastHandled>>

Upcoming == IF lastHandled = Nil THEN 0 ELSE lastHandled + 1

\* The next block of the chain is applied and reported, in one step.
Apply ==
    /\ Upcoming <= chain
    /\ log' = Append(log, Entry(Upcoming, Upcoming))
    /\ lastHandled' = Upcoming
    /\ UNCHANGED chain

\* The block that was reported last is applied once more.
Repeat ==
    /\ Repeats /\ lastHandled # Nil
    /\ log' = Append(log, Entry(lastHandled, lastHandled))
    /\ UNCHANGED <<chain, lastHandled>>

Next == Produce \/ Apply \/ Repeat

Spec == Init /\ [][Next]_vars

=============================================================================
