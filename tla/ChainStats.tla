------------------------------ MODULE ChainStats ------------------------------
(***************************************************************************)
(* The chain statistics (projection/chainstats): the number of blocks, the *)
(* divisor of the average block time, is kept twice, in the table and in   *)
(* the memory of the projection, which the next block is counted from.     *)
(*                                                                         *)
(* A nil pointer or row is -1; the two pointers of the projection are set  *)
(* together.                                                               *)
(***************************************************************************)
EXTENDS Feeder

VARIABLES
    blockCount,   \* the row total_block_count of view_chain_stats
    maybeTotalBlockCount  \* the same, in memory

vars == <<feederVars, blockCount, maybeTotalBlockCount>>

tables == <<lastHandled, blockCount>>

Init ==
    /\ FeederInit
    /\ blockCount = -1 /\ maybeTotalBlockCount = -1

-----------------------------------------------------------------------------

Restart == FeederRestart /\ maybeTotalBlockCount' = -1 /\ UNCHANGED blockCount

Crash == FeederCrash /\ maybeTotalBlockCount' = -1 /\ UNCHANGED blockCount

\* The memory is read from the table; a table without rows leaves it nil.
OnInit ==
    /\ StartFeeding
    /\ maybeTotalBlockCount' = blockCount
    /\ UNCHANGED blockCount

OnInitFail ==
    /\ pc = "init"
    /\ Fault
    /\ pc' = "off"
    /\ UNCHANGED <<tables, maybeTotalBlockCount, next>>

\* Height 0 is the genesis; a block dereferences the memory.
Panics == next > 0 /\ maybeTotalBlockCount = -1

\* Mutant of Counted: the block is counted from the row.
CountedFromRow == IF next = 0 THEN 0 ELSE blockCount + 1

Counted == IF next = 0 THEN 0 ELSE maybeTotalBlockCount + 1

\* The transaction: the row and the last handled height.
Commit == blockCount' = Counted /\ lastHandled' = next

\* The memory follows the commit.
HandleEvents ==
    /\ pc = "feed" /\ next <= MaxHeight /\ ~Panics
    /\ Commit /\ FeedNext
    /\ maybeTotalBlockCount' = Counted
    /\ UNCHANGED pc

HandleEventsPanic ==
    /\ pc = "feed" /\ next <= MaxHeight /\ Panics
    /\ Restart
    /\ UNCHANGED <<faults, crashes>>

\* Mutant of HandleEventsFail: the memory counts the block before the commit.
HandleEventsFailCounts ==
    /\ pc = "feed" /\ next <= MaxHeight /\ ~Panics
    /\ Fault
    /\ (LostReplies /\ Commit) \/ UNCHANGED tables
    /\ maybeTotalBlockCount' = Counted
    /\ FeedAfterFailure
    /\ UNCHANGED pc

HandleEventsFail ==
    /\ pc = "feed" /\ next <= MaxHeight /\ ~Panics
    /\ Fault
    /\ (LostReplies /\ Commit) \/ UNCHANGED tables
    /\ FeedAfterFailure
    /\ UNCHANGED <<maybeTotalBlockCount, pc>>

-----------------------------------------------------------------------------

Next ==
    \/ OnInit \/ OnInitFail
    \/ HandleEvents \/ HandleEventsPanic \/ HandleEventsFail
    \/ Crash

Spec == Init /\ [][Next]_vars

-----------------------------------------------------------------------------
(* Properties *)

\* The values of the table and of the memory.
TypeOK ==
    /\ FeederTypeOK
    /\ pc \in {"init", "feed", "off"}
    /\ blockCount \in -1..MaxHeight /\ maybeTotalBlockCount \in -1..MaxHeight

\* What is fed after a failure is known to the projection's memory.
Trusted == mode = "EVENT_STORE" \/ ~LostReplies

\* After a block is handled the table counts it, once, whatever was repeated,
\* lost or restarted on the way: blocks 1 to h make a count of h.
CountMatchesHeight == Trusted => blockCount = lastHandled

\* A synchroniser that skips what was committed leaves the memory behind: the count
\* may lag, by one for each lost reply, but never runs ahead of the height.
CountLagIsBounded ==
    /\ blockCount <= lastHandled
    /\ lastHandled - blockCount <= faults

\* No block is fed to a projection that has forgotten the genesis.
NeverPanics == Trusted /\ pc = "feed" => ~Panics

\* Behind a feeder that can be trusted the count of blocks never goes wrong.
CountIsRight == CountMatchesHeight /\ NeverPanics
=============================================================================
