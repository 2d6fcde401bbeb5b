---------------------------- MODULE ValidatorStats ----------------------------
(***************************************************************************)
(* The validator statistics (projection/validatorstats): two rows, the     *)
(* rewards paid and the tokens delegated.  Each block reads them, adds its *)
(* events and writes them back in the transaction that records its height; *)
(* nothing is kept in memory.                                              *)
(*                                                                         *)
(* The chain decides the events of a block when it is first fed; a block   *)
(* that is fed again has the same events.                                  *)
(***************************************************************************)
EXTENDS Feeder, Coins, FiniteSetsExt

CONSTANTS
    Denoms,   \* the denoms there are
    Blocks,   \* the sequences of events a block may have
    Geneses   \* those the genesis may have

VARIABLES
    totalReward, totalDelegate,  \* the values of the two rows, empty without a row
    blocks                       \* the events of the blocks fed so far

rows == <<totalReward, totalDelegate>>

vars == <<feederVars, rows, blocks>>

Init ==
    /\ FeederInit
    /\ totalReward = NewEmptyCoins /\ totalDelegate = NewEmptyCoins
    /\ blocks = <<>>

-----------------------------------------------------------------------------

\* The events that pay rewards, with any number of coins, and those that delegate,
\* with one.
IsReward(event) == event.name \in {"BlockProposerRewarded", "BlockRewarded"}

IsDelegation(event) ==
    event.name \in {"CreateGenesisValidator", "MsgCreateValidator", "MsgDelegate"}

\* Mutant of Delegated: an undelegation is added.
DelegatedAlways(event) ==
    IF IsDelegation(event) \/ event.name = "MsgUndelegate" THEN <<event.amount>> ELSE <<>>

\* What an event adds to the tokens delegated.
Delegated(event) ==
    IF IsDelegation(event) THEN <<event.amount>>
    ELSE IF event.name = "MsgUndelegate" THEN <<Neg(event.amount)>>
    ELSE <<>>

Rewarded(event) == IF IsReward(event) THEN event.amount ELSE <<>>

\* A row after sets of coins are added to it, one after the other.
AddAll(coins, sets) ==
    LET total[n \in 0..Len(sets)] == IF n = 0 THEN coins ELSE Add(total[n - 1], sets[n])
    IN  total[Len(sets)]

\* The rows after the events of a block.
Set(events) ==
    /\ totalReward' = AddAll(totalReward, [i \in DOMAIN events |-> Rewarded(events[i])])
    /\ totalDelegate' = AddAll(totalDelegate, [i \in DOMAIN events |-> Delegated(events[i])])

\* A validator of the genesis is in no event that the event store can decode.
Decodes(events) ==
    mode = "EVENT_STORE" =>
        \A i \in DOMAIN events : events[i].name # "CreateGenesisValidator"

\* The block fed next: one that was fed before, or any that the chain may add.
BlockIs(events) ==
    IF next < Len(blocks) THEN events = blocks[next + 1] /\ UNCHANGED blocks
    ELSE /\ events \in (IF next = 0 THEN Geneses ELSE Blocks)
         /\ Decodes(events)
         /\ blocks' = Append(blocks, events)

Feeds(events) == pc = "feed" /\ next <= MaxHeight /\ BlockIs(events)

OnInit == StartFeeding /\ UNCHANGED <<rows, blocks>>

HandleEvents ==
    \E events \in Geneses \cup Blocks :
        /\ Feeds(events)
        /\ Set(events)
        /\ FeedNext
        /\ UNCHANGED pc

HandleEventsFail ==
    \E events \in Geneses \cup Blocks :
        /\ Feeds(events)
        /\ Fault
        /\ \/ LostReplies /\ Set(events) /\ lastHandled' = next
           \/ UNCHANGED <<rows, lastHandled>>
        /\ FeedAfterFailure
        /\ UNCHANGED pc

Crash == FeederCrash /\ UNCHANGED <<rows, blocks>>

-----------------------------------------------------------------------------

Next == OnInit \/ HandleEvents \/ HandleEventsFail \/ Crash

Spec == Init /\ [][Next]_vars

-----------------------------------------------------------------------------
(* Properties *)

Rows == {"TOTAL_REWARD", "TOTAL_DELEGATE"}

Total(row) == IF row = "TOTAL_REWARD" THEN totalReward ELSE totalDelegate

\* What an event pays of a denom, and what it adds to the tokens delegated.
Paid(event, denom) ==
    IF IsReward(event) /\ \E i \in DOMAIN event.amount : event.amount[i].denom = denom
    THEN LET i == CHOOSE j \in DOMAIN event.amount : event.amount[j].denom = denom
         IN  event.amount[i].amount
    ELSE 0

Bonded(event, denom) ==
    IF IsDelegation(event) /\ event.amount.denom = denom THEN event.amount.amount
    ELSE IF event.name = "MsgUndelegate" /\ event.amount.denom = denom
    THEN -event.amount.amount
    ELSE 0

Change(row, event, denom) ==
    IF row = "TOTAL_REWARD" THEN Paid(event, denom) ELSE Bonded(event, denom)

SumOf(numbers) ==
    LET sum[n \in 0..Len(numbers)] == IF n = 0 THEN 0 ELSE sum[n - 1] + numbers[n]
    IN  sum[Len(numbers)]

BlockSum(row, events, denom) == SumOf([i \in DOMAIN events |-> Change(row, events[i], denom)])

\* The same over the blocks up to the last handled one.
ChainSum(row, denom) ==
    SumOf([h \in 1..(lastHandled + 1) |-> BlockSum(row, blocks[h], denom)])

Distance(m, n) == IF m < n THEN n - m ELSE m - n

\* The most that one block changes a row by.
Largest(row, denom) ==
    Max({Distance(BlockSum(row, events, denom), 0) : events \in Geneses \cup Blocks})

\* Behind a synchroniser, which never feeds a height twice, the two rows are the sums
\* over the blocks up to the last handled one.  A runner feeds a height again whose
\* commit was applied and whose reply was lost, and the rows count it again: they are
\* wrong by at most one block for each failure.
StatsMatchBlocks ==
    \A denom \in Denoms, row \in Rows :
        LET off == IF mode = "EVENT_STORE" /\ LostReplies THEN faults ELSE 0
        IN  Distance(AmountOf(Total(row), denom), ChainSum(row, denom))
                <= off * Largest(row, denom)
=============================================================================
