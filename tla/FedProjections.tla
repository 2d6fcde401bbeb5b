---------------------------- MODULE FedProjections ----------------------------
(***************************************************************************)
(* Three projections that number the blocks, ask the node and add up the   *)
(* events of the blocks, each behind a feeder of its own.  They share      *)
(* nothing: a behaviour watches one of them, and the variables of the      *)
(* second feeder are those of the accounts or of the statistics.           *)
(***************************************************************************)
EXTENDS ChainStats, Bank, Sequences, FiniteSets

CONSTANTS
    AccountFaults,  \* bound: failures and crashes of the accounts
    StatsHeight,    \* bound: heights fed to the statistics
    CoinDenoms,     \* denoms of the coins that are added up, in the order of their names
    Blocks,         \* the sequences of events a block may have
    Geneses         \* those the genesis may have

VARIABLES
    watched,       \* the projection whose feeder is at work
    fedMode, fedLast, fedPc, fedNext, fedFaults, fedCrashes,
    rows, todo, pages, txRows,
    totalReward, totalDelegate, blocks

Acct == INSTANCE Account
    WITH mode <- fedMode, lastHandled <- fedLast, pc <- fedPc, next <- fedNext,
         faults <- fedFaults, crashes <- fedCrashes,
         MaxFaults <- AccountFaults, MaxCrashes <- AccountFaults

Stats == INSTANCE ValidatorStats
    WITH mode <- fedMode, lastHandled <- fedLast, pc <- fedPc, next <- fedNext,
         faults <- fedFaults, crashes <- fedCrashes,
         MaxHeight <- StatsHeight, Denoms <- CoinDenoms

fedVars   == <<fedMode, fedLast, fedPc, fedNext, fedFaults, fedCrashes>>
acctVars  == <<chainVars, rows, todo, pages, txRows>>
statsVars == <<totalReward, totalDelegate, blocks>>

-----------------------------------------------------------------------------

\* Coins of different denoms in the order of the denoms: what a string of decimal coins
\* is parsed to (dec_coin.go, ParseDecCoins).
AreCoins(coins) ==
    /\ coins \in Seq([denom : Int, amount : Int])
    /\ \A i, j \in DOMAIN coins : i < j => coins[i].denom < coins[j].denom

HasCoins(event) ==
    /\ Stats!IsReward(event) => AreCoins(event.amount)
    /\ Stats!IsDelegation(event) \/ event.name = "MsgUndelegate" =>
           event.amount \in [denom : Int, amount : Int]

\* Blocks are of a bounded size, and their coins are well formed.
ASSUME BlocksAssumption ==
    /\ CoinDenoms \subseteq Int
    /\ IsFiniteSet(Blocks) /\ IsFiniteSet(Geneses) /\ Geneses # {}
    /\ \A events \in Blocks \cup Geneses :
          /\ events \in Seq({events[i] : i \in DOMAIN events})
          /\ \A i \in DOMAIN events : HasCoins(events[i])

-----------------------------------------------------------------------------

\* Balances are at least as new as the newest transfer handled.
AccountsAreFresh == watched = "Account" => Acct!AccountsAreFresh

\* Rewards and delegations are the sums over the blocks, but for replies that were lost.
StatsMatchBlocks == watched = "ValidatorStats" => Stats!StatsMatchBlocks
=============================================================================
