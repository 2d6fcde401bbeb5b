----------------------------- MODULE FeederProofs -----------------------------
(***************************************************************************)
(* Proofs about three projections behind a feeder that repeats, skips and  *)
(* loses: when the count of blocks of ChainStats can be trusted, how old a *)
(* balance in the table of Account may be, and how far the sums of         *)
(* ValidatorStats may be from the events of the blocks, for every number   *)
(* of accounts, denoms, heights, events, failures and crashes, and every   *)
(* lag of the node.                                                        *)
(***************************************************************************)
EXTENDS FedProjections, FiniteSetTheorems, WellFoundedInduction, TLAPS

-----------------------------------------------------------------------------
(* ChainStats *)

\* What the next block will be counted as lags no more than the table does.
FeedLags ==
    pc = "feed" =>
        /\ maybeTotalBlockCount <= next - 1
        /\ next - 1 - maybeTotalBlockCount <= faults
        /\ \/ next = lastHandled + 1
           \/ mode = "EVENT_STORE" /\ next = lastHandled

LagInv == TypeOK /\ CountLagIsBounded /\ FeedLags

\* With a feeder that repeats what failed, or a database that reports every commit,
\* the memory is the height before the next one.
FeedExact == Trusted /\ pc = "feed" => maybeTotalBlockCount = next - 1

ExactInv == LagInv /\ CountMatchesHeight /\ FeedExact

-----------------------------------------------------------------------------

\* A step keeps the types, given what the feeder knows.
LEMMA TypeStep ==
    ASSUME TypeOK, FeedLags, [Next]_vars
    PROVE  TypeOK'
  <1> USE BoundsAssumption DEF TypeOK, FeederTypeOK, FeedLags
  <1>1. CASE OnInit
    BY <1>1 DEF OnInit, StartFeeding
  <1>2. CASE OnInitFail
    BY <1>2 DEF OnInitFail, Fault, tables
  <1>3. CASE HandleEvents
    BY <1>3 DEF HandleEvents, FeedNext, Commit, Counted, Panics
  <1>4. CASE HandleEventsPanic
    BY <1>4 DEF HandleEventsPanic, Restart, FeederRestart
  <1>5. CASE HandleEventsFail
    <2>1. CASE Commit
      BY <1>5, <2>1 DEF HandleEventsFail, FeedAfterFailure, Fault, Commit, Counted, Panics
    <2>2. CASE UNCHANGED tables
      BY <1>5, <2>2 DEF HandleEventsFail, FeedAfterFailure, Fault, tables
    <2> QED
      BY <1>5, <2>1, <2>2 DEF HandleEventsFail
  <1>6. CASE Crash
    BY <1>6 DEF Crash, FeederCrash, FeederRestart
  <1>7. CASE UNCHANGED vars
    BY <1>7 DEF vars, feederVars
  <1> QED
    BY <1>1, <1>2, <1>3, <1>4, <1>5, <1>6, <1>7 DEF Next

\* What is fed after a failure: a failed height again, a committed one again only
\* in the event-store mode.
LEMMA FailFeeds ==
    ASSUME TypeOK, FeedLags, HandleEventsFail
    PROVE  /\ mode = "EVENT_STORE" => next' = next
           /\ mode = "TENDERMINT_DIRECT" => next' = lastHandled' + 1
           /\ mode = "TENDERMINT_DIRECT" => next = lastHandled + 1
  BY DEF HandleEventsFail, FeedAfterFailure, FeedLags

\* Every step keeps the lag within the failures.
LEMMA LagStep == LagInv /\ [Next]_vars => LagInv'
  <1> SUFFICES ASSUME LagInv, [Next]_vars PROVE LagInv'
    OBVIOUS
  <1> USE BoundsAssumption DEF LagInv, TypeOK, FeederTypeOK, FeedLags, CountLagIsBounded
  <1>0. TypeOK'
    BY TypeStep
  <1>1. CASE OnInit
    BY <1>1, <1>0 DEF OnInit, StartFeeding
  <1>2. CASE OnInitFail
    BY <1>2, <1>0 DEF OnInitFail, Fault, tables
  <1>3. CASE HandleEvents
    BY <1>3, <1>0 DEF HandleEvents, FeedNext, Commit, Counted, Panics
  <1>4. CASE HandleEventsPanic
    BY <1>4, <1>0 DEF HandleEventsPanic, Restart, FeederRestart
  <1>5. CASE HandleEventsFail
    <2>1. CASE Commit
      BY <1>5, <2>1, <1>0, FailFeeds
      DEF HandleEventsFail, FeedAfterFailure, Fault, Commit, Counted, Panics
    <2>2. CASE UNCHANGED tables
      BY <1>5, <2>2, <1>0, FailFeeds DEF HandleEventsFail, FeedAfterFailure, Fault, tables
    <2> QED
      BY <1>5, <2>1, <2>2 DEF HandleEventsFail
  <1>6. CASE Crash
    BY <1>6, <1>0 DEF Crash, FeederCrash, FeederRestart
  <1>7. CASE UNCHANGED vars
    BY <1>7, <1>0 DEF vars, feederVars
  <1> QED
    BY <1>1, <1>2, <1>3, <1>4, <1>5, <1>6, <1>7 DEF Next

\* Every step of a trusted feeder keeps the count exact.
LEMMA ExactStep == ExactInv /\ [Next]_vars => ExactInv'
  <1> SUFFICES ASSUME ExactInv, [Next]_vars PROVE ExactInv'
    OBVIOUS
  <1> USE BoundsAssumption
      DEF ExactInv, LagInv, TypeOK, FeederTypeOK, FeedLags, FeedExact, CountMatchesHeight,
          Trusted
  <1>0. LagInv'
    BY LagStep
  <1>1. CASE OnInit
    BY <1>1, <1>0 DEF OnInit, StartFeeding
  <1>2. CASE OnInitFail
    BY <1>2, <1>0 DEF OnInitFail, Fault, tables
  <1>3. CASE HandleEvents
    BY <1>3, <1>0 DEF HandleEvents, FeedNext, Commit, Counted, Panics
  <1>4. CASE HandleEventsPanic
    BY <1>4, <1>0 DEF HandleEventsPanic, Restart, FeederRestart
  <1>5. CASE HandleEventsFail
    <2>1. /\ pc = "feed" /\ ~Panics /\ mode' = mode
          /\ maybeTotalBlockCount' = maybeTotalBlockCount
      BY <1>5 DEF HandleEventsFail, Fault
    <2>2. CASE ~Trusted
      BY <1>0, <2>1, <2>2
    <2>3. CASE Trusted /\ LostReplies /\ Commit
      <3>1. mode = "EVENT_STORE" /\ next' = next
        BY <1>5, <2>3, FailFeeds
      <3>2. blockCount' = next /\ lastHandled' = next
        BY <2>1, <2>3 DEF Commit, Counted, Panics
      <3> QED
        BY <1>0, <1>5, <2>1, <2>3, <3>1, <3>2 DEF HandleEventsFail, Fault
    <2>4. CASE Trusted /\ UNCHANGED tables
      <3>1. next' = next
        BY <1>5, <2>4, FailFeeds DEF Modes, tables
      <3> QED
        BY <1>0, <1>5, <2>1, <2>4, <3>1 DEF HandleEventsFail, FeedAfterFailure, Fault, tables
    <2> QED
      BY <1>5, <2>2, <2>3, <2>4 DEF HandleEventsFail
  <1>6. CASE Crash
    BY <1>6, <1>0 DEF Crash, FeederCrash, FeederRestart
  <1>7. CASE UNCHANGED vars
    BY <1>7, <1>0 DEF vars, feederVars
  <1> QED
    BY <1>1, <1>2, <1>3, <1>4, <1>5, <1>6, <1>7 DEF Next

-----------------------------------------------------------------------------

\* In both modes and whatever is lost, the count never runs ahead of the blocks
\* handled and lags by no more than the failures (ChainStats.HandleEvents).
THEOREM CountLags == Spec => []CountLagIsBounded
  <1>1. Init => LagInv
    BY BoundsAssumption DEF Init, FeederInit, FeederTypeOK, Modes, LagInv,
                            TypeOK, FeedLags, CountLagIsBounded
  <1>2. LagInv => CountLagIsBounded
    BY DEF LagInv
  <1> QED
    BY <1>1, <1>2, LagStep, PTL DEF Spec

\* The pointers, the row and the height stay within their ranges
\* (ChainStats.HandleEvents).
THEOREM TypeCorrect == Spec => []TypeOK
  <1>1. Init => LagInv
    BY BoundsAssumption DEF Init, FeederInit, FeederTypeOK, Modes, LagInv,
                            TypeOK, FeedLags, CountLagIsBounded
  <1>2. LagInv => TypeOK
    BY DEF LagInv
  <1> QED
    BY <1>1, <1>2, LagStep, PTL DEF Spec

\* In the event-store mode, or with a database that reports every commit, the count
\* in the table is the height (ChainStats.OnInit, ChainStats.HandleEvents).
THEOREM CountIsExact == Spec => []CountMatchesHeight
  <1>1. Init => ExactInv
    BY BoundsAssumption DEF Init, FeederInit, FeederTypeOK, Modes, ExactInv, LagInv,
                            TypeOK, CountLagIsBounded, FeedLags, FeedExact, CountMatchesHeight
  <1>2. ExactInv => CountMatchesHeight
    BY DEF ExactInv
  <1> QED
    BY <1>1, <1>2, ExactStep, PTL DEF Spec

\* Under the same assumption the nil count is never dereferenced
\* (ChainStats.HandleEvents).
THEOREM CountIsNotNil == Spec => []NeverPanics
  <1>1. Init => ExactInv
    BY BoundsAssumption DEF Init, FeederInit, FeederTypeOK, Modes, ExactInv, LagInv,
                            TypeOK, CountLagIsBounded, FeedLags, FeedExact, CountMatchesHeight
  <1>2. ExactInv => NeverPanics
    BY DEF ExactInv, LagInv, TypeOK, FeederTypeOK, FeedExact, Trusted, NeverPanics, Panics
  <1> QED
    BY <1>1, <1>2, ExactStep, PTL DEF Spec

\* What both give: the count of the chain statistics is exact and usable.
THEOREM CountStaysRight == Spec => []CountIsRight
  BY CountIsExact, CountIsNotNil, PTL DEF CountIsRight

-----------------------------------------------------------------------------
(* Account *)

\* The chain keeps its past.
ChainOK ==
    /\ height \in Nat
    /\ \A h \in 0..height :
           \/ senders[h] \in Accounts /\ recipients[h] \in Accounts
           \/ senders[h] = NoAccount /\ recipients[h] = NoAccount

\* A feeder feeds the last handled height again or the one after it.
FeedOK ==
    /\ fedLast \in Int /\ fedLast <= height
    /\ fedNext \in Nat
    /\ fedPc \in {"feed", "handle"} => fedNext = fedLast \/ fedNext = fedLast + 1
    /\ fedLast >= -1
    /\ fedPc \in {"init", "feed", "handle"}

\* An amount that the account had at height h or later, less the lag of the node.
IsFresh(amount, account, denom, h) ==
    \E g \in 0..height : g >= h - MaxLag /\ amount = balances[g][account][denom]

FreshIn(table, account, h) ==
    /\ account \in DOMAIN table
    /\ \A denom \in Denoms : IsFresh(table[account][denom], account, denom, h)

\* What the transaction has so far: the freshness of the table, the pages read since the
\* block, and every account that the block names written or still to be written.
TransactionOK ==
    fedPc = "handle" =>
        /\ fedNext <= height
        /\ todo \in {"recipient", "sender", "height"}
        /\ \A h \in 0..fedLast : \A account \in Acct!Named(h) : FreshIn(txRows, account, h)
        /\ \A account \in Acct!Named(fedNext) :
               \/ todo = "recipient"
               \/ todo = "sender" /\ account = senders[fedNext]
               \/ FreshIn(txRows, account, fedNext)
        /\ todo # "height" =>
               \A denom \in DOMAIN pages : IsFresh(pages[denom], Acct!Target, denom, fedNext)

IndInv == ChainOK /\ FeedOK /\ Acct!AccountsAreFresh /\ TransactionOK

-----------------------------------------------------------------------------

\* A step of the chain.
Produce(balance, sender, recipient) ==
    Acct!NewHeight(balance, sender, recipient) /\ UNCHANGED <<Acct!feederVars, rows, Acct!tx>>

\* The two accounts of a block, or none.
Transfers(sender, recipient) ==
    \/ sender \in Accounts /\ recipient \in Accounts
    \/ sender = NoAccount /\ recipient = NoAccount

\* What the chain adds leaves its past as it was.
LEMMA PastIsKept ==
    ASSUME ChainOK, NEW balance, NEW sender, NEW recipient, Transfers(sender, recipient),
           Produce(balance, sender, recipient)
    PROVE  /\ ChainOK'
           /\ height' = height + 1
           /\ \A h \in 0..height : Acct!Named(h)' = Acct!Named(h)
           /\ \A h \in 0..height : senders'[h] = senders[h] /\ recipients'[h] = recipients[h]
           /\ \A amount, account, denom, h :
                  IsFresh(amount, account, denom, h) => IsFresh(amount, account, denom, h)'
  <1>1. height \in Nat /\ height' = height + 1
    BY DEF ChainOK, Produce, Acct!NewHeight
  <1>2. \A h \in 0..height : /\ h \in 0..height' /\ balances'[h] = balances[h]
                             /\ senders'[h] = senders[h] /\ recipients'[h] = recipients[h]
    BY <1>1 DEF Produce, Acct!NewHeight, Acct!Extended
  <1>3. senders'[height + 1] = sender /\ recipients'[height + 1] = recipient
    BY <1>1 DEF Produce, Acct!NewHeight, Acct!Extended
  <1>4. ChainOK'
    <2>1. \A h \in 0..height' : h \in 0..height \/ h = height + 1
      BY <1>1
    <2> QED
      BY <1>1, <1>2, <1>3, <2>1 DEF ChainOK, Transfers
  <1>5. \A h \in 0..height : Acct!Named(h)' = Acct!Named(h)
    BY <1>2 DEF Acct!Named
  <1>6. ASSUME NEW amount, NEW account, NEW denom, NEW h, IsFresh(amount, account, denom, h)
        PROVE  IsFresh(amount, account, denom, h)'
    <2>1. PICK g \in 0..height : g >= h - MaxLag /\ amount = balances[g][account][denom]
      BY <1>6 DEF IsFresh
    <2> QED
      BY <1>2, <2>1 DEF IsFresh
  <1> QED
    BY <1>1, <1>2, <1>4, <1>5, <1>6

\* The chain's own steps.
LEMMA ProduceStep ==
    ASSUME IndInv, NEW balance, NEW sender, NEW recipient, Transfers(sender, recipient),
           Produce(balance, sender, recipient)
    PROVE  IndInv'
  <1>1. /\ ChainOK' /\ height' = height + 1
        /\ \A h \in 0..height : Acct!Named(h)' = Acct!Named(h)
        /\ \A h \in 0..height : senders'[h] = senders[h] /\ recipients'[h] = recipients[h]
        /\ \A amount, account, denom, h :
               IsFresh(amount, account, denom, h) => IsFresh(amount, account, denom, h)'
    BY PastIsKept DEF IndInv
  <1>2. /\ fedLast' = fedLast /\ fedPc' = fedPc /\ fedNext' = fedNext /\ rows' = rows
        /\ todo' = todo /\ pages' = pages /\ txRows' = txRows
    BY DEF Produce, Acct!NewHeight, Acct!feederVars, Acct!tx
  <1>3. FeedOK'
    BY <1>1, <1>2 DEF IndInv, FeedOK, ChainOK
  <1>4. \A table, account, h : FreshIn(table, account, h) => FreshIn(table, account, h)'
    BY <1>1 DEF FreshIn
  <1>5. Acct!AccountsAreFresh'
    <2>1. \A h \in 0..fedLast : \A account \in Acct!Named(h) : FreshIn(rows, account, h)
      BY DEF IndInv, Acct!AccountsAreFresh, FreshIn, IsFresh
    <2>2. \A h \in 0..fedLast : h \in 0..height
      BY DEF IndInv, FeedOK, ChainOK
    <2>3. \A h \in 0..fedLast' : \A account \in Acct!Named(h)' : FreshIn(rows, account, h)'
      BY <1>1, <1>2, <1>4, <2>1, <2>2
    <2> QED
      BY <1>2, <2>3 DEF Acct!AccountsAreFresh, FreshIn, IsFresh
  <1>6. TransactionOK'
    <2> SUFFICES ASSUME fedPc = "handle" PROVE TransactionOK'
      BY <1>2 DEF TransactionOK
    <2>1. fedNext \in 0..height /\ \A h \in 0..fedLast : h \in 0..height
      BY DEF IndInv, FeedOK, ChainOK, TransactionOK
    <2>2. Acct!Target' = Acct!Target
      BY <1>1, <1>2, <2>1 DEF Acct!Target
    <2> QED
      BY <1>1, <1>2, <1>4, <2>1, <2>2 DEF IndInv, TransactionOK, ChainOK
  <1> QED
    BY <1>1, <1>3, <1>5, <1>6 DEF IndInv

-----------------------------------------------------------------------------

\* Freshness does not depend on anything that the projection changes.
LEMMA FreshIsKept ==
    ASSUME UNCHANGED Acct!chainVars
    PROVE  /\ \A h : Acct!Named(h)' = Acct!Named(h)
           /\ \A table, account, h : FreshIn(table, account, h) <=> FreshIn(table, account, h)'
  BY DEF Acct!chainVars, Acct!Named, FreshIn, IsFresh

\* What is fresh in the table, written with the name of that.
LEMMA TableIsFresh ==
    Acct!AccountsAreFresh <=>
        \A h \in 0..fedLast : \A account \in Acct!Named(h) : FreshIn(rows, account, h)
  BY DEF Acct!AccountsAreFresh, FreshIn, IsFresh

\* A step that moves neither the chain, nor the table, nor the last height keeps the table as new as it was.
LEMMA TableStaysFresh ==
    ASSUME Acct!AccountsAreFresh, UNCHANGED Acct!chainVars, UNCHANGED rows, UNCHANGED fedLast
    PROVE  Acct!AccountsAreFresh'
  BY DEF Acct!AccountsAreFresh, Acct!chainVars, Acct!Named

\* A height begins with the table as it is and all its accounts to be written.
LEMMA BeginStep ==
    ASSUME IndInv, Acct!Begin
    PROVE  IndInv'
  <1>1. /\ UNCHANGED <<Acct!chainVars, rows, fedLast, fedNext>>
        /\ fedPc' = "handle" /\ fedNext <= height
    BY DEF Acct!Begin
  <1>2. ChainOK' /\ FeedOK'
    BY <1>1 DEF Acct!Begin, IndInv, ChainOK, FeedOK, Acct!chainVars
  <1>3. Acct!AccountsAreFresh'
    BY <1>1, TableStaysFresh DEF IndInv
  <1>4. /\ todo' = IF recipients[fedNext] = NoAccount THEN "height" ELSE "recipient"
        /\ txRows' = rows /\ DOMAIN pages' = {}
    BY DEF Acct!Begin, Acct!NoPages
  <1>5. recipients[fedNext] = NoAccount => Acct!Named(fedNext) = {}
    <2>1. fedNext \in 0..height
      BY <1>1 DEF IndInv, FeedOK, ChainOK
    <2> QED
      BY <2>1, NoAccountAssumption DEF IndInv, ChainOK, Acct!Named
  <1>6. TransactionOK'
    <2>1. \A h \in 0..fedLast : \A account \in Acct!Named(h) : FreshIn(txRows', account, h)
      BY <1>4, TableIsFresh DEF IndInv
    <2>2. \A h \in 0..fedLast : \A account \in Acct!Named(h)' : FreshIn(txRows, account, h)'
      BY <1>1, <2>1 DEF FreshIn, IsFresh, Acct!Named, Acct!chainVars
    <2>3. Acct!Named(fedNext)' = Acct!Named(fedNext)
      BY <1>1 DEF Acct!Named, Acct!chainVars
    <2> QED
      BY <1>1, <1>4, <1>5, <2>2, <2>3 DEF TransactionOK, Acct!chainVars
  <1> QED
    BY <1>2, <1>3, <1>6 DEF IndInv

\* A page read now is at least as new as the block that is handled.
LEMMA BalancesStep ==
    ASSUME IndInv, Acct!Balances
    PROVE  IndInv'
  <1> USE MaxLagAssumption
  <1>1. UNCHANGED <<Acct!feederVars, Acct!chainVars, rows, todo, txRows>> /\ fedPc = "handle"
        /\ todo # "height"
    BY DEF Acct!Balances
  <1>2. ChainOK' /\ FeedOK'
    BY <1>1 DEF IndInv, ChainOK, FeedOK, Acct!chainVars, Acct!feederVars
  <1>3. Acct!AccountsAreFresh'
    BY <1>1, TableStaysFresh DEF IndInv, Acct!feederVars
  <1>4. PICK denom \in Denoms \ DOMAIN pages, h \in Acct!Served :
            pages' = [d \in DOMAIN pages \cup {denom} |->
                         IF d = denom THEN balances[h][Acct!Target][denom] ELSE pages[d]]
    BY DEF Acct!Balances
  <1>5. h \in 0..height /\ h >= fedNext - MaxLag
    BY <1>1, <1>4 DEF Acct!Served, IndInv, TransactionOK, ChainOK, FeedOK
  <1>6. \A d \in DOMAIN pages' : IsFresh(pages'[d], Acct!Target, d, fedNext)
    <2>1. IsFresh(balances[h][Acct!Target][denom], Acct!Target, denom, fedNext)
      BY <1>5 DEF IsFresh
    <2>2. \A d \in DOMAIN pages : IsFresh(pages[d], Acct!Target, d, fedNext)
      BY <1>1 DEF IndInv, TransactionOK
    <2> QED
      BY <1>4, <2>1, <2>2
  <1>7. TransactionOK'
    <2>1. \A d \in DOMAIN pages' : IsFresh(pages[d], Acct!Target, d, fedNext)'
      BY <1>1, <1>6 DEF IsFresh, Acct!Target, Acct!chainVars, Acct!feederVars
    <2> QED
      BY <1>1, <2>1, FreshIsKept DEF IndInv, TransactionOK, Acct!feederVars, Acct!chainVars
  <1> QED
    BY <1>2, <1>3, <1>7 DEF IndInv

\* Writing an account makes it as new as the block and leaves the others.
LEMMA WriteStep ==
    ASSUME IndInv, Acct!writeAccountInfo
    PROVE  IndInv'
  <1> USE MaxLagAssumption
  <1>1. /\ UNCHANGED <<Acct!feederVars, Acct!chainVars, rows>>
        /\ fedPc = "handle" /\ todo # "height"
        /\ DOMAIN pages = Denoms /\ DOMAIN pages' = {}
        /\ todo' = IF todo = "recipient" THEN "sender" ELSE "height"
    BY DEF Acct!writeAccountInfo, Acct!NoPages
  <1>2. ChainOK' /\ FeedOK'
    BY <1>1 DEF IndInv, ChainOK, FeedOK, Acct!chainVars, Acct!feederVars
  <1>3. Acct!AccountsAreFresh'
    BY <1>1, TableStaysFresh DEF IndInv, Acct!feederVars
  <1>4. DOMAIN txRows' = DOMAIN txRows \cup {Acct!Target} /\ txRows'[Acct!Target] = pages
    BY DEF Acct!writeAccountInfo, Acct!Upsert
  <1>5. \A account \in DOMAIN txRows :
            account # Acct!Target => txRows'[account] = txRows[account]
    BY DEF Acct!writeAccountInfo, Acct!Upsert
  <1>6. FreshIn(txRows', Acct!Target, fedNext)
    BY <1>1, <1>4 DEF IndInv, TransactionOK, FreshIn
  <1>7. \A h \in 0..fedLast : FreshIn(txRows', Acct!Target, h)
    <2>1. \A h \in 0..fedLast : h <= fedNext /\ h \in Int /\ fedNext \in Int
      BY <1>1 DEF IndInv, FeedOK
    <2>2. ASSUME NEW h \in 0..fedLast, NEW denom \in Denoms
          PROVE  IsFresh(txRows'[Acct!Target][denom], Acct!Target, denom, h)
      <3>1. PICK g \in 0..height : /\ g >= fedNext - MaxLag
                                   /\ txRows'[Acct!Target][denom] = balances[g][Acct!Target][denom]
        BY <1>6 DEF FreshIn, IsFresh
      <3>2. g \in Int
        BY DEF IndInv, ChainOK
      <3>3. g >= h - MaxLag
        BY <2>1, <3>1, <3>2
      <3> QED
        BY <3>1, <3>3 DEF IsFresh
    <2> QED
      BY <1>4, <2>2 DEF FreshIn
  <1>8. \A account, h :
            account # Acct!Target /\ FreshIn(txRows, account, h) => FreshIn(txRows', account, h)
    BY <1>4, <1>5 DEF FreshIn
  <1>9. TransactionOK'
    <2>1. \A h \in 0..fedLast : \A account \in Acct!Named(h) : FreshIn(txRows', account, h)
      BY <1>1, <1>7, <1>8 DEF IndInv, TransactionOK
    <2>2. \A account \in Acct!Named(fedNext) :
              \/ todo' = "sender" /\ account = senders[fedNext]
              \/ FreshIn(txRows', account, fedNext)
      BY <1>1, <1>6, <1>8 DEF IndInv, TransactionOK, Acct!Target, Acct!Named
    <2>3. \A account, h : FreshIn(txRows', account, h) <=> FreshIn(txRows, account, h)'
      BY <1>1 DEF FreshIn, IsFresh, Acct!chainVars
    <2>4. /\ fedLast' = fedLast /\ fedNext' = fedNext /\ fedPc' = fedPc
          /\ height' = height /\ senders' = senders
      BY <1>1 DEF Acct!feederVars, Acct!chainVars
    <2> QED
      BY <1>1, <2>1, <2>2, <2>3, <2>4, FreshIsKept DEF IndInv, TransactionOK
  <1> QED
    BY <1>2, <1>3, <1>9 DEF IndInv

\* A commit whose transaction has written every account.
LEMMA CommittedIsFresh ==
    ASSUME IndInv, fedPc = "handle", todo = "height", UNCHANGED Acct!chainVars,
           rows' = txRows, fedLast' = fedNext
    PROVE  Acct!AccountsAreFresh'
  <1>1. \A h \in 0..fedNext : h = fedNext \/ h \in 0..fedLast
    BY DEF IndInv, FeedOK
  <1>2. \A h \in 0..fedNext : \A account \in Acct!Named(h) : FreshIn(txRows, account, h)
    BY <1>1 DEF IndInv, TransactionOK
  <1> QED
    BY <1>2, FreshIsKept, TableIsFresh DEF Acct!AccountsAreFresh, FreshIn, IsFresh, Acct!chainVars

\* The commit of a height makes the table of the transaction the one that is read.
LEMMA CommitStep ==
    ASSUME IndInv, Acct!Commit
    PROVE  IndInv'
  <1>1. /\ UNCHANGED Acct!chainVars /\ fedPc = "handle" /\ fedPc' = "feed" /\ todo = "height"
        /\ rows' = txRows /\ fedLast' = fedNext /\ fedNext' = fedNext + 1
    BY DEF Acct!Commit, Acct!FeedNext
  <1>2. ChainOK' /\ FeedOK'
    BY <1>1 DEF IndInv, ChainOK, FeedOK, TransactionOK, Acct!chainVars
  <1>3. Acct!AccountsAreFresh'
    BY <1>1, CommittedIsFresh
  <1>4. TransactionOK'
    BY <1>1 DEF TransactionOK
  <1> QED
    BY <1>2, <1>3, <1>4 DEF IndInv

\* A failure: nothing is written, or all of it although the reply is lost.
LEMMA FailStep ==
    ASSUME IndInv, Acct!HandleEventsFail
    PROVE  IndInv'
  <1>1. UNCHANGED Acct!chainVars /\ fedPc = "handle" /\ fedPc' = "feed" /\ fedMode' = fedMode
    BY DEF Acct!HandleEventsFail, Acct!Fault
  <1>2. TransactionOK'
    BY <1>1 DEF TransactionOK
  <1>3. ChainOK'
    BY <1>1 DEF IndInv, ChainOK, Acct!chainVars
  <1>4. fedNext' = fedNext \/ fedNext' = fedLast' + 1
    BY DEF Acct!HandleEventsFail, Acct!FeedAfterFailure
  <1>5. CASE UNCHANGED <<rows, fedLast>>
    <2>1. FeedOK'
      BY <1>1, <1>4, <1>5 DEF IndInv, FeedOK, ChainOK, TransactionOK, Acct!chainVars
    <2>2. Acct!AccountsAreFresh'
      BY <1>1, <1>5, TableStaysFresh DEF IndInv
    <2> QED
      BY <1>2, <1>3, <2>1, <2>2 DEF IndInv
  <1>6. CASE todo = "height" /\ rows' = txRows /\ fedLast' = fedNext
    <2>1. FeedOK'
      BY <1>1, <1>4, <1>6 DEF IndInv, FeedOK, ChainOK, TransactionOK, Acct!chainVars
    <2>2. Acct!AccountsAreFresh'
      BY <1>1, <1>6, CommittedIsFresh
    <2> QED
      BY <1>2, <1>3, <2>1, <2>2 DEF IndInv
  <1> QED
    BY <1>5, <1>6 DEF Acct!HandleEventsFail

-----------------------------------------------------------------------------

\* The steps that leave the table and the chain alone.
LEMMA RestStep ==
    ASSUME IndInv, Acct!OnInit \/ Acct!Crash \/ UNCHANGED Acct!vars
    PROVE  IndInv'
  <1>1. UNCHANGED <<Acct!chainVars, rows, fedLast>>
    BY DEF Acct!OnInit, Acct!StartFeeding, Acct!Crash, Acct!FeederCrash, Acct!FeederRestart,
           Acct!vars, Acct!feederVars
  <1>2. ChainOK' /\ Acct!AccountsAreFresh'
    BY <1>1, TableStaysFresh DEF IndInv, ChainOK, Acct!chainVars
  <1>3. CASE Acct!OnInit
    <2>1. fedPc = "init" /\ fedPc' = "feed" /\ fedNext' = fedLast + 1
      BY <1>3 DEF Acct!OnInit, Acct!StartFeeding
    <2>2. FeedOK' /\ TransactionOK'
      BY <1>1, <2>1 DEF IndInv, FeedOK, TransactionOK, ChainOK, Acct!chainVars
    <2> QED
      BY <1>2, <2>2 DEF IndInv
  <1>4. CASE Acct!Crash
    <2>1. fedPc' = "init" /\ fedNext' = 0
      BY <1>4 DEF Acct!Crash, Acct!FeederCrash, Acct!FeederRestart
    <2>2. FeedOK' /\ TransactionOK'
      BY <1>1, <2>1 DEF IndInv, FeedOK, TransactionOK, ChainOK, Acct!chainVars
    <2> QED
      BY <1>2, <2>2 DEF IndInv
  <1>5. CASE UNCHANGED Acct!vars
    <2>1. FeedOK'
      BY <1>5 DEF IndInv, FeedOK, Acct!vars, Acct!feederVars, Acct!chainVars
    <2>2. TransactionOK'
      BY <1>1, <1>5, FreshIsKept
      DEF IndInv, TransactionOK, Acct!vars, Acct!feederVars, Acct!chainVars, Acct!tx,
          IsFresh, Acct!Target
    <2> QED
      BY <1>2, <2>1, <2>2 DEF IndInv
  <1> QED
    BY <1>3, <1>4, <1>5

\* Every step of the accounts keeps the invariant.
LEMMA IndStep == IndInv /\ [Acct!Next]_(Acct!vars) => IndInv'
  <1> SUFFICES ASSUME IndInv, [Acct!Next]_(Acct!vars) PROVE IndInv'
    OBVIOUS
  <1>1. CASE Acct!Transfer
    <2>1. PICK sender, recipient \in Accounts, denom \in Denoms :
              Produce([balances[height] EXCEPT ![sender][denom] = @ - 1,
                                               ![recipient][denom] = @ + 1],
                      sender, recipient)
      BY <1>1 DEF Acct!Transfer, Acct!BankTransfer, Produce
    <2> QED
      BY <2>1, ProduceStep DEF Transfers
  <1>2. CASE Acct!CompleteBonding
    <2>1. PICK account \in Accounts, denom \in Denoms :
              Produce([balances[height] EXCEPT ![account][denom] = @ + 1],
                      NoAccount, NoAccount)
      BY <1>2 DEF Acct!CompleteBonding, Acct!BankUnbonding, Produce
    <2> QED
      BY <2>1, ProduceStep DEF Transfers
  <1>3. CASE Acct!Begin            BY <1>3, BeginStep
  <1>4. CASE Acct!Balances         BY <1>4, BalancesStep
  <1>5. CASE Acct!writeAccountInfo BY <1>5, WriteStep
  <1>6. CASE Acct!Commit           BY <1>6, CommitStep
  <1>7. CASE Acct!HandleEventsFail BY <1>7, FailStep
  <1>8. CASE Acct!OnInit \/ Acct!Crash \/ UNCHANGED Acct!vars
    BY <1>8, RestStep
  <1> QED
    BY <1>1, <1>2, <1>3, <1>4, <1>5, <1>6, <1>7, <1>8 DEF Acct!Next

\* The accounts named by the blocks up to the last handled one have rows that are as new
\* as these blocks, in both modes, whatever failed, was lost or was repeated
\* (Account.HandleEvents, Account.writeAccountInfo).
THEOREM BalancesStayFresh == Acct!Spec => []Acct!AccountsAreFresh
  <1>1. Acct!Init => IndInv
    <2> SUFFICES ASSUME Acct!Init PROVE IndInv
      OBVIOUS
    <2>1. height = 0 /\ fedLast = -1 /\ fedNext = 0 /\ fedPc = "init"
      BY DEF Acct!Init, Acct!BankInit, Acct!FeederInit
    <2>2. senders[0] = NoAccount /\ recipients[0] = NoAccount
      BY DEF Acct!Init, Acct!BankInit
    <2>3. ChainOK
      BY <2>1, <2>2 DEF ChainOK
    <2> QED
      BY <2>1, <2>3 DEF IndInv, FeedOK, TransactionOK, Acct!AccountsAreFresh
  <1>2. IndInv => Acct!AccountsAreFresh
    BY DEF IndInv
  <1> QED
    BY <1>1, <1>2, IndStep, PTL DEF Acct!Spec

\* The same of the run that watches the accounts in the place of another projection.
THEOREM AccountsStayFresh == Acct!Spec => []AccountsAreFresh
  <1>1. Acct!AccountsAreFresh => AccountsAreFresh
    BY DEF AccountsAreFresh
  <1> QED
    BY <1>1, BalancesStayFresh, PTL

-----------------------------------------------------------------------------
(* Numbers and loops *)

\* A set of numbers has a least one.
LEMMA LeastNumber ==
    ASSUME NEW S, S \subseteq Nat, S # {}
    PROVE  \E n \in S : \A m \in S : n <= m
  <1> DEFINE T == {1..n : n \in S}
             R == StrictSubsetOrdering(Nat)
             F == FiniteSubsetsOf(Nat)
  <1>1. T \subseteq F /\ T # {}
    <2>1. \A n \in S : IsFiniteSet(1..n) /\ (1..n) \subseteq Nat
      BY FS_Interval
    <2> QED
      BY <2>1 DEF FiniteSubsetsOf
  <1>2. IsWellFoundedOn(R, F)
    BY FS_StrictSubsetOrderingWellFounded
  <1>3. \E x \in T : \A y \in T : <<y, x>> \notin R
    <2> HIDE DEF R, T, F
    <2> QED
      BY <1>1, <1>2, WFMin
  <1>4. PICK n \in S : \A m \in S : <<1..m, 1..n>> \notin R
    BY <1>3
  <1>5. ASSUME NEW m \in S, m < n PROVE FALSE
    <2>1. (1..m) \subseteq (1..n) /\ n \in (1..n) /\ n \notin 1..m
      BY <1>5
    <2>2. <<1..m, 1..n>> \in R
      BY <2>1 DEF StrictSubsetOrdering
    <2> QED
      BY <2>2, <1>4
  <1> QED
    BY <1>5

\* A set that holds 0 and with every number the next one, up to N, holds all of them.
LEMMA UpTo ==
    ASSUME NEW N \in Nat, NEW S, 0 \in S,
           \A n \in 1..N : n - 1 \in S => n \in S
    PROVE  \A n \in 0..N : n \in S
  <1> DEFINE T == {n \in 0..N : n \notin S}
  <1> SUFFICES ASSUME T # {} PROVE FALSE
    OBVIOUS
  <1>0. T \subseteq Nat
    OBVIOUS
  <1>1. PICK n \in T : \A m \in T : n <= m
    <2> HIDE DEF T
    <2> QED
      BY <1>0, LeastNumber
  <1>2. n \in 1..N /\ n - 1 \in 0..N /\ n - 1 \notin T
    BY <1>1
  <1> QED
    BY <1>1, <1>2

\* A loop that takes one step for each of N events: what it holds after n of them.
Loops(f, N, A, a, step) ==
    /\ f \in [0..N -> A]
    /\ f[0] = a
    /\ \A n \in 1..N : f[n] = step[n][f[n - 1]]

\* A loop with a step for each turn has its values at every turn.
LEMMA LoopExists ==
    ASSUME NEW N \in Nat, NEW A, NEW a \in A, NEW step \in [1..N -> [A -> A]]
    PROVE  \E f : Loops(f, N, A, a, step)
  <1> DEFINE S == {n \in 0..N : \E f : Loops(f, n, A, a, step)}
  <1>1. 0 \in S
    <2>1. Loops([n \in 0..0 |-> a], 0, A, a, step)
      BY DEF Loops
    <2> QED
      BY <2>1
  <1>2. ASSUME NEW n \in 1..N, n - 1 \in S PROVE n \in S
    <2>1. PICK g : Loops(g, n - 1, A, a, step)
      BY <1>2
    <2> DEFINE f == [m \in 0..n |-> IF m = n THEN step[n][g[n - 1]] ELSE g[m]]
    <2>2. step[n][g[n - 1]] \in A
      BY <2>1 DEF Loops
    <2>3. f \in [0..n -> A] /\ f[0] = a
      BY <2>1, <2>2 DEF Loops
    <2>4. ASSUME NEW m \in 1..n PROVE f[m] = step[m][f[m - 1]]
      <3>1. m - 1 \in 0..(n - 1) /\ f[m - 1] = g[m - 1]
        OBVIOUS
      <3>2. CASE m = n
        BY <3>1, <3>2
      <3>3. CASE m # n
        BY <3>1, <3>3, <2>1 DEF Loops
      <3> QED
        BY <3>2, <3>3
    <2>5. Loops(f, n, A, a, step)
      BY <2>3, <2>4 DEF Loops
    <2> HIDE DEF f
    <2> QED
      BY <2>5
  <1>3. \A n \in 0..N : n \in S
    <2> HIDE DEF S
    <2> QED
      BY <1>1, <1>2, UpTo
  <1> QED
    BY <1>3

-----------------------------------------------------------------------------
(* Coins *)

\* The amount of a denom in a set of coins.
Value(coins, denom) ==
    IF \E i \in DOMAIN coins : coins[i].denom = denom
    THEN coins[CHOOSE i \in DOMAIN coins : coins[i].denom = denom].amount
    ELSE 0

\* An element of a set of coins is a coin.
LEMMA CoinAt ==
    ASSUME NEW coins, AreCoins(coins), NEW i \in DOMAIN coins
    PROVE  /\ i \in 1..Len(coins) /\ coins[i] \in [denom : Int, amount : Int]
           /\ coins[i].denom \in Int /\ coins[i].amount \in Int
  <1> DEFINE CoinType == [denom : Int, amount : Int]
  <1>1. coins \in Seq(CoinType)
    BY DEF AreCoins
  <1>2. i \in 1..Len(coins)
    BY <1>1
  <1>3. coins[i] \in CoinType
    <2> HIDE DEF CoinType
    <2> QED
      BY <1>1, <1>2
  <1> QED
    BY <1>2, <1>3

\* A denom has one coin.
LEMMA ValueAt ==
    ASSUME NEW coins, AreCoins(coins), NEW i \in DOMAIN coins
    PROVE  Value(coins, coins[i].denom) = coins[i].amount
  <1> DEFINE j == CHOOSE k \in DOMAIN coins : coins[k].denom = coins[i].denom
  <1>1. j \in DOMAIN coins /\ coins[j].denom = coins[i].denom
    OBVIOUS
  <1>2. j = i
    <2> HIDE DEF j
    <2>1. coins[i].denom \in Int /\ i \in Int /\ j \in Int
      BY <1>1, CoinAt
    <2> QED
      BY <1>1, <2>1 DEF AreCoins
  <1> QED
    BY <1>2 DEF Value

\* What a set of coins holds of a denom is an integer.
LEMMA ValueIsInt ==
    ASSUME NEW coins, AreCoins(coins), NEW denom
    PROVE  Value(coins, denom) \in Int
  <1>1. CASE \E i \in DOMAIN coins : coins[i].denom = denom
    BY <1>1, ValueAt, CoinAt
  <1>2. CASE ~\E i \in DOMAIN coins : coins[i].denom = denom
    BY <1>2 DEF Value
  <1> QED
    BY <1>1, <1>2

\* A coin with a greater denom than the others.
LEMMA OneMoreCoin ==
    ASSUME NEW coins, AreCoins(coins), NEW coin \in [denom : Int, amount : Int],
           \A i \in DOMAIN coins : coins[i].denom < coin.denom
    PROVE  LET sum == Stats!removeZeroCoin(coins, coin)
           IN  /\ AreCoins(sum)
               /\ \A i \in DOMAIN sum :
                      \/ i \in DOMAIN coins /\ sum[i] = coins[i]
                      \/ sum[i].denom = coin.denom
               /\ \A denom : Value(sum, denom) =
                      IF denom = coin.denom THEN coin.amount ELSE Value(coins, denom)
  <1>1. ASSUME NEW i \in DOMAIN coins PROVE coins[i].denom # coin.denom
    <2>1. coins[i].denom < coin.denom /\ coins[i].denom \in Int /\ coin.denom \in Int
      BY CoinAt
    <2> QED
      BY <2>1
  <1>2. CASE coin.amount = 0
    <2>1. Stats!removeZeroCoin(coins, coin) = coins
      BY <1>2 DEF Stats!removeZeroCoin
    <2>2. Value(coins, coin.denom) = 0
      BY <1>1 DEF Value
    <2> QED
      BY <1>2, <2>1, <2>2
  <1>3. CASE coin.amount # 0
    <2> DEFINE sum == Append(coins, coin)
    <2>1. Stats!removeZeroCoin(coins, coin) = sum
      BY <1>3 DEF Stats!removeZeroCoin
    <2>2. /\ sum \in Seq([denom : Int, amount : Int]) /\ Len(sum) = Len(coins) + 1
          /\ DOMAIN sum = 1..(Len(coins) + 1) /\ DOMAIN coins = 1..Len(coins)
          /\ Len(coins) \in Nat
          /\ sum[Len(coins) + 1] = coin /\ \A i \in 1..Len(coins) : sum[i] = coins[i]
      BY DEF AreCoins
    <2> HIDE DEF sum
    <2>3. AreCoins(sum)
      <3> SUFFICES ASSUME NEW i \in DOMAIN sum, NEW j \in DOMAIN sum, i < j
                   PROVE  sum[i].denom < sum[j].denom
        BY <2>2 DEF AreCoins
      <3>1. i \in 1..Len(coins)
        BY <2>2
      <3>2. CASE j = Len(coins) + 1
        BY <2>2, <3>1, <3>2
      <3>3. CASE j # Len(coins) + 1
        <4>1. j \in 1..Len(coins)
          BY <2>2, <3>3
        <4> QED
          BY <2>2, <3>1, <4>1 DEF AreCoins
      <3> QED
        BY <3>2, <3>3
    <2>4. \A i \in DOMAIN sum :
              \/ i \in DOMAIN coins /\ sum[i] = coins[i]
              \/ sum[i].denom = coin.denom
      <3>1. \A i \in DOMAIN sum : i \in 1..Len(coins) \/ i = Len(coins) + 1
        BY <2>2
      <3> QED
        BY <3>1, <2>2
    <2>5. ASSUME NEW denom PROVE Value(sum, denom) =
                      IF denom = coin.denom THEN coin.amount ELSE Value(coins, denom)
      <3>1. CASE denom = coin.denom
        <4>1. Len(coins) + 1 \in DOMAIN sum
          BY <2>2
        <4> QED
          BY <2>2, <2>3, <3>1, <4>1, ValueAt
      <3>2. CASE denom # coin.denom /\ \E i \in DOMAIN coins : coins[i].denom = denom
        <4>1. PICK i \in DOMAIN coins : coins[i].denom = denom
          BY <3>2
        <4>2. i \in DOMAIN sum /\ sum[i] = coins[i]
          BY <2>2
        <4>3. Value(sum, sum[i].denom) = sum[i].amount
          BY <2>3, <4>2, ValueAt
        <4>4. Value(coins, coins[i].denom) = coins[i].amount
          BY ValueAt
        <4> QED
          BY <3>2, <4>1, <4>2, <4>3, <4>4
      <3>3. CASE denom # coin.denom /\ ~\E i \in DOMAIN coins : coins[i].denom = denom
        <4>1. ~\E i \in DOMAIN sum : sum[i].denom = denom
          BY <2>4, <3>3
        <4> QED
          BY <3>3, <4>1 DEF Value
      <3> QED
        BY <3>1, <3>2, <3>3
    <2> QED
      BY <2>1, <2>3, <2>4, <2>5
  <1> QED
    BY <1>2, <1>3

\* The denom is less than those of the coins from index i on.
Passed(coins, i, denom) == \A k \in i..Len(coins) : denom < coins[k].denom

\* The set that is merged: i coins of it are taken, and those from j on are not; the others
\* have the denom m.
Cut(coins, i, j, m) ==
    /\ \A k \in 1..(i - 1) : coins[k].denom < m
    /\ \A k \in i..(j - 1) : coins[k].denom = m
    /\ Passed(coins, j, m)

\* A cut at a denom tells the coins that are left for every greater one.
LEMMA CutIs ==
    ASSUME NEW coins, AreCoins(coins), NEW i \in 1..(Len(coins) + 1),
           NEW m \in Int, NEW taken \in BOOLEAN, NEW j, j = IF taken THEN i + 1 ELSE i,
           taken => i <= Len(coins) /\ coins[i].denom = m,
           ~taken /\ i <= Len(coins) => m < coins[i].denom,
           \A k \in 1..(i - 1) : coins[k].denom < m
    PROVE  /\ Cut(coins, i, j, m)
           /\ j \in 1..(Len(coins) + 1)
           /\ Value(coins, m) = IF taken THEN coins[i].amount ELSE 0
  <1>1. Len(coins) \in Nat /\ DOMAIN coins = 1..Len(coins)
    BY DEF AreCoins
  <1>2. \A k \in 1..Len(coins) : coins[k].denom \in Int
    BY <1>1, CoinAt
  <1>3. \A k, l \in 1..Len(coins) : k < l => coins[k].denom < coins[l].denom
    BY <1>1 DEF AreCoins
  <1>4. CASE taken
    <2>1. Value(coins, m) = coins[i].amount
      BY <1>1, <1>4, ValueAt
    <2>2. \A k \in (i + 1)..Len(coins) : coins[i].denom < coins[k].denom
      BY <1>1, <1>3, <1>4
    <2>3. \A k \in i..(i + 1 - 1) : k = i
      BY <1>1
    <2> QED
      BY <1>1, <1>4, <2>1, <2>2, <2>3 DEF Cut, Passed
  <1>5. CASE ~taken
    <2>1. \A k \in i..Len(coins) : m < coins[k].denom
      <3> SUFFICES ASSUME NEW k \in i..Len(coins) PROVE m < coins[k].denom
        OBVIOUS
      <3>1. i \in 1..Len(coins) /\ k \in 1..Len(coins) /\ m < coins[i].denom
        BY <1>1, <1>5
      <3>2. i = k \/ coins[i].denom < coins[k].denom
        BY <1>1, <1>3, <3>1
      <3> QED
        BY <1>2, <3>1, <3>2
    <2>2. \A k \in DOMAIN coins : coins[k].denom # m
      <3> SUFFICES ASSUME NEW k \in 1..Len(coins) PROVE coins[k].denom # m
        BY <1>1
      <3>1. k \in 1..(i - 1) \/ k \in i..Len(coins)
        BY <1>1
      <3> QED
        BY <1>2, <2>1, <3>1
    <2> QED
      BY <1>1, <1>5, <2>1, <2>2 DEF Cut, Passed, Value
  <1> QED
    BY <1>4, <1>5

\* What the loop has merged: the denoms that both sets have passed.
Merged(coins, coinsB, at) ==
    /\ at.indexA \in 1..(Len(coins) + 1) /\ at.indexB \in 1..(Len(coinsB) + 1)
    /\ AreCoins(at.sum)
    /\ \A k \in DOMAIN at.sum :
          Passed(coins, at.indexA, at.sum[k].denom) /\ Passed(coinsB, at.indexB, at.sum[k].denom)
    /\ \A k \in 1..(at.indexA - 1) :
          Passed(coins, at.indexA, coins[k].denom) /\ Passed(coinsB, at.indexB, coins[k].denom)
    /\ \A k \in 1..(at.indexB - 1) :
          Passed(coins, at.indexA, coinsB[k].denom) /\ Passed(coinsB, at.indexB, coinsB[k].denom)
    /\ \A denom \in Int :
          Value(at.sum, denom) =
              IF Passed(coins, at.indexA, denom) /\ Passed(coinsB, at.indexB, denom)
              THEN Value(coins, denom) + Value(coinsB, denom)
              ELSE 0

\* The coins that a turn takes, the denom m of which comes next.
LEMMA TurnTakes ==
    ASSUME NEW coins, NEW coinsB, AreCoins(coins), AreCoins(coinsB), NEW at,
           Merged(coins, coinsB, at),
           at.indexA <= Len(coins) \/ at.indexB <= Len(coinsB)
    PROVE  \E m \in Int :
              LET turned == Stats!Turn(coins, coinsB, at)
                  taken  == Stats!Taken(coins, coinsB, at)
              IN  /\ Cut(coins, at.indexA, turned.indexA, m)
                  /\ Cut(coinsB, at.indexB, turned.indexB, m)
                  /\ turned.indexA \in 1..(Len(coins) + 1)
                  /\ turned.indexB \in 1..(Len(coinsB) + 1)
                  /\ turned.indexA + turned.indexB > at.indexA + at.indexB
                  /\ turned.indexA >= at.indexA /\ turned.indexB >= at.indexB
                  /\ taken = [denom |-> m, amount |-> Value(coins, m) + Value(coinsB, m)]
                  /\ taken \in [denom : Int, amount : Int]
                  /\ turned.sum = Stats!removeZeroCoin(at.sum, taken)
  <1> DEFINE i == at.indexA
             j == at.indexB
             takesA == Stats!TakesA(coins, coinsB, at)
             takesB == Stats!TakesB(coins, coinsB, at)
             taken  == Stats!Taken(coins, coinsB, at)
             turned == Stats!Turn(coins, coinsB, at)
             m == IF takesA THEN coins[i].denom ELSE coinsB[j].denom
  <1>1. /\ Len(coins) \in Nat /\ DOMAIN coins = 1..Len(coins)
        /\ Len(coinsB) \in Nat /\ DOMAIN coinsB = 1..Len(coinsB)
    BY DEF AreCoins
  <1>2. i \in 1..(Len(coins) + 1) /\ j \in 1..(Len(coinsB) + 1)
    BY DEF Merged
  <1>3. /\ i <= Len(coins) => coins[i] \in [denom : Int, amount : Int]
        /\ j <= Len(coinsB) => coinsB[j] \in [denom : Int, amount : Int]
    BY <1>1, <1>2, CoinAt
  <1>4. /\ takesA \in BOOLEAN /\ takesB \in BOOLEAN
        /\ takesA => i <= Len(coins) /\ (j <= Len(coinsB) => coins[i].denom <= coinsB[j].denom)
        /\ takesB => j <= Len(coinsB) /\ (i <= Len(coins) => coinsB[j].denom <= coins[i].denom)
        /\ takesA \/ takesB
        /\ ~takesA /\ i <= Len(coins) => takesB /\ coinsB[j].denom < coins[i].denom
        /\ ~takesB /\ j <= Len(coinsB) => takesA /\ coins[i].denom < coinsB[j].denom
    BY <1>1, <1>2, <1>3 DEF Stats!TakesA, Stats!TakesB
  <1>5. /\ turned.indexA = IF takesA THEN i + 1 ELSE i
        /\ turned.indexB = IF takesB THEN j + 1 ELSE j
        /\ turned.sum = Stats!removeZeroCoin(at.sum, taken)
    BY <1>2, <1>4 DEF Stats!Turn
  <1>6. taken = IF takesA /\ takesB
                THEN [denom |-> coins[i].denom, amount |-> coins[i].amount + coinsB[j].amount]
                ELSE IF takesA THEN coins[i] ELSE coinsB[j]
    BY DEF Stats!Taken, Stats!Coin
  <1> HIDE DEF i, j, takesA, takesB, taken, turned
  <1>7. /\ m \in Int
        /\ takesA => coins[i].denom = m
        /\ takesB => coinsB[j].denom = m
        /\ ~takesA /\ i <= Len(coins) => m < coins[i].denom
        /\ ~takesB /\ j <= Len(coinsB) => m < coinsB[j].denom
    BY <1>1, <1>2, <1>3, <1>4
  <1> HIDE DEF m
  <1>8. /\ \A k \in 1..(i - 1) : coins[k].denom < m
        /\ \A k \in 1..(j - 1) : coinsB[k].denom < m
    <2>1. CASE takesA
      <3>1. i \in i..Len(coins)
        BY <1>1, <1>2, <1>4, <2>1
      <3> QED
        BY <2>1, <3>1, <1>7 DEF Merged, Passed, i, j
    <2>2. CASE takesB
      <3>1. j \in j..Len(coinsB)
        BY <1>1, <1>2, <1>4, <2>2
      <3> QED
        BY <2>2, <3>1, <1>7 DEF Merged, Passed, i, j
    <2> QED
      BY <1>4, <2>1, <2>2
  <1>9. /\ Cut(coins, i, turned.indexA, m) /\ turned.indexA \in 1..(Len(coins) + 1)
        /\ Value(coins, m) = IF takesA THEN coins[i].amount ELSE 0
    BY <1>2, <1>4, <1>5, <1>7, <1>8, CutIs
  <1>10. /\ Cut(coinsB, j, turned.indexB, m) /\ turned.indexB \in 1..(Len(coinsB) + 1)
         /\ Value(coinsB, m) = IF takesB THEN coinsB[j].amount ELSE 0
    BY <1>2, <1>4, <1>5, <1>7, <1>8, CutIs
  <1>11. /\ taken = [denom |-> m, amount |-> Value(coins, m) + Value(coinsB, m)]
         /\ taken \in [denom : Int, amount : Int]
    <2>1. takesA => coins[i] = [denom |-> m, amount |-> coins[i].amount] /\ coins[i].amount \in Int
      BY <1>3, <1>4, <1>7
    <2>2. takesB => /\ coinsB[j] = [denom |-> m, amount |-> coinsB[j].amount]
                    /\ coinsB[j].amount \in Int
      BY <1>3, <1>4, <1>7
    <2> QED
      BY <1>4, <1>6, <1>7, <1>9, <1>10, <2>1, <2>2
  <1>12. /\ turned.indexA >= i /\ turned.indexB >= j
         /\ turned.indexA + turned.indexB > i + j
    BY <1>2, <1>4, <1>5
  <1> QED
    BY <1>5, <1>7, <1>9, <1>10, <1>11, <1>12 DEF i, j, taken, turned

\* A turn keeps what is merged and takes the next denom.
LEMMA TurnMerges ==
    ASSUME NEW coins, NEW coinsB, AreCoins(coins), AreCoins(coinsB), NEW at,
           Merged(coins, coinsB, at),
           at.indexA <= Len(coins) \/ at.indexB <= Len(coinsB)
    PROVE  LET turned == Stats!Turn(coins, coinsB, at)
           IN  /\ Merged(coins, coinsB, turned)
               /\ turned.indexA + turned.indexB > at.indexA + at.indexB
  <1> DEFINE turned == Stats!Turn(coins, coinsB, at)
             taken  == Stats!Taken(coins, coinsB, at)
             i == at.indexA
             j == at.indexB
             k == turned.indexA
             l == turned.indexB
  <1>1. PICK m \in Int :
            /\ Cut(coins, i, k, m) /\ Cut(coinsB, j, l, m)
            /\ k \in 1..(Len(coins) + 1) /\ l \in 1..(Len(coinsB) + 1)
            /\ k + l > i + j /\ k >= i /\ l >= j
            /\ taken = [denom |-> m, amount |-> Value(coins, m) + Value(coinsB, m)]
            /\ taken \in [denom : Int, amount : Int]
            /\ turned.sum = Stats!removeZeroCoin(at.sum, taken)
    BY TurnTakes
  <1>2. /\ Len(coins) \in Nat /\ DOMAIN coins = 1..Len(coins)
        /\ Len(coinsB) \in Nat /\ DOMAIN coinsB = 1..Len(coinsB)
        /\ \A n \in 1..Len(coins) : coins[n].denom \in Int
        /\ \A n \in 1..Len(coinsB) : coinsB[n].denom \in Int
    <2>1. /\ Len(coins) \in Nat /\ DOMAIN coins = 1..Len(coins)
          /\ Len(coinsB) \in Nat /\ DOMAIN coinsB = 1..Len(coinsB)
      BY DEF AreCoins
    <2> QED
      BY <2>1, CoinAt
  <1>3. i \in 1..(Len(coins) + 1) /\ j \in 1..(Len(coinsB) + 1) /\ AreCoins(at.sum)
    BY DEF Merged
  <1> HIDE DEF turned, taken, i, j, k, l
  <1>4. \A n \in DOMAIN at.sum : at.sum[n].denom \in Int /\ at.sum[n].denom < m
    <2> SUFFICES ASSUME NEW n \in DOMAIN at.sum PROVE at.sum[n].denom < m
      BY <1>3, CoinAt
    <2>1. Passed(coins, i, at.sum[n].denom) /\ Passed(coinsB, j, at.sum[n].denom)
      BY DEF Merged, i, j
    <2>2. (i \in i..(k - 1) /\ i \in i..Len(coins)) \/ (j \in j..(l - 1) /\ j \in j..Len(coinsB))
      BY <1>1, <1>2, <1>3
    <2> QED
      BY <1>1, <2>1, <2>2 DEF Cut, Passed
  <1>5. /\ AreCoins(turned.sum)
        /\ \A n \in DOMAIN turned.sum :
               \/ n \in DOMAIN at.sum /\ turned.sum[n] = at.sum[n]
               \/ turned.sum[n].denom = m
        /\ \A denom : Value(turned.sum, denom) =
               IF denom = m THEN Value(coins, m) + Value(coinsB, m) ELSE Value(at.sum, denom)
    <2>1. taken.denom = m /\ taken.amount = Value(coins, m) + Value(coinsB, m)
      BY <1>1
    <2>2. \A n \in DOMAIN at.sum : at.sum[n].denom < taken.denom
      BY <1>4, <2>1
    <2> QED
      BY <1>1, <1>3, <2>1, <2>2, OneMoreCoin
  <1>6. \A denom \in Int : denom <= m => Passed(coins, k, denom) /\ Passed(coinsB, l, denom)
    <2>1. \A n \in k..Len(coins) : n \in 1..Len(coins) /\ m < coins[n].denom
      BY <1>1, <1>2 DEF Cut, Passed
    <2>2. \A n \in l..Len(coinsB) : n \in 1..Len(coinsB) /\ m < coinsB[n].denom
      BY <1>1, <1>2 DEF Cut, Passed
    <2> QED
      BY <1>2, <2>1, <2>2 DEF Passed
  <1>7. /\ \A n \in 1..(k - 1) : n \in 1..Len(coins) /\ coins[n].denom <= m
        /\ \A n \in 1..(l - 1) : n \in 1..Len(coinsB) /\ coinsB[n].denom <= m
    <2>1. \A n \in 1..(k - 1) : n \in 1..Len(coins) /\ (n \in 1..(i - 1) \/ n \in i..(k - 1))
      BY <1>1, <1>2, <1>3
    <2>2. \A n \in 1..(l - 1) : n \in 1..Len(coinsB) /\ (n \in 1..(j - 1) \/ n \in j..(l - 1))
      BY <1>1, <1>2, <1>3
    <2>3. \A n \in 1..(k - 1) : coins[n].denom < m \/ coins[n].denom = m
      BY <1>1, <2>1 DEF Cut
    <2>4. \A n \in 1..(l - 1) : coinsB[n].denom < m \/ coinsB[n].denom = m
      BY <1>1, <2>2 DEF Cut
    <2>5. m \in Int /\ \A x \in Int : x < m \/ x = m => x <= m
      BY <1>1
    <2> QED
      BY <1>2, <2>1, <2>2, <2>3, <2>4, <2>5
  <1>8. ASSUME NEW denom \in Int
        PROVE  Value(turned.sum, denom) =
                   IF Passed(coins, k, denom) /\ Passed(coinsB, l, denom)
                   THEN Value(coins, denom) + Value(coinsB, denom)
                   ELSE 0
    <2>1. CASE denom = m
      BY <1>5, <1>6, <2>1
    <2>2. CASE denom < m
      <3>1. Passed(coins, i, denom) /\ Passed(coinsB, j, denom)
        <4>1. \A n \in i..Len(coins) : n \in i..(k - 1) \/ n \in k..Len(coins)
          BY <1>1, <1>2, <1>3
        <4>2. \A n \in j..Len(coinsB) : n \in j..(l - 1) \/ n \in l..Len(coinsB)
          BY <1>1, <1>2, <1>3
        <4>3. Passed(coins, k, denom) /\ Passed(coinsB, l, denom)
          BY <1>6, <2>2
        <4> QED
          BY <1>1, <2>2, <4>1, <4>2, <4>3 DEF Passed, Cut
      <3>2. Value(at.sum, denom) = Value(coins, denom) + Value(coinsB, denom)
        BY <3>1 DEF Merged, i, j
      <3>3. denom # m
        BY <2>2
      <3> QED
        BY <1>5, <1>6, <2>2, <3>2, <3>3
    <2>3. CASE m < denom
      <3>1. denom # m
        BY <2>3
      <3>2. Value(at.sum, denom) = 0
        <4>1. ASSUME NEW n \in DOMAIN at.sum PROVE at.sum[n].denom # denom
          BY <1>4, <2>3
        <4> QED
          BY <4>1 DEF Value
      <3>3. CASE Passed(coins, k, denom) /\ Passed(coinsB, l, denom)
        <4>1. ASSUME NEW n \in DOMAIN coins PROVE coins[n].denom # denom
          <5>1. n \in 1..(k - 1) \/ n \in k..Len(coins)
            BY <1>1, <1>2
          <5> QED
            BY <1>2, <1>7, <2>3, <3>3, <5>1 DEF Passed
        <4>2. ASSUME NEW n \in DOMAIN coinsB PROVE coinsB[n].denom # denom
          <5>1. n \in 1..(l - 1) \/ n \in l..Len(coinsB)
            BY <1>1, <1>2
          <5> QED
            BY <1>2, <1>7, <2>3, <3>3, <5>1 DEF Passed
        <4>3. Value(coins, denom) = 0 /\ Value(coinsB, denom) = 0
          BY <4>1, <4>2 DEF Value
        <4> QED
          BY <1>5, <3>1, <3>2, <3>3, <4>3
      <3> QED
        BY <1>5, <3>1, <3>2, <3>3
    <2> QED
      BY <2>1, <2>2, <2>3
  <1>9. \A n \in DOMAIN turned.sum :
            Passed(coins, k, turned.sum[n].denom) /\ Passed(coinsB, l, turned.sum[n].denom)
    <2>1. \A n \in DOMAIN turned.sum : turned.sum[n].denom \in Int /\ turned.sum[n].denom <= m
      BY <1>4, <1>5
    <2> QED
      BY <1>6, <2>1
  <1>10. Merged(coins, coinsB, turned)
    BY <1>1, <1>2, <1>5, <1>6, <1>7, <1>8, <1>9 DEF Merged, k, l
  <1> QED
    BY <1>1, <1>10 DEF turned, i, j, k, l

\* When nothing is left a turn changes nothing.
LEMMA TurnRests ==
    ASSUME NEW coins, NEW coinsB, AreCoins(coins), AreCoins(coinsB), NEW at,
           Merged(coins, coinsB, at),
           ~(at.indexA <= Len(coins)), ~(at.indexB <= Len(coinsB))
    PROVE  LET turned == Stats!Turn(coins, coinsB, at)
           IN  /\ turned.indexA = at.indexA /\ turned.indexB = at.indexB
               /\ turned.sum = at.sum
  BY DEF Stats!Turn, Stats!TakesA, Stats!TakesB, Merged

\* Before the first turn of safeAdd nothing is merged.
LEMMA NothingMerged ==
    ASSUME NEW coins, NEW coinsB, AreCoins(coins), AreCoins(coinsB)
    PROVE  Merged(coins, coinsB, [indexA |-> 1, indexB |-> 1, sum |-> <<>>])
  <1>1. /\ Len(coins) \in Nat /\ DOMAIN coins = 1..Len(coins)
        /\ Len(coinsB) \in Nat /\ DOMAIN coinsB = 1..Len(coinsB)
    BY DEF AreCoins
  <1>2. AreCoins(<<>>) /\ DOMAIN <<>> = {}
    BY DEF AreCoins
  <1>3. ASSUME NEW c, AreCoins(c), NEW denom \in Int, Passed(c, 1, denom)
        PROVE  Value(c, denom) = 0
    <2>1. DOMAIN c = 1..Len(c)
      BY <1>3 DEF AreCoins
    <2>2. \A i \in DOMAIN c : denom < c[i].denom /\ c[i].denom \in Int
      BY <1>3, <2>1, CoinAt DEF Passed
    <2>3. \A i \in DOMAIN c : c[i].denom # denom
      BY <2>2
    <2> QED
      BY <2>3 DEF Value
  <1>4. \A denom \in Int : Value(<<>>, denom) = 0
    BY <1>2 DEF Value
  <1>5. ASSUME NEW denom \in Int, Passed(coins, 1, denom), Passed(coinsB, 1, denom)
        PROVE  Value(coins, denom) + Value(coinsB, denom) = 0
    BY <1>3, <1>5
  <1>6. 1 \in 1..(Len(coins) + 1) /\ 1 \in 1..(Len(coinsB) + 1) /\ 1..(1 - 1) = {}
    BY <1>1
  <1> QED
    BY <1>2, <1>4, <1>5, <1>6 DEF Merged

\* The sum of two sets of coins has the sum of their amounts.
LEMMA AddIs ==
    ASSUME NEW coins, NEW coinsB, AreCoins(coins), AreCoins(coinsB)
    PROVE  /\ AreCoins(Stats!Add(coins, coinsB))
           /\ \A denom \in Int : Value(Stats!Add(coins, coinsB), denom) =
                  Value(coins, denom) + Value(coinsB, denom)
  <1>0. PICK N \in Nat : N = Len(coins) + Len(coinsB)
    BY DEF AreCoins
  <1> DEFINE start == [indexA |-> 1, indexB |-> 1, sum |-> <<>>]
             States == {s \in [indexA : Nat, indexB : Nat, sum : Seq([denom : Int, amount : Int])] :
                           Merged(coins, coinsB, s)}
             step == [n \in 1..N |-> [s \in States |-> Stats!Turn(coins, coinsB, s)]]
             Is(f) == f = [n \in 0..N |-> IF n = 0 THEN start
                                          ELSE Stats!Turn(coins, coinsB, f[n - 1])]
             at == CHOOSE f : Is(f)
  <1>1. \A s \in States : Stats!Turn(coins, coinsB, s) \in States
    <2> SUFFICES ASSUME NEW s \in States PROVE Stats!Turn(coins, coinsB, s) \in States
      OBVIOUS
    <2> DEFINE turned == Stats!Turn(coins, coinsB, s)
    <2>1. Merged(coins, coinsB, s)
      OBVIOUS
    <2>2. Merged(coins, coinsB, turned)
      <3>1. CASE s.indexA <= Len(coins) \/ s.indexB <= Len(coinsB)
        BY <2>1, <3>1, TurnMerges
      <3>2. CASE ~(s.indexA <= Len(coins)) /\ ~(s.indexB <= Len(coinsB))
        <4>1. turned.indexA = s.indexA /\ turned.indexB = s.indexB /\ turned.sum = s.sum
          BY <2>1, <3>2, TurnRests
        <4> QED
          BY <2>1, <4>1 DEF Merged
      <3> QED
        BY <3>1, <3>2
    <2>3. turned.indexA \in Nat /\ turned.indexB \in Nat
      BY <2>2 DEF Merged, AreCoins
    <2>4. turned.sum \in Seq([denom : Int, amount : Int])
      BY <2>2 DEF Merged, AreCoins
    <2>5. turned = [indexA |-> turned.indexA, indexB |-> turned.indexB, sum |-> turned.sum]
      BY DEF Stats!Turn
    <2> QED
      BY <2>2, <2>3, <2>4, <2>5
  <1>2. start \in States
    <2>1. Merged(coins, coinsB, start)
      BY NothingMerged
    <2>2. <<>> \in Seq([denom : Int, amount : Int])
      OBVIOUS
    <2> QED
      BY <2>1, <2>2
  <1>3. PICK f : Loops(f, N, States, start, step)
    <2>1. step \in [1..N -> [States -> States]]
      <3> HIDE DEF States
      <3> QED
        BY <1>1
    <2> HIDE DEF States, step, start
    <2> QED
      BY <1>2, <2>1, LoopExists
  <1> HIDE DEF States, start
  <1>4. f = [n \in 0..N |-> IF n = 0 THEN start ELSE Stats!Turn(coins, coinsB, f[n - 1])]
    <2>1. f = [n \in 0..N |-> f[n]] /\ f[0] = start
      BY <1>3 DEF Loops
    <2>2. ASSUME NEW n \in 0..N, n # 0 PROVE f[n] = Stats!Turn(coins, coinsB, f[n - 1])
      <3>1. n \in 1..N /\ n - 1 \in 0..N
        BY <2>2
      <3>2. f[n - 1] \in States /\ f[n] = step[n][f[n - 1]]
        BY <3>1, <1>3 DEF Loops
      <3> QED
        BY <3>1, <3>2
    <2> QED
      BY <2>1, <2>2
  <1>5. Is(at)
    BY <1>4
  <1>6. Stats!Add(coins, coinsB) = at[N].sum
    BY <1>0 DEF Stats!Add, Stats!safeAdd, Stats!NewEmptyCoins, start
  <1> HIDE DEF at
  <1>7. at[0] = start /\ \A n \in 1..N : at[n] = Stats!Turn(coins, coinsB, at[n - 1])
    <2>1. 0 \in 0..N /\ \A n \in 1..N : n \in 0..N /\ n # 0
      BY <1>0
    <2> QED
      BY <1>5, <2>1
  <1> DEFINE Done(s) == ~(s.indexA <= Len(coins)) /\ ~(s.indexB <= Len(coinsB))
             S == {n \in 0..N : /\ Merged(coins, coinsB, at[n])
                                /\ \/ Done(at[n])
                                   \/ at[n].indexA + at[n].indexB >= n + 2}
  <1>8. 0 \in S
    BY <1>0, <1>7, NothingMerged DEF start
  <1>9. ASSUME NEW n \in 1..N, n - 1 \in S PROVE n \in S
    <2>1. /\ Merged(coins, coinsB, at[n - 1])
          /\ Done(at[n - 1]) \/ at[n - 1].indexA + at[n - 1].indexB >= n + 1
      BY <1>9
    <2>2. at[n] = Stats!Turn(coins, coinsB, at[n - 1]) /\ n \in 0..N
      BY <1>7
    <2>3. CASE Done(at[n - 1])
      <3>1. /\ at[n].indexA = at[n - 1].indexA /\ at[n].indexB = at[n - 1].indexB
            /\ at[n].sum = at[n - 1].sum
        BY <2>1, <2>2, <2>3, TurnRests
      <3> QED
        BY <2>1, <2>2, <2>3, <3>1 DEF Merged
    <2>4. CASE ~Done(at[n - 1])
      <3>1. /\ Merged(coins, coinsB, at[n])
            /\ at[n].indexA + at[n].indexB > at[n - 1].indexA + at[n - 1].indexB
        BY <2>1, <2>2, <2>4, TurnMerges
      <3>2. /\ at[n].indexA \in Nat /\ at[n].indexB \in Nat
            /\ at[n - 1].indexA \in Nat /\ at[n - 1].indexB \in Nat
        <4>1. Len(coins) \in Nat /\ Len(coinsB) \in Nat
          BY DEF AreCoins
        <4>2. /\ at[n].indexA \in 1..(Len(coins) + 1) /\ at[n].indexB \in 1..(Len(coinsB) + 1)
              /\ at[n - 1].indexA \in 1..(Len(coins) + 1)
              /\ at[n - 1].indexB \in 1..(Len(coinsB) + 1)
          BY <2>1, <3>1 DEF Merged
        <4> QED
          BY <4>1, <4>2
      <3>3. at[n].indexA + at[n].indexB >= n + 2
        BY <2>1, <2>4, <3>1, <3>2
      <3> QED
        BY <2>2, <3>1, <3>3
    <2> QED
      BY <2>3, <2>4
  <1>10. N \in S
    <2> HIDE DEF S
    <2> QED
      BY <1>8, <1>9, UpTo
  <1>11. Merged(coins, coinsB, at[N]) /\ (Done(at[N]) \/ at[N].indexA + at[N].indexB >= N + 2)
    BY <1>10
  <1>12. /\ at[N].indexA \in 1..(Len(coins) + 1) /\ at[N].indexB \in 1..(Len(coinsB) + 1)
         /\ Len(coins) \in Nat /\ Len(coinsB) \in Nat
    BY <1>11 DEF Merged, AreCoins
  <1>13. Done(at[N])
    BY <1>0, <1>11, <1>12
  <1>14. at[N].indexA..Len(coins) = {} /\ at[N].indexB..Len(coinsB) = {}
    BY <1>12, <1>13
  <1>15. \A denom \in Int : /\ Passed(coins, at[N].indexA, denom)
                            /\ Passed(coinsB, at[N].indexB, denom)
    BY <1>14 DEF Passed
  <1> QED
    BY <1>6, <1>11, <1>15 DEF Merged

-----------------------------------------------------------------------------
(* The binary search *)

\* What the search for a denom has after n turns: every coin of the denom is in the slice.
SliceOf(coins, denom, slice, n) ==
    /\ slice \in [lo : Int, hi : Int]
    /\ 1 <= slice.lo /\ slice.hi <= Len(coins) /\ slice.lo <= slice.hi + 1
    /\ \A i \in DOMAIN coins : coins[i].denom = denom => slice.lo <= i /\ i <= slice.hi
    /\ \/ slice.hi - slice.lo + 1 <= Len(coins) - n
       \/ slice.hi <= slice.lo
       \/ coins[Stats!midIdx(slice)].denom = denom

\* The middle of a slice is in the slice.
LEMMA MidIs ==
    ASSUME NEW slice \in [lo : Int, hi : Int], slice.lo <= slice.hi
    PROVE  /\ Stats!midIdx(slice) \in slice.lo..slice.hi
           /\ slice.lo = slice.hi => Stats!midIdx(slice) = slice.lo
  <1>1. \A n \in Nat : n > 0 => n \div 2 \in 0..(n - 1)
    OBVIOUS
  <1>2. 1 \div 2 = 0
    OBVIOUS
  <1>3. slice.hi - slice.lo + 1 \in Nat /\ slice.hi - slice.lo + 1 > 0
    OBVIOUS
  <1>4. (slice.hi - slice.lo + 1) \div 2 \in 0..(slice.hi - slice.lo)
    BY <1>1, <1>3
  <1>5. slice.lo = slice.hi => slice.hi - slice.lo + 1 = 1
    OBVIOUS
  <1> QED
    BY <1>2, <1>3, <1>4, <1>5 DEF Stats!midIdx

\* A turn of the search keeps the denom in the slice, which it makes smaller.
LEMMA HalfIs ==
    ASSUME NEW coins, AreCoins(coins), NEW denom \in Int, NEW slice, NEW n \in 1..Len(coins),
           SliceOf(coins, denom, slice, n - 1)
    PROVE  SliceOf(coins, denom, Stats!Half(coins, denom, slice), n)
  <1> DEFINE half == Stats!Half(coins, denom, slice)
             mid == Stats!midIdx(slice)
  <1>1. Len(coins) \in Nat /\ DOMAIN coins = 1..Len(coins)
    BY DEF AreCoins
  <1>2. slice \in [lo : Int, hi : Int] /\ slice.lo \in Int /\ slice.hi \in Int
    BY DEF SliceOf
  <1>3. CASE slice.hi <= slice.lo \/ coins[mid].denom = denom
    <2>1. half = slice
      BY <1>3 DEF Stats!Half
    <2> QED
      BY <1>3, <2>1 DEF SliceOf
  <1>4. CASE ~(slice.hi <= slice.lo \/ coins[mid].denom = denom)
    <2>1. mid \in slice.lo..slice.hi
      BY <1>2, <1>4, MidIs
    <2>2. slice.hi - slice.lo + 1 <= Len(coins) - (n - 1)
      BY <1>4 DEF SliceOf
    <2>3. mid \in DOMAIN coins /\ coins[mid].denom \in Int
      <3>1. mid \in 1..Len(coins)
        BY <1>1, <1>2, <2>1 DEF SliceOf
      <3> QED
        BY <1>1, <3>1, CoinAt
    <2> HIDE DEF mid
    <2>4. CASE denom < coins[mid].denom
      <3>1. half = [slice EXCEPT !.hi = mid - 1]
        BY <1>4, <2>4 DEF Stats!Half, mid
      <3>2. half \in [lo : Int, hi : Int] /\ half.lo = slice.lo /\ half.hi = mid - 1
        BY <1>2, <2>1, <3>1
      <3>3. \A i \in DOMAIN coins : coins[i].denom = denom => slice.lo <= i /\ i <= mid - 1
        <4> SUFFICES ASSUME NEW i \in DOMAIN coins, coins[i].denom = denom
                     PROVE  slice.lo <= i /\ i <= mid - 1
          OBVIOUS
        <4>1. ~(mid < i) /\ i # mid
          BY <2>3, <2>4 DEF AreCoins
        <4>2. slice.lo <= i /\ i \in Int /\ mid \in Int
          BY <1>1, <2>1, <1>2 DEF SliceOf
        <4> QED
          BY <4>1, <4>2
      <3>4. /\ half.hi - half.lo + 1 <= Len(coins) - n
            /\ half.hi <= Len(coins) /\ half.lo <= half.hi + 1
        BY <1>1, <1>2, <2>1, <2>2, <3>2 DEF SliceOf
      <3> QED
        BY <3>2, <3>3, <3>4 DEF SliceOf
    <2>5. CASE coins[mid].denom < denom
      <3>0. ~(denom < coins[mid].denom)
        BY <2>3, <2>5
      <3>1. half = [slice EXCEPT !.lo = mid + 1]
        BY <1>4, <3>0 DEF Stats!Half, mid
      <3>2. half \in [lo : Int, hi : Int] /\ half.hi = slice.hi /\ half.lo = mid + 1
        BY <1>2, <2>1, <3>1
      <3>3. \A i \in DOMAIN coins : coins[i].denom = denom => mid + 1 <= i /\ i <= slice.hi
        <4> SUFFICES ASSUME NEW i \in DOMAIN coins, coins[i].denom = denom
                     PROVE  mid + 1 <= i /\ i <= slice.hi
          OBVIOUS
        <4>1. ~(i < mid) /\ i # mid
          BY <2>3, <2>5 DEF AreCoins
        <4>2. i <= slice.hi /\ i \in Int /\ mid \in Int
          BY <1>1, <2>1, <1>2 DEF SliceOf
        <4> QED
          BY <4>1, <4>2
      <3>4. half.hi - half.lo + 1 <= Len(coins) - n /\ 1 <= half.lo /\ half.lo <= half.hi + 1
        BY <1>1, <1>2, <2>1, <2>2, <3>2 DEF SliceOf
      <3> QED
        BY <3>2, <3>3, <3>4 DEF SliceOf
    <2>6. coins[mid].denom # denom
      BY <1>4 DEF mid
    <2> QED
      BY <2>3, <2>4, <2>5, <2>6
  <1> QED
    BY <1>3, <1>4

\* The binary search finds the amount of a denom.
LEMMA AmountIs ==
    ASSUME NEW coins, AreCoins(coins), NEW denom \in Int
    PROVE  Stats!AmountOf(coins, denom) = Value(coins, denom)
  <1>0. PICK N \in Nat : N = Len(coins)
    BY DEF AreCoins
  <1> DEFINE start == [lo |-> 1, hi |-> N]
             Slices == [lo : Int, hi : Int]
             step == [n \in 1..N |-> [s \in Slices |-> Stats!Half(coins, denom, s)]]
             Is(f) == f = [n \in 0..N |-> IF n = 0 THEN start
                                          ELSE Stats!Half(coins, denom, f[n - 1])]
             slice == CHOOSE f : Is(f)
  <1>1. \A s \in Slices : Stats!Half(coins, denom, s) \in Slices
    <2>1. \A s \in Slices : Stats!midIdx(s) \in Int
      <3>1. \A n \in Int : n \div 2 \in Int
        OBVIOUS
      <3> QED
        BY <3>1 DEF Stats!midIdx
    <2> QED
      BY <2>1 DEF Stats!Half
  <1>2. start \in Slices
    OBVIOUS
  <1>3. PICK f : Loops(f, N, Slices, start, step)
    <2>1. step \in [1..N -> [Slices -> Slices]]
      <3> HIDE DEF Slices
      <3> QED
        BY <1>1
    <2> HIDE DEF Slices, step, start
    <2> QED
      BY <1>2, <2>1, LoopExists
  <1> HIDE DEF Slices, start
  <1>4. f = [n \in 0..N |-> IF n = 0 THEN start ELSE Stats!Half(coins, denom, f[n - 1])]
    <2>1. f = [n \in 0..N |-> f[n]] /\ f[0] = start
      BY <1>3 DEF Loops
    <2>2. ASSUME NEW n \in 0..N, n # 0 PROVE f[n] = Stats!Half(coins, denom, f[n - 1])
      <3>1. n \in 1..N /\ n - 1 \in 0..N
        BY <2>2
      <3>2. f[n - 1] \in Slices /\ f[n] = step[n][f[n - 1]]
        BY <3>1, <1>3 DEF Loops
      <3> QED
        BY <3>1, <3>2
    <2> QED
      BY <2>1, <2>2
  <1>5. Is(slice)
    BY <1>4
  <1>6. Stats!AmountOf(coins, denom) =
            IF slice[N].lo <= slice[N].hi /\ coins[Stats!midIdx(slice[N])].denom = denom
            THEN coins[Stats!midIdx(slice[N])].amount
            ELSE 0
    BY <1>0 DEF Stats!AmountOf, start
  <1> HIDE DEF slice
  <1>7. slice[0] = start /\ \A n \in 1..N : slice[n] = Stats!Half(coins, denom, slice[n - 1])
    <2>1. 0 \in 0..N /\ \A n \in 1..N : n \in 0..N /\ n # 0
      BY <1>0
    <2> QED
      BY <1>5, <2>1
  <1> DEFINE S == {n \in 0..N : SliceOf(coins, denom, slice[n], n)}
  <1>8. 0 \in S
    <2>1. DOMAIN coins = 1..N
      BY <1>0 DEF AreCoins
    <2> QED
      BY <1>0, <1>7, <2>1 DEF start, SliceOf
  <1>9. ASSUME NEW n \in 1..N, n - 1 \in S PROVE n \in S
    BY <1>0, <1>7, <1>9, HalfIs
  <1>10. SliceOf(coins, denom, slice[N], N)
    <2>1. N \in S
      <3> HIDE DEF S
      <3> QED
        BY <1>8, <1>9, UpTo
    <2> QED
      BY <2>1
  <1> DEFINE lo == slice[N].lo
             hi == slice[N].hi
             mid == Stats!midIdx(slice[N])
  <1>11. /\ lo \in Int /\ hi \in Int /\ 1 <= lo /\ hi <= N
         /\ \A i \in DOMAIN coins : coins[i].denom = denom => lo <= i /\ i <= hi
         /\ hi - lo + 1 <= N - N \/ hi <= lo \/ coins[mid].denom = denom
         /\ slice[N] \in [lo : Int, hi : Int]
    BY <1>0, <1>10 DEF SliceOf
  <1>12. CASE lo <= hi /\ coins[mid].denom = denom
    <2>1. mid \in DOMAIN coins
      <3>1. mid \in lo..hi
        BY <1>11, <1>12, MidIs
      <3>2. mid \in 1..N
        BY <1>11, <3>1
      <3> QED
        BY <1>0, <3>2 DEF AreCoins
    <2> QED
      BY <1>6, <1>12, <2>1, ValueAt
  <1>13. CASE ~(lo <= hi /\ coins[mid].denom = denom)
    <2>1. ASSUME NEW i \in DOMAIN coins, coins[i].denom = denom PROVE FALSE
      <3>1. lo <= i /\ i <= hi /\ i \in Int
        BY <1>11, <2>1 DEF AreCoins
      <3>2. lo <= hi
        BY <1>11, <3>1
      <3>3. hi <= lo
        BY <1>11, <1>13, <3>2
      <3>4. i = lo /\ lo = hi
        BY <1>11, <3>1, <3>3
      <3>5. mid = lo
        BY <1>11, <3>4, MidIs
      <3> QED
        BY <1>13, <2>1, <3>2, <3>4, <3>5
    <2>2. Value(coins, denom) = 0
      BY <2>1 DEF Value
    <2> QED
      BY <1>6, <1>13, <2>2
  <1> QED
    BY <1>12, <1>13

-----------------------------------------------------------------------------
(* Sums *)

\* A sum is what any running total ends with.
LEMMA SumIs ==
    ASSUME NEW N \in Nat, NEW s, s \in [1..N -> Int],
           NEW g, g \in [0..N -> Int], g[0] = 0,
           \A n \in 1..N : g[n] = g[n - 1] + s[n]
    PROVE  Stats!SumOf(s) = g[N]
  <1> DEFINE Is(f) == f = [n \in 0..N |-> IF n = 0 THEN 0 ELSE f[n - 1] + s[n]]
             sum == CHOOSE f : Is(f)
             f == [n \in 0..N |-> g[n]]
  <1>0. Len(s) = N
    <2>1. s \in Seq(Int) /\ DOMAIN s = 1..N
      OBVIOUS
    <2> QED
      BY <2>1
  <1>1. Is(f)
    <2>1. ASSUME NEW n \in 0..N PROVE f[n] = IF n = 0 THEN 0 ELSE f[n - 1] + s[n]
      <3>1. CASE n = 0
        BY <3>1
      <3>2. CASE n # 0
        <4>1. n \in 1..N /\ n - 1 \in 0..N
          BY <3>2
        <4> QED
          BY <3>2, <4>1
      <3> QED
        BY <3>1, <3>2
    <2> QED
      BY <2>1
  <1>2. Is(sum)
    <2> HIDE DEF f
    <2> QED
      BY <1>1
  <1>3. Stats!SumOf(s) = sum[N]
    BY <1>0 DEF Stats!SumOf
  <1> HIDE DEF sum
  <1>4. sum[0] = 0 /\ \A n \in 1..N : sum[n] = sum[n - 1] + s[n]
    <2>1. 0 \in 0..N /\ \A n \in 1..N : n \in 0..N /\ n # 0
      OBVIOUS
    <2> QED
      BY <1>2, <2>1
  <1> DEFINE S == {n \in 0..N : sum[n] = g[n] /\ g[n] \in Int}
  <1>5. 0 \in S
    BY <1>4
  <1>6. ASSUME NEW n \in 1..N, n - 1 \in S PROVE n \in S
    <2>1. sum[n - 1] = g[n - 1] /\ g[n - 1] \in Int /\ s[n] \in Int /\ n \in 0..N
      BY <1>6
    <2> QED
      BY <1>4, <2>1
  <1>7. \A n \in 0..N : n \in S
    <2> HIDE DEF S
    <2> QED
      BY <1>5, <1>6, UpTo
  <1>8. N \in S
    BY <1>7
  <1> QED
    BY <1>3, <1>8

\* There is a running total.
LEMMA SumByPrefix ==
    ASSUME NEW N \in Nat, NEW s, s \in [1..N -> Int]
    PROVE  \E g \in [0..N -> Int] :
              /\ g[0] = 0 /\ \A n \in 1..N : g[n] = g[n - 1] + s[n]
              /\ Stats!SumOf(s) = g[N]
  <1> DEFINE step == [n \in 1..N |-> [x \in Int |-> x + s[n]]]
  <1>1. step \in [1..N -> [Int -> Int]]
    OBVIOUS
  <1>2. PICK g : Loops(g, N, Int, 0, step)
    <2> HIDE DEF step
    <2>1. 0 \in Int
      OBVIOUS
    <2> QED
      BY <1>1, <2>1, LoopExists
  <1>3. g \in [0..N -> Int] /\ g[0] = 0
    BY <1>2 DEF Loops
  <1>4. ASSUME NEW n \in 1..N PROVE g[n] = g[n - 1] + s[n]
    <2>1. n - 1 \in 0..N /\ g[n - 1] \in Int
      BY <1>3
    <2>2. g[n] = step[n][g[n - 1]]
      <3> HIDE DEF step
      <3> QED
        BY <1>2 DEF Loops
    <2> QED
      BY <2>1, <2>2
  <1>5. Stats!SumOf(s) = g[N]
    BY <1>3, <1>4, SumIs
  <1> QED
    BY <1>3, <1>4, <1>5

\* A sum of integers is an integer.
LEMMA SumIsInt ==
    ASSUME NEW N \in Nat, NEW s, s \in [1..N -> Int]
    PROVE  Stats!SumOf(s) \in Int
  <1>1. PICK g \in [0..N -> Int] : Stats!SumOf(s) = g[N]
    BY SumByPrefix
  <1> QED
    BY <1>1

\* One more term adds itself to the sum.
LEMMA SumOfOneMore ==
    ASSUME NEW N \in Nat, NEW s, s \in [1..N -> Int], NEW t, t \in [1..(N + 1) -> Int],
           \A n \in 1..N : t[n] = s[n]
    PROVE  Stats!SumOf(t) = Stats!SumOf(s) + t[N + 1]
  <1>1. PICK g \in [0..N -> Int] :
              /\ g[0] = 0 /\ \A n \in 1..N : g[n] = g[n - 1] + s[n]
              /\ Stats!SumOf(s) = g[N]
    BY SumByPrefix
  <1> DEFINE f == [n \in 0..(N + 1) |-> IF n = N + 1 THEN g[N] + t[N + 1] ELSE g[n]]
  <1>2. f[0] = 0 /\ f[N + 1] = g[N] + t[N + 1] /\ f \in [0..(N + 1) -> Int]
    BY <1>1
  <1>3. ASSUME NEW n \in 1..(N + 1) PROVE f[n] = f[n - 1] + t[n]
    <2>1. CASE n = N + 1
      BY <2>1
    <2>2. CASE n # N + 1
      <3>1. n \in 1..N /\ n - 1 \in 0..N /\ n # N + 1 /\ n - 1 # N + 1
        BY <2>2
      <3>2. f[n] = g[n] /\ f[n - 1] = g[n - 1]
        BY <3>1
      <3> QED
        BY <1>1, <3>1, <3>2
    <2> QED
      BY <2>1, <2>2
  <1> HIDE DEF f
  <1>4. Stats!SumOf(t) = f[N + 1]
    <2>1. PICK M \in Nat : M = N + 1
      OBVIOUS
    <2>2. t \in [1..M -> Int] /\ \A n \in 1..M : f[n] = f[n - 1] + t[n]
      BY <1>3, <2>1
    <2>3. f[0] = 0 /\ f \in [0..M -> Int]
      BY <1>2, <2>1
    <2>4. Stats!SumOf(t) = f[M]
      <3>1. M \in Nat
        BY <2>1
      <3>2. \A n \in 1..M : f[n] = f[n - 1] + t[n]
        BY <2>2
      <3>3. t \in [1..M -> Int]
        BY <2>2
      <3>4. f[0] = 0
        BY <2>3
      <3>5. f \in [0..M -> Int]
        BY <2>3
      <3> QED
        BY <3>1, <3>2, <3>3, <3>4, <3>5, SumIs, ZenonT(60)
    <2> QED
      BY <2>1, <2>4
  <1> QED
    BY <1>1, <1>2, <1>4

CoinSets == {coins \in Seq([denom : Int, amount : Int]) : AreCoins(coins)}

\* Adding sets one after the other adds up their amounts.
LEMMA AddAllIs ==
    ASSUME NEW coins, AreCoins(coins), NEW N \in Nat, NEW sets, sets \in [1..N -> CoinSets]
    PROVE  /\ AreCoins(Stats!AddAll(coins, sets))
           /\ \A denom \in Int : Value(Stats!AddAll(coins, sets), denom) =
                  Value(coins, denom) + Stats!SumOf([n \in 1..N |-> Value(sets[n], denom)])
  <1> DEFINE step == [n \in 1..N |-> [c \in CoinSets |-> Stats!Add(c, sets[n])]]
             Is(f) == f = [n \in 0..N |-> IF n = 0 THEN coins ELSE Stats!Add(f[n - 1], sets[n])]
             total == CHOOSE f : Is(f)
  <1>0. Len(sets) = N
    <2>1. sets \in Seq(CoinSets) /\ DOMAIN sets = 1..N
      OBVIOUS
    <2> QED
      BY <2>1
  <1>1. \A c, d \in CoinSets : Stats!Add(c, d) \in CoinSets
    BY AddIs DEF CoinSets, AreCoins
  <1>2. coins \in CoinSets
    BY DEF CoinSets, AreCoins
  <1>3. PICK f : Loops(f, N, CoinSets, coins, step)
    <2>1. step \in [1..N -> [CoinSets -> CoinSets]]
      BY <1>1
    <2> HIDE DEF step
    <2> QED
      BY <1>2, <2>1, LoopExists
  <1>4. f = [n \in 0..N |-> IF n = 0 THEN coins ELSE Stats!Add(f[n - 1], sets[n])]
    <2>1. f = [n \in 0..N |-> f[n]] /\ f[0] = coins
      BY <1>3 DEF Loops
    <2>2. ASSUME NEW n \in 0..N, n # 0 PROVE f[n] = Stats!Add(f[n - 1], sets[n])
      <3>1. n \in 1..N /\ n - 1 \in 0..N
        BY <2>2
      <3>2. f[n - 1] \in CoinSets /\ f[n] = step[n][f[n - 1]]
        BY <3>1, <1>3 DEF Loops
      <3> QED
        BY <3>1, <3>2
    <2> QED
      BY <2>1, <2>2
  <1>5. Is(total)
    BY <1>4
  <1>6. Stats!AddAll(coins, sets) = total[N]
    BY <1>0 DEF Stats!AddAll
  <1> HIDE DEF total
  <1>7. total[0] = coins /\ \A n \in 1..N : total[n] = Stats!Add(total[n - 1], sets[n])
    <2>1. 0 \in 0..N /\ \A n \in 1..N : n \in 0..N /\ n # 0
      OBVIOUS
    <2> QED
      BY <1>5, <2>1
  <1> DEFINE S == {n \in 0..N : total[n] \in CoinSets}
  <1>8. \A n \in 0..N : n \in S
    <2>1. 0 \in S
      BY <1>2, <1>7
    <2>2. ASSUME NEW n \in 1..N, n - 1 \in S PROVE n \in S
      <3>1. total[n - 1] \in CoinSets /\ sets[n] \in CoinSets /\ n \in 0..N
        BY <2>2
      <3> QED
        BY <1>1, <1>7, <3>1
    <2> HIDE DEF S
    <2> QED
      BY <2>1, <2>2, UpTo
  <1>9. \A n \in 0..N : AreCoins(total[n])
    BY <1>8 DEF CoinSets
  <1>10. ASSUME NEW denom \in Int
         PROVE  Value(total[N], denom) =
                    Value(coins, denom) + Stats!SumOf([n \in 1..N |-> Value(sets[n], denom)])
    <2> DEFINE s == [n \in 1..N |-> Value(sets[n], denom)]
               g == [n \in 0..N |-> Value(total[n], denom) - Value(coins, denom)]
    <2>1. s \in [1..N -> Int]
      BY ValueIsInt DEF CoinSets
    <2>2. Value(coins, denom) \in Int /\ \A n \in 0..N : Value(total[n], denom) \in Int
      BY <1>9, ValueIsInt
    <2>3. g[0] = 0
      BY <1>7, <2>2
    <2>4. ASSUME NEW n \in 1..N PROVE g[n] = g[n - 1] + s[n]
      <3>1. n \in 0..N /\ n - 1 \in 0..N
        OBVIOUS
      <3>2. AreCoins(total[n - 1]) /\ AreCoins(sets[n])
        BY <1>9, <3>1 DEF CoinSets
      <3>3. Value(total[n], denom) = Value(total[n - 1], denom) + Value(sets[n], denom)
        BY <1>7, <3>2, AddIs
      <3>4. Value(sets[n], denom) \in Int
        BY <3>2, ValueIsInt
      <3> QED
        BY <2>2, <3>1, <3>3, <3>4
    <2>5. g[N] = Value(total[N], denom) - Value(coins, denom) /\ g \in [0..N -> Int]
      BY <2>2
    <2> HIDE DEF s, g
    <2>6. Stats!SumOf(s) = g[N]
      BY <2>1, <2>3, <2>4, <2>5, SumIs
    <2>7. Value(total[N], denom) = Value(coins, denom) + Stats!SumOf(s)
      BY <2>2, <2>5, <2>6
    <2> QED
      BY <2>7 DEF s
  <1> QED
    BY <1>6, <1>9, <1>10

-----------------------------------------------------------------------------
(* Blocks *)

Chains == Geneses \cup Blocks

\* The events of a block carry well-formed coins.
LEMMA EventsAre ==
    ASSUME NEW events \in Chains
    PROVE  /\ Len(events) \in Nat /\ DOMAIN events = 1..Len(events)
           /\ \A i \in 1..Len(events) : HasCoins(events[i])
  <1>1. /\ events \in Seq({events[i] : i \in DOMAIN events})
        /\ \A i \in DOMAIN events : HasCoins(events[i])
    BY BlocksAssumption DEF Chains
  <1>2. Len(events) \in Nat /\ DOMAIN events = 1..Len(events)
    BY <1>1
  <1> QED
    BY <1>1, <1>2

\* A set of one coin holds that coin and nothing else.
LEMMA OneCoinIs ==
    ASSUME NEW coin \in [denom : Int, amount : Int]
    PROVE  /\ AreCoins(<<coin>>)
           /\ \A denom : Value(<<coin>>, denom) =
                  IF coin.denom = denom THEN coin.amount ELSE 0
  <1>1. AreCoins(<<coin>>)
    BY DEF AreCoins
  <1>2. ASSUME NEW denom PROVE Value(<<coin>>, denom) =
                  IF coin.denom = denom THEN coin.amount ELSE 0
    <2>1. DOMAIN <<coin>> = {1} /\ <<coin>>[1] = coin
      OBVIOUS
    <2> QED
      BY <2>1 DEF Value
  <1> QED
    BY <1>1, <1>2

\* What an event adds to the rows.
LEMMA ChangeIs ==
    ASSUME NEW event, HasCoins(event)
    PROVE  /\ AreCoins(Stats!Rewarded(event)) /\ AreCoins(Stats!Delegated(event))
           /\ \A denom \in Int :
                  /\ Value(Stats!Rewarded(event), denom) =
                         Stats!Change("TOTAL_REWARD", event, denom)
                  /\ Value(Stats!Delegated(event), denom) =
                         Stats!Change("TOTAL_DELEGATE", event, denom)
  <1>0. /\ AreCoins(<<>>) /\ \A denom : Value(<<>>, denom) = 0
    BY DEF AreCoins, Value
  <1>1. AreCoins(Stats!Rewarded(event))
    BY <1>0 DEF Stats!Rewarded, HasCoins
  <1>2. ASSUME NEW denom \in Int
        PROVE  Value(Stats!Rewarded(event), denom) =
                   Stats!Change("TOTAL_REWARD", event, denom)
    <2>1. CASE Stats!IsReward(event)
      BY <2>1 DEF Stats!Rewarded, Stats!Change, Stats!Paid, Value
    <2>2. CASE ~Stats!IsReward(event)
      BY <1>0, <2>2 DEF Stats!Rewarded, Stats!Change, Stats!Paid
    <2> QED
      BY <2>1, <2>2
  <1>3. CASE Stats!IsDelegation(event)
    <2>1. event.amount \in [denom : Int, amount : Int] /\ Stats!Delegated(event) = <<event.amount>>
      BY <1>3 DEF HasCoins, Stats!Delegated
    <2>2. \A denom : Stats!Change("TOTAL_DELEGATE", event, denom) =
              IF event.amount.denom = denom THEN event.amount.amount ELSE 0
      BY <1>3 DEF Stats!Change, Stats!Bonded, Stats!IsDelegation
    <2> QED
      BY <1>1, <1>2, <2>1, <2>2, OneCoinIs
  <1>4. CASE ~Stats!IsDelegation(event) /\ event.name = "MsgUndelegate"
    <2>1. /\ event.amount \in [denom : Int, amount : Int]
          /\ Stats!Delegated(event) = <<Stats!Neg(event.amount)>>
      BY <1>4 DEF HasCoins, Stats!Delegated
    <2>2. /\ Stats!Neg(event.amount) \in [denom : Int, amount : Int]
          /\ Stats!Neg(event.amount).denom = event.amount.denom
          /\ Stats!Neg(event.amount).amount = -event.amount.amount
      BY <2>1 DEF Stats!Neg
    <2>3. \A denom : Stats!Change("TOTAL_DELEGATE", event, denom) =
              IF event.amount.denom = denom THEN -event.amount.amount ELSE 0
      BY <1>4 DEF Stats!Change, Stats!Bonded
    <2> QED
      BY <1>1, <1>2, <2>1, <2>2, <2>3, OneCoinIs
  <1>5. CASE ~Stats!IsDelegation(event) /\ event.name # "MsgUndelegate"
    <2>1. Stats!Delegated(event) = <<>>
      BY <1>5 DEF Stats!Delegated
    <2>2. \A denom : Stats!Change("TOTAL_DELEGATE", event, denom) = 0
      BY <1>5 DEF Stats!Change, Stats!Bonded
    <2> QED
      BY <1>0, <1>1, <1>2, <2>1, <2>2
  <1> QED
    BY <1>3, <1>4, <1>5

\* An event changes a row by an integer.
LEMMA ChangeIsInt ==
    ASSUME NEW event, HasCoins(event), NEW row \in Stats!Rows, NEW denom \in Int
    PROVE  Stats!Change(row, event, denom) \in Int
  <1>1. row = "TOTAL_REWARD" \/ row = "TOTAL_DELEGATE"
    BY DEF Stats!Rows
  <1> QED
    BY <1>1, ChangeIs, ValueIsInt

\* A block changes a row by an integer.
LEMMA BlockSumIsInt ==
    ASSUME NEW events \in Chains, NEW row \in Stats!Rows, NEW denom \in Int
    PROVE  Stats!BlockSum(row, events, denom) \in Int
  <1> DEFINE s == [i \in DOMAIN events |-> Stats!Change(row, events[i], denom)]
  <1>1. PICK N \in Nat : N = Len(events)
    BY EventsAre
  <1>2. s \in [1..N -> Int]
    BY <1>1, EventsAre, ChangeIsInt
  <1>3. Stats!SumOf(s) \in Int
    <2> HIDE DEF s
    <2> QED
      BY <1>2, SumIsInt
  <1> QED
    BY <1>3 DEF Stats!BlockSum

\* A row after a block.
LEMMA RowIs ==
    ASSUME NEW coins, AreCoins(coins), NEW events \in Chains, NEW row \in Stats!Rows,
           NEW sets, sets = [i \in DOMAIN events |-> IF row = "TOTAL_REWARD"
                                                    THEN Stats!Rewarded(events[i])
                                                    ELSE Stats!Delegated(events[i])]
    PROVE  /\ AreCoins(Stats!AddAll(coins, sets))
           /\ \A denom \in Int : Value(Stats!AddAll(coins, sets), denom) =
                  Value(coins, denom) + Stats!BlockSum(row, events, denom)
  <1>1. PICK N \in Nat : N = Len(events) /\ DOMAIN events = 1..N
    BY EventsAre
  <1>2. \A i \in 1..N : HasCoins(events[i])
    BY <1>1, EventsAre
  <1>3. sets \in [1..N -> CoinSets]
    <2>1. \A i \in 1..N : AreCoins(sets[i]) /\ sets[i] \in CoinSets
      <3> SUFFICES ASSUME NEW i \in 1..N PROVE AreCoins(sets[i])
        BY DEF CoinSets, AreCoins
      <3> QED
        BY <1>1, <1>2, ChangeIs
    <2> QED
      BY <1>1, <2>1
  <1>4. ASSUME NEW denom \in Int
        PROVE  [n \in 1..N |-> Value(sets[n], denom)] =
                   [i \in DOMAIN events |-> Stats!Change(row, events[i], denom)]
    <2>1. ASSUME NEW i \in 1..N
          PROVE  Value(sets[i], denom) = Stats!Change(row, events[i], denom)
      <3>1. row = "TOTAL_REWARD" \/ row = "TOTAL_DELEGATE"
        BY DEF Stats!Rows
      <3> QED
        BY <1>1, <1>2, <3>1, ChangeIs
    <2> QED
      BY <1>1, <2>1
  <1>5. AreCoins(Stats!AddAll(coins, sets))
    BY <1>3, AddAllIs
  <1>6. ASSUME NEW denom \in Int
        PROVE  Value(Stats!AddAll(coins, sets), denom) =
                   Value(coins, denom) + Stats!BlockSum(row, events, denom)
    <2>1. Value(Stats!AddAll(coins, sets), denom) =
              Value(coins, denom) + Stats!SumOf([n \in 1..N |-> Value(sets[n], denom)])
      BY <1>3, AddAllIs
    <2> QED
      BY <1>4, <2>1 DEF Stats!BlockSum
  <1> QED
    BY <1>5, <1>6

\* The handler of a block adds the block's sum to each row.
LEMMA SetIs ==
    ASSUME AreCoins(totalReward), AreCoins(totalDelegate), NEW events \in Chains,
           Stats!Set(events)
    PROVE  /\ AreCoins(totalReward') /\ AreCoins(totalDelegate')
           /\ \A row \in Stats!Rows, denom \in Int :
                  Value(Stats!Total(row)', denom) =
                      Value(Stats!Total(row), denom) + Stats!BlockSum(row, events, denom)
  <1>1. /\ AreCoins(totalReward')
        /\ \A denom \in Int : Value(totalReward', denom) =
               Value(totalReward, denom) + Stats!BlockSum("TOTAL_REWARD", events, denom)
    <2>1. "TOTAL_REWARD" \in Stats!Rows
      BY DEF Stats!Rows
    <2> DEFINE sets == [i \in DOMAIN events |-> Stats!Rewarded(events[i])]
    <2>2. totalReward' = Stats!AddAll(totalReward, sets)
      BY DEF Stats!Set
    <2>3. sets = [i \in DOMAIN events |-> IF "TOTAL_REWARD" = "TOTAL_REWARD"
                                         THEN Stats!Rewarded(events[i])
                                         ELSE Stats!Delegated(events[i])]
      OBVIOUS
    <2> HIDE DEF sets
    <2> QED
      BY <2>1, <2>2, <2>3, RowIs
  <1>2. /\ AreCoins(totalDelegate')
        /\ \A denom \in Int : Value(totalDelegate', denom) =
               Value(totalDelegate, denom) + Stats!BlockSum("TOTAL_DELEGATE", events, denom)
    <2>1. "TOTAL_DELEGATE" \in Stats!Rows
      BY DEF Stats!Rows
    <2> DEFINE sets == [i \in DOMAIN events |-> Stats!Delegated(events[i])]
    <2>2. totalDelegate' = Stats!AddAll(totalDelegate, sets)
      BY DEF Stats!Set
    <2>3. sets = [i \in DOMAIN events |-> IF "TOTAL_DELEGATE" = "TOTAL_REWARD"
                                         THEN Stats!Rewarded(events[i])
                                         ELSE Stats!Delegated(events[i])]
      OBVIOUS
    <2> HIDE DEF sets
    <2> QED
      BY <2>1, <2>2, <2>3, RowIs
  <1> QED
    BY <1>1, <1>2 DEF Stats!Rows, Stats!Total

\* Some block changes a row the most.
LEMMA LargestIs ==
    ASSUME NEW row \in Stats!Rows, NEW denom \in Int
    PROVE  /\ Stats!Largest(row, denom) \in Nat
           /\ \A events \in Chains :
                  LET sum == Stats!BlockSum(row, events, denom)
                  IN  sum <= Stats!Largest(row, denom) /\ -sum <= Stats!Largest(row, denom)
  <1> DEFINE D(events) == Stats!Distance(Stats!BlockSum(row, events, denom), 0)
             T == {D(events) : events \in Chains}
             U == {n \in Nat : \A events \in Chains : D(events) <= n}
  <1>1. \A events \in Chains :
            /\ D(events) \in Nat
            /\ Stats!BlockSum(row, events, denom) <= D(events)
            /\ -Stats!BlockSum(row, events, denom) <= D(events)
    BY BlockSumIsInt DEF Stats!Distance
  <1>2. U \subseteq Nat /\ U # {}
    <2>1. IsFiniteSet(Chains)
      BY BlocksAssumption, FS_Union DEF Chains
    <2>2. PICK N \in Nat : ExistsBijection(1..N, Chains)
      BY <2>1, FS_NatBijection
    <2>3. PICK b \in [1..N -> Chains] : \A events \in Chains : \E i \in 1..N : b[i] = events
      BY <2>2 DEF ExistsBijection, Bijection, Surjection
    <2> DEFINE S == {n \in 0..N : \E m \in Nat : \A i \in 1..n : D(b[i]) <= m}
    <2>4. 0 \in S
      <3>1. \A i \in 1..0 : D(b[i]) <= 0
        OBVIOUS
      <3> QED
        BY <3>1
    <2>5. ASSUME NEW n \in 1..N, n - 1 \in S PROVE n \in S
      <3>1. PICK m \in Nat : \A i \in 1..(n - 1) : D(b[i]) <= m
        BY <2>5
      <3> HIDE DEF D
      <3>2. b[n] \in Chains /\ D(b[n]) \in Nat /\ \A i \in 1..N : D(b[i]) \in Nat
        BY <1>1
      <3>3. m + D(b[n]) \in Nat
        BY <3>2
      <3>4. ASSUME NEW i \in 1..n PROVE D(b[i]) <= m + D(b[n])
        <4>1. i \in 1..(n - 1) \/ i = n
          OBVIOUS
        <4>2. D(b[i]) \in Nat /\ D(b[n]) \in Nat
          BY <3>2
        <4>3. D(b[i]) <= m \/ i = n
          BY <3>1, <4>1
        <4>4. \A x, y \in Nat : x <= m \/ x = y => x <= m + y
          BY <3>1
        <4>5. CASE i = n
          <5>1. D(b[i]) = D(b[n])
            BY <4>5
          <5> QED
            BY <4>2, <4>4, <5>1
        <4>6. CASE D(b[i]) <= m
          BY <4>2, <4>4, <4>6
        <4> QED
          BY <4>3, <4>5, <4>6
      <3> QED
        BY <3>3, <3>4
    <2>6. \A n \in 0..N : n \in S
      <3> HIDE DEF S
      <3> QED
        BY <2>4, <2>5, UpTo
    <2>7. PICK m \in Nat : \A i \in 1..N : D(b[i]) <= m
      <3>1. N \in S
        <4> HIDE DEF S
        <4> QED
          BY <2>6
      <3> QED
        BY <3>1
    <2>8. m \in U
      BY <2>3, <2>7
    <2> QED
      BY <2>8
  <1>3. PICK u \in U : \A n \in U : u <= n
    <2> HIDE DEF U
    <2> QED
      BY <1>2, LeastNumber
  <1> HIDE DEF D
  <1>4. u \in Nat /\ \A events \in Chains : D(events) <= u
    BY <1>3
  <1>5. u \in T
    <2> SUFFICES ASSUME u \notin T PROVE FALSE
      OBVIOUS
    <2>1. \A events \in Chains : D(events) # u
      OBVIOUS
    <2>2. PICK genesis \in Chains : TRUE
      BY BlocksAssumption DEF Chains
    <2>3. D(genesis) \in Nat /\ D(genesis) <= u /\ D(genesis) # u
      BY <1>1, <1>4, <2>1, <2>2
    <2>4. u - 1 \in Nat
      BY <1>4, <2>3
    <2>5. \A events \in Chains : D(events) <= u - 1
      BY <1>1, <1>4, <2>1
    <2>6. u - 1 \in U
      BY <2>4, <2>5
    <2> QED
      BY <1>3, <1>4, <2>6
  <1>6. \A t \in T : t \in Nat /\ u >= t
    BY <1>1, <1>4
  <1>7. Stats!Largest(row, denom) = CHOOSE x \in T : \A y \in T : x >= y
    BY DEF Stats!Largest, Stats!Max, Chains, D
  <1>8. /\ Stats!Largest(row, denom) \in T
        /\ \A y \in T : Stats!Largest(row, denom) >= y
    <2> HIDE DEF T
    <2> QED
      BY <1>5, <1>6, <1>7
  <1>9. ASSUME NEW events \in Chains
        PROVE  /\ Stats!BlockSum(row, events, denom) <= Stats!Largest(row, denom)
               /\ -Stats!BlockSum(row, events, denom) <= Stats!Largest(row, denom)
    <2>1. D(events) \in T
      OBVIOUS
    <2>2. Stats!Largest(row, denom) \in Nat /\ Stats!Largest(row, denom) >= D(events)
      BY <1>6, <1>8, <2>1
    <2>3. Stats!BlockSum(row, events, denom) \in Int
      BY BlockSumIsInt
    <2> QED
      BY <1>1, <2>2, <2>3
  <1> QED
    BY <1>6, <1>8, <1>9

-----------------------------------------------------------------------------
(* ValidatorStats *)

\* The height fed next was committed, and the reply was lost.
Again == fedPc = "feed" /\ fedNext = fedLast

\* The blocks that may have been counted twice.
Repeats ==
    IF fedMode = "EVENT_STORE" /\ LostReplies
    THEN IF Again THEN fedFaults - 1 ELSE fedFaults
    ELSE 0

\* A row differs from its sum over the blocks by no more than n blocks.
DiffersBy(n) ==
    \A row \in Stats!Rows, denom \in CoinDenoms :
        Stats!Distance(Value(Stats!Total(row), denom), Stats!ChainSum(row, denom))
            <= n * Stats!Largest(row, denom)

StatsFeed ==
    /\ fedMode \in Stats!Modes
    /\ fedLast \in Int /\ fedLast >= -1
    /\ fedFaults \in Nat
    /\ fedPc \in {"init", "feed"}
    /\ blocks \in Seq(Chains) /\ fedLast + 1 <= Len(blocks)
    /\ fedPc = "feed" => /\ fedNext \in Nat /\ fedNext <= Len(blocks)
                         /\ fedNext = fedLast \/ fedNext = fedLast + 1
    /\ Again => fedMode = "EVENT_STORE" /\ LostReplies /\ fedFaults > 0

StatsInv ==
    /\ StatsFeed
    /\ AreCoins(totalReward) /\ AreCoins(totalDelegate)
    /\ DiffersBy(Repeats)

-----------------------------------------------------------------------------

\* The products that bound the distance.
LEMMA Times ==
    ASSUME NEW m \in Nat, NEW n \in Nat, NEW l \in Nat
    PROVE  /\ m * l \in Nat /\ (m + 1) * l = m * l + l
           /\ m <= n => m * l <= n * l
  <1>1. m * l \in Nat /\ (m + 1) * l = m * l + l
    OBVIOUS
  <1>2. ASSUME m <= n PROVE m * l <= n * l
    <2>1. PICK d \in Nat : n = m + d
      <3>1. n - m \in Nat /\ n = m + (n - m)
        BY <1>2
      <3> QED
        BY <3>1
    <2>2. n * l = m * l + d * l /\ d * l \in Nat
      BY <2>1
    <2> QED
      BY <1>1, <2>2
  <1> QED
    BY <1>1, <1>2

\* The block that is fed is recorded at its height and the others are kept.
LEMMA BlockIsFed ==
    ASSUME StatsFeed, NEW events, Stats!Feeds(events)
    PROVE  /\ events \in Chains
           /\ fedPc = "feed" /\ fedNext \in Nat
           /\ blocks' \in Seq(Chains) /\ Len(blocks') \in Nat
           /\ Len(blocks) <= Len(blocks') /\ fedNext + 1 <= Len(blocks')
           /\ \A h \in 1..Len(blocks) : blocks'[h] = blocks[h]
           /\ blocks'[fedNext + 1] = events
  <1>1. /\ fedPc = "feed" /\ fedNext \in Nat /\ fedNext <= Len(blocks)
        /\ blocks \in Seq(Chains) /\ Stats!BlockIs(events)
    BY DEF StatsFeed, Stats!Feeds
  <1>2. Len(blocks) \in Nat
    BY <1>1
  <1>3. CASE fedNext < Len(blocks)
    <2>1. events = blocks[fedNext + 1] /\ blocks' = blocks
      BY <1>1, <1>3 DEF Stats!BlockIs
    <2>2. fedNext + 1 \in 1..Len(blocks)
      BY <1>1, <1>2, <1>3
    <2> QED
      BY <1>1, <1>2, <2>1, <2>2
  <1>4. CASE ~(fedNext < Len(blocks))
    <2>1. fedNext = Len(blocks)
      BY <1>1, <1>2, <1>4
    <2>2. events \in Chains /\ blocks' = Append(blocks, events)
      BY <1>1, <1>4 DEF Stats!BlockIs, Chains
    <2> QED
      BY <1>1, <1>2, <2>1, <2>2
  <1> QED
    BY <1>3, <1>4

\* The sum of a row over the chain is an integer.
LEMMA ChainSumIsInt ==
    ASSUME StatsFeed, NEW row \in Stats!Rows, NEW denom \in Int
    PROVE  Stats!ChainSum(row, denom) \in Int
  <1>1. PICK N \in Nat : N = fedLast + 1 /\ N <= Len(blocks)
    BY DEF StatsFeed
  <1> DEFINE s == [h \in 1..N |-> Stats!BlockSum(row, blocks[h], denom)]
  <1>2. s \in [1..N -> Int]
    <2>1. \A h \in 1..N : blocks[h] \in Chains
      BY <1>1 DEF StatsFeed
    <2> QED
      BY <2>1, BlockSumIsInt
  <1>3. Stats!ChainSum(row, denom) = Stats!SumOf(s)
    BY <1>1 DEF Stats!ChainSum
  <1> HIDE DEF s
  <1> QED
    BY <1>2, <1>3, SumIsInt

\* A chain that keeps its blocks keeps its sums.
LEMMA ChainSumKept ==
    ASSUME StatsFeed, fedLast' = fedLast, NEW row, NEW denom,
           \A h \in 1..(fedLast + 1) : blocks'[h] = blocks[h]
    PROVE  Stats!ChainSum(row, denom)' = Stats!ChainSum(row, denom)
  <1>1. [h \in 1..(fedLast + 1) |-> Stats!BlockSum(row, blocks[h], denom)]' =
            [h \in 1..(fedLast + 1) |-> Stats!BlockSum(row, blocks[h], denom)]
    BY DEF Stats!BlockSum
  <1> QED
    BY <1>1 DEF Stats!ChainSum

\* A block that is applied to both rows: counted once more if it was counted before.
LEMMA BlockIsApplied ==
    ASSUME StatsInv, NEW events, Stats!Feeds(events), Stats!Set(events), fedLast' = fedNext
    PROVE  /\ AreCoins(totalReward') /\ AreCoins(totalDelegate')
           /\ \A row \in Stats!Rows, denom \in CoinDenoms :
                  Stats!Distance(Value(Stats!Total(row)', denom), Stats!ChainSum(row, denom)')
                      <= (Repeats + (IF Again THEN 1 ELSE 0)) * Stats!Largest(row, denom)
  <1>1. /\ events \in Chains /\ fedPc = "feed" /\ fedNext \in Nat
        /\ blocks' \in Seq(Chains) /\ Len(blocks') \in Nat
        /\ Len(blocks) <= Len(blocks') /\ fedNext + 1 <= Len(blocks')
        /\ \A h \in 1..Len(blocks) : blocks'[h] = blocks[h]
        /\ blocks'[fedNext + 1] = events
    BY BlockIsFed DEF StatsInv
  <1>2. /\ AreCoins(totalReward') /\ AreCoins(totalDelegate')
        /\ \A row \in Stats!Rows, denom \in Int :
               Value(Stats!Total(row)', denom) =
                   Value(Stats!Total(row), denom) + Stats!BlockSum(row, events, denom)
    BY <1>1, SetIs DEF StatsInv
  <1>3. /\ fedLast \in Int /\ fedLast >= -1 /\ Len(blocks) \in Nat /\ fedLast + 1 <= Len(blocks)
        /\ fedNext = fedLast \/ fedNext = fedLast + 1
    BY <1>1 DEF StatsInv, StatsFeed
  <1> SUFFICES ASSUME NEW row \in Stats!Rows, NEW denom \in CoinDenoms
               PROVE  Stats!Distance(Value(Stats!Total(row)', denom), Stats!ChainSum(row, denom)')
                          <= (Repeats + (IF Again THEN 1 ELSE 0)) * Stats!Largest(row, denom)
    BY <1>2
  <1> DEFINE value == Value(Stats!Total(row), denom)
             sum   == Stats!ChainSum(row, denom)
             more  == Stats!BlockSum(row, events, denom)
             largest == Stats!Largest(row, denom)
  <1>4. denom \in Int
    BY BlocksAssumption
  <1>5. /\ value \in Int /\ sum \in Int /\ more \in Int /\ largest \in Nat
        /\ more <= largest /\ -more <= largest
        /\ Stats!Distance(value, sum) <= Repeats * largest
        /\ Value(Stats!Total(row)', denom) = value + more
    <2>1. AreCoins(Stats!Total(row))
      BY DEF StatsInv, Stats!Total
    <2>2. value \in Int /\ sum \in Int /\ more \in Int
      BY <1>1, <1>4, <2>1, ValueIsInt, ChainSumIsInt, BlockSumIsInt DEF StatsInv
    <2> QED
      BY <1>1, <1>2, <1>4, <2>2, LargestIs DEF StatsInv, DiffersBy
  <1>6. Repeats \in Nat
    BY DEF Repeats, StatsInv, StatsFeed
  <1>7. CASE fedNext = fedLast + 1
    <2>1. ~Again
      BY <1>3, <1>7 DEF Again
    <2>2. Stats!ChainSum(row, denom)' = sum + more
      <3>1. PICK N \in Nat : N = fedNext
        BY <1>1
      <3> DEFINE s == [h \in 1..N |-> Stats!BlockSum(row, blocks[h], denom)]
                 t == [h \in 1..(N + 1) |-> Stats!BlockSum(row, blocks'[h], denom)]
      <3>2. \A h \in 1..N : h \in 1..Len(blocks) /\ blocks'[h] = blocks[h] /\ blocks[h] \in Chains
        BY <1>1, <1>3, <1>7, <3>1 DEF StatsInv, StatsFeed
      <3>3. \A h \in 1..(N + 1) : blocks'[h] \in Chains
        BY <1>1, <3>1
      <3>4. s \in [1..N -> Int] /\ t \in [1..(N + 1) -> Int]
        BY <1>4, <3>2, <3>3, BlockSumIsInt
      <3>5. (\A h \in 1..N : t[h] = s[h]) /\ t[N + 1] = more
        BY <1>1, <3>1, <3>2
      <3>6. sum = Stats!SumOf(s)
        BY <1>7, <3>1 DEF Stats!ChainSum
      <3>7. Stats!ChainSum(row, denom)' = Stats!SumOf(t)
        BY <3>1 DEF Stats!ChainSum, Stats!BlockSum
      <3> HIDE DEF s, t
      <3>8. Stats!SumOf(t) = Stats!SumOf(s) + t[N + 1]
        BY <3>4, <3>5, SumOfOneMore
      <3> QED
        BY <3>5, <3>6, <3>7, <3>8
    <2> HIDE DEF value, sum, more, largest
    <2>3. Stats!Distance(value + more, sum + more) = Stats!Distance(value, sum)
      BY <1>5 DEF Stats!Distance
    <2> QED
      BY <1>5, <1>6, <2>1, <2>2, <2>3 DEF value, sum, more, largest
  <1>8. CASE fedNext = fedLast
    <2>1. Again
      BY <1>1, <1>8 DEF Again
    <2>2. blocks[fedNext + 1] = events /\ fedNext + 1 \in 1..Len(blocks)
      BY <1>1, <1>3, <1>8
    <2>3. Stats!ChainSum(row, denom)' = sum
      <3>1. \A h \in 1..(fedLast + 1) : blocks'[h] = blocks[h]
        BY <1>1, <1>3
      <3> QED
        BY <1>8, <3>1, ChainSumKept DEF StatsInv
    <2> HIDE DEF value, sum, more, largest
    <2>4. Stats!Distance(value + more, sum) <= Stats!Distance(value, sum) + largest
      BY <1>5 DEF Stats!Distance
    <2>5. /\ Stats!Distance(value, sum) \in Int /\ Stats!Distance(value + more, sum) \in Int
          /\ Repeats * largest \in Nat
          /\ (Repeats + 1) * largest = Repeats * largest + largest
      BY <1>5, <1>6, Times DEF Stats!Distance
    <2> QED
      BY <1>5, <2>1, <2>3, <2>4, <2>5 DEF value, sum, largest
  <1> QED
    BY <1>3, <1>7, <1>8

\* More repetitions allow a row to differ by more.
LEMMA DiffersByMore ==
    ASSUME AreCoins(totalReward), AreCoins(totalDelegate), NEW m \in Nat, NEW n \in Nat, m <= n,
           StatsFeed, DiffersBy(m)
    PROVE  DiffersBy(n)
  <1> SUFFICES ASSUME NEW row \in Stats!Rows, NEW denom \in CoinDenoms
               PROVE  Stats!Distance(Value(Stats!Total(row), denom), Stats!ChainSum(row, denom))
                          <= n * Stats!Largest(row, denom)
    BY DEF DiffersBy
  <1>1. denom \in Int
    BY BlocksAssumption
  <1>2. AreCoins(Stats!Total(row))
    BY DEF Stats!Total
  <1>3. /\ Value(Stats!Total(row), denom) \in Int /\ Stats!ChainSum(row, denom) \in Int
        /\ Stats!Largest(row, denom) \in Nat
    BY <1>1, <1>2, ValueIsInt, ChainSumIsInt, LargestIs
  <1>4. Stats!Distance(Value(Stats!Total(row), denom), Stats!ChainSum(row, denom)) \in Int
    BY <1>3 DEF Stats!Distance
  <1>5. Stats!Distance(Value(Stats!Total(row), denom), Stats!ChainSum(row, denom))
            <= m * Stats!Largest(row, denom)
    BY DEF DiffersBy
  <1>6. /\ m * Stats!Largest(row, denom) <= n * Stats!Largest(row, denom)
        /\ m * Stats!Largest(row, denom) \in Nat /\ n * Stats!Largest(row, denom) \in Nat
    BY <1>3, Times
  <1> QED
    BY <1>4, <1>5, <1>6

-----------------------------------------------------------------------------

\* What is left of the invariant when the feeder and the rows are known.
LEMMA StatsStep == StatsInv /\ [Stats!Next]_(Stats!vars) => StatsInv'
  <1> SUFFICES ASSUME StatsInv, [Stats!Next]_(Stats!vars) PROVE StatsInv'
    OBVIOUS
  <1>0. /\ StatsFeed /\ Repeats \in Nat /\ DiffersBy(Repeats)
        /\ AreCoins(totalReward) /\ AreCoins(totalDelegate)
    BY DEF StatsInv, Repeats, StatsFeed
  \* The rows and what is handled stay, and the blocks that are known.
  <1>1. ASSUME StatsFeed', Repeats \in Nat, (Repeats \in Nat)', Repeats <= Repeats',
               UNCHANGED <<totalReward, totalDelegate, fedLast>>,
               \A h \in 1..(fedLast + 1) : blocks'[h] = blocks[h]
        PROVE  StatsInv'
    <2>1. DiffersBy(Repeats')
      BY <1>0, <1>1, DiffersByMore
    <2>2. \A row, denom : Stats!ChainSum(row, denom)' = Stats!ChainSum(row, denom)
      BY <1>0, <1>1, ChainSumKept
    <2>3. DiffersBy(Repeats)'
      BY <1>1, <2>1, <2>2 DEF DiffersBy, Stats!Total, Stats!Largest, Stats!Distance
    <2> QED
      BY <1>0, <1>1, <2>3 DEF StatsInv, AreCoins
  <1>2. CASE Stats!OnInit
    <2>1. /\ UNCHANGED <<totalReward, totalDelegate, fedLast, blocks, fedMode, fedFaults>>
          /\ fedPc' = "feed" /\ fedNext' = fedLast + 1 /\ fedPc = "init"
      BY <1>2 DEF Stats!OnInit, Stats!StartFeeding, Stats!rows
    <2>2. ~Again /\ ~Again'
      BY <1>0, <2>1 DEF Again, StatsFeed
    <2>3. StatsFeed'
      BY <1>0, <2>1, <2>2 DEF StatsFeed
    <2>4. Repeats' = Repeats
      BY <2>1, <2>2 DEF Repeats
    <2> QED
      BY <1>0, <1>1, <2>1, <2>3, <2>4
  <1>3. CASE Stats!Crash
    <2>1. /\ UNCHANGED <<totalReward, totalDelegate, fedLast, blocks, fedMode, fedFaults>>
          /\ fedPc' = "init"
      BY <1>3 DEF Stats!Crash, Stats!FeederCrash, Stats!FeederRestart, Stats!rows
    <2>2. ~Again'
      BY <2>1 DEF Again
    <2>3. StatsFeed'
      BY <1>0, <2>1, <2>2 DEF StatsFeed
    <2>4. Repeats' \in Nat /\ Repeats <= Repeats'
      BY <1>0, <2>1, <2>2 DEF Repeats, StatsFeed
    <2> QED
      BY <1>0, <1>1, <2>1, <2>3, <2>4
  <1>4. CASE Stats!HandleEvents
    <2>1. PICK events : /\ Stats!Feeds(events) /\ Stats!Set(events)
                        /\ fedLast' = fedNext /\ fedNext' = fedNext + 1
                        /\ UNCHANGED <<fedMode, fedFaults, fedPc>>
      BY <1>4 DEF Stats!HandleEvents, Stats!FeedNext
    <2>2. /\ fedPc = "feed" /\ fedNext \in Nat
          /\ blocks' \in Seq(Chains) /\ Len(blocks') \in Nat /\ fedNext + 1 <= Len(blocks')
      BY <1>0, <2>1, BlockIsFed
    <2>3. ~Again'
      BY <2>1, <2>2 DEF Again
    <2>4. StatsFeed'
      BY <1>0, <2>1, <2>2, <2>3 DEF StatsFeed
    <2>5. Repeats' = Repeats + (IF Again THEN 1 ELSE 0)
      BY <1>0, <2>1, <2>3 DEF Repeats, StatsFeed
    <2>6. DiffersBy(Repeats)'
      BY <2>1, <2>5, BlockIsApplied DEF DiffersBy, Stats!Largest, Stats!Distance
    <2> QED
      BY <2>1, <2>4, <2>6, BlockIsApplied DEF StatsInv, AreCoins
  <1>5. CASE Stats!HandleEventsFail
    <2>1. PICK events : /\ Stats!Feeds(events)
                        /\ fedFaults' = fedFaults + 1 /\ UNCHANGED <<fedMode, fedPc>>
                        /\ \/ LostReplies /\ Stats!Set(events) /\ fedLast' = fedNext
                           \/ UNCHANGED <<totalReward, totalDelegate, fedLast>>
                        /\ fedNext' = IF fedMode = "EVENT_STORE" THEN fedNext ELSE fedLast' + 1
      BY <1>5 DEF Stats!HandleEventsFail, Stats!FeedAfterFailure, Stats!Fault, Stats!rows
    <2>2. /\ fedPc = "feed" /\ fedNext \in Nat
          /\ blocks' \in Seq(Chains) /\ Len(blocks') \in Nat /\ fedNext + 1 <= Len(blocks')
          /\ Len(blocks) <= Len(blocks')
          /\ \A h \in 1..Len(blocks) : blocks'[h] = blocks[h]
      BY <1>0, <2>1, BlockIsFed
    <2>3. CASE LostReplies /\ Stats!Set(events) /\ fedLast' = fedNext
      <3>1. Again' <=> fedMode = "EVENT_STORE"
        BY <2>1, <2>2, <2>3 DEF Again
      <3>2. StatsFeed'
        BY <1>0, <2>1, <2>2, <2>3, <3>1 DEF StatsFeed
      <3>3. Repeats' = Repeats + (IF Again THEN 1 ELSE 0)
        BY <1>0, <2>1, <2>3, <3>1 DEF Repeats, StatsFeed
      <3>4. DiffersBy(Repeats)'
        BY <2>1, <2>3, <3>3, BlockIsApplied DEF DiffersBy, Stats!Largest, Stats!Distance
      <3> QED
        BY <2>1, <2>3, <3>2, <3>4, BlockIsApplied DEF StatsInv, AreCoins
    <2>4. CASE UNCHANGED <<totalReward, totalDelegate, fedLast>>
      <3>1. fedLast \in Int /\ fedLast + 1 <= Len(blocks) /\ Len(blocks) \in Nat
        BY <1>0 DEF StatsFeed
      <3>2. Again' => Again
        BY <2>1, <2>2, <2>4, <3>1 DEF Again
      <3>3. StatsFeed'
        BY <1>0, <2>1, <2>2, <2>4, <3>1, <3>2 DEF StatsFeed
      <3>4. Repeats' \in Nat /\ Repeats <= Repeats'
        BY <1>0, <2>1, <2>4, <3>2 DEF Repeats, StatsFeed
      <3>5. \A h \in 1..(fedLast + 1) : blocks'[h] = blocks[h]
        BY <2>2, <3>1
      <3> QED
        BY <1>0, <1>1, <2>4, <3>3, <3>4, <3>5
    <2> QED
      BY <2>1, <2>3, <2>4
  <1>6. CASE UNCHANGED Stats!vars
    <2>1. UNCHANGED <<totalReward, totalDelegate, blocks,
                      fedLast, fedMode, fedFaults, fedPc, fedNext>>
      BY <1>6 DEF Stats!vars, Stats!feederVars, Stats!rows
    <2>2. StatsFeed' /\ Repeats' = Repeats
      BY <1>0, <2>1 DEF StatsFeed, Again, Repeats
    <2> QED
      BY <1>0, <1>1, <2>1, <2>2
  <1> QED
    BY <1>2, <1>3, <1>4, <1>5, <1>6 DEF Stats!Next

\* In the direct mode, and with a database that reports every commit, the rows of rewards
\* and delegations are the sums over the blocks handled; otherwise they are off by at
\* most one block for each failure (ValidatorStats.HandleEvents).
THEOREM RowsMatchBlocks == Stats!Spec => []Stats!StatsMatchBlocks
  <1>1. Stats!Init => StatsInv
    <2> SUFFICES ASSUME Stats!Init PROVE StatsInv
      OBVIOUS
    <2>1. /\ fedMode \in Stats!Modes /\ fedLast = -1 /\ fedPc = "init" /\ fedFaults = 0
          /\ totalReward = <<>> /\ totalDelegate = <<>> /\ blocks = <<>>
      BY DEF Stats!Init, Stats!FeederInit, Stats!NewEmptyCoins
    <2>2. StatsFeed /\ Repeats = 0
      BY <2>1 DEF StatsFeed, Again, Repeats
    <2>3. AreCoins(<<>>) /\ \A denom : Value(<<>>, denom) = 0
      BY DEF AreCoins, Value
    <2>4. \A row, denom : Stats!ChainSum(row, denom) = 0
      <3> DEFINE s == [h \in 1..0 |-> 0]
      <3>1. Stats!SumOf(s) = 0
        <4>1. PICK g \in [0..0 -> Int] : g[0] = 0 /\ Stats!SumOf(s) = g[0]
          <5>1. s \in [1..0 -> Int]
            OBVIOUS
          <5> HIDE DEF s
          <5> QED
            BY <5>1, SumByPrefix
        <4> QED
          BY <4>1
      <3>2. ASSUME NEW row, NEW denom
            PROVE  [h \in 1..(fedLast + 1) |-> Stats!BlockSum(row, blocks[h], denom)] = s
        BY <2>1
      <3> QED
        BY <3>1, <3>2 DEF Stats!ChainSum
    <2>5. DiffersBy(Repeats)
      <3> SUFFICES ASSUME NEW row \in Stats!Rows, NEW denom \in CoinDenoms
                   PROVE  Stats!Distance(Value(Stats!Total(row), denom),
                                         Stats!ChainSum(row, denom))
                              <= 0 * Stats!Largest(row, denom)
        BY <2>2 DEF DiffersBy
      <3>1. Stats!Largest(row, denom) \in Nat
        BY BlocksAssumption, LargestIs
      <3>2. Value(Stats!Total(row), denom) = 0
        BY <2>1, <2>3 DEF Stats!Total
      <3> QED
        BY <2>4, <3>1, <3>2 DEF Stats!Distance
    <2> QED
      BY <2>1, <2>2, <2>3, <2>5 DEF StatsInv
  <1>2. StatsInv => Stats!StatsMatchBlocks
    <2> SUFFICES ASSUME StatsInv PROVE Stats!StatsMatchBlocks
      OBVIOUS
    <2> DEFINE off == IF fedMode = "EVENT_STORE" /\ LostReplies THEN fedFaults ELSE 0
    <2>1. Repeats \in Nat /\ off \in Nat /\ Repeats <= off
      BY DEF Repeats, StatsInv, StatsFeed
    <2>2. DiffersBy(off)
      <3> HIDE DEF off
      <3> QED
        BY <2>1, DiffersByMore DEF StatsInv
    <2>3. \A row \in Stats!Rows, denom \in CoinDenoms :
              Stats!AmountOf(Stats!Total(row), denom) = Value(Stats!Total(row), denom)
      BY BlocksAssumption, AmountIs DEF StatsInv, Stats!Total
    <2> QED
      BY <2>2, <2>3 DEF DiffersBy, Stats!StatsMatchBlocks
  <1> QED
    BY <1>1, <1>2, StatsStep, PTL DEF Stats!Spec

\* The same of the run that watches the statistics in the place of another projection.
THEOREM StatsStayRight == Stats!Spec => []StatsMatchBlocks
  <1>1. Stats!StatsMatchBlocks => StatsMatchBlocks
    BY DEF StatsMatchBlocks
  <1> QED
    BY <1>1, RowsMatchBlocks, PTL
=============================================================================
