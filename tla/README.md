# A TLA+ verification project for chain-indexing

chain-indexing turns the blocks of a Cosmos chain into database views. A
synchroniser fetches blocks from a Tendermint node; parsers turn a block into
commands and events; an event handler stores the events, or hands them straight to
the projections; projections build the tables the HTTP API reads; cron jobs join
tables of two chains. Almost everything that can go wrong is a question of order:
goroutines and channels, windows of concurrent requests, transactions that fail
halfway or whose answer is lost, restarts, and tables of totals that are only ever
added to and subtracted from.

This directory holds the models of those parts (`*.tla`), the TLC configurations
that check them on small instances (`MC*.tla`, `*.cfg`), proofs for every instance
(`*Proofs.tla`), and `PROJECT.json`, which says for each definition which source
lines it models, for each run what it checks, and lists the hazards of the code.

    tlc -workers 2 -config MCSyncManager.cfg MCSyncManager
    tlapm IndexingProofs.tla

## 1. The system

| part | state | operations | talks to |
|---|---|---|---|
| height tracker (`infrastructure/feed/chain/blockheighttracker.go`) | latest height, list of subscriptions | poll the node, offer the height on each channel without blocking | node; `blockHeightCh` |
| synchroniser (`bootstrap/syncmanager.go`) | `latestBlockHeight`, `shouldSyncCh`, the retry loop, the window | `Run`: forwarder goroutine, retry with back-off; `SyncBlocks`: read the last handled height, fetch a window, hand its blocks over one by one | tracker, window strategy, parsers, event handler |
| window strategy (`usecase/syncstrategy/window.go`) | one slot per height of the window | start a worker per height, wait for all | node, parsers |
| parsers, commands, events (`usecase/parser`, `command`, `event`) | none | block and results to commands to events, in a fixed order; a registry decodes stored events | synchroniser, event store |
| event-store handler (`appinterface/eventhandler/rdbeventstore.go`) | an open transaction | insert events in batches, update the status row, commit | event store, status store, pool |
| event store, status store (`appinterface/event`, `rdbstatusstore`) | tables `events` and `service_status` | batched insert; `MAX(height)`, events of a height; lazily create and update one row | pool |
| projection runner (`entity/projection/manager.go`) | `nextEventHeight` of each projection's goroutine | poll the event store, hand each height over, repeat a height that failed | event store, projections |
| projection handler of the direct mode (`appinterface/eventhandler/projection.go`) | none | hand a block's events to one projection | synchroniser, projections |
| projections (`projection/*`) | view tables, the last handled height, sometimes memory | `OnInit`, `HandleEvents`: one transaction per height | pool, totals, for `account` the Cosmos node |
| totals (`appinterface/projection/view/total.go`) | a number per identity | increment, decrement (both upserts), look up | projections, lists |
| lists of the views, pagination (`projection/*/view`, `appinterface/rdb/rdbpagination.go`) | none | a page and the total, two statements | totals, HTTP API |
| bridge matcher (`projection/bridge_activity/bridge_activity_matcher`) | an open transaction | every interval: join the pending rows of two chains into activities | the databases of both chains |
| cron jobs, start-up (`bootstrap/indexservice.go`) | the system mode | choose event store or direct mode, run jobs at their interval | everything |
| clients, HTTP API, metrics | none that others read | requests, read-only queries, gauges | outside |

What is hard here, and what correctness means for each part:

* **Synchroniser.** Three goroutines and a worker per height share two channels of
  capacity one that drop or replace what does not fit. The node may lag, requests
  and transactions fail, the process dies in the middle of a window. Correct: the
  store is a gap-free prefix of the chain with every block once and at its height;
  no notified height is forgotten; a window is handled only when it is complete;
  every block is indexed in the end.
* **Event-store handler.** A block is several statements and a second table; readers
  poll meanwhile; error paths end the transaction differently. Correct: events and
  status change together, readers see whole blocks, connections come back.
* **Runner.** The next height lives in memory and is not read again after an error.
  Correct: no height skipped or out of order, repeated only after a failure.
* **Parsers.** They panic on what they do not expect, and the block is then fetched
  and panics again for ever. Versions are chosen by height. Correct: only the inputs
  that are named stop the service, flags keep their meaning over an upgrade, and what
  is stored can be decoded.
* **Bridge matcher.** The mark "processed" is a write outside of the transaction it
  belongs to, possibly in another database; rows of two chains come in any order.
  Correct: one activity per transfer, which ends with the true outcome.
* **Projections.** Rows are found by keys that may be used again, totals are never
  counted again, the same fact is kept by several projections that derive it on their
  own. Correct: totals equal the numbers of rows, a row tells the newest state of the
  chain, projections agree, the handler never gets stuck.

`PROJECT.json` lists the hazards one by one at their lines.

## 2. Modules

| module | models | proofs |
|---|---|---|
| `IndexLog` | the abstract promise of indexing: blocks applied one after the other; with `Repeats`, the last one possibly again | - |
| `SyncManager` | synchroniser, tracker, forwarder, window and workers; implements `IndexLog` with `Repeats = FALSE` | `IndexingProofs` |
| `ProjectionRunner` | one runner and its projection's transaction; implements `IndexLog` over the event store | `IndexingProofs` |
| `EventStoreRunner` | the same under names of its own, which its run and its proofs use | `IndexingProofs` |
| `EventStoreHandler` | the handler statement by statement, the status row, the pool, its other clients, the readers | `EventStoreHandlerProofs` |
| `BridgeMatcher` | pending rows of two chains and the matcher | `BridgeMatcherProofs` |
| `Feeder` | what feeds a projection in either mode, seen from the projection: which height follows a failure, a lost answer, a restart | - |
| `ChainStats` | the count of blocks in memory and table, behind `Feeder` | `FeederProofs` |
| `Coins`, `ValidatorStats` | sets of coins, their sum and the search of a denom; the two sums of rewards and delegations, behind `Feeder` | `FeederProofs` |
| `Bank`, `Account` | the balances of the chain and the node that is asked for them; the rows of balances, behind `Feeder` | `FeederProofs` |
| `FedProjections` | `ChainStats`, and instances of `Account` and of `ValidatorStats`, each behind a feeder of its own | `FeederProofs` |
| `ResultLog` | what a parser reads: events with keys and attributes of a message | - |
| `MsgParser`, `IBCParser` | the parsers of every message, and of IBC messages in both versions | - |
| `BlockParser` | genesis, begin and end of a block, transactions, updates of validators; the order of commands, the choice of versions, what panics | - |
| `EventRegistry` | which events a message gives and which of them can be decoded again | - |
| `MessageAccounts` | the accounts of a message, derived twice, by `account_message` and by `account_transaction` | - |
| `MessageViews` | from blocks to lists: parse, store, six projections at their own pace, totals, and a client that pages | - |
| `IBCChannel` | two connected chains and the index of each: clients, connections, channels, packets, bonded tokens | `IBCChannelProofs` |
| `NFT` | the handler of the NFTs, the totals of three tables, and their lists | `NFTProofs` |
| `Proposal` | the handler of governance and of its table of validators, totals and joined lists | `ProposalProofs` |
| `Validator` | the handler of validators: rows, status, up time, votes | `ValidatorProofs` |
| `ValidatorActivities` | its second pass: rows of activities and the stored table of their totals | `ValidatorProofs` |

`SyncManager` takes the event handler as a transaction that is applied or not;
`EventStoreHandler` is that transaction in detail, and shows that the events table
and the status row do change together (`EventsMatchStatus`). `ProjectionRunner` takes the
event store as a number of whole blocks, which is `ReadersSeeWholeBlocks` of
`EventStoreHandler`. `IndexLog` is what the two ends have in common. `Feeder` is what
`ProjectionRunner` and `SyncManager` look like to a projection; `ChainStats`,
`ValidatorStats` and `Account` extend it; `FedProjections` puts the three side by side, which
is what the proofs are about, and `MCChainStats` runs them in one instance. The loops of
`Coins` and `ValidatorStats` are functions of the number of turns. `ResultLog`, `MsgParser`, `IBCParser`, `BlockParser`, `EventRegistry` and
`MessageAccounts` are functions, each extending the one before; `MessageViews` is the
state machine over them.

How state and actions correspond to the code:

* **SyncManager.** A goroutine is a program counter (`trkPc`, `fwdPc`, `pc`) and the
  variables of its stack; a channel of capacity one is its content (`heightCh`) or a
  flag (`shouldSync`). The action names are those of the functions or, inside `Run`
  and `SyncBlocks`, of the statements between two points where another goroutine can
  interfere: the forwarder sets the height, drains and rings in three steps, since the
  manager may wake between any two. `running` is the set of heights whose worker has
  not returned; `WorkerPut` fills the slot of its height. `HandleEvents` commits a
  block; `HandleEventsFail` is a failure with nothing behind it or with a commit whose
  answer was lost. `Crash` resets what lives in the process (`Fresh`) and keeps the store.
  A nil pointer or an empty channel is `Nil`.
* **ProjectionRunner.** `pc` says which call of the loop is next, `next` and `latest`
  are its variables; `GetLatestHeightFail` models the ignored error of `GetLatestHeight`.
  `UniqueHeights` are the heights whose rows a table takes only once; repeating one is
  `HandleEventsRefused`.
* **EventStoreHandler.** Each SQL statement is an action; `txEvents` and `txStatus`
  are what the open transaction has written. A transaction holds a connection of
  `free`; a statement outside of it needs one for its own step. `Matchers` are clients
  whose transaction needs a second connection (the bridge matcher marking a row of its
  own database), `Projections` those that do not. `LeakTransaction` is the error return
  of the insert and of the update, which does not roll back.
* **BridgeMatcher.** `source` and `fate` fix what happens to a transfer on the
  chains, `HandleEvents` writes its rows at any later time, and the matcher walks four
  lists. `lost` records rows that were marked although their write was rolled back.
  `Fail` stands for an error and for a crash: both end the execution at any point.
  `HandleEventsAgain` is a block that the projection of the pending rows repeats. `rows`
  are the identifiers of the rows of a list that are still to be handled; the least of
  them is next, as the lists are ordered by identifier.
* **Feeder and its projections.** `mode` is the system mode, chosen at the start: it
  decides which height follows a failure (`FeedAfterFailure`). -1 stands for nil.
  `ChainStats` keeps a count in memory; `ValidatorStats` reads, adds and writes its rows
  in one step; `Account` writes the rows of a transfer one request at a time, since each
  page of a balance is asked of a node that has gone on or lags.
* **Parsers.** A parser is a function from what it reads to commands and the addresses
  that may have signed, or to a panic; a message or an event is a record with the fields
  that a later step finds something by. The state that parsing does carry from one
  transaction to the next, the addresses of a transaction whose signer has no public
  key, is threaded through as in the code.
* **MessageViews.** `StoreBlock` stores the events of the next block, or panics and
  stops for good; each `Handle...` is one projection taking its next height; a client
  reads the rows of a page (`ReadRows`) and then the total (`ReadTotal`), in two steps.
  Rows and totals are computed by the handlers, the lists by the views. The rows of
  `account_transaction` are one for each hash and account, as its map of infos is, its totals one
  for each transaction, and its list joins rows with data, which makes up for that. A list may have
  no answer (`ListFails`).
* **IBCChannel.** The chains act (`OpenInit` to `CloseConfirm`, transfers, receipts,
  acknowledgements, timeouts), and put events in blocks; `HandleEvents` of an index takes the
  oldest block in one transaction. A token is a path, as the chains name it.
* **NFT, Proposal.** An action handles one event; the events of a block are
  consecutive actions, `NextBlock` ends its transaction. A failed block is left out: it
  is rolled back and handled again as a whole. The invariants hold between two events
  too. Guards come from the rules of the chain, which delivers no event of a failed
  message. The identities of totals are tuples, with `Dash` for a filter not given. A
  deleted row of a message stays in `messages` and its identifier goes to `deleted`, since
  the totals go on counting it; a list is a set of identifiers, in `Proposal` each
  with the row of a validator that it is joined with.
* **Validator.** The chain executes a block (`BeginBlock`, messages, `EndBlock`), the
  events are put in the order of the parser, and `HandleEvents` makes the passes of the
  code over them (rows, then signatures and votes; the activities between them have a
  module). A pass is a function of the number of events it has read (`Known`,
  `ProjectValidatorView`, `CountVotes`), one step for each, as the loops of the code.
* **ValidatorActivities.** The same handler with its second pass in detail: `HandleActivities` is
  `HandleEvents` together with the rows (`activities`) and the stored totals (`totals`) that the loop
  over the events has made, each kind of event with the statements of its branch.

## 3. Runs

| run | instance | distinct states | shows |
|---|---|---|---|
| `sync` | heights 0 to 2, window 2, a node one behind, one failure, one crash, fairness | 0.3 M | `TypeOK`, `LogIsChainPrefix`, `NoLostWakeup`, `WindowIsSound`, `ImplementsIndexLog`, and `CatchUp`: every block is indexed in the end |
| `runner` | heights 0 to 3, two of them with rows under a UNIQUE constraint, three failures, two crashes, lost answers, fairness | 5 k | bounded repetitions, `ViewImplementsIndexLog` and `HandlesEverything` |
| `event_store` | two blocks of two batches, four connections, two projections, a matcher, one failure, one crash | 7 k (symmetric) | tables change together, readers see whole blocks, the pool does not wedge |
| `event_store_leak` | the same | - | **violated**: a failed insert leaves its transaction open |
| `bridge` | two transfers with any source and fate (failed, received, rejected, timed out, refunded on a closed channel), one failure, crash or repeated block at any point, fairness | 1.1 M | one activity for a pending row, true, never forgetting, settled in the end |
| `nft` | one denom, two tokens, two accounts, two drops, four messages, with and without drops | 0.1 M (symmetric) | lists and their totals, totals of messages, dates of rows |
| `validator` | two operators, two keys, two blocks of two messages; or one operator, eight blocks of one message; with the activities, two operators and one block of three messages, or one operator and five blocks; any genesis | 1.5 M | the handler is never stuck, statuses follow the chain, up times and votes are true, and the stored totals of activities, of all, of an operator, of a type and of both, are the numbers of the stored rows |
| `proposal` | two proposals, two accounts that may become operators with either of two keys, two deposits, two votes | 0.4 M (symmetric) | totals of votes and deposits, lists joined with the validators, the newest vote is recorded |
| `proposal_votes` | two proposals, no validators, three deposits, four votes | - | **violated**: a second vote overwrites other records |
| `chain_stats` | three projections behind either feeder, lost answers: counts of five heights with three failures and two crashes, the sums of four heights with five kinds of block, balances of two accounts in two denoms on four heights with a lagging node | 1.0 M | how exact counts, sums and balances are after failures, lost answers and crashes |
| `message_views` | a chain for every kind of message, succeeding and failing, three chains in which blocks, versions and transactions meet, eight with signers that are known or not, two in which a hash comes again; ten lists, pages of two rows | 94 k | which blocks stop the service, flags over an upgrade, decodability, lists and totals, agreement of six projections, what a paging client misses |
| `ibc_channel` | two chains in five scopes: two open channels, one that closes, three packets, handshakes, crossing handshakes; messages leave traces | 1.1 M | when the handler stops, and that channels, counts and bonded tokens are those of the chains |

Why the bounds are enough to meet the interesting cases:

* `sync`: heights 0 to 2 need two windows (`[0,1]`, `[2]`), so a crash can fall
  between blocks of a window and between windows; a lag of one makes a poll go back
  below what is stored. One failure together with one crash gives a lost answer followed
  by a restart. The proofs cover all other values. `CatchUp` has a premise: from some
  moment on the node answers with the height of the chain. A node that lags for ever
  never shows the last block.
* `event_store`: two batches make a half-written block, and four connections are one
  more than the matcher's two, the handler's and the single leak, so that the pool is
  exhausted but not wedged.
* `bridge`: transfers interact through the lists and the one pending failure; two in
  opposite directions meet every pair of phases. The rows of one transfer are three. The
  transfers can be exchanged, so `MCInit` takes one of each two orders of their fates.
* `nft`: a denom is issued and a token minted, edited to another drop and
  transferred in four messages; a burn records none and may follow at any point. The
  second token shares the totals of the first.
* `validator`: two operators for elections and redelegations, two messages for
  message orders within a block; joining, leaving and returning with another key and
  then the first one, with jailing in between, takes eight blocks of one operator. The
  buffer of ten blocks is three here: what matters is that it exceeds the two blocks
  between an election and the first signature. The rows of activities are a whole history, so
  `MCNext` keeps them in two smaller scopes only: three messages of one block add to one map of
  increments, and five blocks are enough to be jailed, leave and come back with another key,
  whose slashing is of the same operator.
* `proposal`: an account that votes on two proposals needs two votes, and a row that
  appears twice in a joined list needs an operator that comes back with another key.
  `proposal_votes` needs a third vote, on the first proposal again.
* `chain_stats`: a lost answer, its repetition and a crash fit in three failures; the
  blocks of the sums have a denom that only one side has, an amount that returns to zero
  and coins of two denoms. The projections share nothing, so a behaviour watches one of
  them and the others stand still. Sets of more coins, longer blocks and more failures are
  left to the theorem.
* `message_views`: the upgrade of the parser is at height 2, so both versions are met and
  the two blocks on either side of the border; `t2`, whose signer has no key, follows a
  transaction whose signer has one; pages of two rows make every list of three rows
  have a partial page. Each of the three kinds of signers that end the process is in the
  instance, next to a transaction that differs from it by a key or by its block and is read. A
  hash comes twice in one block (the second fails by its sequence), and again in a later
  block (what failed succeeds).
* `ibc_channel`: channels 1 and 10 of one chain, so that one identifier is the beginning
  of the other; tokens that go out, come back and go on through the other channel; two
  amounts, so that a part may return.

`CHECK_DEADLOCK FALSE` in the runs of `Validator`, `ChainStats`, `MessageViews` and
`IBCChannel`: their bounds on heights and packets end the run, a projection whose `OnInit`
failed is off for good, and a parser that panicked or an index that met a lookalike
stays stopped.

**Fairness.** `FairSpec` asks weak fairness of each goroutine of the synchroniser, of
the workers together, of the runner, of the two bridge projections together and of the
cron job: Go's scheduler keeps running a runnable goroutine and the loops never return.
It asks nothing of failures, crashes or new blocks; those are bounded, which stands for
"failures stop for long enough". The back-off always ends (`Backoff` is part of `Manager`), as
`RetryNotify` either retries or gives up and the outer loop starts again.

**Each property has a mutant**, an operator just before the definition it changes
the way a plausible bug would; with it the property fails.

## 4. What the violated runs show

* `event_store_leak`: `HandleEvents` returns after a failed insert or status
  update without `Rollback` (`rdbeventstore.go:53-64`), though the insert's comment promises
  one. The transaction stays open and its connection is gone. `PoolNotWedged` says how many
  spare connections the process needs to survive that.
* `proposal_votes`: `VotesView.Update` filters by voter only
  (`view/votes.go:101`), so voting again on one proposal replaces the answer in all of
  the voter's records.

Other disagreements met while modelling are in the models as the code has them, and the
properties are stated around them; each exception is a named condition of its property.

Parsers and stored events:

* A grant of a generic authorization, a failed one of a stake authorization, and an
  allowance that is periodic or for some messages read their granter from a grant of another
  kind, which is nil (`msg.go:1231`, `msg.go:1185`, `msg.go:1475-1532`): the parser panics.
  Rewards in several denoms, claimed by a delegation, are parsed as one coin
  (`msg.go:714`), which panics as well (`Unparsable`, `ClaimsOtherCoins`). A block that
  panics is fetched again and panics again.
* So do three kinds of signers (`UnknownSigners`): none at all in a block whose messages give no
  address (`authinfo.go:22`), a group without its public key (`:64`), and a signer without a public
  key whose address, taken from its position among the addresses of the block, is of an account
  that the node knows without a key (`:45`). Whether a transaction is read depends on
  the other transactions of its block.
* Of two transactions with one hash in a block, the account's list shows both with the success of
  the second (`account_transaction.go:166` replaces what `:131` has made).
* The list of blocks fails while there is no block: its total has no row to read
  (`block/view/blocks.go:97`).
* `GenesisValidatorCreated` is never registered (`usecase/event/events.go`), so a stored
  genesis with validators cannot be decoded (`StoredEventsDecode`). `ValidatorStats`
  therefore sees no genesis validators in the event-store mode (`Decodes`).

IBC channels:

* A token is taken for one that returns when its path merely starts with the channel
  (`ibc_channel.go:923`, `HasPrefix`): with channel-1 and channel-10 the handler stops
  (`Lookalike`).
* When both sides start a handshake at once, `OpenTry` inserts an identifier that
  `OpenInit` has inserted (`ReusesIdentifier`).
* Updating a connection writes the counterparty's client into `client_id`
  (`view/ibc_connections.go:64`).

NFTs, validators, proposals:

* An edit that changes the drop moves only the owner's totals (`nft.go:404`);
  `ListTotalsMatch` leaves out the totals by drop without an owner. The list of the
  denoms of a creator looks up a total by creator (`view/denoms.go:190`), which is kept by
  denom (`nft.go:147`); only the list of all denoms is claimed.
* Burning an NFT deletes its messages and not their totals (`nft.go:479`);
  `MessageTotalsCountInsertions` says what the totals do count.
* The activities of a redelegation are two rows, and two in the totals of all and of its type, but
  its destination has no total of that type (`validator_activity.go:168` counts the type of all
  a second time); `CountedIn` is the exception.
* A vote of an account that is no validator's leaves the loop over the events of the
  block (`validator.go:252`, `break`), so later votes are not counted; hence the votes of a
  row are at most those cast (`VotesNotOvercounted`, part of `RowCountsAreTrue`).
* A validator that joins with key 1, then key 2, then key 1 again is looked up by
  operator, newest row first, which is the row of key 2 (`validator.go:463`);
  `StatusMatchesChain` leaves out operators that have `Returned`. Its row may even be left
  bonded for good: the validator is jailed, which finds the row by key, and unjails, which is
  written to the other row; it is elected (bonded), leaves the set while its row is still
  jailed (a change to no power is not written then, `validator.go:496`), and is gone. Eight blocks
  do not get there, thirteen do; the proof of `StatusesMatch` failed at it, and the property speaks of
  the newest row of an operator since. The same two rows make
  such an operator appear twice in the lists of proposals, depositors and voters, whose
  totals count it once (`OnceAValidator`).

Projections behind a feeder:

* A commit whose answer is lost is repeated from memory (`manager.go:120`). A table with a
  UNIQUE constraint, `view_blocks` for one, refuses the rows it already has, the handler
  fails on every retry, and the projection stands still until a restart reads the committed
  height (`HandlesEverything`, its condition `Stuck`). The direct mode reads the height again and
  is not affected.
* In the direct mode a commit whose answer is lost is not repeated, and the block
  count in memory stays one behind; if it was the genesis the count stays nil and block 1
  panics, which a restart repairs (`chainstats.go:151`). `Trusted` is the condition
  under which neither happens.
* A transfer that is refunded because its channel was closed has an activity that stays pending:
  `MsgTimeoutOnClose` is not among the events of the pending activities
  (`bridge_pending_activity.go:102`). `EndIsHeard` is the condition of `EventuallySettled`, and
  `ActivityIsTrue` says that such an activity is pending.
* The bridge's pending rows have no key that is unique, so a repeated block records a transfer
  twice and the matcher makes two activities of it, one of which may stay pending
  (`SentOnce`).
* In the event-store mode the same commit is repeated, and the sums of `validatorstats` count
  the block twice (`StatsMatchBlocks` bounds how far they are off).
* A balance changes without a transfer event, as when an unbonding completes, and then
  stays stale until the next transfer; `AccountsAreFresh` dates a row by the newest transfer that names its
  account. `ON CONFLICT` updates the balance alone (`account/view/accounts.go:64`),
  although the comment above `Account` (`account.go:21`) has account and sequence numbers
  from the latest state too.

Noticed in queries that are not modelled: `FindBy` of the accounts selects columns that no
migration creates (`account/view/accounts.go:93`); the total of the signatures of one
validator is looked up with the block height instead of the address
(`validator/view/validator_block_commitments.go:149`); lists of validators dereference the order by status under
a check of the order by joining height (`validator/view/validators.go:320`, `497`), and the descending order of
statuses leaves `BONDED` out in the first of them (`:331`).

## 5. Proofs

All theorems hold for every value of the constants that satisfies the named assumptions:
`NilAssumption` and `NoHeightAssumption` (a nil is not a number), `WindowAssumption` and
`BatchesAssumption` (at least one), `BoundsAssumption` and
`RunnerBoundsAssumption` (bounds are natural numbers), `LostRepliesAssumption`,
`UniqueHeightsAssumption`, `PoolAssumption`, `ClientsAssumption` (finitely many clients, each
of one kind), `NoAccountAssumption`, `MaxLagAssumption`, `ChainsAssumption` (the two chains of the
bridge differ), `JoinBufferAssumption` (three blocks at least), `ScopesAssumption` (finitely many
operators, none of them "-") and `DashAssumption` (no address and no type of messages is written
"-", the sign for a filter that is not given),
`IBCAssumption` (two chains, finitely many pairs of ends with different names, a positive supply) and
`BlocksAssumption` (a block has one of finitely many sequences of events, and their coins are of
different denoms in the order of the denoms, as `ParseDecCoins` makes them). A bound is a
constant like any other, so a theorem covers runs of every length.

* **`IndexingProofs`.** For the synchroniser `TypeCorrect`, `StoreIsChainPrefix`, `NoWakeupIsLost`,
  `WindowStaysSound` (from `WindowIsComplete` and `WorkersRequestNewBlocks`), and `Refinement`: the
  synchroniser implements `IndexLog`. None of the invariants is inductive alone. `IndInv`
  adds that every height a goroutine remembers exists on the chain (`HeightsExist`; without
  it a stale height could make `Apply` exceed the chain), that the wake-up is pending from
  the moment the manager has read the height and not only while it waits (`WakeupPending`),
  that targets stay below the height (`TargetExists`), and where the window stands relative
  to the store: it starts at the first missing block, and a slot is filled or its worker runs
  (`WindowFollowsLog`). `CommitExtendsPrefix` is the heart: with a complete window that starts
  at the first missing block a commit extends the prefix, which also covers the commit whose
  answer is lost. `StepSimulation` maps each commit to `Apply`, `Produce` to itself, and
  everything else, crashes included, to a stutter.

  For the runner, the instance `R` of `EventStoreRunner`, `RunnerAppliesInOrder`,
  `RepeatsAreBounded`, `AppliedExactlyOnce` (without lost answers), `OnlyLostRepliesAreRefused` and `RunnerRefinement`, with and without lost answers. The
  inductive invariant `RunnerInv` says that `nextEventHeight` is the first
  unhandled height or, after a lost answer, the last handled one (`NextIsNear`); a commit is
  therefore `Apply` or `Repeat`, and a UNIQUE constraint can refuse nothing but that last
  height. `RepeatsCounted` charges the repetition still to come to the failure that caused it.
* **`EventStoreHandlerProofs`.** `TablesAgree`, `ReadersNeverSeeHalf`, and `PoolSizeSuffices`: a
  pool with more connections than failing statements, clients that need a second connection
  and the handler together never wedges. `StoreInv` adds what the open transaction holds (the first
  batches of the block after the status, all of them before the status is updated:
  `TransactionOK`), that no row is above the status (`NoRowAbove`, without which a read by
  height could find rows of a later commit), and that no reader is ahead of the status.
  `PersistAddsBlock` is the heart: a commit appends exactly the rows `Block(status + 1)`, and
  leaves the rows of every other height as they are. `PoolOK` counts: free, leaked and held
  connections are the pool, and every leak was a failure.
* **`FeederProofs`.** For the chain statistics `TypeCorrect`, `CountLags`, `CountIsExact`,
  `CountIsNotNil`, and `CountStaysRight`, which combines the last two. The strengthening relates
  the memory to the height fed next (`FeedLags`, `FeedExact`), since the next count comes from
  memory and not from the table. For the accounts `BalancesStayFresh` and `AccountsStayFresh`:
  the row of an account named by a transfer of a handled block has amounts that the account had
  at the height of that block, or later, or at most `MaxLag` heights earlier. The inductive
  invariant has four parts: the chain keeps its past (`ChainOK`), a feeder feeds the last handled
  height again or the one after it (`FeedOK`), the property itself, and the same for what the
  open transaction has read and written so far (`TransactionOK`). `PastIsKept` lets a balance stay
  fresh while the chain goes on.

  For the statistics `RowsMatchBlocks` and `StatsStayRight`. Half of that is what the loops of
  `Coins` compute. `AddIs`: what the merge of two sets holds of a denom is the sum of what they
  hold of it, and the merge is again a set of coins in order; the invariant of a turn (`Merged`)
  says that the coins merged are those before the two indexes and that they are smaller than
  those to come. `AmountIs`: the search by halves finds the amount of a denom or 0, as a denom
  that is there stays in the slice (`Searches`) and as many turns as there are coins leave one.
  `AddAllIs` and `SumIs` add up a block and a chain. The other half is the feeder: the rows are the
  sums over the blocks handled, differing by at most `Repeats` times the block that changes a
  row most (`DiffersBy`, `LargestIs`). `Repeats` is 0 in the direct mode and when no reply is lost;
  otherwise it is the failures, less one while the runner is about to repeat a height (`Again`):
  the repetition still to come is charged to the failure that caused it. The theorems are about
  the instances of `Account` and `ValidatorStats` that the run `chain_stats` checks.
* **`BridgeMatcherProofs`.** `ActivitiesAreNotRepeated`, `ActivitiesAreTrue` and
  `ActivitiesDoNotForget`, the last an action property. A mark is written outside of the
  transaction that it belongs to, so none of them can be read off one table: each has a
  part that speaks of the activities as they are, and parts that speak of what the open
  transaction will make of them before the mark, between mark and commit, and after. An
  activity has a processed outgoing row of its own (`ActivitiesCounted`): a mark that is lost
  makes the rows more than the activities, never fewer, which is why failures cannot repeat
  one. The prepared write forgets nothing and only knows the transfer's statuses
  (`NothingForgotten`). For a transfer that was recorded once and lost nothing, the processed rows
  determine the activity (`ActivitiesTell`), whatever order they came in; it needs that
  the rows are true and in the right table (`RowsAreTrue`), that handled events have left
  theirs (`RowsAreKept`), and that the list being handled holds unmarked rows only
  (`ListIsOpen`), since its rows were read before the marks of this execution.
  `LeastNumber`, that a set of numbers has a least one, is what makes the next row of a
  list one of the list; the library's well-foundedness of finite subsets gives it without
  an induction of ours.
* **`NFTProofs`.** `ListsHaveTheirTotals`, `MessagesHaveTheirTotals` and `TokensHaveTheirDates`.
  Totals are only added to and subtracted from, so the invariant says what each of them counts:
  `TokensCounted` for every filter whose totals are kept, `DenomsCounted`, and
  `MessagesCounted`, which counts the rows ever inserted. A sum of totals is the size of a set of
  units (`Units`), and `ListIdentitiesOfMessage` shows that a message is counted under one of
  the identities that a list asks for, or under none; so an insertion adds one unit or none
  (`IncrementAddsUnit`). `UpdateCounts` is the heart: an edit or a transfer touches the
  totals of the old and the new owner alone, and that is enough for every filter that is
  kept. It needs `DropsDisabled`. A subtraction meets a total that exists, as it is the number of rows of a
  list that the token is in (`DecrementCounts` has the condition). The dates need that no message is
  newer than the block and that a token that is not there has no messages but those of its
  denom (`TokensHaveMessages`); otherwise a token minted again could be dated by an older one.
* **`ProposalProofs`.** `TotalsAreTrue` and `LastVotesAreRecorded`. The totals are kept for
  proposals still to come as well (`DepositsCounted`, `VotesCounted`: nothing was made, and the
  total is 0), since a new proposal starts with its first deposit in two places. The votes recorded
  are those that were cast, once per account and proposal, and all of them are of submitted
  proposals (`EventsOfProposals`). A row of an operator finds at least one
  validator to be joined with, because no row of a validator goes (`OperatorsAreKnown`), and
  at most one by `OnceAValidator`; `JoinedOnce` then gives the length of the list.

* **`ValidatorProofs`.** `NeverFails`, `StatusesMatch` and `RowCounts` of `Validator`'s
  `Spec`, from one `Invariance`, and `ActivityTotals` of `ActivitiesSpec`. The handler makes its passes over the events of a whole block in one step, so half of the proof is about loops. A loop is a function on
  `0..Len(events)` that is defined by recursion, and neither its existence nor an induction
  over it can be had from the library, whose theorems take an operator as a parameter. Both
  come from sets instead: `LeastNumber` (a set of numbers has a least one), `UpTo` (a set that
  holds 0 and with every number the next one holds all), and `LoopExists`, where the set is that
  of the lengths for which the loop has a function. Every pass then has a lemma of what it has
  made of the rows after n events, with a step lemma under it: the first makes or
  replaces one row for each creation (`FirstPass`), the second gives every row the status
  and the jail that the events tell of it (`SecondPass`, from `StatusAfter` and `JailedAfter`), the
  third adds votes that were cast (`VotesPass`). `HandledIs` joins the passes.

  The other half is the chain. `IndInv` says for each phase of a block what the projection is
  going to make of it. While messages are executed the rows differ from the chain by what the
  messages and the slashings have to tell (`StatusesWillAgree`); when the events are handed over,
  what they tell makes the newest row of every operator agree (`EventsTell`, from
  `StatusesTold`: a validator that was slashed is out of the set, so its status is the jail
  whatever came before, and one that is elected is bonded whatever came before). It needs that a
  key has one owner (`KeysHaveOneOwner`: rows found by key are found once), that no event is
  about a validator without a row or a creation in the same block (`ValidatorsAreDeclared`,
  `EventsAreOfDeclared`: rows never go, and the first pass comes first), that changes of power
  come last and once for each key (`PowersComeLast`), and that an active validator is not jailed
  between two blocks. `PerfectHaveSigned` follows a validator that missed nothing through the three
  sets that are known ahead: it has been in the set that signs for as long as it joined three blocks
  ago, which is why the buffer has to be three at least (`JoinBufferAssumption`) and the 10 of
  the code are more than enough.

  `ActivityTotals` is about two stored tables. A row and its increments are made by different
  statements, so each event needs its own step (`RecordMatches`): appending a row changes the count
  of exactly the identities that it is about (`CountAppend`), and the increments of its kind must
  be those, one for each (`OneRowCounts`), or two where a redelegation appends two rows
  (`TwoRowsCount`). The loop over a block keeps what each event keeps (`ViewMatches`), and
  `HandleActivities` stores what the loop made (`BlockRecorded`). It needs that a redelegation is
  from one validator to another, and that a slashed key has a row after the first pass.

* **`IBCChannelProofs`.** `RelayCounts`, `BondedTokens`, `ChannelRows` and `OnlyLookalikesStop`,
  the four properties of the run, from one `Invariance`. `IInv` has two parts.

  The chains. The index subtracts from what it has counted and stops when there is nothing to
  subtract from, so the proof has to know that a return or refund finds what a transfer left.
  That is a fact about the accounts of two chains: the escrow account of an end holds, token
  by token, what the counterparty has minted and what packets are carrying there or back
  (`EscrowBacksVouchers`), vouchers of an end are held by accounts of its chain or in escrow of
  another end (`VouchersAreHeld`), and a voucher carries the name of the end it came through
  (`VouchersAreMarked`). What is in flight is a sum over the sequence of packets; sums are
  running totals with the same induction over sets as in `ValidatorProofs` (`SumChanges`: one
  packet that changes changes the sum by as much). Ends that have not opened have no money and
  no packets (`NewEndsAreEmpty`), and an `OpenTry` that waits in a block belongs to an end that
  has got past it (`TriesAreOver`), so that no block holds two of them.

  The indexes. An index is behind its chain, so nothing can be said of its tables as they are.
  `ViewOK` says what they are going to be: the index has not failed, and after the blocks that
  wait, handled one after the other, it either matches its chain (`Matches`: clients, connections,
  rows, traces, names of tokens) or has been stopped by one of them, in which case an event of
  that block is an excuse (`BlockStep`). An action of a chain then has to show one
  thing, that its event takes every index that matches to one that matches
  (`Advances`); `EmitAdvances` does the rest, whether the event joins the last block or
  starts one. Handling a block only makes the trail shorter (`HandleKeeps`). The row of
  a channel is compared column by column; the escrow account is in the row under the names
  that the counterparty gives its tokens (`Mirrors`). `List` is a choice among sorted
  enumerations, so `SortedExists` shows that there is one, by taking out the smallest.

Only model-checked: liveness (`CatchUp`, `HandlesEverything`, `EventuallySettled`), which the
prover does not do under fairness, nor ENABLED; and the safety of `MessageViews`, whose parsers
are folds with an operator as a parameter, which the prover cannot instantiate. `VotesRecorded` is
violated, see 4.

## 6. What is left out

Inside the modelled parts:

* Texts, amounts, fees, gas and times, where nothing is found by them, and JSON. The
  registry is modelled by which events it can decode. The orders of lists are those of the
  identifiers; other orders are left out.
* A result set is read to its end or the read fails (`rows.Err()` is never consulted in
  `rdbstore.go:85`, so a cut connection could look like the end). A commit is applied before its
  failure is reported or never, not later.
* A window of size 0 (`window.go:38`): `WindowAssumption` excludes it, with it the
  synchroniser would fetch nothing.
* Statements of at most 500 rows (`total.go:106` compares the affected rows of one
  statement with the number of all).
* Bridge: the channels a chain listens to and their starting heights, addresses and fees. A
  transfer sent before the starting height has a response that stays pending for ever, and a timeout
  whose message cannot be parsed is dereferenced before it is compared with nil
  (`bridge_pending_activity.go:363`).
* Chain statistics: the average block time. Validators: commissions, delegations,
  descriptions, the table of block commitments, and the lists with their cumulative powers.
  A validator that undelegates below its own minimum is jailed by the chain without a slash event,
  so the index is not told. The chain of `Validator` jails by slashing only: what
  `StatusMatchesChain` says is about validators that are jailed for what they signed or missed.
* Parsers: the logs and events of a block are as a node gives them. An attribute that is missing
  or malformed panics in the models too (`Lacks`, `LacksKeys`, `IsMalformed`), and `NoOtherBlockStops`
  does not claim anything of such a block.
* Two rows of an account's list that have one hash and one block share the identifier that the
  list is ordered by; `PagesAreComplete` does not tell them apart.
  Governance: the table of parameters. Commands: their encodings. Coins: comparisons,
  decimals and units, which the indexing service does not use.

Not modelled: the clients of Cosmos and Tendermint and the HTTP API (requests and read-only
queries; their failures, lag and pages are in the models), database access and migrations
(wrappers), the bootstrap and the example (wiring), metrics (nothing reads them back), and
external utilities (JSON, logging, clocks, addresses). They keep no state that another part
depends on, so there is nothing to check but single calls, which tests do.

## 7. Plan

The order was: the synchroniser, as everything hangs on it; its abstract promise and the
runner of the event-store mode; the transaction between them; the matcher, the only part that
writes two databases; then projections by how much state they carry, the parsers that feed
them, and the lists and clients behind them. All of it is done. What would come next:

1. The lists of validators, the powers they add up over pages, and the table of block
   commitments, in `Validator`.
2. Channel filters and starting heights in `BridgeMatcher`.
3. The parsers as functions of the number of events read, as in `Validator` and `Coins`, so that
   what they compute can be proved.
4. The handshakes of `IBCChannel` as an abstract specification of one channel, which the index
   of both ends implements.
