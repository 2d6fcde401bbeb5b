---------------------------- MODULE SyncManager -----------------------------
(***************************************************************************)
(* The block synchroniser: bootstrap/syncmanager.go together with the      *)
(* height tracker (infrastructure/feed/chain) that wakes it and the window *)
(* strategy (usecase/syncstrategy) that fetches blocks concurrently.       *)
(*                                                                         *)
(* Goroutines: the tracker polls the node and offers heights on            *)
(* blockHeightCh; the forwarder moves them to manager.latestBlockHeight    *)
(* and rings shouldSyncCh; the manager runs the retry loop; one worker per *)
(* height of the current window fetches a block.                           *)
(*                                                                         *)
(* The event handler is the transaction its two implementations run: a     *)
(* block's events and the last handled height are committed together.  A   *)
(* failed call either left nothing behind or was committed with the answer *)
(* lost on the way back.                                                   *)
(***************************************************************************)
EXTENDS Integers, Sequences

CONSTANTS
    Nil,          \* a nil *int64, an empty channel, an unfilled window slot
    WindowSize,   \* blocks fetched concurrently (Sync.WindowSize)
    MaxHeight,    \* bound: heights the chain grows to
    MaxLag,       \* bound: how far behind the tip the queried node may be
    MaxFaults,    \* bound: failing requests, commands and transactions
    MaxCrashes    \* bound: crashes of the process

ASSUME NilAssumption == Nil \notin Int
ASSUME WindowAssumption == WindowSize \in Nat \ {0}
ASSUME BoundsAssumption ==
    /\ MaxHeight \in Nat /\ MaxLag \in Nat
    /\ MaxFaults \in Nat /\ MaxCrashes \in Nat

VARIABLES
    chain,        \* newest block of the chain
    log,          \* committed applications, oldest first
    lastHandled,  \* committed last handled height, Nil if no row
    trkPc,        \* tracker: "poll", "notify", "store"
    trkHeight,    \* tracker: height of the poll being announced
    trkLatest,    \* tracker.latestBlockHeight
    subscribed,   \* blockHeightCh is one of tracker.subscriptions
    heightCh,     \* content of blockHeightCh (capacity 1), Nil if empty
    fwdPc,        \* forwarder: "recv", "drain", "send"
    shouldSync,   \* shouldSyncCh (capacity 1) holds a token
    mgrLatest,    \* manager.latestBlockHeight
    pc,           \* manager: see Run and SyncBlocks below
    isRetry,      \* the operation is a retry of a failed one
    latest,       \* latestHeight, the argument of SyncBlocks
    cur,          \* currentIndexingHeight
    target,       \* targetHeight
    window,       \* blocksCommands of the window, by offset from cur
    running,      \* heights whose worker has not returned
    failed,       \* a worker of the group returned an error
    idx,          \* offset of the block being handled
    faults,       \* failures so far
    crashes       \* crashes so far

chainVars   == <<chain, faults, crashes>>
storeVars   == <<log, lastHandled>>
trackerVars == <<trkPc, trkHeight, trkLatest>>
fwdVars     == <<fwdPc, mgrLatest>>
loopVars    == <<isRetry, latest, cur, target>>
windowVars  == <<window, running, failed, idx>>
vars == <<chainVars, storeVars, trackerVars, subscribed, heightCh, fwdVars,
          shouldSync, pc, loopVars, windowVars>>

Entry(height, block) == [height |-> height, block |-> block]

-----------------------------------------------------------------------------
(* Start-up: the state of a fresh process; the store outlives it. *)

\* NewSyncManager and NewBlockHeightTracker: everything a crash loses.
Fresh ==
    /\ trkPc = "poll" /\ trkHeight = Nil /\ trkLatest = Nil
    /\ subscribed = FALSE /\ heightCh = Nil
    /\ fwdPc = "recv" /\ mgrLatest = Nil
    /\ shouldSync = FALSE
    /\ pc = "boot" /\ isRetry = FALSE /\ latest = Nil /\ cur = 0 /\ target = 0
    /\ window = << >> /\ running = {} /\ failed = FALSE /\ idx = 0

Init ==
    /\ chain = 0 /\ faults = 0 /\ crashes = 0
    /\ log = << >> /\ lastHandled = Nil
    /\ Fresh

-----------------------------------------------------------------------------
(* The environment. *)

\* The chain produces a block.
Produce ==
    /\ chain < MaxHeight
    /\ chain' = chain + 1
    /\ UNCHANGED <<faults, crashes, storeVars, trackerVars, subscribed, heightCh,
                   fwdVars, shouldSync, pc, loopVars, windowVars>>

\* The process dies and is started again as Fresh says: an open transaction is
\* rolled back.
Crash ==
    /\ crashes < MaxCrashes
    /\ crashes' = crashes + 1
    /\ trkPc' = "poll" /\ trkHeight' = Nil /\ trkLatest' = Nil
    /\ subscribed' = FALSE /\ heightCh' = Nil
    /\ fwdPc' = "recv" /\ mgrLatest' = Nil
    /\ shouldSync' = FALSE
    /\ pc' = "boot" /\ isRetry' = FALSE /\ latest' = Nil /\ cur' = 0 /\ target' = 0
    /\ window' = << >> /\ running' = {} /\ failed' = FALSE /\ idx' = 0
    /\ UNCHANGED <<chain, faults, storeVars>>

\* A call to the node, the database or a command fails.
Fault ==
    /\ faults < MaxFaults
    /\ faults' = faults + 1
    /\ UNCHANGED <<chain, crashes>>

-----------------------------------------------------------------------------
(* BlockHeightTracker.Run *)

\* LatestBlockHeight: the height of a node that may lag; a chain without a
\* block answers with an error and is polled again.
TrackerPoll ==
    /\ trkPc = "poll"
    /\ \E h \in 1..chain :
          /\ chain - MaxLag <= h
          /\ trkHeight' = h
    /\ trkPc' = "notify"
    /\ UNCHANGED <<chainVars, storeVars, trkLatest, subscribed, heightCh, fwdVars,
                   shouldSync, pc, loopVars, windowVars>>

\* The send does not block: the height is dropped if the channel is full or
\* the manager has not subscribed.  (tracker.subscriptions is appended to
\* without a lock; a poll racing Subscribe sees the old or the new list.)
TrackerNotify ==
    /\ trkPc = "notify"
    /\ heightCh' = IF subscribed /\ heightCh = Nil THEN trkHeight ELSE heightCh
    /\ trkPc' = "store"
    /\ UNCHANGED <<chainVars, storeVars, trkHeight, trkLatest, subscribed, fwdVars,
                   shouldSync, pc, loopVars, windowVars>>

TrackerStore ==
    /\ trkPc = "store"
    /\ trkLatest' = trkHeight
    /\ trkPc' = "poll"
    /\ UNCHANGED <<chainVars, storeVars, trkHeight, subscribed, heightCh, fwdVars,
                   shouldSync, pc, loopVars, windowVars>>

-----------------------------------------------------------------------------
(* The forwarding goroutine of SyncManager.Run *)

ForwardHeight ==
    /\ fwdPc = "recv" /\ heightCh # Nil
    /\ mgrLatest' = heightCh
    /\ heightCh' = Nil
    /\ fwdPc' = "drain"
    /\ UNCHANGED <<chainVars, storeVars, trackerVars, subscribed, shouldSync, pc,
                   loopVars, windowVars>>

\* Mutant of DrainShouldSyncCh: the channel is drained and not rung again.
DrainOnly ==
    /\ fwdPc = "drain"
    /\ shouldSync' = FALSE
    /\ fwdPc' = "recv"
    /\ UNCHANGED <<chainVars, storeVars, trackerVars, subscribed, heightCh, mgrLatest,
                   pc, loopVars, windowVars>>

DrainShouldSyncCh ==
    /\ fwdPc = "drain"
    /\ shouldSync' = FALSE
    /\ fwdPc' = "send"
    /\ UNCHANGED <<chainVars, storeVars, trackerVars, subscribed, heightCh, mgrLatest,
                   pc, loopVars, windowVars>>

\* A blocking send on a channel of capacity 1.
RingShouldSyncCh ==
    /\ fwdPc = "send" /\ ~shouldSync
    /\ shouldSync' = TRUE
    /\ fwdPc' = "recv"
    /\ UNCHANGED <<chainVars, storeVars, trackerVars, subscribed, heightCh, mgrLatest,
                   pc, loopVars, windowVars>>

-----------------------------------------------------------------------------
(* SyncManager.Run *)

\* The manager copies whatever height the tracker has by now, usually none.
Boot ==
    /\ pc = "boot"
    /\ mgrLatest' = trkLatest
    /\ pc' = "subscribe"
    /\ UNCHANGED <<chainVars, storeVars, trackerVars, subscribed, heightCh, fwdPc,
                   shouldSync, loopVars, windowVars>>

Subscribe ==
    /\ pc = "subscribe"
    /\ subscribed' = TRUE
    /\ pc' = "check"
    /\ UNCHANGED <<chainVars, storeVars, trackerVars, heightCh, fwdVars, shouldSync,
                   loopVars, windowVars>>

\* The operation: nothing to do before the first height, else SyncBlocks.
Check ==
    /\ pc = "check"
    /\ latest' = mgrLatest
    /\ pc' = IF mgrLatest = Nil THEN "wait" ELSE "read"
    /\ UNCHANGED <<chainVars, storeVars, trackerVars, subscribed, heightCh, fwdVars,
                   shouldSync, isRetry, cur, target, windowVars>>

\* select: a token or the polling interval ends the wait, the operation
\* succeeds and the outer loop starts a new one.
Wait ==
    /\ pc = "wait"
    /\ shouldSync' \in {shouldSync, FALSE}
    /\ isRetry' = FALSE
    /\ pc' = "check"
    /\ UNCHANGED <<chainVars, storeVars, trackerVars, subscribed, heightCh, fwdVars,
                   latest, cur, target, windowVars>>

\* Mutant of Backoff: the error ends the loop.
BackoffStops ==
    /\ pc = "backoff"
    /\ UNCHANGED vars

\* RetryNotify after an error: notify and run the operation again, or (the
\* default back-off stops after 15 minutes) return to the outer loop.
Backoff ==
    /\ pc = "backoff"
    /\ isRetry' \in BOOLEAN
    /\ pc' = "check"
    /\ UNCHANGED <<chainVars, storeVars, trackerVars, subscribed, heightCh, fwdVars,
                   shouldSync, latest, cur, target, windowVars>>

-----------------------------------------------------------------------------
(* SyncManager.SyncBlocks *)

\* Mutants of FirstHeight: no genesis offset; the last handled height again.
FirstHeightNoOffset(handled) == IF handled = Nil THEN -1 ELSE handled + 1
FirstHeightAgain(handled) == IF handled = Nil THEN 0 ELSE handled

FirstHeight(handled) == IF handled = Nil THEN 0 ELSE handled + 1

TargetHeight(from, tip, retry) == IF retry /\ tip > from THEN from + 1 ELSE tip

GetLastHandledEventHeight ==
    /\ pc = "read"
    /\ cur' = FirstHeight(lastHandled)
    /\ target' = TargetHeight(FirstHeight(lastHandled), latest, isRetry)
    /\ pc' = "sync"
    /\ UNCHANGED <<chainVars, storeVars, trackerVars, subscribed, heightCh, fwdVars,
                   shouldSync, isRetry, latest, windowVars>>

\* Window.Sync: the last height of the window.
EndHeight(from, tip) ==
    IF tip - from + 1 < WindowSize THEN tip ELSE from + WindowSize - 1

\* One turn of the loop: a window of workers is spawned, or all is synced.
SpawnWorkers ==
    /\ pc = "sync" /\ cur <= target
    /\ LET end == EndHeight(cur, target)
       IN  /\ running' = cur..end
           /\ window' = [i \in 0..(end - cur) |-> Nil]
    /\ failed' = FALSE
    /\ pc' = "fetch"
    /\ UNCHANGED <<chainVars, storeVars, trackerVars, subscribed, heightCh, fwdVars,
                   shouldSync, loopVars, idx>>

Synced ==
    /\ pc = "sync" /\ cur > target
    /\ pc' = "wait"
    /\ UNCHANGED <<chainVars, storeVars, trackerVars, subscribed, heightCh, fwdVars,
                   shouldSync, loopVars, windowVars>>

\* syncBlockWorker and unsafeCommandWindow.Put
WorkerPut(h) ==
    /\ pc = "fetch" /\ h \in running
    /\ running' = running \ {h}
    /\ window' = [window EXCEPT ![h - cur] = h]
    /\ UNCHANGED <<chainVars, storeVars, trackerVars, subscribed, heightCh, fwdVars,
                   shouldSync, pc, loopVars, failed, idx>>

WorkerFail(h) ==
    /\ pc = "fetch" /\ h \in running
    /\ Fault
    /\ running' = running \ {h}
    /\ failed' = TRUE
    /\ UNCHANGED <<storeVars, trackerVars, subscribed, heightCh, fwdVars, shouldSync,
                   pc, loopVars, window, idx>>

\* Mutant of WindowDone: the group is not waited for.
WindowNotAwaited ==
    /\ pc = "fetch"
    /\ idx' = 0
    /\ pc' = IF failed THEN "backoff" ELSE "handle"
    /\ UNCHANGED <<chainVars, storeVars, trackerVars, subscribed, heightCh, fwdVars,
                   shouldSync, loopVars, window, running, failed>>

\* errgroup.Wait returns once every worker has returned.
WindowDone ==
    /\ pc = "fetch" /\ running = {}
    /\ idx' = 0
    /\ pc' = IF failed THEN "backoff" ELSE "handle"
    /\ UNCHANGED <<chainVars, storeVars, trackerVars, subscribed, heightCh, fwdVars,
                   shouldSync, loopVars, window, running, failed>>

\* The handler's transaction is committed: events and last handled height.
Commit ==
    /\ log' = Append(log, Entry(cur + idx, window[idx]))
    /\ lastHandled' = cur + idx

HandleEvents ==
    /\ pc = "handle" /\ idx \in DOMAIN window
    /\ Commit
    /\ idx' = idx + 1
    /\ UNCHANGED <<chainVars, trackerVars, subscribed, heightCh, fwdVars, shouldSync, pc,
                   loopVars, window, running, failed>>

\* A command or HandleEvents fails: SyncBlocks returns the error.
HandleEventsFail ==
    /\ pc = "handle" /\ idx \in DOMAIN window
    /\ Fault
    /\ Commit \/ UNCHANGED storeVars
    /\ pc' = "backoff"
    /\ UNCHANGED <<trackerVars, subscribed, heightCh, fwdVars, shouldSync, loopVars,
                   windowVars>>

\* Mutant of NextWindow: the next window starts at the last synced height.
NextWindowOverlaps ==
    /\ pc = "handle" /\ idx \notin DOMAIN window
    /\ cur' = EndHeight(cur, target)
    /\ pc' = IF cur' = target THEN "wait" ELSE "sync"
    /\ UNCHANGED <<chainVars, storeVars, trackerVars, subscribed, heightCh, fwdVars,
                   shouldSync, isRetry, latest, target, windowVars>>

NextWindow ==
    /\ pc = "handle" /\ idx \notin DOMAIN window
    /\ cur' = EndHeight(cur, target) + 1
    /\ pc' = "sync"
    /\ UNCHANGED <<chainVars, storeVars, trackerVars, subscribed, heightCh, fwdVars,
                   shouldSync, isRetry, latest, target, windowVars>>

\* Reading the last handled height fails.
ReadFail ==
    /\ pc = "read"
    /\ Fault
    /\ pc' = "backoff"
    /\ UNCHANGED <<storeVars, trackerVars, subscribed, heightCh, fwdVars, shouldSync,
                   loopVars, windowVars>>

-----------------------------------------------------------------------------

Tracker   == TrackerPoll \/ TrackerNotify \/ TrackerStore
Forwarder == ForwardHeight \/ DrainShouldSyncCh \/ RingShouldSyncCh
Manager   == \/ Boot \/ Subscribe \/ Check \/ Wait \/ Backoff
             \/ GetLastHandledEventHeight \/ SpawnWorkers \/ Synced \/ WindowDone
             \/ HandleEvents \/ NextWindow
Worker    == \E h \in running : WorkerPut(h)
Failure   == \/ \E h \in running : WorkerFail(h)
             \/ HandleEventsFail \/ ReadFail \/ Crash

Next == Produce \/ Tracker \/ Forwarder \/ Manager \/ Worker \/ Failure

Spec == Init /\ [][Next]_vars

\* Every goroutine keeps running; failures, crashes and blocks owe nothing.
Fairness == /\ WF_vars(Tracker) /\ WF_vars(Forwarder)
            /\ WF_vars(Manager) /\ WF_vars(Worker)

FairSpec == Spec /\ Fairness
-----------------------------------------------------------------------------
(* Properties *)

\* The values the variables of the program and of the store may take.
TypeOK ==
    /\ chain \in Nat /\ faults \in Nat /\ crashes \in Nat
    /\ log \in Seq([height : Nat, block : Nat])
    /\ lastHandled \in Nat \cup {Nil}
    /\ trkPc \in {"poll", "notify", "store"}
    /\ trkHeight \in Nat \cup {Nil} /\ trkLatest \in Nat \cup {Nil}
    /\ subscribed \in BOOLEAN /\ heightCh \in Nat \cup {Nil}
    /\ fwdPc \in {"recv", "drain", "send"} /\ mgrLatest \in Nat \cup {Nil}
    /\ shouldSync \in BOOLEAN
    /\ pc \in {"boot", "subscribe", "check", "read", "sync", "fetch", "handle",
               "wait", "backoff"}
    /\ isRetry \in BOOLEAN /\ latest \in Nat \cup {Nil}
    /\ cur \in Nat /\ target \in Nat
    /\ DOMAIN window \subseteq Nat
    /\ \A i \in DOMAIN window : window[i] \in Nat \cup {Nil}
    /\ running \subseteq Nat /\ failed \in BOOLEAN /\ idx \in Nat

\* The store holds the blocks 0, 1, 2, ... each once, in order and recorded at
\* their own height, and reports the last of them: whatever fails or crashes
\* between the blocks of a window, SyncBlocks resumes at the first missing one.
LogIsChainPrefix ==
    /\ \A i \in 1..Len(log) : log[i] = Entry(i - 1, i - 1)
    /\ IF log = << >> THEN lastHandled = Nil ELSE lastHandled = Len(log) - 1

\* No height is forgotten between the forwarder and the manager: if the manager
\* waits although a height other than the one it worked with has arrived, a
\* token is in shouldSyncCh or the forwarder is about to put one there (Run
\* sets the height before it drains and rings the channel).
NoLostWakeup ==
    pc = "wait" /\ mgrLatest # latest => shouldSync \/ fwdPc # "recv"

\* The window and its workers.  When the blocks of a window are handled every slot holds the block of its own
\* height, whatever order the workers ended in, and the block about to be
\* handled is the first one the store misses.
WindowComplete ==
    pc = "handle" =>
        /\ \A i \in DOMAIN window : window[i] = cur + i
        /\ cur + idx = Len(log)

\* Workers only request blocks the chain has and the store misses, also when a
\* retry has cut the target or a lagging node has reported a lower height.
RequestsAreNew == \A h \in running : Len(log) <= h /\ h <= chain

\* A window is the next missing part of the chain while it is fetched and while it
\* is handled, whatever retries, lag and failing workers have done to its bounds.
WindowIsSound == WindowComplete /\ RequestsAreNew

\* The detailed system implements the abstract index, each block exactly once.
IL == INSTANCE IndexLog WITH Repeats <- FALSE
ImplementsIndexLog == IL!Spec

\* If the node stops lagging one day, every block the chain has is indexed in the
\* end, although notifications are dropped (blockHeightCh is full), requests fail,
\* the process crashes and the retry loop gives up now and then.
CatchUp ==
    <>[][TrackerPoll => trkHeight' = chain]_vars
        => \A h \in 1..MaxHeight : chain >= h ~> Len(log) > h

=============================================================================
