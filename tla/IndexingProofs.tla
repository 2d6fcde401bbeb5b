------------------------- MODULE IndexingProofs --------------------------
(***************************************************************************)
(* Proofs about the two loops that index blocks, both of which implement   *)
(* IndexLog: SyncManager, for every window size, chain and number of       *)
(* failures and crashes, and ProjectionRunner, with and without lost       *)
(* replies, for every event store and number of failures and crashes.      *)
(***************************************************************************)
EXTENDS SyncManager, EventStoreRunner, SequenceTheorems, TLAPS

-----------------------------------------------------------------------------
(* The inductive invariant *)

\* Every height a goroutine remembers is one the chain has.
HeightsExist ==
    \A h \in {trkHeight, trkLatest, heightCh, mgrLatest, latest} :
        h # Nil => h <= chain

\* NoLostWakeup, from the moment the manager has read the height.
WakeupPending ==
    pc \notin {"boot", "subscribe", "check"} /\ mgrLatest # latest
        => shouldSync \/ fwdPc # "recv"

\* Inside SyncBlocks a height is known, and the target does not exceed it.
TargetExists ==
    /\ pc \in {"read", "sync", "fetch", "handle"} => latest # Nil
    /\ pc \in {"sync", "fetch", "handle"} => target <= latest
    /\ pc \in {"fetch", "handle"} => cur <= target

\* Where the window stands relative to the store.
WindowFollowsLog ==
    /\ pc \in {"sync", "fetch"} => cur = Len(log)
    /\ pc \in {"fetch", "handle"} => DOMAIN window = 0..(EndHeight(cur, target) - cur)
    /\ pc = "fetch" =>
          /\ running \subseteq cur..EndHeight(cur, target)
          /\ ~failed => \A i \in DOMAIN window : cur + i \in running \/ window[i] = cur + i
    /\ pc # "fetch" => running = {}
    /\ pc = "handle" => idx <= EndHeight(cur, target) - cur + 1

IndInv ==
    /\ TypeOK
    /\ LogIsChainPrefix
    /\ HeightsExist
    /\ WakeupPending
    /\ TargetExists
    /\ WindowFollowsLog
    /\ WindowComplete
-----------------------------------------------------------------------------

\* A window starts at the current height and does not pass the target.
LEMMA EndHeightBounds ==
    ASSUME NEW from \in Nat, NEW tip \in Nat, from <= tip
    PROVE  EndHeight(from, tip) \in from..tip
  BY WindowAssumption DEF EndHeight

\* Committing the first missing block at its height extends the prefix by it.
LEMMA CommitExtendsPrefix ==
    ASSUME TypeOK, LogIsChainPrefix, WindowComplete, pc = "handle",
           idx \in DOMAIN window, Commit
    PROVE  /\ log' \in Seq([height : Nat, block : Nat])
           /\ lastHandled' \in Nat
           /\ Len(log') = Len(log) + 1
           /\ LogIsChainPrefix'
  <1>1. window[idx] = Len(log) /\ cur + idx = Len(log)
    BY DEF WindowComplete, TypeOK
  <1>2. Len(log) \in Nat /\ Entry(Len(log), Len(log)) \in [height : Nat, block : Nat]
    BY DEF TypeOK, Entry
  <1>3. log' = Append(log, Entry(Len(log), Len(log))) /\ lastHandled' = Len(log)
    BY <1>1 DEF Commit
  <1>4. /\ log' \in Seq([height : Nat, block : Nat])
        /\ Len(log') = Len(log) + 1
        /\ log' # << >>
        /\ \A i \in 1..Len(log) : log'[i] = log[i]
        /\ log'[Len(log) + 1] = Entry(Len(log), Len(log))
    BY <1>2, <1>3 DEF TypeOK
  <1>5. \A i \in 1..Len(log') : log'[i] = Entry(i - 1, i - 1)
    <2> SUFFICES ASSUME NEW i \in 1..Len(log') PROVE log'[i] = Entry(i - 1, i - 1)
      OBVIOUS
    <2>1. CASE i \in 1..Len(log)
      BY <1>4, <2>1 DEF LogIsChainPrefix
    <2>2. CASE i = Len(log) + 1
      <3>1. i - 1 = Len(log)
        BY <1>2, <2>2
      <3> QED
        BY <1>4, <2>2, <3>1
    <2> QED
      BY <1>2, <1>4, <2>1, <2>2
  <1> QED
    BY <1>2, <1>3, <1>4, <1>5 DEF LogIsChainPrefix

\* Every step of every goroutine, failure and crash preserves the invariant.
LEMMA IndInvStep == IndInv /\ [Next]_vars => IndInv'
  <1> SUFFICES ASSUME IndInv, [Next]_vars PROVE IndInv'
    OBVIOUS
  <1> USE NilAssumption, WindowAssumption, BoundsAssumption
  <1>1. CASE Produce
    BY <1>1 DEF Produce, IndInv, TypeOK, LogIsChainPrefix, HeightsExist, WakeupPending, TargetExists, WindowFollowsLog, WindowComplete, chainVars, storeVars, trackerVars, fwdVars, loopVars, windowVars
  <1>2. CASE Crash
    <2>1. TypeOK'
      <3>1. /\ subscribed' \in BOOLEAN /\ shouldSync' \in BOOLEAN
            /\ isRetry' \in BOOLEAN /\ failed' \in BOOLEAN
        BY <1>2, Zenon DEF Crash
      <3>2. DOMAIN window' \subseteq Nat /\ \A i \in DOMAIN window' : window'[i] \in Nat \cup {Nil}
        BY <1>2 DEF Crash
      <3> QED
        BY <1>2, <3>1, <3>2 DEF Crash, IndInv, TypeOK, chainVars, storeVars, trackerVars, fwdVars, loopVars, windowVars
    <2>2. LogIsChainPrefix'
      BY <1>2 DEF Crash, IndInv, LogIsChainPrefix, TypeOK, chainVars, storeVars, trackerVars, fwdVars, loopVars, windowVars
    <2>3. HeightsExist'
      BY <1>2 DEF Crash, IndInv, HeightsExist, TypeOK, chainVars, storeVars, trackerVars, fwdVars, loopVars, windowVars
    <2>4. WakeupPending'
      BY <1>2 DEF Crash, IndInv, WakeupPending, TypeOK, chainVars, storeVars, trackerVars, fwdVars, loopVars, windowVars
    <2>5. TargetExists'
      BY <1>2 DEF Crash, IndInv, TargetExists, TypeOK, chainVars, storeVars, trackerVars, fwdVars, loopVars, windowVars
    <2>6. WindowFollowsLog'
      BY <1>2 DEF Crash, IndInv, WindowFollowsLog, TypeOK, TargetExists, chainVars, storeVars, trackerVars, fwdVars, loopVars, windowVars
    <2>7. WindowComplete'
      BY <1>2 DEF Crash, IndInv, WindowComplete, TypeOK, WindowFollowsLog, chainVars, storeVars, trackerVars, fwdVars, loopVars, windowVars
    <2> QED
      BY <2>1, <2>2, <2>3, <2>4, <2>5, <2>6, <2>7 DEF IndInv
  <1>3. CASE TrackerPoll
    BY <1>3 DEF TrackerPoll, IndInv, TypeOK, LogIsChainPrefix, HeightsExist, WakeupPending, TargetExists, WindowFollowsLog, WindowComplete, chainVars, storeVars, trackerVars, fwdVars, loopVars, windowVars
  <1>4. CASE TrackerNotify
    BY <1>4 DEF TrackerNotify, IndInv, TypeOK, LogIsChainPrefix, HeightsExist, WakeupPending, TargetExists, WindowFollowsLog, WindowComplete, chainVars, storeVars, trackerVars, fwdVars, loopVars, windowVars
  <1>5. CASE TrackerStore
    BY <1>5 DEF TrackerStore, IndInv, TypeOK, LogIsChainPrefix, HeightsExist, WakeupPending, TargetExists, WindowFollowsLog, WindowComplete, chainVars, storeVars, trackerVars, fwdVars, loopVars, windowVars
  <1>6. CASE ForwardHeight
    BY <1>6 DEF ForwardHeight, IndInv, TypeOK, LogIsChainPrefix, HeightsExist, WakeupPending, TargetExists, WindowFollowsLog, WindowComplete, chainVars, storeVars, trackerVars, fwdVars, loopVars, windowVars
  <1>7. CASE DrainShouldSyncCh
    <2>1. TypeOK'
      <3>1. shouldSync' \in BOOLEAN
        BY <1>7, Zenon DEF DrainShouldSyncCh
      <3> QED
        BY <1>7, <3>1 DEF DrainShouldSyncCh, IndInv, TypeOK, chainVars, storeVars, trackerVars, fwdVars, loopVars, windowVars
    <2>2. LogIsChainPrefix'
      BY <1>7 DEF DrainShouldSyncCh, IndInv, LogIsChainPrefix, TypeOK, chainVars, storeVars, trackerVars, fwdVars, loopVars, windowVars
    <2>3. HeightsExist'
      BY <1>7 DEF DrainShouldSyncCh, IndInv, HeightsExist, TypeOK, chainVars, storeVars, trackerVars, fwdVars, loopVars, windowVars
    <2>4. WakeupPending'
      BY <1>7 DEF DrainShouldSyncCh, IndInv, WakeupPending, TypeOK, chainVars, storeVars, trackerVars, fwdVars, loopVars, windowVars
    <2>5. TargetExists'
      BY <1>7 DEF DrainShouldSyncCh, IndInv, TargetExists, TypeOK, chainVars, storeVars, trackerVars, fwdVars, loopVars, windowVars
    <2>6. WindowFollowsLog'
      BY <1>7 DEF DrainShouldSyncCh, IndInv, WindowFollowsLog, TypeOK, TargetExists, chainVars, storeVars, trackerVars, fwdVars, loopVars, windowVars
    <2>7. WindowComplete'
      BY <1>7 DEF DrainShouldSyncCh, IndInv, WindowComplete, TypeOK, WindowFollowsLog, chainVars, storeVars, trackerVars, fwdVars, loopVars, windowVars
    <2> QED
      BY <2>1, <2>2, <2>3, <2>4, <2>5, <2>6, <2>7 DEF IndInv
  <1>8. CASE RingShouldSyncCh
    BY <1>8 DEF RingShouldSyncCh, IndInv, TypeOK, LogIsChainPrefix, HeightsExist, WakeupPending, TargetExists, WindowFollowsLog, WindowComplete, chainVars, storeVars, trackerVars, fwdVars, loopVars, windowVars
  <1>9. CASE Boot
    BY <1>9 DEF Boot, IndInv, TypeOK, LogIsChainPrefix, HeightsExist, WakeupPending, TargetExists, WindowFollowsLog, WindowComplete, chainVars, storeVars, trackerVars, fwdVars, loopVars, windowVars
  <1>10. CASE Subscribe
    BY <1>10 DEF Subscribe, IndInv, TypeOK, LogIsChainPrefix, HeightsExist, WakeupPending, TargetExists, WindowFollowsLog, WindowComplete, chainVars, storeVars, trackerVars, fwdVars, loopVars, windowVars
  <1>11. CASE Check
    BY <1>11 DEF Check, IndInv, TypeOK, LogIsChainPrefix, HeightsExist, WakeupPending, TargetExists, WindowFollowsLog, WindowComplete, chainVars, storeVars, trackerVars, fwdVars, loopVars, windowVars
  <1>12. CASE Wait
    <2>1. TypeOK'
      <3>1. shouldSync' \in BOOLEAN /\ isRetry' \in BOOLEAN
        BY <1>12, Zenon DEF Wait, IndInv, TypeOK
      <3> QED
        BY <1>12, <3>1 DEF Wait, IndInv, TypeOK, chainVars, storeVars, trackerVars, fwdVars, loopVars, windowVars
    <2>2. LogIsChainPrefix'
      BY <1>12 DEF Wait, IndInv, LogIsChainPrefix, TypeOK, chainVars, storeVars, trackerVars, fwdVars, loopVars, windowVars
    <2>3. HeightsExist'
      BY <1>12 DEF Wait, IndInv, HeightsExist, TypeOK, chainVars, storeVars, trackerVars, fwdVars, loopVars, windowVars
    <2>4. WakeupPending'
      BY <1>12 DEF Wait, IndInv, WakeupPending, TypeOK, chainVars, storeVars, trackerVars, fwdVars, loopVars, windowVars
    <2>5. TargetExists'
      BY <1>12 DEF Wait, IndInv, TargetExists, TypeOK, chainVars, storeVars, trackerVars, fwdVars, loopVars, windowVars
    <2>6. WindowFollowsLog'
      BY <1>12 DEF Wait, IndInv, WindowFollowsLog, TypeOK, TargetExists, chainVars, storeVars, trackerVars, fwdVars, loopVars, windowVars
    <2>7. WindowComplete'
      BY <1>12 DEF Wait, IndInv, WindowComplete, TypeOK, WindowFollowsLog, chainVars, storeVars, trackerVars, fwdVars, loopVars, windowVars
    <2> QED
      BY <2>1, <2>2, <2>3, <2>4, <2>5, <2>6, <2>7 DEF IndInv
  <1>13. CASE Backoff
    BY <1>13 DEF Backoff, IndInv, TypeOK, LogIsChainPrefix, HeightsExist, WakeupPending, TargetExists, WindowFollowsLog, WindowComplete, chainVars, storeVars, trackerVars, fwdVars, loopVars, windowVars
  <1>14. CASE GetLastHandledEventHeight
    BY <1>14 DEF GetLastHandledEventHeight, FirstHeight, TargetHeight, IndInv, TypeOK, LogIsChainPrefix, HeightsExist, WakeupPending, TargetExists, WindowFollowsLog, WindowComplete, chainVars, storeVars, trackerVars, fwdVars, loopVars, windowVars
  <1>15. CASE SpawnWorkers
    <2>1. TypeOK'
      <3>1. EndHeight(cur, target) \in cur..target
        BY <1>15, EndHeightBounds DEF SpawnWorkers, IndInv, TypeOK
      <3>2. failed' \in BOOLEAN
        BY <1>15, Zenon DEF SpawnWorkers
      <3>3. /\ DOMAIN window' \subseteq Nat
            /\ \A i \in DOMAIN window' : window'[i] \in Nat \cup {Nil}
            /\ running' \subseteq Nat
        BY <1>15, <3>1 DEF SpawnWorkers, IndInv, TypeOK
      <3> QED
        BY <1>15, <3>2, <3>3 DEF SpawnWorkers, IndInv, TypeOK, chainVars, storeVars, trackerVars, fwdVars, loopVars, windowVars
    <2>2. LogIsChainPrefix'
      BY <1>15 DEF SpawnWorkers, IndInv, LogIsChainPrefix, TypeOK, chainVars, storeVars, trackerVars, fwdVars, loopVars, windowVars
    <2>3. HeightsExist'
      BY <1>15 DEF SpawnWorkers, IndInv, HeightsExist, TypeOK, chainVars, storeVars, trackerVars, fwdVars, loopVars, windowVars
    <2>4. WakeupPending'
      BY <1>15 DEF SpawnWorkers, IndInv, WakeupPending, TypeOK, chainVars, storeVars, trackerVars, fwdVars, loopVars, windowVars
    <2>5. TargetExists'
      BY <1>15, EndHeightBounds DEF SpawnWorkers, IndInv, TargetExists, TypeOK, WindowFollowsLog, WindowComplete, chainVars, storeVars, trackerVars, fwdVars, loopVars, windowVars
    <2>6. WindowFollowsLog'
      BY <1>15, EndHeightBounds DEF SpawnWorkers, IndInv, WindowFollowsLog, TypeOK, TargetExists, WindowComplete, chainVars, storeVars, trackerVars, fwdVars, loopVars, windowVars
    <2>7. WindowComplete'
      BY <1>15, EndHeightBounds DEF SpawnWorkers, IndInv, WindowComplete, TypeOK, TargetExists, WindowFollowsLog, chainVars, storeVars, trackerVars, fwdVars, loopVars, windowVars
    <2> QED
      BY <2>1, <2>2, <2>3, <2>4, <2>5, <2>6, <2>7 DEF IndInv
  <1>16. CASE Synced
    BY <1>16 DEF Synced, IndInv, TypeOK, LogIsChainPrefix, HeightsExist, WakeupPending, TargetExists, WindowFollowsLog, WindowComplete, chainVars, storeVars, trackerVars, fwdVars, loopVars, windowVars
  <1>17. CASE WindowDone
    <2>1. TypeOK'
      BY <1>17, EndHeightBounds DEF WindowDone, IndInv, TypeOK, TargetExists, WindowFollowsLog, WindowComplete, chainVars, storeVars, trackerVars, fwdVars, loopVars, windowVars
    <2>2. LogIsChainPrefix'
      BY <1>17 DEF WindowDone, IndInv, LogIsChainPrefix, TypeOK, chainVars, storeVars, trackerVars, fwdVars, loopVars, windowVars
    <2>3. HeightsExist'
      BY <1>17 DEF WindowDone, IndInv, HeightsExist, TypeOK, chainVars, storeVars, trackerVars, fwdVars, loopVars, windowVars
    <2>4. WakeupPending'
      BY <1>17 DEF WindowDone, IndInv, WakeupPending, TypeOK, chainVars, storeVars, trackerVars, fwdVars, loopVars, windowVars
    <2>5. TargetExists'
      BY <1>17, EndHeightBounds DEF WindowDone, IndInv, TargetExists, TypeOK, WindowFollowsLog, WindowComplete, chainVars, storeVars, trackerVars, fwdVars, loopVars, windowVars
    <2>6. WindowFollowsLog'
      BY <1>17, EndHeightBounds DEF WindowDone, IndInv, WindowFollowsLog, TypeOK, TargetExists, WindowComplete, chainVars, storeVars, trackerVars, fwdVars, loopVars, windowVars
    <2>7. WindowComplete'
      BY <1>17, EndHeightBounds DEF WindowDone, IndInv, WindowComplete, TypeOK, TargetExists, WindowFollowsLog, chainVars, storeVars, trackerVars, fwdVars, loopVars, windowVars
    <2> QED
      BY <2>1, <2>2, <2>3, <2>4, <2>5, <2>6, <2>7 DEF IndInv
  <1>18. CASE HandleEvents
    <2>0. /\ log' \in Seq([height : Nat, block : Nat]) /\ lastHandled' \in Nat
          /\ Len(log') = Len(log) + 1 /\ LogIsChainPrefix'
      BY <1>18, CommitExtendsPrefix DEF HandleEvents, IndInv
    <2>1. TypeOK'
      BY <1>18, <2>0 DEF HandleEvents, IndInv, TypeOK, chainVars, storeVars, trackerVars, fwdVars, loopVars, windowVars
    <2>2. LogIsChainPrefix'
      BY <2>0
    <2>3. HeightsExist'
      BY <1>18 DEF HandleEvents, Commit, Entry, IndInv, HeightsExist, TypeOK, chainVars, storeVars, trackerVars, fwdVars, loopVars, windowVars
    <2>4. WakeupPending'
      BY <1>18 DEF HandleEvents, Commit, Entry, IndInv, WakeupPending, TypeOK, chainVars, storeVars, trackerVars, fwdVars, loopVars, windowVars
    <2>5. TargetExists'
      BY <1>18 DEF HandleEvents, Commit, Entry, IndInv, TargetExists, TypeOK, chainVars, storeVars, trackerVars, fwdVars, loopVars, windowVars
    <2>6. WindowFollowsLog'
      <3>1. EndHeight(cur, target) \in cur..target
        BY <1>18, EndHeightBounds DEF HandleEvents, IndInv, TypeOK, TargetExists
      <3>2. idx \in 0..(EndHeight(cur, target) - cur)
        BY <1>18 DEF HandleEvents, IndInv, WindowFollowsLog
      <3>3. idx + 1 <= EndHeight(cur, target) - cur + 1
        BY <3>1, <3>2 DEF IndInv, TypeOK
      <3>4. EndHeight(cur, target)' = EndHeight(cur, target)
        BY <1>18 DEF HandleEvents, EndHeight, loopVars
      <3> QED
        BY <1>18, <3>3, <3>4 DEF HandleEvents, IndInv, WindowFollowsLog, chainVars, storeVars, trackerVars, fwdVars, loopVars, windowVars
    <2>7. WindowComplete'
      BY <1>18, <2>0 DEF HandleEvents, IndInv, WindowComplete, TypeOK, chainVars, storeVars, trackerVars, fwdVars, loopVars, windowVars
    <2> QED
      BY <2>1, <2>2, <2>3, <2>4, <2>5, <2>6, <2>7 DEF IndInv
  <1>19. CASE NextWindow
    <2>0. EndHeight(cur, target) \in cur..target
      BY <1>19, EndHeightBounds DEF NextWindow, IndInv, TypeOK, TargetExists
    <2>1. TypeOK'
      BY <1>19, <2>0 DEF NextWindow, IndInv, TypeOK, chainVars, storeVars, trackerVars, fwdVars, loopVars, windowVars
    <2>2. LogIsChainPrefix'
      BY <1>19 DEF NextWindow, IndInv, LogIsChainPrefix, TypeOK, chainVars, storeVars, trackerVars, fwdVars, loopVars, windowVars
    <2>3. HeightsExist'
      BY <1>19 DEF NextWindow, IndInv, HeightsExist, TypeOK, chainVars, storeVars, trackerVars, fwdVars, loopVars, windowVars
    <2>4. WakeupPending'
      BY <1>19 DEF NextWindow, IndInv, WakeupPending, TypeOK, chainVars, storeVars, trackerVars, fwdVars, loopVars, windowVars
    <2>5. TargetExists'
      BY <1>19, EndHeightBounds DEF NextWindow, IndInv, TargetExists, TypeOK, WindowFollowsLog, WindowComplete, chainVars, storeVars, trackerVars, fwdVars, loopVars, windowVars
    <2>6. WindowFollowsLog'
      <3>1. idx = EndHeight(cur, target) - cur + 1
        <4>1. /\ idx \notin 0..(EndHeight(cur, target) - cur)
              /\ idx <= EndHeight(cur, target) - cur + 1
          BY <1>19 DEF NextWindow, IndInv, WindowFollowsLog
        <4> QED
          BY <2>0, <4>1 DEF IndInv, TypeOK
      <3>2. cur' = Len(log)
        BY <1>19, <2>0, <3>1 DEF NextWindow, IndInv, TypeOK, WindowComplete
      <3> QED
        BY <1>19, <3>2 DEF NextWindow, IndInv, WindowFollowsLog, chainVars, storeVars, trackerVars, fwdVars, loopVars, windowVars
    <2>7. WindowComplete'
      BY <1>19, EndHeightBounds DEF NextWindow, IndInv, WindowComplete, TypeOK, TargetExists, WindowFollowsLog, chainVars, storeVars, trackerVars, fwdVars, loopVars, windowVars
    <2> QED
      BY <2>1, <2>2, <2>3, <2>4, <2>5, <2>6, <2>7 DEF IndInv
  <1>20. CASE HandleEventsFail
    <2>0. /\ log' \in Seq([height : Nat, block : Nat]) /\ lastHandled' \in Nat \cup {Nil}
          /\ LogIsChainPrefix'
      <3>1. CASE Commit
        BY <1>20, <3>1, CommitExtendsPrefix DEF HandleEventsFail, IndInv
      <3>2. CASE UNCHANGED storeVars
        BY <3>2 DEF storeVars, IndInv, TypeOK, LogIsChainPrefix
      <3> QED
        BY <1>20, <3>1, <3>2 DEF HandleEventsFail
    <2>1. TypeOK'
      BY <1>20, <2>0 DEF HandleEventsFail, Fault, IndInv, TypeOK, chainVars, storeVars, trackerVars, fwdVars, loopVars, windowVars
    <2>2. LogIsChainPrefix'
      BY <2>0
    <2>3. HeightsExist'
      BY <1>20 DEF HandleEventsFail, Commit, Entry, Fault, IndInv, HeightsExist, TypeOK, chainVars, storeVars, trackerVars, fwdVars, loopVars, windowVars
    <2>4. WakeupPending'
      BY <1>20 DEF HandleEventsFail, Commit, Entry, Fault, IndInv, WakeupPending, TypeOK, chainVars, storeVars, trackerVars, fwdVars, loopVars, windowVars
    <2>5. TargetExists'
      BY <1>20 DEF HandleEventsFail, Commit, Entry, Fault, IndInv, TargetExists, TypeOK, chainVars, storeVars, trackerVars, fwdVars, loopVars, windowVars
    <2>6. WindowFollowsLog'
      BY <1>20 DEF HandleEventsFail, Commit, Entry, Fault, IndInv, WindowFollowsLog, TypeOK, TargetExists, WindowComplete, chainVars, storeVars, trackerVars, fwdVars, loopVars, windowVars
    <2>7. WindowComplete'
      BY <1>20 DEF HandleEventsFail, Commit, Entry, Fault, IndInv, WindowComplete, TypeOK, WindowFollowsLog, chainVars, storeVars, trackerVars, fwdVars, loopVars, windowVars
    <2> QED
      BY <2>1, <2>2, <2>3, <2>4, <2>5, <2>6, <2>7 DEF IndInv
  <1>21. CASE ReadFail
    BY <1>21 DEF ReadFail, Fault, IndInv, TypeOK, LogIsChainPrefix, HeightsExist, WakeupPending, TargetExists, WindowFollowsLog, WindowComplete, chainVars, storeVars, trackerVars, fwdVars, loopVars, windowVars
  <1>22. CASE \E h \in running : WorkerPut(h)
    BY <1>22, SMTT(60) DEF WorkerPut, Fault, IndInv, TypeOK, LogIsChainPrefix, HeightsExist, WakeupPending, TargetExists, WindowFollowsLog, WindowComplete, chainVars, storeVars, trackerVars, fwdVars, loopVars, windowVars
  <1>23. CASE \E h \in running : WorkerFail(h)
    BY <1>23 DEF WorkerFail, Fault, IndInv, TypeOK, LogIsChainPrefix, HeightsExist, WakeupPending, TargetExists, WindowFollowsLog, WindowComplete, chainVars, storeVars, trackerVars, fwdVars, loopVars, windowVars
  <1>24. CASE UNCHANGED vars
    BY <1>24 DEF vars, IndInv, TypeOK, LogIsChainPrefix, HeightsExist, WakeupPending, TargetExists, WindowFollowsLog, WindowComplete, chainVars, storeVars, trackerVars, fwdVars, loopVars, windowVars
  <1> QED
    BY <1>1, <1>2, <1>3, <1>4, <1>5, <1>6, <1>7, <1>8, <1>9, <1>10, <1>11, <1>12, <1>13, <1>14, <1>15, <1>16, <1>17, <1>18, <1>19, <1>20, <1>21, <1>22, <1>23, <1>24 DEF Next, Tracker, Forwarder, Manager, Worker, Failure

\* A fresh process on an empty store satisfies the invariant.
LEMMA IndInvInit == Init => IndInv
  <1> SUFFICES ASSUME Init PROVE IndInv
    OBVIOUS
  <1>1. /\ subscribed \in BOOLEAN /\ shouldSync \in BOOLEAN
        /\ isRetry \in BOOLEAN /\ failed \in BOOLEAN
    BY Zenon DEF Init, Fresh
  <1>2. TypeOK
    BY <1>1 DEF Init, Fresh, TypeOK
  <1>3. LogIsChainPrefix
    BY DEF Init, LogIsChainPrefix
  <1> QED
    BY <1>2, <1>3 DEF Init, Fresh, IndInv, HeightsExist, WakeupPending, TargetExists,
                      WindowFollowsLog, WindowComplete

\* The inductive invariant holds in every reachable state.
THEOREM Invariance == Spec => []IndInv
  BY IndInvInit, IndInvStep, PTL DEF Spec

-----------------------------------------------------------------------------
(* What follows from it *)

\* Type correctness of the synchroniser.
THEOREM TypeCorrect == Spec => []TypeOK
  <1>1. IndInv => TypeOK
    BY DEF IndInv
  <1> QED
    BY <1>1, Invariance, PTL

\* However the process fails or crashes, the store is a gapless prefix of the
\* chain, every block applied once at its own height (SyncBlocks).
THEOREM StoreIsChainPrefix == Spec => []LogIsChainPrefix
  <1>1. IndInv => LogIsChainPrefix
    BY DEF IndInv
  <1> QED
    BY <1>1, Invariance, PTL

\* A height that arrives while the manager works always ends its next wait (Run).
THEOREM NoWakeupIsLost == Spec => []NoLostWakeup
  <1>1. IndInv => NoLostWakeup
    BY DEF IndInv, WakeupPending, NoLostWakeup
  <1> QED
    BY <1>1, Invariance, PTL

\* A window is handed to the event handler complete and in order (Window.Sync).
THEOREM WindowIsComplete == Spec => []WindowComplete
  <1>1. IndInv => WindowComplete
    BY DEF IndInv
  <1> QED
    BY <1>1, Invariance, PTL

\* The heights of a window exist on the chain.
LEMMA TargetOnChain ==
    ASSUME IndInv, pc \in {"fetch", "handle"}
    PROVE  /\ EndHeight(cur, target) \in cur..target
           /\ target <= chain
  <1>1. EndHeight(cur, target) \in cur..target
    BY EndHeightBounds DEF IndInv, TypeOK, TargetExists
  <1>2. latest # Nil /\ latest <= chain /\ target <= latest
    BY DEF IndInv, TargetExists, HeightsExist
  <1>3. latest \in Nat /\ target \in Nat /\ chain \in Nat
    BY <1>2 DEF IndInv, TypeOK
  <1> QED
    BY <1>1, <1>2, <1>3

\* Workers never ask the node for a block it does not have or that is stored
\* already, whatever heights were reported and whatever was retried.
THEOREM WorkersRequestNewBlocks == Spec => []RequestsAreNew
  <1>1. IndInv => RequestsAreNew
    <2> SUFFICES ASSUME IndInv, NEW h \in running PROVE Len(log) <= h /\ h <= chain
      BY DEF RequestsAreNew
    <2>1. pc = "fetch"
      BY DEF IndInv, WindowFollowsLog
    <2>2. cur = Len(log) /\ h \in cur..EndHeight(cur, target)
      BY <2>1 DEF IndInv, WindowFollowsLog
    <2> QED
      BY <2>1, <2>2, TargetOnChain DEF IndInv, TypeOK
  <1> QED
    BY <1>1, Invariance, PTL

\* A window stays the next missing part of the chain (SyncBlocks, Window.Sync).
THEOREM WindowStaysSound == Spec => []WindowIsSound
  BY WindowIsComplete, WorkersRequestNewBlocks, PTL DEF WindowIsSound

-----------------------------------------------------------------------------
(* The synchroniser implements the abstract index *)

\* A commit is the abstract Apply: the block exists and is the next one.
LEMMA CommitIsApply ==
    ASSUME IndInv, pc = "handle", idx \in DOMAIN window, Commit, chain' = chain
    PROVE  IL!Apply
  <1>1. window[idx] = Len(log) /\ cur + idx = Len(log)
    BY DEF IndInv, WindowComplete, TypeOK
  <1>2. EndHeight(cur, target) \in cur..target /\ target <= chain
    BY TargetOnChain
  <1>3. idx \in 0..(EndHeight(cur, target) - cur)
    BY DEF IndInv, WindowFollowsLog
  <1>4. Len(log) <= chain
    BY <1>1, <1>2, <1>3 DEF IndInv, TypeOK
  <1>5. IL!Upcoming = Len(log)
    <2>1. CASE log = << >>
      BY <2>1 DEF IndInv, LogIsChainPrefix, IL!Upcoming
    <2>2. CASE log # << >>
      <3>1. lastHandled = Len(log) - 1 /\ Len(log) - 1 \in Int /\ lastHandled # Nil
        BY <2>2, NilAssumption DEF IndInv, TypeOK, LogIsChainPrefix
      <3> QED
        BY <3>1 DEF IL!Upcoming
    <2> QED
      BY <2>1, <2>2
  <1> QED
    BY <1>1, <1>4, <1>5 DEF Commit, Entry, IL!Apply, IL!Entry

\* Every other step leaves the store alone and at most lets the chain grow.
LEMMA StepSimulation == IndInv /\ [Next]_vars => [IL!Next]_(IL!vars)
  <1> SUFFICES ASSUME IndInv, [Next]_vars PROVE [IL!Next]_(IL!vars)
    OBVIOUS
  <1>1. CASE Produce
    BY <1>1 DEF Produce, storeVars, IL!Next, IL!Produce
  <1>2. CASE HandleEvents
    BY <1>2, CommitIsApply DEF HandleEvents, chainVars, IL!Next
  <1>3. CASE HandleEventsFail
    BY <1>3, CommitIsApply DEF HandleEventsFail, Fault, storeVars, IL!Next, IL!vars
  <1>4. CASE Tracker \/ Forwarder
    BY <1>4 DEF Tracker, TrackerPoll, TrackerNotify, TrackerStore, Forwarder,
                ForwardHeight, DrainShouldSyncCh, RingShouldSyncCh,
                chainVars, storeVars, IL!vars
  <1>5. CASE \/ Boot \/ Subscribe \/ Check \/ Wait \/ Backoff
             \/ GetLastHandledEventHeight \/ SpawnWorkers \/ Synced \/ WindowDone
             \/ NextWindow \/ Worker
    BY <1>5 DEF Boot, Subscribe, Check, Wait, Backoff, GetLastHandledEventHeight,
                SpawnWorkers, Synced, WindowDone, NextWindow, Worker, WorkerPut,
                chainVars, storeVars, IL!vars
  <1>6. CASE \/ \E h \in running : WorkerFail(h)
             \/ ReadFail \/ Crash
    BY <1>6 DEF WorkerFail, ReadFail, Crash, Fault, storeVars, IL!vars
  <1>7. CASE UNCHANGED vars
    BY <1>7 DEF vars, chainVars, storeVars, IL!vars
  <1> QED
    BY <1>1, <1>2, <1>3, <1>4, <1>5, <1>6, <1>7 DEF Next, Manager, Failure

\* The synchroniser, with its goroutines, windows, retries and restarts, does
\* nothing an index that applies one block after the other could not do.
THEOREM Refinement == Spec => ImplementsIndexLog
  <1>1. Init => IL!Init
    BY DEF Init, IL!Init
  <1> QED
    BY <1>1, StepSimulation, Invariance, PTL DEF Spec, IL!Spec, ImplementsIndexLog

-----------------------------------------------------------------------------
(* The runner of a projection *)

\* Without lost replies, every height is applied exactly once.
ExactlyOnce ==
    ~LostReplies => \A i \in 1..Len(rLog) : rLog[i] = R!Entry(i - 1, i - 1)

\* nextEventHeight is the first unhandled height, or, after a lost reply, the
\* last handled one.
NextIsNear ==
    rPc # "start" =>
        \/ next = R!FirstHeight(rHandled)
        \/ LostReplies /\ next = rHandled

\* Inside the loop the height read and the one handled exist in the store.
ReadsExist ==
    /\ rPc \in {"next", "handle"} => rLatest # NoHeight /\ rLatest < stored
    /\ rPc = "handle" => next <= rLatest /\ events = next

\* RepeatsNeedFailures, counting the repetition that is still to come.
RepeatsCounted ==
    /\ Len(rLog) <= R!FirstHeight(rHandled) + rFaults
    /\ rPc # "start" => Len(rLog) <= next + rFaults

\* Without lost replies the log is as long as the heights handled.
LengthExact == ~LostReplies => Len(rLog) = R!FirstHeight(rHandled)

RunnerInv ==
    /\ R!TypeOK
    /\ R!AppliedInOrder
    /\ ExactlyOnce
    /\ NextIsNear
    /\ ReadsExist
    /\ RepeatsCounted
    /\ LengthExact

\* A commit of the next height keeps the log in order.
LEMMA CommitKeepsOrder ==
    ASSUME RunnerInv, rPc = "handle", R!Commit
    PROVE  /\ rLog' \in Seq([height : Nat, block : Nat])
           /\ rHandled' = next /\ next \in Nat
           /\ Len(rLog') = Len(rLog) + 1
           /\ R!AppliedInOrder'
           /\ ExactlyOnce'
  <1>1. /\ rLog \in Seq([height : Nat, block : Nat]) /\ next \in Nat /\ events = next
        /\ Len(rLog) \in Nat
    BY DEF RunnerInv, R!TypeOK, ReadsExist
  <1>2. R!Entry(next, next) \in [height : Nat, block : Nat]
    BY <1>1 DEF R!Entry
  <1>3. /\ rLog' \in Seq([height : Nat, block : Nat])
        /\ Len(rLog') = Len(rLog) + 1
        /\ rLog' # << >>
        /\ \A i \in 1..Len(rLog) : rLog'[i] = rLog[i]
        /\ rLog'[Len(rLog) + 1] = R!Entry(next, next)
    BY <1>1, <1>2 DEF R!Commit
  <1>4. rHandled' = next
    BY DEF R!Commit
  <1>5. rLog'[Len(rLog')].height = next
    BY <1>1, <1>3 DEF R!Entry
  <1>6. \A i \in 1..Len(rLog') : rLog'[i].height = rLog'[i].block
    <2> SUFFICES ASSUME NEW i \in 1..Len(rLog') PROVE rLog'[i].height = rLog'[i].block
      OBVIOUS
    <2>1. CASE i \in 1..Len(rLog)
      BY <1>3, <2>1 DEF RunnerInv, R!AppliedInOrder
    <2>2. CASE i = Len(rLog) + 1
      BY <1>3, <2>2 DEF R!Entry
    <2> QED
      BY <1>1, <1>3, <2>1, <2>2
  <1>7. rLog = << >> => next = 0
    <2>1. rLog = << >> => rHandled = NoHeight
      BY DEF RunnerInv, R!AppliedInOrder
    <2>2. rHandled = NoHeight => next = 0
      BY <1>1, NoHeightAssumption DEF RunnerInv, NextIsNear, R!FirstHeight
    <2> QED
      BY <2>1, <2>2
  <1>8. rLog # << >> => /\ Len(rLog) >= 1 /\ rLog[Len(rLog)].height \in Nat
                       /\ next - rLog[Len(rLog)].height \in {0, 1}
    <2> SUFFICES ASSUME rLog # << >>
                 PROVE  /\ Len(rLog) >= 1 /\ rLog[Len(rLog)].height \in Nat
                        /\ next - rLog[Len(rLog)].height \in {0, 1}
      OBVIOUS
    <2>1. Len(rLog) >= 1
      BY <1>1
    <2>2. rLog[Len(rLog)] \in [height : Nat, block : Nat]
      <3>1. Len(rLog) \in 1..Len(rLog)
        BY <1>1, <2>1
      <3> QED
        BY <1>1, <3>1, ElementOfSeq
    <2>3. rHandled = rLog[Len(rLog)].height
      BY DEF RunnerInv, R!AppliedInOrder
    <2>4. next = rHandled + 1 \/ next = rHandled
      BY <2>2, <2>3, NoHeightAssumption DEF RunnerInv, NextIsNear, R!FirstHeight
    <2> QED
      BY <1>1, <2>1, <2>2, <2>3, <2>4
  <1>9. rLog'[1].height = 0
    <2>1. CASE rLog = << >>
      BY <1>3, <1>7, <2>1 DEF R!Entry
    <2>2. CASE rLog # << >>
      BY <1>3, <1>8, <2>2 DEF RunnerInv, R!AppliedInOrder
    <2> QED
      BY <2>1, <2>2
  <1>10. \A i \in 1..(Len(rLog') - 1) : rLog'[i + 1].height - rLog'[i].height \in {0, 1}
    <2> SUFFICES ASSUME NEW i \in 1..(Len(rLog') - 1)
                 PROVE  rLog'[i + 1].height - rLog'[i].height \in {0, 1}
      OBVIOUS
    <2>1. CASE i \in 1..(Len(rLog) - 1)
      <3>1. i \in 1..Len(rLog) /\ i + 1 \in 1..Len(rLog)
        BY <1>1, <2>1
      <3>2. rLog[i + 1].height - rLog[i].height \in {0, 1}
        BY <2>1 DEF RunnerInv, R!AppliedInOrder
      <3> QED
        BY <1>3, <3>1, <3>2
    <2>2. CASE i = Len(rLog)
      BY <1>1, <1>3, <1>8, <2>2 DEF R!Entry
    <2> QED
      BY <1>1, <1>3, <2>1, <2>2
  <1>11. R!AppliedInOrder'
    BY <1>3, <1>4, <1>5, <1>6, <1>9, <1>10 DEF R!AppliedInOrder
  <1>12. ExactlyOnce'
    <2> SUFFICES ASSUME ~LostReplies, NEW i \in 1..Len(rLog')
                 PROVE  rLog'[i] = R!Entry(i - 1, i - 1)
      BY DEF ExactlyOnce
    <2>1. next = Len(rLog)
      BY <1>1 DEF RunnerInv, NextIsNear, LengthExact
    <2>2. CASE i \in 1..Len(rLog)
      BY <1>3, <2>2 DEF RunnerInv, ExactlyOnce
    <2>3. CASE i = Len(rLog) + 1
      <3>1. i - 1 = next
        BY <1>1, <2>1, <2>3
      <3> QED
        BY <1>3, <2>3, <3>1
    <2> QED
      BY <1>1, <1>3, <2>2, <2>3
  <1> QED
    BY <1>1, <1>3, <1>4, <1>11, <1>12

-----------------------------------------------------------------------------

\* Every step of the runner, failure and crash preserves the invariant.
LEMMA RunnerInvStep == RunnerInv /\ [R!Next]_(R!vars) => RunnerInv'
  <1> SUFFICES ASSUME RunnerInv, [R!Next]_(R!vars) PROVE RunnerInv'
    OBVIOUS
  <1> USE NoHeightAssumption, RunnerBoundsAssumption
  <1>1. CASE R!Store
    BY <1>1 DEF R!Store, R!FirstHeight,
                RunnerInv, R!TypeOK, R!AppliedInOrder, ExactlyOnce, NextIsNear, ReadsExist,
                RepeatsCounted, LengthExact
  <1>2. CASE R!Crash
    BY <1>2 DEF R!Crash, R!FirstHeight,
                RunnerInv, R!TypeOK, R!AppliedInOrder, ExactlyOnce, NextIsNear, ReadsExist,
                RepeatsCounted, LengthExact
  <1>3. CASE R!GetLastHandledEventHeight
    BY <1>3 DEF R!GetLastHandledEventHeight, R!FirstHeight,
                RunnerInv, R!TypeOK, R!AppliedInOrder, ExactlyOnce, NextIsNear, ReadsExist,
                RepeatsCounted, LengthExact
  <1>4. CASE R!GetLatestHeight
    BY <1>4 DEF R!GetLatestHeight, R!FirstHeight,
                RunnerInv, R!TypeOK, R!AppliedInOrder, ExactlyOnce, NextIsNear, ReadsExist,
                RepeatsCounted, LengthExact
  <1>5. CASE R!GetAllByHeight
    BY <1>5 DEF R!GetAllByHeight, R!FirstHeight,
                RunnerInv, R!TypeOK, R!AppliedInOrder, ExactlyOnce, NextIsNear, ReadsExist,
                RepeatsCounted, LengthExact
  <1>6. CASE R!CaughtUp
    BY <1>6 DEF R!CaughtUp, R!FirstHeight,
                RunnerInv, R!TypeOK, R!AppliedInOrder, ExactlyOnce, NextIsNear, ReadsExist,
                RepeatsCounted, LengthExact
  <1>7. CASE R!Wait
    BY <1>7 DEF R!Wait, R!FirstHeight,
                RunnerInv, R!TypeOK, R!AppliedInOrder, ExactlyOnce, NextIsNear, ReadsExist,
                RepeatsCounted, LengthExact
  <1>8. CASE R!GetLatestHeightFail
    BY <1>8 DEF R!GetLatestHeightFail, R!Fault, R!FirstHeight,
                RunnerInv, R!TypeOK, R!AppliedInOrder, ExactlyOnce, NextIsNear, ReadsExist,
                RepeatsCounted, LengthExact
  <1>9. CASE R!GetAllByHeightFail
    BY <1>9 DEF R!GetAllByHeightFail, R!Fault, R!FirstHeight,
                RunnerInv, R!TypeOK, R!AppliedInOrder, ExactlyOnce, NextIsNear, ReadsExist,
                RepeatsCounted, LengthExact
  <1>10. CASE UNCHANGED R!vars
    BY <1>10 DEF R!vars, R!FirstHeight,
                RunnerInv, R!TypeOK, R!AppliedInOrder, ExactlyOnce, NextIsNear, ReadsExist,
                RepeatsCounted, LengthExact
  <1>11. CASE R!HandleEvents
    <2>1. /\ rLog' \in Seq([height : Nat, block : Nat]) /\ rHandled' = next
          /\ next \in Nat /\ Len(rLog') = Len(rLog) + 1 /\ R!AppliedInOrder' /\ ExactlyOnce'
      BY <1>11, CommitKeepsOrder DEF R!HandleEvents
    <2>2. R!TypeOK' /\ NextIsNear' /\ ReadsExist'
      BY <1>11, <2>1 DEF R!HandleEvents, R!FirstHeight, RunnerInv, R!TypeOK, NextIsNear, ReadsExist
    <2>3. R!FirstHeight(rHandled)' = next + 1
      BY <2>1 DEF R!FirstHeight
    <2>4. RepeatsCounted' /\ LengthExact'
      BY <1>11, <2>1, <2>3 DEF R!HandleEvents, RunnerInv, R!TypeOK, RepeatsCounted, LengthExact, NextIsNear
    <2> QED
      BY <2>1, <2>2, <2>4 DEF RunnerInv
  <1>12. CASE R!HandleEventsFail
    <2>1. CASE LostReplies /\ ~R!Refused /\ R!Commit
      <3>1. /\ rLog' \in Seq([height : Nat, block : Nat]) /\ rHandled' = next
            /\ next \in Nat /\ Len(rLog') = Len(rLog) + 1 /\ R!AppliedInOrder' /\ ExactlyOnce'
        BY <1>12, <2>1, CommitKeepsOrder DEF R!HandleEventsFail
      <3>2. R!TypeOK' /\ NextIsNear' /\ ReadsExist'
        BY <1>12, <2>1, <3>1 DEF R!HandleEventsFail, R!Fault, RunnerInv, R!TypeOK, NextIsNear, ReadsExist
      <3>3. R!FirstHeight(rHandled)' = next + 1
        BY <3>1 DEF R!FirstHeight
      <3>4. RepeatsCounted' /\ LengthExact'
        BY <1>12, <2>1, <3>1, <3>3 DEF R!HandleEventsFail, R!Fault, RunnerInv, R!TypeOK,
                                       RepeatsCounted, LengthExact
      <3> QED
        BY <3>1, <3>2, <3>4 DEF RunnerInv
    <2>2. CASE UNCHANGED <<rLog, rHandled>>
      BY <1>12, <2>2 DEF R!HandleEventsFail, R!Fault, R!FirstHeight,
                RunnerInv, R!TypeOK, R!AppliedInOrder, ExactlyOnce, NextIsNear, ReadsExist,
                RepeatsCounted, LengthExact
    <2> QED
      BY <1>12, <2>1, <2>2 DEF R!HandleEventsFail
  <1>13. CASE R!HandleEventsRefused
    BY <1>13 DEF R!HandleEventsRefused, R!FirstHeight,
                RunnerInv, R!TypeOK, R!AppliedInOrder, ExactlyOnce, NextIsNear, ReadsExist,
                RepeatsCounted, LengthExact
  <1> QED
    BY <1>1, <1>2, <1>3, <1>4, <1>5, <1>6, <1>7, <1>8, <1>9, <1>10, <1>11, <1>12,
       <1>13
       DEF R!Next, R!Runner, R!Failure

\* An empty view and a runner that has not started satisfy the invariant.
LEMMA RunnerInvInit == R!Init => RunnerInv
  BY NoHeightAssumption DEF R!Init, R!FirstHeight,
                RunnerInv, R!TypeOK, R!AppliedInOrder, ExactlyOnce, NextIsNear, ReadsExist,
                RepeatsCounted, LengthExact

\* The inductive invariant holds in every reachable state.
THEOREM RunnerInvariance == R!Spec => []RunnerInv
  BY RunnerInvInit, RunnerInvStep, PTL DEF R!Spec

\* The runner never skips a height and never applies one out of order, whatever
\* fails, is lost or crashes (projectionRunner).
THEOREM RunnerAppliesInOrder == R!Spec => []R!AppliedInOrder
  <1>1. RunnerInv => R!AppliedInOrder
    BY DEF RunnerInv
  <1> QED
    BY <1>1, RunnerInvariance, PTL

\* With a database that reports every commit, the view is the result of applying
\* every block once (projectionRunner).
THEOREM AppliedExactlyOnce == R!Spec => []ExactlyOnce
  <1>1. RunnerInv => ExactlyOnce
    BY DEF RunnerInv
  <1> QED
    BY <1>1, RunnerInvariance, PTL

\* Each repeated application needs a failed transaction (projectionRunner).
THEOREM RepeatsAreBounded == R!Spec => []RepeatsNeedFailures
  <1>1. RunnerInv => RepeatsNeedFailures
    BY DEF RunnerInv, RepeatsCounted, RepeatsNeedFailures, R!RepeatsNeedFailures
  <1> QED
    BY <1>1, RunnerInvariance, PTL

\* A height is refused for no other reason than that its own commit, reported as
\* failed, was applied: the runner is exactly one height behind its view
\* (projectionRunner, the insertions of the projections).
THEOREM OnlyLostRepliesAreRefused == R!Spec => [](R!Stuck => LostReplies /\ next = rHandled)
  <1>1. RunnerInv => (R!Stuck => LostReplies /\ next = rHandled)
    <2> SUFFICES ASSUME RunnerInv, R!Stuck PROVE LostReplies /\ next = rHandled
      OBVIOUS
    <2>1. /\ next \in Nat /\ rHandled \in Nat /\ next <= rHandled
      BY NoHeightAssumption DEF RunnerInv, R!TypeOK, R!Stuck, R!Refused
    <2>2. CASE next = R!FirstHeight(rHandled)
      BY <2>1, <2>2, NoHeightAssumption DEF R!FirstHeight
    <2> QED
      BY <2>2 DEF RunnerInv, NextIsNear, R!Stuck
  <1> QED
    BY <1>1, RunnerInvariance, PTL

-----------------------------------------------------------------------------
(* The runner implements the abstract index *)

\* A commit is an abstract Apply, or a Repeat after a lost reply.
LEMMA RunnerCommitIsApply ==
    ASSUME RunnerInv, rPc = "handle", R!Commit, UNCHANGED stored
    PROVE  R!IL!Next
  <1>1. /\ next \in Nat /\ stored \in Nat /\ next < stored /\ events = next
        /\ rHandled \in Nat \cup {NoHeight}
    BY DEF RunnerInv, R!TypeOK, ReadsExist
  <1>2. rLog' = Append(rLog, R!IL!Entry(next, next)) /\ rHandled' = next
    BY <1>1 DEF R!Commit, R!Entry, R!IL!Entry
  <1>3. CASE next = R!FirstHeight(rHandled)
    <2>1. next = R!IL!Upcoming
      BY <1>3 DEF R!FirstHeight, R!IL!Upcoming
    <2>2. next <= (IF stored = 0 THEN 0 ELSE stored - 1)
      BY <1>1
    <2> QED
      BY <1>2, <2>1, <2>2 DEF R!IL!Next, R!IL!Apply
  <1>4. CASE LostReplies /\ next = rHandled
    BY <1>1, <1>2, <1>4, NoHeightAssumption DEF R!IL!Next, R!IL!Repeat
  <1> QED
    BY <1>3, <1>4 DEF RunnerInv, NextIsNear

\* Every step is an abstract step or a stutter.
LEMMA RunnerSimulation ==
    ASSUME RunnerInv, [R!Next]_(R!vars)
    PROVE  [R!IL!Next]_(R!IL!vars)
  <1>1. CASE R!Store
    <2>1. stored \in Nat
      BY DEF RunnerInv, R!TypeOK
    <2> QED
      BY <1>1, <2>1 DEF R!Store, R!IL!Next, R!IL!Produce, R!IL!vars
  <1>2. CASE R!HandleEvents
    BY <1>2, RunnerCommitIsApply DEF R!HandleEvents
  <1>3. CASE R!HandleEventsFail
    BY <1>3, RunnerCommitIsApply DEF R!HandleEventsFail, R!Fault, R!IL!vars
  <1>4. CASE \/ R!GetLastHandledEventHeight \/ R!GetLatestHeight \/ R!GetAllByHeight
             \/ R!CaughtUp \/ R!Wait \/ R!GetLatestHeightFail \/ R!GetAllByHeightFail \/ R!Crash
             \/ R!HandleEventsRefused
    BY <1>4 DEF R!GetLastHandledEventHeight, R!GetLatestHeight, R!GetAllByHeight, R!CaughtUp,
                R!Wait, R!GetLatestHeightFail, R!GetAllByHeightFail, R!Crash, R!HandleEventsRefused,
                R!Fault, R!IL!vars
  <1>5. CASE UNCHANGED R!vars
    BY <1>5 DEF R!vars, R!IL!vars
  <1> QED
    BY <1>1, <1>2, <1>3, <1>4, <1>5 DEF R!Next, R!Runner, R!Failure

\* A projection's view is built like the abstract index, restarts included: every
\* block at least once, and exactly once if the database reports every commit.
THEOREM RunnerRefinement == R!Spec => ViewImplementsIndexLog
  <1>1. R!Init => R!IL!Init
    BY DEF R!Init, R!IL!Init
  <1>2. RunnerInv /\ [R!Next]_(R!vars) => [R!IL!Next]_(R!IL!vars)
    BY RunnerSimulation
  <1> QED
    BY <1>1, <1>2, RunnerInvariance, PTL
       DEF R!Spec, R!IL!Spec, R!ImplementsIndexLog, ViewImplementsIndexLog

=============================================================================
