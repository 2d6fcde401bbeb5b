-------------------------------- MODULE Feeder --------------------------------
(***************************************************************************)
(* What feeds a projection, seen from the projection.                      *)
(*                                                                         *)
(* In the event-store mode a runner holds the next height in memory and    *)
(* repeats it after an error (StoreBasedManager.projectionRunner); in the  *)
(* direct mode a synchroniser of the projection's own reads the last       *)
(* handled height again (SyncManager.SyncBlocks).  Both are modelled by    *)
(* the height they feed next.  A commit may be applied although its reply  *)
(* is lost.  A height that is not there is -1.                             *)
(***************************************************************************)
EXTENDS Integers

CONSTANTS
    LostReplies,  \* a commit may be applied and still be reported as failed
    MaxHeight,    \* bound: heights fed
    MaxFaults,    \* bound: failing queries and transactions
    MaxCrashes    \* bound: crashes of the process

ASSUME LostRepliesAssumption == LostReplies \in BOOLEAN
ASSUME BoundsAssumption ==
    MaxHeight \in Nat /\ MaxFaults \in Nat /\ MaxCrashes \in Nat

VARIABLES
    mode,         \* the system mode of the configuration
    lastHandled,  \* committed last_handled_event_height
    pc,           \* "init", "feed", or "off": OnInit failed, not registered
    next,         \* the height that is fed next
    faults, crashes

feederVars == <<mode, lastHandled, pc, next, faults, crashes>>

Modes == {"EVENT_STORE", "TENDERMINT_DIRECT"}

FeederInit ==
    /\ mode \in Modes
    /\ lastHandled = -1
    /\ pc = "init" /\ next = 0
    /\ faults = 0 /\ crashes = 0

FeederTypeOK ==
    /\ mode \in Modes
    /\ lastHandled \in -1..MaxHeight
    /\ next \in 0..(MaxHeight + 1)
    /\ faults \in 0..MaxFaults /\ crashes \in 0..MaxCrashes

-----------------------------------------------------------------------------

\* A new process: the projection is initialised again.
FeederRestart ==
    /\ pc' = "init" /\ next' = 0
    /\ UNCHANGED <<mode, lastHandled>>

FeederCrash ==
    /\ crashes < MaxCrashes
    /\ crashes' = crashes + 1
    /\ FeederRestart
    /\ UNCHANGED faults

Fault ==
    /\ faults < MaxFaults
    /\ faults' = faults + 1
    /\ UNCHANGED <<mode, crashes>>

\* Both feeders start after the last handled height.
StartFeeding ==
    /\ pc = "init"
    /\ next' = lastHandled + 1
    /\ pc' = "feed"
    /\ UNCHANGED <<mode, lastHandled, faults, crashes>>

\* The runner repeats the height, the synchroniser looks up what was handled.
FeedAfterFailure ==
    next' = IF mode = "EVENT_STORE" THEN next ELSE lastHandled' + 1

\* The height was handled, and the feeder was told so.
FeedNext ==
    /\ lastHandled' = next
    /\ next' = next + 1
    /\ UNCHANGED <<mode, faults, crashes>>
=============================================================================
