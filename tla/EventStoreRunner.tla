--------------------------- MODULE EventStoreRunner ---------------------------
(***************************************************************************)
(* ProjectionRunner with rows, memory and bounds under names of their own, *)
(* so that the runner can stand beside the synchroniser, which fills the   *)
(* event store that the runner reads.                                      *)
(***************************************************************************)
EXTENDS Integers, Sequences

CONSTANTS
    NoHeight,      \* a nil *int64
    LostReplies,   \* a commit may be applied and still be reported as failed
    UniqueHeights, \* heights whose events insert a row that is let in once
    MaxStored,     \* bound: heights in the event store
    MaxErrors,     \* bound: failing queries and transactions
    MaxRestarts    \* bound: crashes of the process

ASSUME NoHeightAssumption == NoHeight \notin Int
ASSUME LostRepliesAssumption == LostReplies \in BOOLEAN
ASSUME UniqueHeightsAssumption == UniqueHeights \subseteq Nat
ASSUME RunnerBoundsAssumption ==
    MaxStored \in Nat /\ MaxErrors \in Nat /\ MaxRestarts \in Nat

VARIABLES
    stored,        \* blocks in the event store
    rLog,          \* applications to the projection's view
    rHandled,      \* committed last_handled_event_height
    rPc,           \* where the runner is
    next,          \* nextEventHeight
    rLatest,       \* latestEventHeight
    events,        \* the height whose events were read
    rFaults,       \* failures so far
    rCrashes       \* crashes so far

R == INSTANCE ProjectionRunner
    WITH Nil <- NoHeight, MaxHeight <- MaxStored, MaxFaults <- MaxErrors,
         MaxCrashes <- MaxRestarts, log <- rLog, lastHandled <- rHandled, pc <- rPc,
         latest <- rLatest, faults <- rFaults, crashes <- rCrashes

RunnerSpec == R!FairSpec

-----------------------------------------------------------------------------
(* Properties *)

\* Every repeated application is paid for by a failed transaction, whose commit was
\* applied all the same (projectionRunner goes on from nextEventHeight).
RepeatsNeedFailures == R!RepeatsNeedFailures

\* The view is built like the abstract index, exactly once without lost replies and
\* at least once with them (projectionRunner).
ViewImplementsIndexLog == R!ImplementsIndexLog

\* Every stored block is handled in the end, unless the runner repeats for ever a
\* height that its view refuses (projectionRunner).
HandlesEverything == R!HandlesEverything
=============================================================================
