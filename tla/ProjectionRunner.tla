-------------------------- MODULE ProjectionRunner --------------------------
(***************************************************************************)
(* One projection of the event-store mode: StoreBasedManager.projectionRunner *)
(* (entity/projection/manager.go) replays the event store into the         *)
(* projection's own transaction, which commits the view rows together with *)
(* the last handled event height (rdbprojectionbase).                      *)
(*                                                                         *)
(* The runner keeps nextEventHeight in memory and reads the committed      *)
(* height only when it starts.  Each projection has its own goroutine,     *)
(* rows and height, so one stands for all.                                 *)
(***************************************************************************)
EXTENDS Integers, Sequences

CONSTANTS
    Nil,          \* a nil *int64
    LostReplies,  \* a commit may be applied and still be reported as failed
    UniqueHeights, \* heights whose events insert a row that a PRIMARY KEY or UNIQUE
                  \* constraint lets in once (each block of view_blocks is one)
    MaxHeight,    \* bound: heights in the event store
    MaxFaults,    \* bound: failing queries and transactions
    MaxCrashes    \* bound: crashes of the process

VARIABLES
    stored,       \* blocks in the event store: heights 0..stored-1
    log,          \* applications to the projection's view, oldest first
    lastHandled,  \* committed last_handled_event_height
    pc,           \* "start", "latest", "next", "handle", "wait"
    next,         \* nextEventHeight
    latest,       \* latestEventHeight
    events,       \* the height whose events were read
    faults,       \* failures so far
    crashes       \* crashes so far

vars == <<stored, log, lastHandled, pc, next, latest, events, faults, crashes>>

Entry(height, block) == [height |-> height, block |-> block]

Init ==
    /\ stored = 0 /\ log = << >> /\ lastHandled = Nil
    /\ pc = "start" /\ next = 0 /\ latest = Nil /\ events = Nil
    /\ faults = 0 /\ crashes = 0

-----------------------------------------------------------------------------

\* The event store handler commits a block.
Store ==
    /\ stored <= MaxHeight
    /\ stored' = stored + 1
    /\ UNCHANGED <<log, lastHandled, pc, next, latest, events, faults, crashes>>

\* The process dies and is started again; an open transaction is rolled back.
Crash ==
    /\ crashes < MaxCrashes
    /\ crashes' = crashes + 1
    /\ pc' = "start" /\ next' = 0 /\ latest' = Nil /\ events' = Nil
    /\ UNCHANGED <<stored, log, lastHandled, faults>>

Fault ==
    /\ faults < MaxFaults
    /\ faults' = faults + 1
    /\ UNCHANGED <<stored, crashes>>

FirstHeight(handled) == IF handled = Nil THEN 0 ELSE handled + 1

\* Mutant of GetLastHandledEventHeight: a restart replays everything.
ReplayFromGenesis ==
    /\ pc = "start"
    /\ next' = 0
    /\ pc' = "latest"
    /\ UNCHANGED <<stored, log, lastHandled, latest, events, faults, crashes>>

GetLastHandledEventHeight ==
    /\ pc = "start"
    /\ next' = FirstHeight(lastHandled)
    /\ pc' = "latest"
    /\ UNCHANGED <<stored, log, lastHandled, latest, events, faults, crashes>>

\* RDbStore.GetLatestHeight: MAX(height), nil when there is no event.
GetLatestHeight ==
    /\ pc = "latest"
    /\ IF stored = 0
       THEN latest' = Nil /\ pc' = "wait"
       ELSE latest' = stored - 1 /\ pc' = "next"
    /\ UNCHANGED <<stored, log, lastHandled, next, events, faults, crashes>>

\* The error is ignored and the nil height taken for an empty store.
GetLatestHeightFail ==
    /\ pc = "latest"
    /\ Fault
    /\ latest' = Nil
    /\ pc' = "wait"
    /\ UNCHANGED <<log, lastHandled, next, events>>

\* RDbStore.GetAllByHeight, inside the loop over nextEventHeight.
GetAllByHeight ==
    /\ pc = "next" /\ next <= latest
    /\ events' = next
    /\ pc' = "handle"
    /\ UNCHANGED <<stored, log, lastHandled, next, latest, faults, crashes>>

\* The read failed: it is repeated after a second.
GetAllByHeightFail ==
    /\ pc = "next" /\ next <= latest
    /\ Fault
    /\ UNCHANGED <<log, lastHandled, pc, next, latest, events>>

CaughtUp ==
    /\ pc = "next" /\ next > latest
    /\ pc' = "wait"
    /\ UNCHANGED <<stored, log, lastHandled, next, latest, events, faults, crashes>>

\* The projection's transaction, closed by UpdateLastHandledEventHeight.
Commit ==
    /\ log' = Append(log, Entry(next, events))
    /\ lastHandled' = next

\* The rows of the height are in the view already: a lost commit reply left
\* nextEventHeight in memory behind the committed height, and the database
\* refuses to insert them again.
Refused ==
    /\ next \in UniqueHeights
    /\ lastHandled # Nil
    /\ next <= lastHandled

HandleEvents ==
    /\ pc = "handle" /\ ~Refused
    /\ Commit
    /\ next' = next + 1
    /\ pc' = "next"
    /\ UNCHANGED <<stored, latest, events, faults, crashes>>

\* A refused insertion is an error like any other: the same height is read and
\* handled again, from memory, and refused again.
HandleEventsRefused ==
    /\ pc = "handle" /\ Refused
    /\ pc' = "next"
    /\ UNCHANGED <<stored, log, lastHandled, next, latest, events, faults, crashes>>

\* HandleEvents returned an error: the same height is read and handled again.
HandleEventsFail ==
    /\ pc = "handle"
    /\ Fault
    /\ (LostReplies /\ ~Refused /\ Commit) \/ UNCHANGED <<log, lastHandled>>
    /\ pc' = "next"
    /\ UNCHANGED <<next, latest, events>>

\* Mutant of Wait: the runner returns instead of polling again.
RunnerReturns ==
    /\ pc = "wait"
    /\ UNCHANGED vars

Wait ==
    /\ pc = "wait"
    /\ pc' = "latest"
    /\ UNCHANGED <<stored, log, lastHandled, next, latest, events, faults, crashes>>

-----------------------------------------------------------------------------

Runner == \/ GetLastHandledEventHeight \/ GetLatestHeight \/ GetAllByHeight
          \/ CaughtUp \/ HandleEvents \/ HandleEventsRefused \/ Wait

Failure == GetLatestHeightFail \/ GetAllByHeightFail \/ HandleEventsFail \/ Crash

Next == Store \/ Runner \/ Failure

Spec == Init /\ [][Next]_vars

\* The goroutine keeps running; failures, crashes and new blocks owe nothing.
FairSpec == Spec /\ WF_vars(Runner)

-----------------------------------------------------------------------------
(* Properties *)

\* The values of the runner's memory and of the projection's tables.
TypeOK ==
    /\ stored \in Nat /\ faults \in Nat /\ crashes \in Nat
    /\ log \in Seq([height : Nat, block : Nat])
    /\ lastHandled \in Nat \cup {Nil}
    /\ pc \in {"start", "latest", "next", "handle", "wait"}
    /\ next \in Nat /\ latest \in Nat \cup {Nil} /\ events \in Nat \cup {Nil}

\* No height is skipped or applied out of order, and each is applied with its
\* own events: the runner may repeat the last height but never lose one.
AppliedInOrder ==
    /\ \A i \in 1..Len(log) : log[i].height = log[i].block
    /\ log # << >> => log[1].height = 0
    /\ \A i \in 1..(Len(log) - 1) : log[i + 1].height - log[i].height \in {0, 1}
    /\ IF log = << >> THEN lastHandled = Nil ELSE lastHandled = log[Len(log)].height

\* Every repeated application is paid for by a failed transaction (whose commit
\* was applied all the same): nextEventHeight, which is not read again after a
\* failure, is at most one height behind the store.
RepeatsNeedFailures == Len(log) <= FirstHeight(lastHandled) + faults

\* The runner implements the abstract index, exactly once without lost replies and
\* at least once with them; the chain it follows is the event store.
IL == INSTANCE IndexLog WITH chain <- IF stored = 0 THEN 0 ELSE stored - 1,
                             Repeats <- LostReplies
ImplementsIndexLog == IL!Spec

\* Every stored block is handled in the end, unless the runner repeats for ever a
\* height that is in its view: no later block is handled then until the process
\* is restarted. Nothing but a commit whose reply was lost brings it there.
Stuck == pc # "start" /\ Refused
HandlesEverything ==
    /\ \A h \in 0..MaxHeight :
            stored > h ~> (lastHandled # Nil /\ lastHandled >= h) \/ Stuck
    /\ [](Stuck => LostReplies /\ faults > 0)
=============================================================================
