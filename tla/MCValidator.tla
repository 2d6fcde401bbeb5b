------------------------------ MODULE MCValidator ------------------------------
(* Validator and its activities on small instances. *)
EXTENDS ValidatorActivities

CONSTANTS o1, o2

\* Two validators for two full blocks, or one that comes and goes for eight.
LongScopes == { [operators |-> {o1, o2}, blocks |-> 2, messages |-> 2],
                [operators |-> {o1}, blocks |-> 8, messages |-> 1] }

\* Two validators for one block of three messages, or one that is slashed, leaves and
\* comes back with its key or another one.  The rows of activities tell the whole history,
\* so only these scopes have them; in the others both tables stay as they are.
RecordedScopes == { [operators |-> {o1, o2}, blocks |-> 1, messages |-> 3],
                    [operators |-> {o1}, blocks |-> 5, messages |-> 1] }

MCScopes == LongScopes \cup RecordedScopes

MCNext ==
    \/ scope \in RecordedScopes /\ ActivitiesNext
    \/ scope \in LongScopes /\ Next /\ UNCHANGED <<activities, totals>>

MCSpec == ActivitiesInit /\ [][MCNext]_activityVars
=============================================================================
