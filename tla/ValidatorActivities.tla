-------------------------- MODULE ValidatorActivities --------------------------
(***************************************************************************)
(* The second pass of the validator projection over the events of a block: *)
(* the rows of activities (view_validator_activities) and the table of     *)
(* their totals (view_validator_activities_total), which pages are counted *)
(* by.  Both are written in the transaction of HandleEvents, after the     *)
(* rows of the validators, in which the slashed ones are looked up.        *)
(* Delegations and withdrawals are as the edits of a validator are.        *)
(***************************************************************************)
EXTENDS Validator

VARIABLES
    activities,     \* the rows, in the order they are inserted
    totals          \* a number for every identity

activityVars == <<vars, activities, totals>>

Types == {"CreateGenesisValidator", "MsgCreateValidator", "MsgEditValidator",
          "MsgBeginRedelegate", "MsgUnjail", "ValidatorJailed", "ValidatorSlashed"}

\* "-" and "operator", "-:type" and "operator:type" in the code
All        == <<"-", "-">>
Of(o)      == <<o, "-">>
OfType(T)  == <<"-", T>>
Identities == (Operators \cup {"-"}) \X (Types \cup {"-"})

IsSlashing(e) == e.type \in {"ValidatorJailed", "ValidatorSlashed"}

\* The operator of an activity, rs the rows of the validators
OperatorOf(rs, e) ==
    IF IsSlashing(e) THEN rs[Newest(OfKey(rs, e.key))].operator ELSE e.operator

ActivityRow(o, e) == [operator |-> o, event |-> e]

Inserted(seq, o, e) == Append(seq, ActivityRow(o, e))

IncrementByOne(sums, o, T) ==
    [sums EXCEPT ![All] = @ + 1, ![Of(o)] = @ + 1, ![<<o, T>>] = @ + 1, ![OfType(T)] = @ + 1]

\* Mutant of Redelegated: the type is counted once for the two rows.
RedelegatedOnce(sums, src, dst, T) ==
    [sums EXCEPT ![All] = @ + 2, ![Of(src)] = @ + 1, ![<<src, T>>] = @ + 1,
                 ![OfType(T)] = @ + 1, ![Of(dst)] = @ + 1]

\* The destination has no total of its own of the type.
Redelegated(sums, src, dst, T) ==
    [sums EXCEPT ![All] = @ + 2, ![Of(src)] = @ + 1, ![<<src, T>>] = @ + 1,
                 ![OfType(T)] = @ + 2, ![Of(dst)] = @ + 1]

\* What an event makes of the two tables
Record(tables, rs, e) ==
    IF e.type \notin Types THEN tables
    ELSE IF e.type = "MsgBeginRedelegate"
    THEN [rows |-> Inserted(Inserted(tables.rows, e.src, e), e.dst, e),
          totals |-> Redelegated(tables.totals, e.src, e.dst, e.type)]
    ELSE [rows |-> Inserted(tables.rows, OperatorOf(rs, e), e),
          totals |-> IncrementByOne(tables.totals, OperatorOf(rs, e), e.type)]

\* The loop collects the rows and the increments of a block, and writes them at its end.
ProjectValidatorActivitiesView(tables, rs, es) ==
    LET recorded[n \in 0..Len(es)] ==
            IF n = 0 THEN tables ELSE Record(recorded[n - 1], rs, es[n])
    IN  recorded[Len(es)]

\* A slashed validator without a row is an error (as it is when a jailing finds none).
ActivitiesFail(rs, es) == \E i \in DOMAIN es : IsSlashing(es[i]) /\ OfKey(rs, es[i].key) = {}

HandleActivities ==
    LET viewed == ProjectValidatorView(rows, events)
        tables == ProjectValidatorActivitiesView([rows |-> activities, totals |-> totals],
                                                 viewed, events)
    IN  /\ HandleEvents
        /\ ~ActivitiesFail(viewed, events)
        /\ activities' = tables.rows
        /\ totals' = tables.totals

ActivitiesInit == Init /\ activities = << >> /\ totals = [id \in Identities |-> 0]

ChainStep ==
    \/ BeginBlock
    \/ \E o \in Operators : (\E k \in Keys : MsgCreateValidator(o, k)) \/ MsgUnjail(o)
    \/ Other
    \/ EndBlock

ActivitiesNext == HandleActivities \/ (ChainStep /\ UNCHANGED <<activities, totals>>)

ActivitiesSpec == ActivitiesInit /\ [][ActivitiesNext]_activityVars

-----------------------------------------------------------------------------
(* Properties *)

IsDestination(row) == row.event.type = "MsgBeginRedelegate" /\ row.operator = row.event.dst

\* The rows that the total of an identity is about.  A redelegation is not counted in the
\* total that its destination has of the type (validator_activity.go:168).
CountedIn(row, id) ==
    /\ id[1] \in {"-", row.operator}
    /\ id[2] \in {"-", row.event.type}
    /\ id[1] # "-" /\ id[2] # "-" => ~IsDestination(row)

Count(seq, id) == Cardinality({i \in DOMAIN seq : CountedIn(seq[i], id)})

\* After any number of blocks the stored totals of all activities, of an operator, of a type
\* and of both are the numbers of the stored rows they are about: a redelegation has two
\* rows, a slashing is of the operator whose row has the key, and the rows and totals of
\* a block are written by separate statements from separate lists.
ActivityTotalsMatch == \A id \in Identities : totals[id] = Count(activities, id)
=============================================================================
