------------------------------ MODULE Validator ------------------------------
(***************************************************************************)
(* The validator projection (projection/validator): a row for every        *)
(* validator that ever joined, with its status, its up time and its votes. *)
(* The activities it lists are those of ValidatorActivities.               *)
(*                                                                         *)
(* The chain executes a block in the order BeginBlock (slashing), messages, *)
(* EndBlock (the new validator set); the parser puts its events in another *)
(* order: block, messages, slashing, power changes.  HandleEvents reads    *)
(* them in one transaction, in three passes.                               *)
(***************************************************************************)
EXTENDS Integers, Sequences, SequencesExt

CONSTANTS
    Keys,               \* consensus keys
    Outsider,           \* an account that is not a validator's
    JoinBuffer,         \* 10 in the code
    Scopes              \* bounds: [operators, blocks, messages per block]

\* A set that is elected signs the third block after, which the buffer has to cover.
ASSUME JoinBufferAssumption == JoinBuffer \in Nat /\ JoinBuffer >= 3
ASSUME ScopesAssumption ==
    \A s \in Scopes :
        /\ s.blocks \in Nat /\ s.messages \in Nat
        /\ IsFiniteSet(s.operators) /\ "-" \notin s.operators

VARIABLES
    scope,      \* the bounds of this behaviour: a member of Scopes
    \* the chain
    phase,      \* "begin", "txs", "handle": where the current block is
    height,     \* its height
    joined,     \* the validators: operator -> [key, jailed, active]
    sets,       \* keys of the sets of the last block, this one and the next
    signers,    \* keys that signed the last block
    msgs,       \* events of the messages of the block
    jails,      \* events of its BeginBlock
    events,     \* what the projection is handed
    \* the projection
    rows,       \* view_validators, in the order of their ids
    \* history
    votes,      \* votes cast by a validator's account since it joined
    perfect     \* operators in the set since they first joined, no signature missed

chainVars == <<phase, height, joined, sets, signers, msgs, jails, events>>
vars == <<scope, chainVars, rows, votes, perfect>>

Operators == scope.operators    \* operator addresses, which are also their accounts

-----------------------------------------------------------------------------
(* The view: rows are found by a column, the newest id first. *)

OfOperator(rs, o) == {i \in DOMAIN rs : rs[i].operator = o}
OfKey(rs, k)      == {i \in DOMAIN rs : rs[i].key = k}
OfBoth(rs, o, k)  == OfOperator(rs, o) \cap OfKey(rs, k)

Newest(ids) == CHOOSE i \in ids : \A j \in ids : j <= i

Row(e, status) == [operator |-> e.operator, key |-> e.key, status |-> status,
                   jailed |-> e.jailed, joinedAt |-> height, signed |-> 0,
                   active |-> 0, voted |-> 0]

\* A validator that re-joins with its key keeps the height it first joined at.
Upsert(rs, row) ==
    LET same == OfBoth(rs, row.operator, row.key)
        i == Newest(same)
    IN  IF same = {} THEN Append(rs, row)
        ELSE [rs EXCEPT ![i] = [row EXCEPT !.joinedAt = rs[i].joinedAt]]

-----------------------------------------------------------------------------
(* projectValidatorView *)

IsCreate(e) == e.type \in {"CreateGenesisValidator", "MsgCreateValidator"}

\* Validators of genesis transactions are bonded, others have to be elected.
StatusOf(e) ==
    IF e.type = "CreateGenesisValidator" THEN e.status
    ELSE IF height = 0 THEN "Bonded" ELSE "Unbonded"

Create(rs, e) == IF IsCreate(e) THEN Upsert(rs, Row(e, StatusOf(e))) ELSE rs

\* The first pass over the events: creations are handled before the other events.
Known(rs, es) ==
    LET known[n \in 0..Len(es)] ==
            IF n = 0 THEN rs ELSE Create(known[n - 1], es[n])
    IN  known[Len(es)]

\* The rows an event may be about, of which the newest is taken
Concerned(rs, e) == IF e.type \in {"ValidatorJailed", "PowerChanged"}
                    THEN OfKey(rs, e.key) ELSE OfOperator(rs, e.operator)

\* Mutant of Changed: a change of power bonds or unbonds whoever is not jailed.
ChangedIgnoresJail(row, e) ==
    CASE e.type = "ValidatorJailed" -> [row EXCEPT !.status = "Jailed", !.jailed = TRUE]
      [] e.type = "MsgUnjail" -> [row EXCEPT !.jailed = FALSE]
      [] e.type = "PowerChanged" ->
            [row EXCEPT !.status = IF e.zero THEN "Inactive" ELSE "Bonded"]
      [] OTHER -> row

\* The name and the commission an edit changes are left out.
Changed(row, e) ==
    CASE e.type = "ValidatorJailed" -> [row EXCEPT !.status = "Jailed", !.jailed = TRUE]
      [] e.type = "MsgUnjail" -> [row EXCEPT !.status = "Inactive", !.jailed = FALSE]
      [] e.type = "PowerChanged" /\ e.zero /\ ~row.jailed -> [row EXCEPT !.status = "Inactive"]
      [] e.type = "PowerChanged" /\ ~e.zero -> [row EXCEPT !.status = "Bonded"]
      [] OTHER -> row

ChangesRow(e) == e.type \in {"MsgEditValidator", "ValidatorJailed", "MsgUnjail", "PowerChanged"}

Change(rs, e) ==
    IF ChangesRow(e) THEN [rs EXCEPT ![Newest(Concerned(rs, e))] = Changed(@, e)] ELSE rs

\* The second pass follows the first.
ProjectValidatorView(rs, es) ==
    LET viewed[n \in 0..Len(es)] ==
            IF n = 0 THEN Known(rs, es) ELSE Change(viewed[n - 1], es[n])
    IN  viewed[Len(es)]

-----------------------------------------------------------------------------
(* HandleEvents: up time and votes *)

\* Mutant of Signed: no buffer for a validator that joins.
SignedStrictly(row, signed) == row.key \in signed

Signed(row, signed) == row.key \in signed \/ height - row.joinedAt < JoinBuffer

UpTime(rs, signed) ==
    [i \in DOMAIN rs |->
        IF rs[i].status # "Bonded" THEN rs[i]
        ELSE [rs[i] EXCEPT !.active = @ + 1,
                           !.signed = @ + IF Signed(rs[i], signed) THEN 1 ELSE 0]]

\* The break at a vote of an account without a validator ends the loop over the
\* events of the block.
Vote(state, e) ==
    LET ofVoter == OfOperator(state.rows, e.voter)
    IN  IF state.stopped \/ e.type # "MsgVote" THEN state
        ELSE IF ofVoter = {} THEN [state EXCEPT !.stopped = TRUE]
        ELSE [state EXCEPT !.rows[Newest(ofVoter)].voted = @ + 1]

CountVotes(rs, es) ==
    LET counted[n \in 0..Len(es)] ==
            IF n = 0 THEN [rows |-> rs, stopped |-> FALSE] ELSE Vote(counted[n - 1], es[n])
    IN  counted[Len(es)].rows

\* Mutant of Fails: creations are not handled before the other events.
FailsBeforeCreations(rs, es) ==
    \E i \in DOMAIN es : ChangesRow(es[i]) /\ Concerned(rs, es[i]) = {}

\* An event about a validator without a row, or a signature of one, is an error.
Fails(rs, es) ==
    \E i \in DOMAIN es :
        \/ ChangesRow(es[i]) /\ Concerned(Known(rs, es), es[i]) = {}
        \/ /\ es[i].type = "BlockCreated"
           /\ \E k \in es[i].signers : OfKey(Known(rs, es), k) = {}

Timed(rs, es) ==
    LET created == {i \in DOMAIN es : es[i].type = "BlockCreated"}
    IN  IF created = {} THEN rs ELSE UpTime(rs, es[CHOOSE i \in created : TRUE].signers)

Handled(rs, es) == CountVotes(Timed(ProjectValidatorView(rs, es), es), es)

HandleEvents ==
    /\ phase = "handle" /\ ~Fails(rows, events)
    /\ rows' = Handled(rows, events)
    /\ phase' = "begin" /\ height' = height + 1
    /\ events' = << >>
    /\ UNCHANGED <<joined, sets, signers, msgs, jails, votes, perfect, scope>>

-----------------------------------------------------------------------------
(* The chain *)

Active == {o \in DOMAIN joined : joined[o].active}
KeysOf(ops) == {joined[o].key : o \in ops}

\* Slashing: validators of the set that double signed or were down are jailed.
BeginBlock ==
    /\ phase = "begin" /\ height <= scope.blocks
    /\ \E slashed \in SUBSET Active :
          /\ joined' = [o \in DOMAIN joined |->
                 [joined[o] EXCEPT !.jailed = @ \/ o \in slashed]]
          /\ jails' =
                 LET order == SetToSeq(slashed)
                 IN  [i \in 1..(2 * Len(order)) |->
                         [type |-> IF i % 2 = 1 THEN "ValidatorSlashed" ELSE "ValidatorJailed",
                          key |-> joined[order[(i + 1) \div 2]].key]]
    /\ \E missing \in SUBSET sets[1] : signers' = sets[1] \ missing
    /\ phase' = "txs"
    /\ UNCHANGED <<height, sets, msgs, events, rows, votes, perfect, scope>>

Message(e) == /\ phase = "txs"
              /\ Len(msgs) < scope.messages
              /\ msgs' = Append(msgs, e)
              /\ UNCHANGED <<phase, height, sets, signers, jails, events, rows, votes, perfect,
                             scope>>

\* A key is nobody else's, now or before.
MayUse(o, k) ==
    /\ \A p \in DOMAIN joined : joined[p].key # k
    /\ \A i \in DOMAIN rows : rows[i].key = k => rows[i].operator = o

MsgCreateValidator(o, k) ==
    /\ o \notin DOMAIN joined /\ MayUse(o, k)
    /\ joined' = [p \in DOMAIN joined \cup {o} |->
           IF p = o THEN [key |-> k, jailed |-> FALSE, active |-> FALSE] ELSE joined[p]]
    /\ Message([type |-> "MsgCreateValidator", operator |-> o, key |-> k, jailed |-> FALSE])

\* A validator that has just been jailed cannot be unjailed in the same block.
MsgUnjail(o) ==
    /\ o \in DOMAIN joined /\ joined[o].jailed /\ ~joined[o].active
    /\ joined' = [joined EXCEPT ![o].jailed = FALSE]
    /\ Message([type |-> "MsgUnjail", operator |-> o])

\* Messages that change no validator of the chain; the activities of a delegation
\* and of a withdrawal are those of an edit.
Other == /\ UNCHANGED joined
         /\ \/ \E o \in DOMAIN joined :
                 \/ Message([type |-> "MsgEditValidator", operator |-> o])
                 \/ \E p \in DOMAIN joined \ {o} :
                       Message([type |-> "MsgBeginRedelegate", src |-> o, dst |-> p])
            \/ \E v \in Operators \cup {Outsider} :
                  Message([type |-> "MsgVote", voter |-> v])

PowerChanges(set) ==
    LET changed == SetToSeq((set \ Active) \cup (Active \ set))
    IN  [i \in DOMAIN changed |-> [type |-> "PowerChanged", key |-> joined[changed[i]].key,
                                   zero |-> changed[i] \notin set]]

VotesOf(es, o) == Cardinality({i \in DOMAIN es : es[i].type = "MsgVote" /\ es[i].voter = o})
CreatedIn(es) == {o \in Operators : \E i \in DOMAIN es : IsCreate(es[i]) /\ es[i].operator = o}
HasRow(o) == OfBoth(rows, o, joined[o].key) # {}

\* The new set, in force two blocks later; validators long out of it may go.
EndBlock ==
    /\ phase = "txs"
    /\ \E set \in SUBSET {o \in DOMAIN joined : ~joined[o].jailed} :
       \E gone \in SUBSET {o \in DOMAIN joined \ set :
                              \A i \in 1..3 : joined[o].key \notin sets[i]} :
          /\ gone \cap CreatedIn(msgs) = {}
          /\ events' = <<[type |-> "BlockCreated", signers |-> signers]>>
                       \o msgs \o jails \o PowerChanges(set)
          /\ joined' = [o \in DOMAIN joined \ gone |-> [joined[o] EXCEPT !.active = o \in set]]
          /\ sets' = <<sets[2], sets[3], KeysOf(set)>>
          /\ perfect' = {o \in set :
                 /\ o \in perfect \/ (o \in CreatedIn(msgs) /\ ~HasRow(o))
                 /\ joined[o].key \notin sets[1] \ signers}
    /\ votes' = [o \in Operators |->
           VotesOf(msgs, o) + IF o \in CreatedIn(msgs) THEN 0 ELSE votes[o]]
    /\ phase' = "handle" /\ msgs' = << >> /\ jails' = << >> /\ signers' = {}
    /\ UNCHANGED <<scope, height, rows>>

\* Genesis: validators of genesis transactions, or of an exported state.
GenesisEvents(ops, key, exported, out) ==
    LET seq == SetToSeq(ops)
    IN  [i \in DOMAIN seq |->
            IF exported
            THEN [type |-> "CreateGenesisValidator", operator |-> seq[i], key |-> key[seq[i]],
                  status |-> IF seq[i] \in out THEN "Unbonding" ELSE "Bonded",
                  jailed |-> seq[i] \in out]
            ELSE [type |-> "MsgCreateValidator", operator |-> seq[i], key |-> key[seq[i]],
                  jailed |-> FALSE]]

Init ==
    /\ scope \in Scopes
    /\ \E ops \in SUBSET Operators \ {{}}, exported \in BOOLEAN :
       \E key \in {f \in [ops -> Keys] : \A o, p \in ops : f[o] = f[p] => o = p} :
       \E out \in SUBSET ops :
          /\ exported \/ out = {}
          /\ phase = "handle" /\ height = 0
          /\ joined = [o \in ops |-> [key |-> key[o], jailed |-> o \in out, active |-> o \notin out]]
          /\ sets = << {}, {key[o] : o \in ops \ out}, {key[o] : o \in ops \ out} >>
          /\ signers = {} /\ msgs = << >> /\ jails = << >>
          /\ events = GenesisEvents(ops, key, exported, out)
          /\ rows = << >> /\ votes = [o \in Operators |-> 0]
          /\ perfect = ops \ out

Next ==
    \/ BeginBlock
    \/ \E o \in Operators : (\E k \in Keys : MsgCreateValidator(o, k)) \/ MsgUnjail(o)
    \/ Other
    \/ EndBlock
    \/ HandleEvents

Spec == Init /\ [][Next]_vars

-----------------------------------------------------------------------------
(* Properties *)

RowId(o) == Newest(OfBoth(rows, o, joined[o].key))
RowOf(o) == rows[RowId(o)]

\* The newest row of an operator is the one its events are written to.  It is not the row
\* of a validator that has come back with a key it used before another one.
IsNewest(i) == i = Newest(OfOperator(rows, rows[i].operator))
Returned(o) == ~IsNewest(RowId(o))

\* Between two blocks a validator's row is bonded when the validator is in the
\* set, and jailed when it is (an exported genesis leaves "Unbonding"), although
\* slashing precedes the messages on the chain and follows them in the events
\* (projectValidatorView), unless it has returned to an earlier key.  An operator whose
\* newest row is bonded is a validator with the key of that row.
StatusMatchesChain ==
    phase = "begin" =>
        /\ \A o \in DOMAIN joined : ~Returned(o) =>
              /\ RowOf(o).status = "Bonded" <=> joined[o].active
              /\ RowOf(o).jailed = joined[o].jailed
              /\ joined[o].jailed => RowOf(o).status \in {"Jailed", "Unbonding"}
        /\ \A i \in DOMAIN rows :
              IsNewest(i) /\ rows[i].status = "Bonded" =>
                  \E o \in DOMAIN joined : o = rows[i].operator /\ joined[o].key = rows[i].key

\* Every validator an event or a signature is about has a row: HandleEvents is
\* never stuck on a block (errors of validatorsView.FindBy, validatorMap).
HandlerNeverFails == phase = "handle" => ~Fails(rows, events)

\* A validator that is in the set since it first joined and has missed no
\* signature has an up time of 1, though a set only signs two blocks after it is
\* elected ("give 10 blocks buffer on validator first join").
PerfectUpTime == phase = "begin" => \A o \in perfect : RowOf(o).signed = RowOf(o).active

\* A validator is never credited with a vote that its account did not cast (it may
\* be denied one: a vote of another account ends the handling of the block's votes).
VotesNotOvercounted ==
    phase = "begin" => \A o \in DOMAIN joined : RowOf(o).voted <= votes[o]

\* The numbers of a row, up time and votes, are those of its validator.
RowCountsAreTrue == PerfectUpTime /\ VotesNotOvercounted
=============================================================================
