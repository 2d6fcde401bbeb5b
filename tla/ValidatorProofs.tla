--------------------------- MODULE ValidatorProofs ---------------------------
(***************************************************************************)
(* Proofs about Validator and ValidatorActivities.                         *)
(***************************************************************************)
EXTENDS ValidatorActivities, FiniteSetTheorems, WellFoundedInduction, TLAPS

-----------------------------------------------------------------------------
(* Types *)

Statuses == {"Bonded", "Unbonded", "Inactive", "Jailed", "Unbonding"}

RowType == [operator : Operators, key : Keys, status : Statuses, jailed : BOOLEAN,
            joinedAt : Nat, signed : Nat, active : Nat, voted : Nat]

Messages ==
    [type : {"MsgCreateValidator"}, operator : Operators, key : Keys, jailed : {FALSE}]
    \cup [type : {"MsgUnjail", "MsgEditValidator"}, operator : Operators]
    \cup {m \in [type : {"MsgBeginRedelegate"}, src : Operators, dst : Operators] : m.src # m.dst}
    \cup [type : {"MsgVote"}, voter : Operators \cup {Outsider}]

Slashings == [type : {"ValidatorSlashed", "ValidatorJailed"}, key : Keys]

Events ==
    Messages \cup Slashings
    \cup [type : {"BlockCreated"}, signers : SUBSET Keys]
    \cup [type : {"PowerChanged"}, key : Keys, zero : BOOLEAN]
    \cup [type : {"CreateGenesisValidator"}, operator : Operators, key : Keys,
          status : {"Bonded", "Unbonding"}, jailed : BOOLEAN]

Validators == [key : Keys, jailed : BOOLEAN, active : BOOLEAN]

TypeOK ==
    /\ scope \in Scopes
    /\ phase \in {"begin", "txs", "handle"} /\ height \in Nat
    /\ DOMAIN joined \subseteq Operators /\ joined \in [DOMAIN joined -> Validators]
    /\ sets \in [1..3 -> SUBSET Keys] /\ signers \subseteq Keys
    /\ msgs \in Seq(Messages) /\ jails \in Seq(Slashings) /\ events \in Seq(Events)
    /\ rows \in Seq(RowType)
    /\ votes \in [Operators -> Nat] /\ perfect \subseteq Operators
    /\ phase # "txs" => msgs = << >> /\ jails = << >>
    /\ phase # "handle" => events = << >> /\ height > 0

-----------------------------------------------------------------------------
(* The inductive invariant *)

\* The events of the block so far, but for its slashings.
Happened == IF phase = "handle" THEN events ELSE msgs

IsCreatedIn(es, o, k) == \E m \in DOMAIN es : IsCreate(es[m]) /\ es[m].operator = o /\ es[m].key = k

\* The validator has a row, or will have one when the creations of the block are handled.
Declared(o, k) == OfBoth(rows, o, k) # {} \/ IsCreatedIn(Happened, o, k)

\* A key is in one row.
KeysUnique(rs) == \A i, j \in DOMAIN rs : rs[i].key = rs[j].key => i = j

KeysHaveOneOwner ==
    /\ KeysUnique(rows)
    /\ \A o, p \in DOMAIN joined : joined[o].key = joined[p].key => o = p
    /\ \A o \in DOMAIN joined, i \in DOMAIN rows :
           rows[i].key = joined[o].key => rows[i].operator = o

CreateValidators(es) ==
    \A m \in DOMAIN es : IsCreate(es[m]) =>
        /\ es[m].operator \in DOMAIN joined
        /\ joined[es[m].operator].key = es[m].key
        /\ \A l \in DOMAIN es :
               IsCreate(es[l]) /\ es[l].operator = es[m].operator => l = m

CreationsAreOfValidators == CreateValidators(Happened)

ValidatorsAreDeclared ==
    /\ \A o \in DOMAIN joined : Declared(o, joined[o].key)
    /\ \A i \in 1..3 : \A k \in sets[i] : \E o \in Operators : Declared(o, k)
    /\ sets[3] = KeysOf(Active)

EventsAreOfDeclared ==
    /\ signers \subseteq sets[1]
    /\ \A m \in DOMAIN jails :
           \E o \in DOMAIN joined : joined[o].key = jails[m].key
    /\ \A m \in DOMAIN Happened :
           LET e == Happened[m]
           IN  /\ e.type \in {"MsgUnjail", "MsgEditValidator"} =>
                      \E k \in Keys : Declared(e.operator, k)
               /\ e.type \in {"ValidatorJailed", "PowerChanged"} =>
                      \E o \in Operators : Declared(o, e.key)
               /\ e.type = "BlockCreated" =>
                      \A k \in e.signers : \E o \in Operators : Declared(o, k)

\* What the first n events tell of a validator.
UnjailedIn(es, n, o)    == \E m \in 1..n : es[m].type = "MsgUnjail" /\ es[m].operator = o
JailedIn(es, n, k)      == \E m \in 1..n : es[m].type = "ValidatorJailed" /\ es[m].key = k
PowerIn(es, n, k, zero) ==
    \E m \in 1..n : es[m].type = "PowerChanged" /\ es[m].key = k /\ es[m].zero = zero

\* What they make of its row.
JailedAfter(row, es, n) ==
    IF JailedIn(es, n, row.key) THEN TRUE
    ELSE IF UnjailedIn(es, n, row.operator) THEN FALSE
    ELSE row.jailed

StatusAfter(row, es, n) ==
    IF PowerIn(es, n, row.key, FALSE) THEN "Bonded"
    ELSE IF PowerIn(es, n, row.key, TRUE) /\ ~JailedAfter(row, es, n) THEN "Inactive"
    ELSE IF JailedIn(es, n, row.key) THEN "Jailed"
    ELSE IF UnjailedIn(es, n, row.operator) THEN "Inactive"
    ELSE row.status

\* The events of a block: powers come last, once for each key.
PowersComeLast(es) ==
    \A l, m \in DOMAIN es : es[l].type = "PowerChanged" =>
        /\ l < m => es[m].type = "PowerChanged"
        /\ es[m].type = "PowerChanged" /\ es[m].key = es[l].key => l = m

\* The row is the newest of its operator.
IsCurrent(rs, i) == \A j \in DOMAIN rs : rs[j].operator = rs[i].operator => j <= i

\* The row is the one of a validator of the chain.
OfValidator(row) == row.operator \in DOMAIN joined /\ joined[row.operator].key = row.key

Agrees(row, status, jailed) ==
    IF OfValidator(row)
    THEN LET v == joined[row.operator]
         IN  /\ status = "Bonded" <=> v.active
             /\ jailed = v.jailed
             /\ v.jailed => status \in {"Jailed", "Unbonding"}
    ELSE status # "Bonded"

StatusesAgree ==
    phase = "begin" =>
        \A i \in DOMAIN rows :
            IsCurrent(rows, i) => Agrees(rows[i], rows[i].status, rows[i].jailed)

ActiveIsNotJailed ==
    phase # "txs" => \A o \in DOMAIN joined : joined[o].active => ~joined[o].jailed

\* While the block is executed the chain differs from the rows by what the messages
\* and the slashings have to tell.
StatusesWillAgree ==
    phase = "txs" =>
        /\ \A o \in DOMAIN joined :
              /\ JailedIn(jails, Len(jails), joined[o].key)
                     <=> joined[o].active /\ joined[o].jailed
              /\ o \in CreatedIn(msgs) => ~joined[o].active /\ ~joined[o].jailed
              /\ UnjailedIn(msgs, Len(msgs), o) => ~joined[o].active /\ ~joined[o].jailed
        /\ \A i \in DOMAIN rows :
              IsCurrent(rows, i) =>
                  IF OfValidator(rows[i])
                  THEN LET v == joined[rows[i].operator]
                       IN  rows[i].operator \notin CreatedIn(msgs) =>
                             /\ rows[i].status = "Bonded" <=> v.active
                             /\ v.active => ~rows[i].jailed
                             /\ ~v.active /\ ~UnjailedIn(msgs, Len(msgs), rows[i].operator) =>
                                   /\ rows[i].jailed = v.jailed
                                   /\ v.jailed => rows[i].status \in {"Jailed", "Unbonding"}
                  ELSE rows[i].status # "Bonded"

\* The events handed to the projection make its rows agree with the chain.
EventsTell ==
    phase = "handle" =>
        /\ PowersComeLast(events)
        /\ \A i \in DOMAIN Known(rows, events) :
              LET row == Known(rows, events)[i]
              IN  IsCurrent(Known(rows, events), i) =>
                     /\ ~(/\ JailedIn(events, Len(events), row.key)
                          /\ UnjailedIn(events, Len(events), row.operator))
                     /\ Agrees(row, StatusAfter(row, events, Len(events)),
                                    JailedAfter(row, events, Len(events)))

\* A validator that never missed has the newest row of its operator, and its set signs
\* when it is old enough; n is the height up to which sets are known.
IsPerfect(rs, i, o, n) ==
    /\ rs[i].operator = o /\ rs[i].key = joined[o].key
    /\ IsCurrent(rs, i)
    /\ rs[i].signed = rs[i].active
    /\ rs[i].joinedAt <= n
    /\ joined[o].key \in sets[3]
    /\ n - rs[i].joinedAt >= 1 => joined[o].key \in sets[2]
    /\ n - rs[i].joinedAt >= 2 => joined[o].key \in sets[1]

PerfectHaveSigned ==
    /\ \A o \in perfect : o \in DOMAIN joined /\ joined[o].active
    /\ phase # "handle" =>
          \A o \in perfect :
              /\ o \notin CreatedIn(msgs)
              /\ \E i \in DOMAIN rows : IsPerfect(rows, i, o, height - 1)
    /\ phase = "handle" =>
          \A o \in perfect :
              \E i \in DOMAIN Known(rows, events) :
                  /\ IsPerfect(Known(rows, events), i, o, height)
                  /\ \A m \in DOMAIN events : events[m].type = "BlockCreated" =>
                         \/ joined[o].key \in events[m].signers
                         \/ height - Known(rows, events)[i].joinedAt < 3

VotesAreCast ==
    /\ phase # "handle" =>
          \A o \in DOMAIN joined, i \in DOMAIN rows :
              o \notin CreatedIn(msgs) /\ rows[i].key = joined[o].key => rows[i].voted <= votes[o]
    /\ phase = "handle" =>
          \A o \in DOMAIN joined, i \in DOMAIN Known(rows, events) :
              Known(rows, events)[i].key = joined[o].key =>
                  Known(rows, events)[i].voted + VotesOf(events, o) <= votes[o]

IndInv ==
    /\ TypeOK
    /\ KeysHaveOneOwner /\ CreationsAreOfValidators
    /\ ValidatorsAreDeclared /\ EventsAreOfDeclared
    /\ ActiveIsNotJailed /\ StatusesAgree /\ StatusesWillAgree /\ EventsTell
    /\ PerfectHaveSigned /\ VotesAreCast

-----------------------------------------------------------------------------
(* Numbers, newest rows and passes over events *)

\* A set of numbers has a least one.
LEMMA LeastNumber ==
    ASSUME NEW S, S \subseteq Nat, S # {}
    PROVE  \E n \in S : \A m \in S : n <= m
  <1> DEFINE T == {1..n : n \in S}
             R == StrictSubsetOrdering(Nat)
             F == FiniteSubsetsOf(Nat)
  <1>1. T \subseteq F /\ T # {}
    <2>1. \A n \in S : IsFiniteSet(1..n) /\ (1..n) \subseteq Nat
      BY FS_Interval
    <2> QED
      BY <2>1 DEF FiniteSubsetsOf
  <1>2. IsWellFoundedOn(R, F)
    BY FS_StrictSubsetOrderingWellFounded
  <1>3. \E x \in T : \A y \in T : <<y, x>> \notin R
    <2> HIDE DEF R, T, F
    <2> QED
      BY <1>1, <1>2, WFMin
  <1>4. PICK n \in S : \A m \in S : <<1..m, 1..n>> \notin R
    BY <1>3
  <1>5. ASSUME NEW m \in S, m < n PROVE FALSE
    <2>1. (1..m) \subseteq (1..n) /\ n \in (1..n) /\ n \notin 1..m
      BY <1>5
    <2>2. <<1..m, 1..n>> \in R
      BY <2>1 DEF StrictSubsetOrdering
    <2> QED
      BY <2>2, <1>4
  <1> QED
    BY <1>5

\* A set that holds 0 and with every number the next one, up to N, holds all of them.
LEMMA UpTo ==
    ASSUME NEW N \in Nat, NEW S, 0 \in S,
           \A n \in 1..N : n - 1 \in S => n \in S
    PROVE  \A n \in 0..N : n \in S
  <1> DEFINE T == {n \in 0..N : n \notin S}
  <1> SUFFICES ASSUME T # {} PROVE FALSE
    OBVIOUS
  <1>0. T \subseteq Nat
    OBVIOUS
  <1>1. PICK n \in T : \A m \in T : n <= m
    <2> HIDE DEF T
    <2> QED
      BY <1>0, LeastNumber
  <1>2. n \in 1..N /\ n - 1 \in 0..N /\ n - 1 \notin T
    BY <1>1
  <1> QED
    BY <1>1, <1>2

\* There is a newest row among some of them.
LEMMA NewestIs ==
    ASSUME NEW N \in Nat, NEW ids, ids \subseteq 1..N, ids # {}
    PROVE  /\ Newest(ids) \in ids
           /\ \A j \in ids : j <= Newest(ids)
  <1> DEFINE S == {N - i : i \in ids}
  <1>1. S \subseteq Nat /\ S # {}
    <2>1. \A i \in ids : N - i \in Nat
      OBVIOUS
    <2>2. PICK i \in ids : TRUE
      OBVIOUS
    <2>3. N - i \in S
      OBVIOUS
    <2> QED
      BY <2>1, <2>3
  <1>2. PICK n \in S : \A m \in S : n <= m
    <2> HIDE DEF S
    <2> QED
      BY <1>1, LeastNumber
  <1>3. PICK i \in ids : n = N - i
    BY <1>2
  <1>4. ASSUME NEW j \in ids PROVE j <= i
    <2>1. N - j \in S
      OBVIOUS
    <2>2. N - i <= N - j /\ i \in 1..N /\ j \in 1..N
      BY <2>1, <1>2, <1>3
    <2> QED
      BY <2>2
  <1> QED
    BY <1>4 DEF Newest

\* A loop that takes one step for each of N events: what it holds after n of them.
Loops(f, N, A, a, step) ==
    /\ f \in [0..N -> A]
    /\ f[0] = a
    /\ \A n \in 1..N : f[n] = step[n][f[n - 1]]

LEMMA LoopExists ==
    ASSUME NEW N \in Nat, NEW A, NEW a \in A, NEW step \in [1..N -> [A -> A]]
    PROVE  \E f : Loops(f, N, A, a, step)
  <1> DEFINE S == {n \in 0..N : \E f : Loops(f, n, A, a, step)}
  <1>1. 0 \in S
    <2>1. Loops([n \in 0..0 |-> a], 0, A, a, step)
      BY DEF Loops
    <2> QED
      BY <2>1
  <1>2. ASSUME NEW n \in 1..N, n - 1 \in S PROVE n \in S
    <2>1. PICK g : Loops(g, n - 1, A, a, step)
      BY <1>2
    <2> DEFINE f == [m \in 0..n |-> IF m = n THEN step[n][g[n - 1]] ELSE g[m]]
    <2>2. step[n][g[n - 1]] \in A
      BY <2>1 DEF Loops
    <2>3. f \in [0..n -> A] /\ f[0] = a
      BY <2>1, <2>2 DEF Loops
    <2>4. ASSUME NEW m \in 1..n PROVE f[m] = step[m][f[m - 1]]
      <3>1. m - 1 \in 0..(n - 1) /\ f[m - 1] = g[m - 1]
        OBVIOUS
      <3>2. CASE m = n
        BY <3>1, <3>2
      <3>3. CASE m # n
        BY <3>1, <3>3, <2>1 DEF Loops
      <3> QED
        BY <3>2, <3>3
    <2>5. Loops(f, n, A, a, step)
      BY <2>3, <2>4 DEF Loops
    <2> HIDE DEF f
    <2> QED
      BY <2>5
  <1>3. \A n \in 0..N : n \in S
    <2> HIDE DEF S
    <2> QED
      BY <1>1, <1>2, UpTo
  <1> QED
    BY <1>3

-----------------------------------------------------------------------------
(* Types of the operators *)

LEMMA IsASeqOfLen ==
    ASSUME NEW n \in Nat, NEW S, NEW t \in [1..n -> S]
    PROVE  t \in Seq(S) /\ Len(t) = n
  OBVIOUS

LEMMA EventFields ==
    ASSUME NEW e \in Events
    PROVE  /\ IsCreate(e) => e.operator \in Operators /\ e.key \in Keys /\ e.jailed \in BOOLEAN
           /\ e.type = "CreateGenesisValidator" => e.status \in {"Bonded", "Unbonding"}
           /\ e.type \in {"MsgUnjail", "MsgEditValidator"} => e.operator \in Operators
           /\ e.type = "MsgBeginRedelegate" =>
                 e.src \in Operators /\ e.dst \in Operators /\ e.src # e.dst
           /\ e.type \in {"ValidatorJailed", "ValidatorSlashed", "PowerChanged"} => e.key \in Keys
           /\ e.type = "PowerChanged" => e.zero \in BOOLEAN
           /\ e.type = "BlockCreated" => e.signers \subseteq Keys
  BY DEF Events, Messages, Slashings, IsCreate

LEMMA RowsOfSeq ==
    ASSUME NEW rs \in Seq(RowType)
    PROVE  /\ Len(rs) \in Nat /\ DOMAIN rs = 1..Len(rs)
           /\ \A i \in DOMAIN rs : rs[i] \in RowType
           /\ \A o : OfOperator(rs, o) \subseteq 1..Len(rs)
           /\ \A k : OfKey(rs, k) \subseteq 1..Len(rs)
           /\ \A o, k : OfBoth(rs, o, k) \subseteq 1..Len(rs)
           /\ rs = [i \in 1..Len(rs) |-> rs[i]]
  BY DEF OfOperator, OfKey, OfBoth

\* A row that is changed leaves a table of rows.
LEMMA RowChanged ==
    ASSUME NEW rs \in Seq(RowType), NEW i, NEW row \in RowType
    PROVE  /\ [rs EXCEPT ![i] = row] \in Seq(RowType)
           /\ Len([rs EXCEPT ![i] = row]) = Len(rs)
           /\ DOMAIN [rs EXCEPT ![i] = row] = DOMAIN rs
           /\ \A j \in DOMAIN rs : [rs EXCEPT ![i] = row][j] = IF j = i THEN row ELSE rs[j]
  <1> DEFINE t == [rs EXCEPT ![i] = row]
  <1>1. DOMAIN t = DOMAIN rs /\ \A j \in DOMAIN rs : t[j] = IF j = i THEN row ELSE rs[j]
    OBVIOUS
  <1>2. DOMAIN rs = 1..Len(rs) /\ Len(rs) \in Nat /\ \A j \in 1..Len(rs) : rs[j] \in RowType
    BY RowsOfSeq
  <1>3. t = [j \in 1..Len(rs) |-> t[j]]
    BY <1>1, <1>2
  <1>4. \A j \in 1..Len(rs) : t[j] \in RowType
    BY <1>1, <1>2
  <1> HIDE DEF t
  <1>5. t \in Seq(RowType) /\ Len(t) = Len(rs)
    <2>1. t \in [1..Len(rs) -> RowType]
      BY <1>3, <1>4
    <2> QED
      BY <2>1, <1>2, IsASeqOfLen
  <1> QED
    BY <1>1, <1>5 DEF t

LEMMA StatusOfType ==
    ASSUME NEW e \in Events, IsCreate(e)
    PROVE  StatusOf(e) \in Statuses
  BY EventFields DEF StatusOf, Statuses

LEMMA RowTyped ==
    ASSUME height \in Nat, NEW e \in Events, IsCreate(e)
    PROVE  Row(e, StatusOf(e)) \in RowType
  BY EventFields, StatusOfType DEF Row, RowType

LEMMA UpsertTyped ==
    ASSUME NEW rs \in Seq(RowType), NEW row \in RowType
    PROVE  Upsert(rs, row) \in Seq(RowType)
  <1> DEFINE same == OfBoth(rs, row.operator, row.key)
             i == Newest(same)
  <1>1. CASE same = {}
    BY <1>1 DEF Upsert
  <1>2. CASE same # {}
    <2>1. i \in same /\ same \subseteq DOMAIN rs
      BY <1>2, NewestIs, RowsOfSeq
    <2>2. [row EXCEPT !.joinedAt = rs[i].joinedAt] \in RowType
      BY <2>1, RowsOfSeq DEF RowType
    <2>3. Upsert(rs, row) = [rs EXCEPT ![i] = [row EXCEPT !.joinedAt = rs[i].joinedAt]]
      BY <1>2 DEF Upsert
    <2> HIDE DEF i
    <2> QED
      BY <2>2, <2>3, RowChanged
  <1> QED
    BY <1>1, <1>2

LEMMA CreateTyped ==
    ASSUME height \in Nat, NEW rs \in Seq(RowType), NEW e \in Events
    PROVE  Create(rs, e) \in Seq(RowType)
  BY RowTyped, UpsertTyped DEF Create

\* The rows that the first pass knows after n events.
LEMMA KnownByPrefix ==
    ASSUME height \in Nat, NEW rs \in Seq(RowType), NEW es \in Seq(Events)
    PROVE  \E f \in [0..Len(es) -> Seq(RowType)] :
              /\ f[0] = rs
              /\ \A n \in 1..Len(es) : f[n] = Create(f[n - 1], es[n])
              /\ Known(rs, es) = f[Len(es)]
  <1>0. PICK N \in Nat : N = Len(es)
    OBVIOUS
  <1> DEFINE Rows == Seq(RowType)
             step == [n \in 1..N |-> [x \in Rows |-> Create(x, es[n])]]
             Is(f) == f = [n \in 0..N |-> IF n = 0 THEN rs ELSE Create(f[n - 1], es[n])]
             known == CHOOSE f : Is(f)
  <1>1. N \in Nat /\ \A n \in 1..N : es[n] \in Events
    BY <1>0
  <1>2. step \in [1..N -> [Rows -> Rows]]
    BY <1>1, CreateTyped
  <1>3. PICK f : Loops(f, N, Rows, rs, step)
    <2>1. rs \in Rows
      OBVIOUS
    <2> HIDE DEF step, Rows
    <2> QED
      BY <1>2, <2>1, LoopExists
  <1>4. \A n \in 0..N : f[n] = IF n = 0 THEN rs ELSE Create(f[n - 1], es[n])
    <2> SUFFICES ASSUME NEW n \in 0..N, n # 0 PROVE f[n] = Create(f[n - 1], es[n])
      BY <1>3 DEF Loops
    <2>1. n \in 1..N /\ n - 1 \in 0..N
      BY <1>1
    <2>2. f[n - 1] \in Rows
      <3> HIDE DEF Rows
      <3> QED
        BY <2>1, <1>3 DEF Loops
    <2>3. f[n] = step[n][f[n - 1]]
      BY <1>3, <2>1 DEF Loops
    <2> QED
      BY <2>1, <2>2, <2>3
  <1>5. f = [n \in 0..N |-> IF n = 0 THEN rs ELSE Create(f[n - 1], es[n])]
    <2>1. f = [n \in 0..N |-> f[n]]
      BY <1>3 DEF Loops
    <2> QED
      BY <2>1, <1>4
  <1>6. Is(known)
    BY <1>5
  <1>7. Known(rs, es) = known[N]
    BY <1>0 DEF Known
  <1> HIDE DEF known
  <1>8. known[0] = rs /\ \A n \in 1..N : known[n] = Create(known[n - 1], es[n])
    BY <1>1, <1>6
  <1>9. \A n \in 0..N : known[n] \in Rows
    <2> DEFINE S == {n \in 0..N : known[n] \in Rows}
    <2>1. 0 \in S
      BY <1>1, <1>8
    <2>2. ASSUME NEW n \in 1..N, n - 1 \in S PROVE n \in S
      <3>1. known[n - 1] \in Rows /\ es[n] \in Events /\ n \in 0..N
        BY <1>1, <2>2
      <3>2. Create(known[n - 1], es[n]) \in Rows
        BY <3>1, CreateTyped
      <3> QED
        BY <3>1, <3>2, <1>8
    <2> HIDE DEF S
    <2>3. \A n \in 0..N : n \in S
      BY <1>1, <2>1, <2>2, UpTo
    <2> QED
      BY <2>3 DEF S
  <1>10. known \in [0..N -> Rows]
    BY <1>6, <1>9
  <1> QED
    BY <1>0, <1>7, <1>8, <1>10

-----------------------------------------------------------------------------
(* The first pass *)

CreationsDiffer(es) ==
    \A l, m \in DOMAIN es :
        /\ IsCreate(es[l]) /\ IsCreate(es[m])
        /\ es[l].operator = es[m].operator \/ es[l].key = es[m].key
        => l = m

KeysAgree(rs, es) ==
    \A m \in DOMAIN es, i \in DOMAIN rs :
        IsCreate(es[m]) /\ rs[i].key = es[m].key => rs[i].operator = es[m].operator

\* The row at i is what the creation e makes of it.
MadeBy(rs, e, i, row) ==
    /\ IsCreate(e)
    /\ row = [Row(e, StatusOf(e)) EXCEPT
                 !.joinedAt = IF i \in DOMAIN rs THEN rs[i].joinedAt ELSE height]
    /\ i \in DOMAIN rs => rs[i].operator = e.operator /\ rs[i].key = e.key

\* What the pass has made of rs after n events.
KnownIs(rs, es, n, R) ==
    /\ R \in Seq(RowType) /\ Len(rs) <= Len(R)
    /\ KeysUnique(R)
    /\ \A i \in DOMAIN R :
          \/ /\ i \in DOMAIN rs /\ R[i] = rs[i]
             /\ \A m \in 1..n : IsCreate(es[m]) => es[m].key # rs[i].key
          \/ \E m \in 1..n : MadeBy(rs, es[m], i, R[i])
    /\ \A m \in 1..n : IsCreate(es[m]) => \E i \in DOMAIN R : MadeBy(rs, es[m], i, R[i])

LEMMA MadeByHas ==
    ASSUME NEW rs, NEW e \in Events, NEW i, NEW row, MadeBy(rs, e, i, row)
    PROVE  /\ row.operator = e.operator /\ row.key = e.key /\ IsCreate(e)
           /\ row.status = StatusOf(e) /\ row.jailed = e.jailed
           /\ row.signed = 0 /\ row.active = 0 /\ row.voted = 0
           /\ row.joinedAt = IF i \in DOMAIN rs THEN rs[i].joinedAt ELSE height
  BY DEF MadeBy, Row

LEMMA KnownStep ==
    ASSUME height \in Nat, NEW rs \in Seq(RowType), NEW es \in Seq(Events),
           CreationsDiffer(es), KeysAgree(rs, es),
           NEW n \in 1..Len(es), NEW R, KnownIs(rs, es, n - 1, R)
    PROVE  KnownIs(rs, es, n, Create(R, es[n]))
  <1> DEFINE e == es[n]
             row == Row(e, StatusOf(e))
             same == OfBoth(R, e.operator, e.key)
             S == Create(R, e)
  <1>1. /\ e \in Events /\ n \in DOMAIN es /\ n \in Nat /\ n >= 1 /\ 1..n = (1..(n - 1)) \cup {n}
        /\ DOMAIN es = 1..Len(es) /\ Len(es) \in Nat
    OBVIOUS
  <1>2. /\ R \in Seq(RowType) /\ DOMAIN R = 1..Len(R) /\ Len(R) \in Nat
        /\ \A i \in DOMAIN R : R[i] \in RowType
        /\ DOMAIN rs = 1..Len(rs) /\ Len(rs) \in Nat /\ Len(rs) <= Len(R)
    BY RowsOfSeq DEF KnownIs
  <1>3. \A i \in DOMAIN R : R[i].key = e.key /\ IsCreate(e) => R[i].operator = e.operator
    <2> SUFFICES ASSUME NEW i \in DOMAIN R, R[i].key = e.key, IsCreate(e)
                 PROVE  R[i].operator = e.operator
      OBVIOUS
    <2>1. CASE i \in DOMAIN rs /\ R[i] = rs[i]
      BY <2>1, <1>1 DEF KeysAgree
    <2>2. CASE \E m \in 1..(n - 1) : MadeBy(rs, es[m], i, R[i])
      <3>1. PICK m \in 1..(n - 1) : MadeBy(rs, es[m], i, R[i])
        BY <2>2
      <3>2. m \in DOMAIN es /\ m # n /\ es[m] \in Events
        BY <1>1
      <3>3. es[m].key = e.key /\ IsCreate(es[m])
        BY <3>1, <3>2, MadeByHas
      <3> QED
        BY <3>2, <3>3, <1>1 DEF CreationsDiffer
    <2> QED
      BY <2>1, <2>2 DEF KnownIs
  <1>4. CASE ~IsCreate(e)
    <2>1. S = R
      BY <1>4 DEF Create
    <2> QED
      BY <2>1, <1>1, <1>4 DEF KnownIs
  <1>5. CASE IsCreate(e) /\ same = {}
    <2>1. S = Append(R, row) /\ row \in RowType /\ row.operator = e.operator /\ row.key = e.key
      BY <1>1, <1>5, RowTyped DEF Create, Upsert, Row
    <2>2. /\ S \in Seq(RowType) /\ Len(S) = Len(R) + 1 /\ DOMAIN S = 1..(Len(R) + 1)
          /\ \A i \in DOMAIN R : S[i] = R[i] /\ i # Len(R) + 1
          /\ S[Len(R) + 1] = row
      BY <2>1, <1>2
    <2>3. \A i \in DOMAIN R : R[i].key # e.key
      BY <1>2, <1>3, <1>5 DEF OfBoth, OfOperator, OfKey
    <2>4. KeysUnique(S)
      BY <1>2, <2>1, <2>2, <2>3 DEF KeysUnique, KnownIs
    <2>5. MadeBy(rs, e, Len(R) + 1, row)
      <3>1. Len(R) + 1 \notin DOMAIN rs
        BY <1>2
      <3>2. row = [row EXCEPT !.joinedAt = height]
        BY DEF Row
      <3> QED
        BY <1>5, <3>1, <3>2 DEF MadeBy
    <2>6. ASSUME NEW i \in DOMAIN S
          PROVE  \/ /\ i \in DOMAIN rs /\ S[i] = rs[i]
                    /\ \A m \in 1..n : IsCreate(es[m]) => es[m].key # rs[i].key
                 \/ \E m \in 1..n : MadeBy(rs, es[m], i, S[i])
      <3>1. CASE i = Len(R) + 1
        BY <3>1, <2>2, <2>5, <1>1
      <3>2. CASE i \in DOMAIN R
        <4>1. S[i] = R[i] /\ R[i].key # e.key
          BY <3>2, <2>2, <2>3
        <4>2. CASE /\ i \in DOMAIN rs /\ R[i] = rs[i]
                   /\ \A m \in 1..(n - 1) : IsCreate(es[m]) => es[m].key # rs[i].key
          BY <4>1, <4>2, <1>1
        <4>3. CASE \E m \in 1..(n - 1) : MadeBy(rs, es[m], i, R[i])
          BY <4>1, <4>3, <1>1
        <4> QED
          BY <3>2, <4>2, <4>3 DEF KnownIs
      <3> QED
        BY <3>1, <3>2, <2>2, <1>2
    <2>7. ASSUME NEW m \in 1..n, IsCreate(es[m])
          PROVE  \E i \in DOMAIN S : MadeBy(rs, es[m], i, S[i])
      <3>1. CASE m = n
        BY <3>1, <2>2, <2>5, <1>2
      <3>2. CASE m \in 1..(n - 1)
        <4>1. PICK i \in DOMAIN R : MadeBy(rs, es[m], i, R[i])
          BY <3>2, <2>7 DEF KnownIs
        <4>2. i \in DOMAIN S /\ S[i] = R[i]
          BY <2>2, <1>2
        <4> QED
          BY <4>1, <4>2
      <3> QED
        BY <3>1, <3>2, <1>1
    <2> HIDE DEF S, row
    <2>8. Len(rs) <= Len(S)
      BY <2>2, <1>2
    <2> QED
      BY <2>2, <2>4, <2>6, <2>7, <2>8 DEF KnownIs, S
  <1>6. CASE IsCreate(e) /\ same # {}
    <2> DEFINE j == Newest(same)
               new == [row EXCEPT !.joinedAt = R[j].joinedAt]
    <2>1. j \in DOMAIN R /\ R[j].operator = e.operator /\ R[j].key = e.key
      <3>1. j \in same
        BY <1>2, <1>6, NewestIs, RowsOfSeq
      <3> QED
        BY <3>1 DEF OfBoth, OfOperator, OfKey
    <2>2. j \in DOMAIN rs /\ R[j] = rs[j]
      <3>1. ASSUME NEW m \in 1..(n - 1), MadeBy(rs, es[m], j, R[j]) PROVE FALSE
        <4>1. m \in DOMAIN es /\ m # n /\ es[m] \in Events
          BY <1>1
        <4>2. es[m].key = e.key /\ IsCreate(es[m])
          BY <3>1, <4>1, <2>1, MadeByHas
        <4> QED
          BY <4>1, <4>2, <1>1, <1>6 DEF CreationsDiffer
      <3> QED
        BY <2>1, <3>1 DEF KnownIs
    <2>3. row \in RowType /\ new \in RowType /\ new.operator = e.operator /\ new.key = e.key
      <3>1. row \in RowType /\ row.operator = e.operator /\ row.key = e.key
        BY <1>1, <1>6, RowTyped DEF Row
      <3>2. R[j].joinedAt \in Nat
        BY <2>1, <1>2 DEF RowType
      <3> QED
        BY <3>1, <3>2 DEF RowType
    <2>4. S = [R EXCEPT ![j] = new]
      <3>1. S = Upsert(R, row) /\ row.operator = e.operator /\ row.key = e.key
        BY <1>6 DEF Create, Row
      <3> QED
        BY <3>1, <1>6 DEF Upsert
    <2>5. MadeBy(rs, e, j, new)
      BY <1>6, <2>1, <2>2 DEF MadeBy
    <2> HIDE DEF S, new, j, row
    <2>6. /\ S \in Seq(RowType) /\ Len(S) = Len(R) /\ DOMAIN S = DOMAIN R
          /\ \A i \in DOMAIN R : S[i] = IF i = j THEN new ELSE R[i]
      BY <2>3, <2>4, <1>2, RowChanged
    <2>7. KeysUnique(S)
      BY <1>2, <2>1, <2>3, <2>6 DEF KeysUnique, KnownIs
    <2>8. ASSUME NEW i \in DOMAIN S
          PROVE  \/ /\ i \in DOMAIN rs /\ S[i] = rs[i]
                    /\ \A m \in 1..n : IsCreate(es[m]) => es[m].key # rs[i].key
                 \/ \E m \in 1..n : MadeBy(rs, es[m], i, S[i])
      <3>1. CASE i = j
        BY <3>1, <2>1, <2>5, <2>6, <1>1
      <3>2. CASE i # j
        <4>1. S[i] = R[i] /\ R[i].key # e.key
          BY <3>2, <2>1, <2>6 DEF KnownIs, KeysUnique
        <4>2. CASE /\ i \in DOMAIN rs /\ R[i] = rs[i]
                   /\ \A m \in 1..(n - 1) : IsCreate(es[m]) => es[m].key # rs[i].key
          BY <4>1, <4>2, <1>1
        <4>3. CASE \E m \in 1..(n - 1) : MadeBy(rs, es[m], i, R[i])
          BY <4>1, <4>3, <1>1
        <4> QED
          BY <2>6, <4>2, <4>3 DEF KnownIs
      <3> QED
        BY <3>1, <3>2
    <2>9. ASSUME NEW m \in 1..n, IsCreate(es[m])
          PROVE  \E i \in DOMAIN S : MadeBy(rs, es[m], i, S[i])
      <3>1. CASE m = n
        BY <3>1, <2>1, <2>5, <2>6
      <3>2. CASE m \in 1..(n - 1)
        <4>1. PICK i \in DOMAIN R : MadeBy(rs, es[m], i, R[i])
          BY <3>2, <2>9 DEF KnownIs
        <4>2. i # j
          <5>1. m \in DOMAIN es /\ m # n /\ es[m] \in Events
            BY <1>1, <3>2
          <5>2. R[i].key = es[m].key
            BY <4>1, <5>1, MadeByHas
          <5> QED
            BY <5>1, <5>2, <2>1, <2>9, <1>1, <1>6 DEF CreationsDiffer
        <4>3. S[i] = R[i]
          BY <4>2, <2>6
        <4> QED
          BY <4>1, <4>3, <2>6
      <3> QED
        BY <3>1, <3>2, <1>1
    <2>10. Len(rs) <= Len(S)
      BY <2>6, <1>2
    <2> QED
      BY <2>6, <2>7, <2>8, <2>9, <2>10 DEF KnownIs, S
  <1> QED
    BY <1>4, <1>5, <1>6

\* What the first pass makes of the rows.
LEMMA FirstPass ==
    ASSUME height \in Nat, NEW rs \in Seq(RowType), NEW es \in Seq(Events),
           KeysUnique(rs), CreationsDiffer(es), KeysAgree(rs, es)
    PROVE  KnownIs(rs, es, Len(es), Known(rs, es))
  <1>0. PICK N \in Nat : N = Len(es)
    OBVIOUS
  <1>1. PICK f \in [0..N -> Seq(RowType)] :
           /\ f[0] = rs
           /\ \A n \in 1..N : f[n] = Create(f[n - 1], es[n])
           /\ Known(rs, es) = f[N]
    BY <1>0, KnownByPrefix
  <1> DEFINE S == {n \in 0..N : KnownIs(rs, es, n, f[n])}
  <1>2. 0 \in S
    <2>1. Len(rs) \in Nat
      OBVIOUS
    <2> QED
      BY <1>1, <2>1 DEF KnownIs
  <1>3. ASSUME NEW n \in 1..N, n - 1 \in S PROVE n \in S
    <2>1. KnownIs(rs, es, n - 1, f[n - 1])
      BY <1>3
    <2>2. KnownIs(rs, es, n, Create(f[n - 1], es[n]))
      BY <2>1, <1>0, KnownStep
    <2> QED
      BY <2>2, <1>1
  <1>4. \A n \in 0..N : n \in S
    <2> HIDE DEF S
    <2> QED
      BY <1>2, <1>3, UpTo
  <1>5. KnownIs(rs, es, N, f[N])
    BY <1>4
  <1> QED
    BY <1>0, <1>1, <1>5

-----------------------------------------------------------------------------
(* The second pass *)

LEMMA ChangedTyped ==
    ASSUME NEW row \in RowType, NEW e \in Events
    PROVE  /\ Changed(row, e) \in RowType
           /\ Changed(row, e) = [row EXCEPT !.status = Changed(row, e).status,
                                            !.jailed = Changed(row, e).jailed]
  BY DEF Changed, RowType, Statuses

LEMMA ChangeIs ==
    ASSUME NEW rs \in Seq(RowType), NEW e \in Events
    PROVE  /\ Change(rs, e) \in Seq(RowType)
           /\ Len(Change(rs, e)) = Len(rs)
           /\ \A i \in DOMAIN rs :
                 Change(rs, e)[i] = IF ChangesRow(e) /\ i = Newest(Concerned(rs, e))
                                    THEN Changed(rs[i], e) ELSE rs[i]
  <1> DEFINE j == Newest(Concerned(rs, e))
  <1>1. CASE ~ChangesRow(e)
    BY <1>1 DEF Change
  <1>2. CASE ChangesRow(e) /\ j \in DOMAIN rs
    <2>1. Changed(rs[j], e) \in RowType
      BY <1>2, RowsOfSeq, ChangedTyped
    <2>2. Change(rs, e) = [rs EXCEPT ![j] = Changed(rs[j], e)]
      BY <1>2 DEF Change
    <2> HIDE DEF j
    <2>3. /\ Change(rs, e) \in Seq(RowType)
          /\ Len(Change(rs, e)) = Len(rs)
          /\ \A i \in DOMAIN rs :
                Change(rs, e)[i] = IF i = j THEN Changed(rs[j], e) ELSE rs[i]
      BY <2>1, <2>2, RowChanged
    <2> QED
      BY <1>2, <2>3 DEF j
  <1>3. CASE ChangesRow(e) /\ j \notin DOMAIN rs
    <2>1. Change(rs, e) = rs
      <3>1. Change(rs, e) = [rs EXCEPT ![j] = Changed(rs[j], e)]
        BY <1>3 DEF Change
      <3> HIDE DEF j
      <3> QED
        BY <3>1, <1>3, RowsOfSeq
    <2> QED
      BY <2>1, <1>3
  <1> QED
    BY <1>1, <1>2, <1>3

\* The rows after n events of the second pass.
LEMMA ViewedByPrefix ==
    ASSUME height \in Nat, NEW rs, NEW es \in Seq(Events), Known(rs, es) \in Seq(RowType)
    PROVE  \E f \in [0..Len(es) -> Seq(RowType)] :
              /\ f[0] = Known(rs, es)
              /\ \A n \in 1..Len(es) : f[n] = Change(f[n - 1], es[n])
              /\ ProjectValidatorView(rs, es) = f[Len(es)]
  <1>0. PICK N \in Nat : N = Len(es)
    OBVIOUS
  <1> DEFINE Rows == Seq(RowType)
             known == Known(rs, es)
             step == [n \in 1..N |-> [x \in Rows |-> Change(x, es[n])]]
             Is(f) == f = [n \in 0..N |-> IF n = 0 THEN Known(rs, es) ELSE Change(f[n - 1], es[n])]
             viewed == CHOOSE f : Is(f)
  <1>1. N \in Nat /\ \A n \in 1..N : es[n] \in Events
    BY <1>0
  <1>2. step \in [1..N -> [Rows -> Rows]]
    BY <1>1, ChangeIs
  <1>3. PICK f : Loops(f, N, Rows, known, step)
    <2>1. known \in Rows
      OBVIOUS
    <2> HIDE DEF step, Rows, known
    <2> QED
      BY <1>2, <2>1, LoopExists
  <1>4. \A n \in 0..N : f[n] = IF n = 0 THEN Known(rs, es) ELSE Change(f[n - 1], es[n])
    <2> SUFFICES ASSUME NEW n \in 0..N, n # 0 PROVE f[n] = Change(f[n - 1], es[n])
      BY <1>3 DEF Loops
    <2>1. n \in 1..N /\ n - 1 \in 0..N
      BY <1>1
    <2>2. f[n - 1] \in Rows
      <3> HIDE DEF Rows
      <3> QED
        BY <2>1, <1>3 DEF Loops
    <2>3. f[n] = step[n][f[n - 1]]
      BY <1>3, <2>1 DEF Loops
    <2> QED
      BY <2>1, <2>2, <2>3
  <1>5. f = [n \in 0..N |-> IF n = 0 THEN Known(rs, es) ELSE Change(f[n - 1], es[n])]
    <2>1. f = [n \in 0..N |-> f[n]]
      BY <1>3 DEF Loops
    <2> QED
      BY <2>1, <1>4
  <1>6. Is(viewed)
    BY <1>5
  <1>7. ProjectValidatorView(rs, es) = viewed[N]
    BY <1>0 DEF ProjectValidatorView
  <1> HIDE DEF viewed
  <1>8. viewed[0] = Known(rs, es) /\ \A n \in 1..N : viewed[n] = Change(viewed[n - 1], es[n])
    BY <1>1, <1>6
  <1>9. \A n \in 0..N : viewed[n] \in Rows
    <2> DEFINE S == {n \in 0..N : viewed[n] \in Rows}
    <2>1. 0 \in S
      BY <1>1, <1>8
    <2>2. ASSUME NEW n \in 1..N, n - 1 \in S PROVE n \in S
      <3>1. viewed[n - 1] \in Rows /\ es[n] \in Events /\ n \in 0..N
        BY <1>1, <2>2
      <3>2. Change(viewed[n - 1], es[n]) \in Rows
        BY <3>1, ChangeIs
      <3> QED
        BY <3>1, <3>2, <1>8
    <2> HIDE DEF S
    <2>3. \A n \in 0..N : n \in S
      BY <1>1, <2>1, <2>2, UpTo
    <2> QED
      BY <2>3 DEF S
  <1>10. viewed \in [0..N -> Rows]
    BY <1>6, <1>9
  <1> QED
    BY <1>0, <1>7, <1>8, <1>10

\* The pass keeps everything but statuses.
SameRows(R, V) ==
    /\ V \in Seq(RowType) /\ Len(V) = Len(R)
    /\ \A i \in DOMAIN R : V[i] = [R[i] EXCEPT !.status = V[i].status, !.jailed = V[i].jailed]

LEMMA SameColumns ==
    ASSUME NEW R \in Seq(RowType), NEW V, SameRows(R, V)
    PROVE  /\ DOMAIN V = DOMAIN R
           /\ \A i \in DOMAIN R :
                 /\ V[i] \in RowType
                 /\ V[i].operator = R[i].operator /\ V[i].key = R[i].key
                 /\ V[i].joinedAt = R[i].joinedAt /\ V[i].signed = R[i].signed
                 /\ V[i].active = R[i].active /\ V[i].voted = R[i].voted
           /\ \A o : OfOperator(V, o) = OfOperator(R, o)
           /\ \A k : OfKey(V, k) = OfKey(R, k)
           /\ \A e : Concerned(V, e) = Concerned(R, e)
  <1>1. DOMAIN V = DOMAIN R
    BY RowsOfSeq DEF SameRows
  <1>2. ASSUME NEW i \in DOMAIN R
        PROVE  /\ V[i] \in RowType
               /\ V[i].operator = R[i].operator /\ V[i].key = R[i].key
               /\ V[i].joinedAt = R[i].joinedAt /\ V[i].signed = R[i].signed
               /\ V[i].active = R[i].active /\ V[i].voted = R[i].voted
    <2>1. V[i] \in RowType /\ R[i] \in RowType
      BY <1>1, RowsOfSeq DEF SameRows
    <2>2. V[i] = [R[i] EXCEPT !.status = V[i].status, !.jailed = V[i].jailed]
      BY DEF SameRows
    <2> QED
      BY <2>1, <2>2 DEF RowType
  <1>3. \A o : OfOperator(V, o) = OfOperator(R, o)
    BY <1>1, <1>2 DEF OfOperator
  <1>4. \A k : OfKey(V, k) = OfKey(R, k)
    BY <1>1, <1>2 DEF OfKey
  <1> QED
    BY <1>1, <1>2, <1>3, <1>4 DEF Concerned

LEMMA SameRowsStep ==
    ASSUME NEW R \in Seq(RowType), NEW V, SameRows(R, V), NEW e \in Events
    PROVE  SameRows(R, Change(V, e))
  <1>1. V \in Seq(RowType) /\ DOMAIN V = DOMAIN R /\ Len(V) = Len(R)
    BY SameColumns DEF SameRows
  <1> DEFINE W == Change(V, e)
  <1>2. /\ W \in Seq(RowType) /\ Len(W) = Len(V)
        /\ \A i \in DOMAIN V : W[i] = V[i] \/ W[i] = Changed(V[i], e)
    BY <1>1, ChangeIs
  <1>3. ASSUME NEW i \in DOMAIN R
        PROVE  W[i] = [R[i] EXCEPT !.status = W[i].status, !.jailed = W[i].jailed]
    <2>1. V[i] = [R[i] EXCEPT !.status = V[i].status, !.jailed = V[i].jailed]
      BY DEF SameRows
    <2>2. CASE W[i] = V[i]
      BY <2>1, <2>2
    <2>3. CASE W[i] = Changed(V[i], e)
      <3>1. V[i] \in RowType /\ R[i] \in RowType
        BY SameColumns, RowsOfSeq
      <3>2. W[i] = [V[i] EXCEPT !.status = W[i].status, !.jailed = W[i].jailed]
        <4>1. Changed(V[i], e) = [V[i] EXCEPT !.status = Changed(V[i], e).status,
                                               !.jailed = Changed(V[i], e).jailed]
          BY <3>1, ChangedTyped
        <4> HIDE DEF W
        <4> QED
          BY <4>1, <2>3
      <3> QED
        BY <2>1, <3>1, <3>2 DEF RowType
    <2> QED
      BY <1>1, <1>2, <2>2, <2>3
  <1> QED
    BY <1>1, <1>2, <1>3 DEF SameRows

\* One more event.
LEMMA OneMoreEvent ==
    ASSUME NEW es, NEW n \in Nat, n >= 1
    PROVE  /\ \A o : UnjailedIn(es, n, o) <=>
                 UnjailedIn(es, n - 1, o) \/ (es[n].type = "MsgUnjail" /\ es[n].operator = o)
           /\ \A k : JailedIn(es, n, k) <=>
                 JailedIn(es, n - 1, k) \/ (es[n].type = "ValidatorJailed" /\ es[n].key = k)
           /\ \A k, z : PowerIn(es, n, k, z) <=>
                 \/ PowerIn(es, n - 1, k, z)
                 \/ es[n].type = "PowerChanged" /\ es[n].key = k /\ es[n].zero = z
  <1>1. 1..n = (1..(n - 1)) \cup {n}
    OBVIOUS
  <1> QED
    BY <1>1 DEF UnjailedIn, JailedIn, PowerIn

\* Every event that changes a row finds one.
EventsFindRows(rs, es) == \A m \in DOMAIN es : ChangesRow(es[m]) => Concerned(rs, es[m]) # {}

\* A row that is the newest of its operator is the only one of its key.
LEMMA ConcernedIs ==
    ASSUME NEW R \in Seq(RowType), KeysUnique(R), NEW i \in DOMAIN R, IsCurrent(R, i),
           NEW e \in Events, ChangesRow(e), Concerned(R, e) # {}
    PROVE  Newest(Concerned(R, e)) = i <=>
               IF e.type \in {"ValidatorJailed", "PowerChanged"}
               THEN e.key = R[i].key ELSE e.operator = R[i].operator
  <1> DEFINE j == Newest(Concerned(R, e))
  <1>1. Concerned(R, e) \subseteq 1..Len(R) /\ Len(R) \in Nat /\ DOMAIN R = 1..Len(R)
    BY RowsOfSeq DEF Concerned
  <1>2. j \in Concerned(R, e) /\ \A l \in Concerned(R, e) : l <= j
    BY <1>1, NewestIs
  <1> HIDE DEF j
  <1>3. CASE e.type \in {"ValidatorJailed", "PowerChanged"}
    <2>1. Concerned(R, e) = {l \in DOMAIN R : R[l].key = e.key}
      BY <1>3 DEF Concerned, OfKey
    <2> QED
      BY <1>2, <1>3, <2>1 DEF KeysUnique, j
  <1>4. CASE e.type \notin {"ValidatorJailed", "PowerChanged"}
    <2>1. Concerned(R, e) = {l \in DOMAIN R : R[l].operator = e.operator}
      BY <1>4 DEF Concerned, OfOperator
    <2>2. e.operator = R[i].operator => i <= j /\ j <= i
      BY <1>2, <2>1 DEF IsCurrent
    <2> QED
      BY <1>1, <1>2, <1>4, <2>1, <2>2 DEF j
  <1> QED
    BY <1>3, <1>4

\* What the pass has made of a row after n events.
RowTells(R, es, n, i, V) ==
    /\ V[i].status = StatusAfter(R[i], es, n)
    /\ V[i].jailed = JailedAfter(R[i], es, n)

LEMMA RowTellsStep ==
    ASSUME NEW R \in Seq(RowType), KeysUnique(R), NEW i \in DOMAIN R, IsCurrent(R, i),
           NEW es \in Seq(Events), EventsFindRows(R, es), PowersComeLast(es),
           ~(JailedIn(es, Len(es), R[i].key) /\ UnjailedIn(es, Len(es), R[i].operator)),
           NEW n \in 1..Len(es), NEW V, SameRows(R, V), RowTells(R, es, n - 1, i, V)
    PROVE  RowTells(R, es, n, i, Change(V, es[n]))
  <1> DEFINE e == es[n]
             k == R[i].key
             o == R[i].operator
             W == Change(V, e)
             mine == IF e.type \in {"ValidatorJailed", "PowerChanged"} THEN e.key = k
                     ELSE e.operator = o
  <1>1. /\ n \in Nat /\ n >= 1 /\ n \in DOMAIN es /\ e \in Events
        /\ DOMAIN es = 1..Len(es) /\ Len(es) \in Nat
    OBVIOUS
  <1>2. R[i] \in RowType /\ V[i] \in RowType /\ V \in Seq(RowType) /\ i \in DOMAIN V
    BY SameColumns, RowsOfSeq DEF SameRows
  <1>3. ~ChangesRow(e) => W[i] = V[i]
    BY <1>1, <1>2, ChangeIs
  <1>4. ChangesRow(e) => W[i] = IF mine THEN Changed(V[i], e) ELSE V[i]
    <2> SUFFICES ASSUME ChangesRow(e) PROVE W[i] = IF mine THEN Changed(V[i], e) ELSE V[i]
      OBVIOUS
    <2>1. Concerned(R, e) # {}
      BY <1>1 DEF EventsFindRows
    <2>2. Newest(Concerned(R, e)) = i <=> mine
      BY <2>1, <1>1, ConcernedIs
    <2>3. Concerned(V, e) = Concerned(R, e)
      BY SameColumns
    <2>4. W[i] = IF ChangesRow(e) /\ i = Newest(Concerned(V, e)) THEN Changed(V[i], e) ELSE V[i]
      BY <1>1, <1>2, ChangeIs
    <2> HIDE DEF W, mine, e
    <2> QED
      BY <2>2, <2>3, <2>4
  <1>5. ~(JailedIn(es, n, k) /\ UnjailedIn(es, n, o))
    <2>1. \A m \in 1..n : m \in 1..Len(es)
      BY <1>1
    <2> QED
      BY <2>1 DEF JailedIn, UnjailedIn
  <1>6. e.type # "PowerChanged" => \A z : ~PowerIn(es, n - 1, k, z)
    <2>1. \A m \in 1..(n - 1) : m \in DOMAIN es /\ m < n
      BY <1>1
    <2> QED
      BY <2>1, <1>1 DEF PowerIn, PowersComeLast
  <1>7. e.type = "PowerChanged" /\ e.key = k => \A z : ~PowerIn(es, n - 1, k, z)
    <2>1. \A m \in 1..(n - 1) : m \in DOMAIN es /\ m # n
      BY <1>1
    <2> QED
      BY <2>1, <1>1 DEF PowerIn, PowersComeLast
  <1>8. /\ UnjailedIn(es, n, o) <=>
              UnjailedIn(es, n - 1, o) \/ (e.type = "MsgUnjail" /\ e.operator = o)
        /\ JailedIn(es, n, k) <=>
              JailedIn(es, n - 1, k) \/ (e.type = "ValidatorJailed" /\ e.key = k)
        /\ \A z : PowerIn(es, n, k, z) <=>
              PowerIn(es, n - 1, k, z) \/ (e.type = "PowerChanged" /\ e.key = k /\ e.zero = z)
    BY <1>1, OneMoreEvent
  <1>9. e.type = "PowerChanged" => e.zero \in BOOLEAN
    BY <1>1, EventFields
  <1> HIDE DEF W, e, k, o
  <1>10. CASE ~ChangesRow(e) \/ (ChangesRow(e) /\ ~mine) \/ e.type = "MsgEditValidator"
    <2>1. W[i] = V[i]
      <3>1. e.type = "MsgEditValidator" => Changed(V[i], e) = V[i]
        BY DEF Changed
      <3> QED
        BY <3>1, <1>3, <1>4, <1>10 DEF ChangesRow
    <2>2. /\ UnjailedIn(es, n, o) <=> UnjailedIn(es, n - 1, o)
          /\ JailedIn(es, n, k) <=> JailedIn(es, n - 1, k)
          /\ \A z : PowerIn(es, n, k, z) <=> PowerIn(es, n - 1, k, z)
      BY <1>8, <1>10 DEF ChangesRow
    <2>3. /\ JailedAfter(R[i], es, n) = JailedAfter(R[i], es, n - 1)
          /\ StatusAfter(R[i], es, n) = StatusAfter(R[i], es, n - 1)
      BY <2>2 DEF JailedAfter, StatusAfter, o, k
    <2> QED
      BY <2>1, <2>3 DEF RowTells, W, e
  <1>11. CASE e.type = "MsgUnjail" /\ e.operator = o
    <2>1. W[i] = [V[i] EXCEPT !.status = "Inactive", !.jailed = FALSE]
      BY <1>4, <1>11 DEF ChangesRow, Changed
    <2>2. UnjailedIn(es, n, o) /\ ~JailedIn(es, n, k) /\ \A z : ~PowerIn(es, n, k, z)
      BY <1>5, <1>6, <1>8, <1>11
    <2>3. JailedAfter(R[i], es, n) = FALSE /\ StatusAfter(R[i], es, n) = "Inactive"
      BY <2>2 DEF JailedAfter, StatusAfter, o, k
    <2> QED
      BY <1>2, <2>1, <2>3 DEF RowTells, W, e, RowType
  <1>12. CASE e.type = "ValidatorJailed" /\ e.key = k
    <2>1. W[i] = [V[i] EXCEPT !.status = "Jailed", !.jailed = TRUE]
      BY <1>4, <1>12 DEF ChangesRow, Changed
    <2>2. JailedIn(es, n, k) /\ \A z : ~PowerIn(es, n, k, z)
      BY <1>6, <1>8, <1>12
    <2>3. JailedAfter(R[i], es, n) = TRUE /\ StatusAfter(R[i], es, n) = "Jailed"
      BY <2>2 DEF JailedAfter, StatusAfter, o, k
    <2> QED
      BY <1>2, <2>1, <2>3 DEF RowTells, W, e, RowType
  <1>13. CASE e.type = "PowerChanged" /\ e.key = k
    <2>1. /\ UnjailedIn(es, n, o) <=> UnjailedIn(es, n - 1, o)
          /\ JailedIn(es, n, k) <=> JailedIn(es, n - 1, k)
          /\ \A z : ~PowerIn(es, n - 1, k, z)
          /\ \A z : PowerIn(es, n, k, z) <=> e.zero = z
      BY <1>7, <1>8, <1>13
    <2>2. JailedAfter(R[i], es, n) = JailedAfter(R[i], es, n - 1)
      BY <2>1 DEF JailedAfter, o, k
    <2>3. V[i].jailed = JailedAfter(R[i], es, n) /\ V[i].status = StatusAfter(R[i], es, n - 1)
      BY <2>2 DEF RowTells
    <2>4. CASE ~e.zero
      <3>1. W[i] = [V[i] EXCEPT !.status = "Bonded"]
        BY <1>4, <1>13, <2>4 DEF ChangesRow, Changed
      <3>2. StatusAfter(R[i], es, n) = "Bonded"
        BY <1>9, <1>13, <2>1, <2>4 DEF StatusAfter, k
      <3> QED
        BY <1>2, <2>3, <3>1, <3>2 DEF RowTells, W, e, RowType
    <2>5. CASE e.zero /\ ~V[i].jailed
      <3>1. W[i] = [V[i] EXCEPT !.status = "Inactive"]
        BY <1>4, <1>13, <2>5 DEF ChangesRow, Changed
      <3>2. StatusAfter(R[i], es, n) = "Inactive"
        BY <1>9, <1>13, <2>1, <2>3, <2>5 DEF StatusAfter, k
      <3> QED
        BY <1>2, <2>3, <3>1, <3>2 DEF RowTells, W, e, RowType
    <2>6. CASE e.zero /\ V[i].jailed
      <3>1. W[i] = V[i]
        BY <1>4, <1>13, <2>6 DEF ChangesRow, Changed
      <3>2. StatusAfter(R[i], es, n) = StatusAfter(R[i], es, n - 1)
        BY <1>9, <1>13, <2>1, <2>3, <2>6 DEF StatusAfter, k, o
      <3> QED
        BY <2>3, <3>1, <3>2 DEF RowTells, W, e
    <2> QED
      BY <1>9, <1>13, <2>4, <2>5, <2>6
  <1> QED
    BY <1>10, <1>11, <1>12, <1>13 DEF ChangesRow

\* What the second pass makes of the rows that the first one knows.
LEMMA SecondPass ==
    ASSUME height \in Nat, NEW rs, NEW es \in Seq(Events),
           NEW R \in Seq(RowType), R = Known(rs, es)
    PROVE  /\ SameRows(R, ProjectValidatorView(rs, es))
           /\ KeysUnique(R) /\ EventsFindRows(R, es) /\ PowersComeLast(es) =>
                 \A i \in DOMAIN R :
                     /\ IsCurrent(R, i)
                     /\ ~(JailedIn(es, Len(es), R[i].key) /\ UnjailedIn(es, Len(es), R[i].operator))
                     => RowTells(R, es, Len(es), i, ProjectValidatorView(rs, es))
  <1>0. PICK N \in Nat : N = Len(es)
    OBVIOUS
  <1>1. PICK f \in [0..N -> Seq(RowType)] :
           /\ f[0] = R
           /\ \A n \in 1..N : f[n] = Change(f[n - 1], es[n])
           /\ ProjectValidatorView(rs, es) = f[N]
    BY <1>0, ViewedByPrefix
  <1>2. \A n \in 1..N : es[n] \in Events
    BY <1>0
  <1>3. \A n \in 0..N : SameRows(R, f[n])
    <2> DEFINE S == {n \in 0..N : SameRows(R, f[n])}
    <2>1. 0 \in S
      <3>1. \A i \in DOMAIN R : R[i] = [R[i] EXCEPT !.status = R[i].status, !.jailed = R[i].jailed]
        BY RowsOfSeq DEF RowType
      <3>2. SameRows(R, R)
        BY <3>1 DEF SameRows
      <3> QED
        BY <3>2, <1>1
    <2>2. ASSUME NEW n \in 1..N, n - 1 \in S PROVE n \in S
      BY <2>2, <1>1, <1>2, SameRowsStep
    <2>3. \A n \in 0..N : n \in S
      <3> HIDE DEF S
      <3> QED
        BY <2>1, <2>2, UpTo
    <2> QED
      BY <2>3
  <1>4. ASSUME KeysUnique(R), EventsFindRows(R, es), PowersComeLast(es),
               NEW i \in DOMAIN R, IsCurrent(R, i),
               ~(JailedIn(es, Len(es), R[i].key) /\ UnjailedIn(es, Len(es), R[i].operator))
        PROVE  RowTells(R, es, N, i, f[N])
    <2> DEFINE S == {n \in 0..N : RowTells(R, es, n, i, f[n])}
    <2>1. 0 \in S
      <3>1. /\ ~UnjailedIn(es, 0, R[i].operator) /\ ~JailedIn(es, 0, R[i].key)
            /\ \A z : ~PowerIn(es, 0, R[i].key, z)
        BY DEF UnjailedIn, JailedIn, PowerIn
      <3>2. RowTells(R, es, 0, i, R)
        BY <3>1 DEF RowTells, JailedAfter, StatusAfter
      <3> QED
        BY <3>2, <1>1
    <2>2. ASSUME NEW n \in 1..N, n - 1 \in S PROVE n \in S
      <3>1. n \in 1..Len(es) /\ SameRows(R, f[n - 1]) /\ RowTells(R, es, n - 1, i, f[n - 1])
        BY <1>0, <1>3, <2>2
      <3>2. RowTells(R, es, n, i, Change(f[n - 1], es[n]))
        BY <3>1, <1>4, RowTellsStep
      <3> QED
        BY <3>2, <1>1
    <2>3. \A n \in 0..N : n \in S
      <3> HIDE DEF S
      <3> QED
        BY <2>1, <2>2, UpTo
    <2> QED
      BY <2>3
  <1> QED
    BY <1>0, <1>1, <1>3, <1>4

-----------------------------------------------------------------------------
(* Up time and votes *)

\* The row t is the row r after the up time of the block is counted.
IsTimed(r, es, t) ==
    /\ t.operator = r.operator /\ t.key = r.key /\ t.status = r.status /\ t.jailed = r.jailed
    /\ t.joinedAt = r.joinedAt /\ t.voted = r.voted
    /\ /\ r.signed = r.active
       /\ \A m \in DOMAIN es : es[m].type = "BlockCreated" => Signed(r, es[m].signers)
       => t.signed = t.active

LEMMA TimedIs ==
    ASSUME height \in Nat, NEW rs \in Seq(RowType), NEW es \in Seq(Events)
    PROVE  /\ Timed(rs, es) \in Seq(RowType) /\ Len(Timed(rs, es)) = Len(rs)
           /\ \A i \in DOMAIN rs : IsTimed(rs[i], es, Timed(rs, es)[i])
  <1> DEFINE created == {m \in DOMAIN es : es[m].type = "BlockCreated"}
             c == CHOOSE m \in created : TRUE
             T == Timed(rs, es)
             New(i) == [rs[i] EXCEPT !.active = @ + 1,
                                     !.signed = @ + IF Signed(rs[i], es[c].signers) THEN 1 ELSE 0]
  <1>1. Len(rs) \in Nat /\ DOMAIN rs = 1..Len(rs) /\ \A i \in DOMAIN rs : rs[i] \in RowType
    BY RowsOfSeq
  <1>2. CASE created = {}
    <2>1. T = rs
      BY <1>2 DEF Timed
    <2> QED
      BY <2>1 DEF IsTimed
  <1>3. CASE created # {}
    <2>1. c \in DOMAIN es /\ es[c].type = "BlockCreated"
      BY <1>3
    <2>2. T = [i \in 1..Len(rs) |-> IF rs[i].status # "Bonded" THEN rs[i] ELSE New(i)]
      BY <1>1, <1>3 DEF Timed, UpTime
    <2>3. ASSUME NEW i \in 1..Len(rs)
          PROVE  /\ New(i) \in RowType
                 /\ New(i).operator = rs[i].operator /\ New(i).key = rs[i].key
                 /\ New(i).status = rs[i].status /\ New(i).jailed = rs[i].jailed
                 /\ New(i).joinedAt = rs[i].joinedAt /\ New(i).voted = rs[i].voted
                 /\ rs[i].signed = rs[i].active /\ Signed(rs[i], es[c].signers)
                        => New(i).signed = New(i).active
      <3>1. rs[i] \in RowType
        BY <1>1
      <3> DEFINE d == IF Signed(rs[i], es[c].signers) THEN 1 ELSE 0
                 row == rs[i]
      <3>2. d \in Nat /\ (Signed(rs[i], es[c].signers) => d = 1)
        OBVIOUS
      <3>3. New(i) = [row EXCEPT !.active = @ + 1, !.signed = @ + d]
        OBVIOUS
      <3> DEFINE act == row.active + 1
                 sig == row.signed + d
      <3>6. New(i) = [row EXCEPT !.active = act, !.signed = sig]
        BY <3>3
      <3> HIDE DEF c, d, New, row
      <3>4. row \in RowType
        BY <3>1 DEF row
      <3>5. /\ New(i) \in RowType
            /\ New(i).operator = row.operator /\ New(i).key = row.key
            /\ New(i).status = row.status /\ New(i).jailed = row.jailed
            /\ New(i).joinedAt = row.joinedAt /\ New(i).voted = row.voted
            /\ New(i).signed = row.signed + d /\ New(i).active = row.active + 1
        <4>1. act \in Nat /\ sig \in Nat
          <5>1. row.active \in Nat /\ row.signed \in Nat
            BY <3>4 DEF RowType
          <5>2. d \in Nat
            BY <3>2
          <5> HIDE DEF row, d
          <5> QED
            BY <5>1, <5>2 DEF act, sig
        <4> HIDE DEF act, sig
        <4>2. New(i) \in RowType
          BY <4>1, <3>6, <3>4 DEF RowType
        <4>3. /\ New(i).operator = row.operator /\ New(i).key = row.key
              /\ New(i).status = row.status /\ New(i).jailed = row.jailed
              /\ New(i).joinedAt = row.joinedAt /\ New(i).voted = row.voted
              /\ New(i).signed = sig /\ New(i).active = act
          BY <3>6, <3>4 DEF RowType
        <4> QED
          BY <4>2, <4>3 DEF act, sig
      <3> QED
        BY <3>2, <3>5 DEF row
    <2> HIDE DEF T, New, c
    <2>4. \A i \in 1..Len(rs) : T[i] = IF rs[i].status # "Bonded" THEN rs[i] ELSE New(i)
      BY <2>2
    <2>5. T \in [1..Len(rs) -> RowType]
      BY <2>2, <2>3, <1>1
    <2>6. T \in Seq(RowType) /\ Len(T) = Len(rs)
      BY <2>5, <1>1, IsASeqOfLen
    <2>7. ASSUME NEW i \in DOMAIN rs
          PROVE  IsTimed(rs[i], es, T[i])
      BY <1>1, <2>1, <2>3, <2>4 DEF IsTimed
    <2> QED
      BY <2>6, <2>7 DEF T
  <1> QED
    BY <1>2, <1>3

\* The rows and whether a vote has ended the loop.
VoteStates == [rows : Seq(RowType), stopped : BOOLEAN]

LEMMA VoteIs ==
    ASSUME NEW state \in VoteStates, NEW e \in Events
    PROVE  /\ Vote(state, e) \in VoteStates
           /\ Len(Vote(state, e).rows) = Len(state.rows)
           /\ \A i \in DOMAIN state.rows :
                 \/ Vote(state, e).rows[i] = state.rows[i]
                 \/ /\ e.type = "MsgVote" /\ e.voter = state.rows[i].operator
                    /\ Vote(state, e).rows[i] = [state.rows[i] EXCEPT !.voted = @ + 1]
  <1> DEFINE rs == state.rows
             ofVoter == OfOperator(rs, e.voter)
             i == Newest(ofVoter)
             new == [rs[i] EXCEPT !.voted = @ + 1]
             V == Vote(state, e)
  <1>1. rs \in Seq(RowType) /\ state.stopped \in BOOLEAN
    BY DEF VoteStates
  <1>2. CASE state.stopped \/ e.type # "MsgVote"
    BY <1>2 DEF Vote
  <1>3. CASE ~state.stopped /\ e.type = "MsgVote" /\ ofVoter = {}
    <2>1. V = [state EXCEPT !.stopped = TRUE]
      BY <1>3 DEF Vote
    <2> QED
      BY <2>1 DEF VoteStates
  <1>4. CASE ~state.stopped /\ e.type = "MsgVote" /\ ofVoter # {}
    <2>1. V = [state EXCEPT !.rows = [rs EXCEPT ![i] = new]]
      BY <1>4 DEF Vote
    <2>2. i \in ofVoter /\ i \in DOMAIN rs /\ rs[i].operator = e.voter
      <3>1. i \in ofVoter
        BY <1>1, <1>4, RowsOfSeq, NewestIs
      <3> QED
        BY <3>1 DEF OfOperator
    <2>3. new \in RowType
      <3>1. rs[i] \in RowType
        BY <1>1, <2>2
      <3> QED
        BY <3>1 DEF RowType
    <2> HIDE DEF i
    <2>4. /\ [rs EXCEPT ![i] = new] \in Seq(RowType)
          /\ Len([rs EXCEPT ![i] = new]) = Len(rs)
          /\ \A j \in DOMAIN rs : [rs EXCEPT ![i] = new][j] = IF j = i THEN new ELSE rs[j]
      BY <1>1, <2>3, RowChanged
    <2> DEFINE W == [rs EXCEPT ![i] = new]
    <2>5. V.rows = W /\ V \in VoteStates
      <3>1. W \in Seq(RowType)
        BY <2>4
      <3>2. V = [state EXCEPT !.rows = W]
        BY <2>1
      <3> HIDE DEF W, V
      <3> QED
        BY <3>1, <3>2 DEF VoteStates
    <2> HIDE DEF W, V
    <2>6. Len(W) = Len(rs) /\ \A j \in DOMAIN rs : W[j] = IF j = i THEN new ELSE rs[j]
      BY <2>4 DEF W
    <2>7. \A j \in DOMAIN rs :
             \/ V.rows[j] = rs[j]
             \/ e.voter = rs[j].operator /\ V.rows[j] = [rs[j] EXCEPT !.voted = @ + 1]
      BY <2>2, <2>5, <2>6
    <2> QED
      BY <2>5, <2>6, <2>7, <1>4 DEF V
  <1> QED
    BY <1>2, <1>3, <1>4

\* The loop over the votes, after n events.
LEMMA CountedByPrefix ==
    ASSUME NEW rs \in Seq(RowType), NEW es \in Seq(Events)
    PROVE  \E f \in [0..Len(es) -> VoteStates] :
              /\ f[0] = [rows |-> rs, stopped |-> FALSE]
              /\ \A n \in 1..Len(es) : f[n] = Vote(f[n - 1], es[n])
              /\ CountVotes(rs, es) = f[Len(es)].rows
  <1>0. PICK N \in Nat : N = Len(es)
    OBVIOUS
  <1> DEFINE first == [rows |-> rs, stopped |-> FALSE]
             step == [n \in 1..N |-> [x \in VoteStates |-> Vote(x, es[n])]]
             Is(f) == f = [n \in 0..N |->
                              IF n = 0 THEN [rows |-> rs, stopped |-> FALSE]
                              ELSE Vote(f[n - 1], es[n])]
             counted == CHOOSE f : Is(f)
  <1>1. N \in Nat /\ \A n \in 1..N : es[n] \in Events
    BY <1>0
  <1>2. step \in [1..N -> [VoteStates -> VoteStates]]
    BY <1>1, VoteIs
  <1>a. first \in VoteStates
    BY DEF VoteStates
  <1>3. PICK f : Loops(f, N, VoteStates, first, step)
    <2> HIDE DEF step, first
    <2> QED
      BY <1>2, <1>a, LoopExists
  <1>4. \A n \in 0..N : f[n] = IF n = 0 THEN first ELSE Vote(f[n - 1], es[n])
    <2> SUFFICES ASSUME NEW n \in 0..N, n # 0 PROVE f[n] = Vote(f[n - 1], es[n])
      BY <1>3 DEF Loops
    <2>1. n \in 1..N /\ n - 1 \in 0..N
      BY <1>1
    <2>2. f[n - 1] \in VoteStates
      BY <2>1, <1>3 DEF Loops
    <2>3. f[n] = step[n][f[n - 1]]
      BY <1>3, <2>1 DEF Loops
    <2> QED
      BY <2>1, <2>2, <2>3
  <1>5. Is(f)
    <2>1. f = [n \in 0..N |-> f[n]]
      BY <1>3 DEF Loops
    <2> QED
      BY <2>1, <1>4
  <1>6. Is(counted)
    BY <1>5
  <1>7. CountVotes(rs, es) = counted[N].rows
    BY <1>0 DEF CountVotes
  <1> HIDE DEF counted
  <1>8. counted[0] = first /\ \A n \in 1..N : counted[n] = Vote(counted[n - 1], es[n])
    <2>1. 0 \in 0..N /\ \A n \in 1..N : n \in 0..N /\ n # 0
      BY <1>1
    <2>2. \A n \in 0..N : counted[n] = IF n = 0 THEN first ELSE Vote(counted[n - 1], es[n])
      BY <1>6
    <2> HIDE DEF first
    <2> QED
      BY <2>1, <2>2
  <1>9. \A n \in 0..N : counted[n] \in VoteStates
    <2> DEFINE S == {n \in 0..N : counted[n] \in VoteStates}
    <2>1. 0 \in S
      BY <1>1, <1>8, <1>a
    <2>2. ASSUME NEW n \in 1..N, n - 1 \in S PROVE n \in S
      <3>1. counted[n - 1] \in VoteStates /\ es[n] \in Events /\ n \in 0..N
        BY <1>1, <2>2
      <3>2. Vote(counted[n - 1], es[n]) \in VoteStates
        BY <3>1, VoteIs
      <3> QED
        BY <3>1, <3>2, <1>8
    <2> HIDE DEF S
    <2>3. \A n \in 0..N : n \in S
      BY <1>1, <2>1, <2>2, UpTo
    <2> QED
      BY <2>3 DEF S
  <1>10. counted \in [0..N -> VoteStates]
    BY <1>6, <1>9
  <1> QED
    BY <1>0, <1>7, <1>8, <1>10

\* The votes of an account among the first n events.
VotesIn(es, n, o) == Cardinality({m \in 1..n : es[m].type = "MsgVote" /\ es[m].voter = o})

LEMMA VotesInGrow ==
    ASSUME NEW es, NEW n \in Nat, n >= 1, NEW o
    PROVE  /\ VotesIn(es, n, o) \in Nat /\ VotesIn(es, n - 1, o) \in Nat
           /\ VotesIn(es, n - 1, o) <= VotesIn(es, n, o)
           /\ es[n].type = "MsgVote" /\ es[n].voter = o =>
                 VotesIn(es, n, o) = VotesIn(es, n - 1, o) + 1
  <1> DEFINE A(k) == {m \in 1..k : es[m].type = "MsgVote" /\ es[m].voter = o}
  <1>1. \A k \in Nat : IsFiniteSet(A(k)) /\ Cardinality(A(k)) \in Nat
    <2> SUFFICES ASSUME NEW k \in Nat PROVE IsFiniteSet(A(k)) /\ Cardinality(A(k)) \in Nat
      OBVIOUS
    <2>1. IsFiniteSet(1..k) /\ A(k) \subseteq 1..k
      BY FS_Interval
    <2> HIDE DEF A
    <2> QED
      BY <2>1, FS_Subset, FS_CardinalityType
  <1>2. A(n - 1) \subseteq A(n) /\ n - 1 \in Nat
    OBVIOUS
  <1>3. Cardinality(A(n - 1)) <= Cardinality(A(n))
    <2> HIDE DEF A
    <2> QED
      BY <1>1, <1>2, FS_Subset
  <1>4. ASSUME es[n].type = "MsgVote", es[n].voter = o
        PROVE  Cardinality(A(n)) = Cardinality(A(n - 1)) + 1
    <2>1. A(n) = A(n - 1) \cup {n} /\ n \notin A(n - 1)
      BY <1>4
    <2> HIDE DEF A
    <2> QED
      BY <2>1, <1>1, <1>2, FS_AddElement
  <1> QED
    BY <1>1, <1>2, <1>3, <1>4 DEF VotesIn

\* What the loop has made of the rows after n events.
VotesAdded(R, es, n, V) ==
    /\ V \in Seq(RowType) /\ Len(V) = Len(R)
    /\ \A i \in DOMAIN R :
          /\ V[i] = [R[i] EXCEPT !.voted = V[i].voted]
          /\ V[i].voted <= R[i].voted + VotesIn(es, n, R[i].operator)

LEMMA VotesAddedStep ==
    ASSUME NEW R \in Seq(RowType), NEW es \in Seq(Events), NEW n \in 1..Len(es),
           NEW state \in VoteStates, VotesAdded(R, es, n - 1, state.rows)
    PROVE  VotesAdded(R, es, n, Vote(state, es[n]).rows)
  <1> DEFINE V == state.rows
             W == Vote(state, es[n]).rows
  <1>1. es[n] \in Events /\ n \in Nat /\ n >= 1
    OBVIOUS
  <1>2. /\ V \in Seq(RowType) /\ Len(V) = Len(R) /\ DOMAIN V = DOMAIN R
        /\ \A i \in DOMAIN R : R[i] \in RowType /\ V[i] \in RowType
    BY RowsOfSeq DEF VotesAdded
  <1>3. Vote(state, es[n]) \in VoteStates /\ Len(W) = Len(V)
    BY <1>1, VoteIs
  <1>4. W \in Seq(RowType)
    BY <1>3 DEF VoteStates
  <1>5. ASSUME NEW i \in DOMAIN R
        PROVE  /\ W[i] = [R[i] EXCEPT !.voted = W[i].voted]
               /\ W[i].voted <= R[i].voted + VotesIn(es, n, R[i].operator)
    <2> DEFINE o == R[i].operator
    <2>1. /\ V[i] = [R[i] EXCEPT !.voted = V[i].voted]
          /\ V[i].voted <= R[i].voted + VotesIn(es, n - 1, o)
      BY DEF VotesAdded
    <2>2. R[i].voted \in Nat /\ V[i].voted \in Nat /\ V[i].operator = o
      BY <1>2, <2>1 DEF RowType
    <2>3. /\ VotesIn(es, n, o) \in Nat /\ VotesIn(es, n - 1, o) \in Nat
          /\ VotesIn(es, n - 1, o) <= VotesIn(es, n, o)
          /\ es[n].type = "MsgVote" /\ es[n].voter = o => VotesIn(es, n, o) = VotesIn(es, n - 1, o) + 1
      BY <1>1, VotesInGrow
    <2>4. \/ W[i] = V[i]
          \/ /\ es[n].type = "MsgVote" /\ es[n].voter = V[i].operator
             /\ W[i] = [V[i] EXCEPT !.voted = @ + 1]
      BY <1>1, <1>2, VoteIs
    <2> HIDE DEF W, V, o
    <2>5. CASE W[i] = V[i]
      BY <2>1, <2>2, <2>3, <2>5 DEF o
    <2>6. CASE /\ es[n].type = "MsgVote" /\ es[n].voter = V[i].operator
               /\ W[i] = [V[i] EXCEPT !.voted = @ + 1]
      <3>1. W[i].voted = V[i].voted + 1
        BY <1>2, <2>6 DEF RowType
      <3>2. W[i] = [R[i] EXCEPT !.voted = W[i].voted]
        <4>1. W[i] = [V[i] EXCEPT !.voted = W[i].voted]
          BY <2>6, <3>1
        <4> QED
          BY <4>1, <2>1, <1>2 DEF RowType
      <3>3. VotesIn(es, n, o) = VotesIn(es, n - 1, o) + 1
        BY <2>2, <2>3, <2>6
      <3>4. W[i].voted <= R[i].voted + VotesIn(es, n, o)
        BY <3>1, <3>3, <2>1, <2>2, <2>3 DEF o
      <3> QED
        BY <3>2, <3>4 DEF o
    <2> QED
      BY <2>4, <2>5, <2>6
  <1> QED
    BY <1>2, <1>3, <1>4, <1>5 DEF VotesAdded

LEMMA VotesPass ==
    ASSUME NEW R \in Seq(RowType), NEW es \in Seq(Events)
    PROVE  VotesAdded(R, es, Len(es), CountVotes(R, es))
  <1>0. PICK N \in Nat : N = Len(es)
    OBVIOUS
  <1>1. PICK f \in [0..N -> VoteStates] :
           /\ f[0] = [rows |-> R, stopped |-> FALSE]
           /\ \A n \in 1..N : f[n] = Vote(f[n - 1], es[n])
           /\ CountVotes(R, es) = f[N].rows
    BY <1>0, CountedByPrefix
  <1> DEFINE S == {n \in 0..N : VotesAdded(R, es, n, f[n].rows)}
  <1>2. 0 \in S
    <2>1. \A i \in DOMAIN R : R[i] = [R[i] EXCEPT !.voted = R[i].voted] /\ R[i].voted \in Nat
      BY RowsOfSeq DEF RowType
    <2>2. \A o : VotesIn(es, 0, o) = 0
      <3>1. \A o : {m \in 1..0 : es[m].type = "MsgVote" /\ es[m].voter = o} = {}
        OBVIOUS
      <3> QED
        BY <3>1, FS_EmptySet DEF VotesIn
    <2>3. VotesAdded(R, es, 0, R)
      BY <2>1, <2>2 DEF VotesAdded
    <2>4. f[0].rows = R
      BY <1>1
    <2> QED
      BY <2>3, <2>4
  <1>3. ASSUME NEW n \in 1..N, n - 1 \in S PROVE n \in S
    <2>1. VotesAdded(R, es, n - 1, f[n - 1].rows) /\ f[n - 1] \in VoteStates
      BY <1>1, <1>3
    <2>2. VotesAdded(R, es, n, Vote(f[n - 1], es[n]).rows)
      BY <2>1, <1>0, VotesAddedStep
    <2> QED
      BY <2>2, <1>1
  <1>4. \A n \in 0..N : n \in S
    <2> HIDE DEF S
    <2> QED
      BY <1>2, <1>3, UpTo
  <1>5. VotesAdded(R, es, N, f[N].rows)
    BY <1>4
  <1> QED
    BY <1>0, <1>1, <1>5

\* The row that HandleEvents makes of the row r that the first pass knows.
BecomesRow(r, es, h) ==
    /\ h.operator = r.operator /\ h.key = r.key /\ h.joinedAt = r.joinedAt
    /\ h.voted <= r.voted + VotesOf(es, r.operator)
    /\ /\ r.signed = r.active
       /\ \A m \in DOMAIN es : es[m].type = "BlockCreated" =>
              r.key \in es[m].signers \/ height - r.joinedAt < JoinBuffer
       => h.signed = h.active

LEMMA HandledIs ==
    ASSUME height \in Nat, NEW rs, NEW es \in Seq(Events), NEW R \in Seq(RowType),
           R = Known(rs, es)
    PROVE  /\ Handled(rs, es) \in Seq(RowType) /\ DOMAIN Handled(rs, es) = DOMAIN R
           /\ \A i \in DOMAIN R : BecomesRow(R[i], es, Handled(rs, es)[i])
           /\ KeysUnique(R) /\ EventsFindRows(R, es) /\ PowersComeLast(es) =>
                 \A i \in DOMAIN R :
                     /\ IsCurrent(R, i)
                     /\ ~(JailedIn(es, Len(es), R[i].key) /\ UnjailedIn(es, Len(es), R[i].operator))
                     => /\ Handled(rs, es)[i].status = StatusAfter(R[i], es, Len(es))
                        /\ Handled(rs, es)[i].jailed = JailedAfter(R[i], es, Len(es))
  <1> DEFINE V == ProjectValidatorView(rs, es)
             T == Timed(V, es)
             H == Handled(rs, es)
  <1>1. SameRows(R, V)
    BY SecondPass
  <1>2. V \in Seq(RowType) /\ Len(V) = Len(R) /\ DOMAIN V = DOMAIN R
    BY <1>1, SameColumns DEF SameRows
  <1>3. T \in Seq(RowType) /\ Len(T) = Len(V) /\ DOMAIN T = DOMAIN R
    BY <1>2, TimedIs, RowsOfSeq
  <1>4. VotesAdded(T, es, Len(es), H)
    <2>1. H = CountVotes(T, es)
      BY DEF Handled
    <2> HIDE DEF T, H
    <2> QED
      BY <1>3, <2>1, VotesPass
  <1>5. H \in Seq(RowType) /\ DOMAIN H = DOMAIN R /\ \A i \in DOMAIN R : H[i] \in RowType
    BY <1>3, <1>4, RowsOfSeq DEF VotesAdded
  <1>6. \A o : VotesIn(es, Len(es), o) = VotesOf(es, o)
    <2>1. DOMAIN es = 1..Len(es)
      OBVIOUS
    <2> QED
      BY <2>1 DEF VotesIn, VotesOf
  <1>7. ASSUME NEW i \in DOMAIN R
        PROVE  BecomesRow(R[i], es, H[i]) /\ H[i].status = V[i].status /\ H[i].jailed = V[i].jailed
    <2>1. /\ V[i].operator = R[i].operator /\ V[i].key = R[i].key /\ V[i].joinedAt = R[i].joinedAt
          /\ V[i].signed = R[i].signed /\ V[i].active = R[i].active /\ V[i].voted = R[i].voted
      BY <1>1, SameColumns
    <2> HIDE DEF V
    <2>2. IsTimed(V[i], es, T[i])
      BY <1>2, TimedIs
    <2>3. /\ H[i] = [T[i] EXCEPT !.voted = H[i].voted]
          /\ H[i].voted <= T[i].voted + VotesIn(es, Len(es), T[i].operator)
      BY <1>3, <1>4 DEF VotesAdded
    <2>4. T[i] \in RowType /\ H[i] \in RowType
      BY <1>3, <1>5, RowsOfSeq
    <2> HIDE DEF T, H
    <2>5. /\ H[i].operator = T[i].operator /\ H[i].key = T[i].key /\ H[i].joinedAt = T[i].joinedAt
          /\ H[i].signed = T[i].signed /\ H[i].active = T[i].active
          /\ H[i].status = T[i].status /\ H[i].jailed = T[i].jailed
      BY <2>3, <2>4 DEF RowType
    <2>6. H[i].voted <= R[i].voted + VotesOf(es, R[i].operator)
      BY <2>1, <2>2, <2>3, <1>6 DEF IsTimed
    <2>7. (\A m \in DOMAIN es : es[m].type = "BlockCreated" =>
              R[i].key \in es[m].signers \/ height - R[i].joinedAt < JoinBuffer)
          => \A m \in DOMAIN es : es[m].type = "BlockCreated" => Signed(V[i], es[m].signers)
      BY <2>1 DEF Signed
    <2> QED
      BY <2>1, <2>2, <2>5, <2>6, <2>7 DEF BecomesRow, IsTimed
  <1>8. ASSUME KeysUnique(R), EventsFindRows(R, es), PowersComeLast(es),
               NEW i \in DOMAIN R, IsCurrent(R, i),
               ~(JailedIn(es, Len(es), R[i].key) /\ UnjailedIn(es, Len(es), R[i].operator))
        PROVE  RowTells(R, es, Len(es), i, V)
    BY <1>8, SecondPass
  <1> QED
    BY <1>5, <1>7, <1>8 DEF RowTells

-----------------------------------------------------------------------------
(* Activities and their totals *)

ActivityType == [operator : Operators, event : Events]

Tables == [rows : Seq(ActivityType), totals : [Identities -> Nat]]

\* The totals are the numbers of the rows they are about.
Match(tables) == \A id \in Identities : tables.totals[id] = Count(tables.rows, id)

\* One more row
LEMMA CountAppend ==
    ASSUME NEW S, NEW seq \in Seq(S), NEW x \in S, NEW id
    PROVE  /\ Count(seq, id) \in Nat
           /\ Count(Append(seq, x), id) = Count(seq, id) + IF CountedIn(x, id) THEN 1 ELSE 0
  <1> DEFINE n == Len(seq)
             A == {i \in DOMAIN seq : CountedIn(seq[i], id)}
             B == {i \in DOMAIN Append(seq, x) : CountedIn(Append(seq, x)[i], id)}
  <1>1. n \in Nat /\ A \subseteq 1..n /\ n + 1 \notin A
    OBVIOUS
  <1>2. IsFiniteSet(A) /\ Cardinality(A) \in Nat
    <2>1. IsFiniteSet(1..n)
      BY <1>1, FS_Interval
    <2> HIDE DEF A
    <2> QED
      BY <1>1, <2>1, FS_Subset, FS_CardinalityType
  <1>3. CountedIn(x, id) => B = A \cup {n + 1}
    OBVIOUS
  <1>4. ~CountedIn(x, id) => B = A
    OBVIOUS
  <1>5. CountedIn(x, id) => Cardinality(B) = Cardinality(A) + 1
    <2> HIDE DEF A, B
    <2> QED
      BY <1>1, <1>2, <1>3, FS_AddElement
  <1>6. ~CountedIn(x, id) => Cardinality(B) = Cardinality(A)
    <2> HIDE DEF A, B
    <2> QED
      BY <1>4
  <1> HIDE DEF A, B
  <1>7. Cardinality(B) = Cardinality(A) + IF CountedIn(x, id) THEN 1 ELSE 0
    BY <1>2, <1>5, <1>6
  <1> QED
    BY <1>2, <1>7 DEF Count, A, B

\* An event that has one row is counted in the four totals that the row is about.
LEMMA OneRowCounts ==
    ASSUME scope \in Scopes, NEW sums \in [Identities -> Nat], NEW o \in Operators,
           NEW e \in Events, e.type \in Types, e.type # "MsgBeginRedelegate"
    PROVE  /\ IncrementByOne(sums, o, e.type) \in [Identities -> Nat]
           /\ \A id \in Identities : IncrementByOne(sums, o, e.type)[id] =
                 sums[id] + IF CountedIn(ActivityRow(o, e), id) THEN 1 ELSE 0
  <1> DEFINE T == e.type
             inc == IncrementByOne(sums, o, T)
  <1>1. o # "-" /\ T # "-"
    BY ScopesAssumption DEF Operators, Types
  <1>2. inc = [sums EXCEPT ![<<"-", "-">>] = @ + 1, ![<<o, "-">>] = @ + 1, ![<<o, T>>] = @ + 1,
                           ![<<"-", T>>] = @ + 1]
    BY DEF IncrementByOne, All, Of, OfType
  <1>3. ASSUME NEW a \in Operators \cup {"-"}, NEW t \in Types \cup {"-"}
        PROVE  /\ inc[<<a, t>>] = sums[<<a, t>>]
                      + IF a \in {"-", o} /\ t \in {"-", T} THEN 1 ELSE 0
               /\ inc[<<a, t>>] \in Nat
               /\ CountedIn(ActivityRow(o, e), <<a, t>>) <=> a \in {"-", o} /\ t \in {"-", T}
    <2>1. <<a, t>> \in Identities /\ sums[<<a, t>>] \in Nat
      BY DEF Identities
    <2> HIDE DEF T
    <2>2. inc[<<a, t>>] = sums[<<a, t>>] + IF a \in {"-", o} /\ t \in {"-", T} THEN 1 ELSE 0
      BY <1>1, <1>2, <2>1
    <2>3. CountedIn(ActivityRow(o, e), <<a, t>>) <=> a \in {"-", o} /\ t \in {"-", T}
      BY DEF CountedIn, ActivityRow, IsDestination, T
    <2> HIDE DEF inc
    <2> QED
      BY <2>1, <2>2, <2>3
  <1>4. DOMAIN inc = Identities /\ inc = [id \in Identities |-> inc[id]]
    BY <1>2
  <1> HIDE DEF inc
  <1>5. \A id \in Identities :
           \E a \in Operators \cup {"-"}, t \in Types \cup {"-"} : id = <<a, t>>
    BY DEF Identities
  <1>6. \A id \in Identities : inc[id] \in Nat
    BY <1>3, <1>5
  <1>7. inc \in [Identities -> Nat]
    BY <1>4, <1>6
  <1>8. \A id \in Identities : inc[id] = sums[id] + IF CountedIn(ActivityRow(o, e), id) THEN 1 ELSE 0
    BY <1>3, <1>5
  <1> QED
    BY <1>7, <1>8 DEF inc

\* A redelegation is counted twice, but in the total that its destination has of the type.
LEMMA TwoRowsCount ==
    ASSUME scope \in Scopes, NEW sums \in [Identities -> Nat],
           NEW e \in Events, e.type = "MsgBeginRedelegate"
    PROVE  /\ Redelegated(sums, e.src, e.dst, e.type) \in [Identities -> Nat]
           /\ \A id \in Identities : Redelegated(sums, e.src, e.dst, e.type)[id] =
                 sums[id] + (IF CountedIn(ActivityRow(e.src, e), id) THEN 1 ELSE 0)
                          + (IF CountedIn(ActivityRow(e.dst, e), id) THEN 1 ELSE 0)
  <1> DEFINE T == e.type
             o == e.src
             p == e.dst
             inc == Redelegated(sums, o, p, T)
  <1>1. o # "-" /\ p # "-" /\ T # "-" /\ o # p /\ T \in Types /\ o \in Operators /\ p \in Operators
    BY EventFields, ScopesAssumption DEF Operators, Types
  <1>2. inc = [sums EXCEPT ![<<"-", "-">>] = @ + 2, ![<<o, "-">>] = @ + 1, ![<<o, T>>] = @ + 1,
                           ![<<"-", T>>] = @ + 2, ![<<p, "-">>] = @ + 1]
    BY DEF Redelegated, All, Of, OfType
  <1>3. ASSUME NEW a \in Operators \cup {"-"}, NEW t \in Types \cup {"-"}
        PROVE  /\ inc[<<a, t>>] = sums[<<a, t>>]
                      + (IF CountedIn(ActivityRow(o, e), <<a, t>>) THEN 1 ELSE 0)
                      + (IF CountedIn(ActivityRow(p, e), <<a, t>>) THEN 1 ELSE 0)
               /\ inc[<<a, t>>] \in Nat
    <2>1. <<a, t>> \in Identities /\ sums[<<a, t>>] \in Nat
      BY DEF Identities
    <2>2. CountedIn(ActivityRow(o, e), <<a, t>>) <=> a \in {"-", o} /\ t \in {"-", T}
      BY <1>1 DEF CountedIn, ActivityRow, IsDestination
    <2>3. CountedIn(ActivityRow(p, e), <<a, t>>) <=> (a = "-" /\ t \in {"-", T}) \/ (a = p /\ t = "-")
      BY <1>1 DEF CountedIn, ActivityRow, IsDestination
    <2> HIDE DEF T, o, p
    <2>4. inc[<<a, t>>] = sums[<<a, t>>]
             + (IF a \in {"-", o} /\ t \in {"-", T} THEN 1 ELSE 0)
             + (IF (a = "-" /\ t \in {"-", T}) \/ (a = p /\ t = "-") THEN 1 ELSE 0)
      BY <1>1, <1>2, <2>1
    <2> HIDE DEF inc
    <2> QED
      BY <2>1, <2>2, <2>3, <2>4
  <1>4. DOMAIN inc = Identities /\ inc = [id \in Identities |-> inc[id]]
    BY <1>2
  <1> HIDE DEF inc
  <1>5. \A id \in Identities :
           \E a \in Operators \cup {"-"}, t \in Types \cup {"-"} : id = <<a, t>>
    BY DEF Identities
  <1>6. \A id \in Identities : inc[id] \in Nat
    BY <1>3, <1>5
  <1>7. inc \in [Identities -> Nat]
    BY <1>4, <1>6
  <1>8. \A id \in Identities : inc[id] =
           sums[id] + (IF CountedIn(ActivityRow(o, e), id) THEN 1 ELSE 0)
                    + (IF CountedIn(ActivityRow(p, e), id) THEN 1 ELSE 0)
    BY <1>3, <1>5
  <1> QED
    BY <1>7, <1>8 DEF inc

\* An event that is recorded leaves the totals those of the rows.
LEMMA RecordMatches ==
    ASSUME scope \in Scopes, NEW tables \in Tables, Match(tables), NEW rs, NEW e \in Events,
           IsSlashing(e) => OperatorOf(rs, e) \in Operators
    PROVE  Record(tables, rs, e) \in Tables /\ Match(Record(tables, rs, e))
  <1>0. tables.rows \in Seq(ActivityType) /\ tables.totals \in [Identities -> Nat]
    BY DEF Tables
  <1>1. CASE e.type \notin Types
    BY <1>1 DEF Record
  <1>2. CASE e.type \in Types /\ e.type # "MsgBeginRedelegate"
    <2> DEFINE o == OperatorOf(rs, e)
               row == ActivityRow(o, e)
               next == Append(tables.rows, row)
               sums == IncrementByOne(tables.totals, o, e.type)
    <2>1. o \in Operators
      BY <1>2, EventFields DEF OperatorOf, IsSlashing, IsCreate, Types
    <2>2. Record(tables, rs, e) = [rows |-> next, totals |-> sums]
      BY <1>2 DEF Record, Inserted
    <2> HIDE DEF o
    <2>3. row \in ActivityType
      BY <2>1 DEF ActivityRow, ActivityType
    <2>4. /\ sums \in [Identities -> Nat]
          /\ \A id \in Identities :
                sums[id] = tables.totals[id] + IF CountedIn(row, id) THEN 1 ELSE 0
      BY <1>0, <1>2, <2>1, OneRowCounts
    <2> HIDE DEF row, sums
    <2>5. /\ next \in Seq(ActivityType)
          /\ \A id : Count(next, id) = Count(tables.rows, id) + IF CountedIn(row, id) THEN 1 ELSE 0
      BY <1>0, <2>3, CountAppend
    <2> HIDE DEF next
    <2>6. ASSUME NEW id \in Identities PROVE sums[id] = Count(next, id)
      <3>1. tables.totals[id] = Count(tables.rows, id)
        BY DEF Match
      <3> QED
        BY <3>1, <2>4, <2>5
    <2> QED
      BY <2>2, <2>4, <2>5, <2>6 DEF Tables, Match
  <1>3. CASE e.type = "MsgBeginRedelegate"
    <2> DEFINE r1 == ActivityRow(e.src, e)
               r2 == ActivityRow(e.dst, e)
               mid == Append(tables.rows, r1)
               next == Append(mid, r2)
               sums == Redelegated(tables.totals, e.src, e.dst, e.type)
    <2>1. Record(tables, rs, e) = [rows |-> next, totals |-> sums]
      BY <1>3 DEF Record, Inserted, Types
    <2>2. r1 \in ActivityType /\ r2 \in ActivityType
      BY <1>3, EventFields DEF ActivityRow, ActivityType
    <2>3. /\ sums \in [Identities -> Nat]
          /\ \A id \in Identities :
                sums[id] = tables.totals[id] + (IF CountedIn(r1, id) THEN 1 ELSE 0)
                                             + (IF CountedIn(r2, id) THEN 1 ELSE 0)
      BY <1>0, <1>3, TwoRowsCount
    <2> HIDE DEF r1, r2, sums
    <2>4. /\ mid \in Seq(ActivityType)
          /\ \A id : /\ Count(tables.rows, id) \in Nat
                     /\ Count(mid, id) = Count(tables.rows, id) + IF CountedIn(r1, id) THEN 1 ELSE 0
      BY <1>0, <2>2, CountAppend
    <2> HIDE DEF mid
    <2>5. /\ next \in Seq(ActivityType)
          /\ \A id : Count(next, id) = Count(mid, id) + IF CountedIn(r2, id) THEN 1 ELSE 0
      BY <2>2, <2>4, CountAppend
    <2> HIDE DEF next
    <2>6. ASSUME NEW id \in Identities PROVE sums[id] = Count(next, id)
      <3>1. tables.totals[id] = Count(tables.rows, id)
        BY DEF Match
      <3> QED
        BY <3>1, <2>3, <2>4, <2>5
    <2> QED
      BY <2>1, <2>3, <2>5, <2>6 DEF Tables, Match
  <1> QED
    BY <1>1, <1>2, <1>3

\* So does a block, when its slashings find rows of operators.
LEMMA ViewMatches ==
    ASSUME scope \in Scopes, NEW tables \in Tables, Match(tables), NEW rs,
           NEW es \in Seq(Events),
           \A m \in DOMAIN es : IsSlashing(es[m]) => OperatorOf(rs, es[m]) \in Operators
    PROVE  /\ ProjectValidatorActivitiesView(tables, rs, es) \in Tables
           /\ Match(ProjectValidatorActivitiesView(tables, rs, es))
  <1>0. PICK N \in Nat : N = Len(es)
    OBVIOUS
  <1> DEFINE A == {x \in Tables : Match(x)}
             step == [n \in 1..N |-> [x \in A |-> Record(x, rs, es[n])]]
             Is(f) == f = [n \in 0..N |-> IF n = 0 THEN tables ELSE Record(f[n - 1], rs, es[n])]
             recorded == CHOOSE f : Is(f)
  <1>1. \A n \in 1..N : /\ es[n] \in Events
                        /\ IsSlashing(es[n]) => OperatorOf(rs, es[n]) \in Operators
    BY <1>0
  <1>2. ASSUME NEW n \in 1..N, NEW x \in A PROVE Record(x, rs, es[n]) \in A
    BY <1>1, RecordMatches
  <1>3. tables \in A
    OBVIOUS
  <1> HIDE DEF A
  <1>4. step \in [1..N -> [A -> A]]
    BY <1>2
  <1>5. PICK f : Loops(f, N, A, tables, step)
    <2> HIDE DEF step
    <2> QED
      BY <1>3, <1>4, LoopExists
  <1>6. \A n \in 0..N : f[n] = IF n = 0 THEN tables ELSE Record(f[n - 1], rs, es[n])
    <2> SUFFICES ASSUME NEW n \in 0..N, n # 0 PROVE f[n] = Record(f[n - 1], rs, es[n])
      BY <1>5 DEF Loops
    <2>1. n \in 1..N /\ n - 1 \in 0..N
      BY <1>0
    <2>2. f[n - 1] \in A /\ f[n] = step[n][f[n - 1]]
      BY <1>5, <2>1 DEF Loops
    <2> QED
      BY <2>1, <2>2
  <1>7. Is(f)
    <2>1. f = [n \in 0..N |-> f[n]]
      BY <1>5 DEF Loops
    <2> QED
      BY <2>1, <1>6
  <1>8. Is(recorded)
    BY <1>7
  <1>9. ProjectValidatorActivitiesView(tables, rs, es) = recorded[N]
    BY <1>0 DEF ProjectValidatorActivitiesView
  <1> HIDE DEF recorded
  <1>10. /\ recorded[0] = tables
         /\ \A n \in 1..N : recorded[n] = Record(recorded[n - 1], rs, es[n])
    <2>1. 0 \in 0..N /\ \A n \in 1..N : n \in 0..N /\ n # 0
      BY <1>0
    <2>2. \A n \in 0..N : recorded[n] = IF n = 0 THEN tables ELSE Record(recorded[n - 1], rs, es[n])
      BY <1>8
    <2> QED
      BY <2>1, <2>2
  <1> DEFINE S == {n \in 0..N : recorded[n] \in A}
  <1>11. 0 \in S
    BY <1>0, <1>3, <1>10
  <1>12. ASSUME NEW n \in 1..N, n - 1 \in S PROVE n \in S
    <2>1. recorded[n - 1] \in A /\ n \in 0..N
      BY <1>0, <1>12
    <2>2. Record(recorded[n - 1], rs, es[n]) \in A
      BY <1>2, <2>1
    <2> QED
      BY <1>10, <2>1, <2>2
  <1>13. N \in S
    <2>1. \A n \in 0..N : n \in S
      <3> HIDE DEF S
      <3> QED
        BY <1>0, <1>11, <1>12, UpTo
    <2> HIDE DEF S
    <2> QED
      BY <1>0, <2>1
  <1>14. recorded[N] \in A
    BY <1>13
  <1> QED
    BY <1>9, <1>14 DEF A

-----------------------------------------------------------------------------
(* The rows that the first pass knows, when the invariant holds *)

\* R is what the creations among es make of the rows.
KnownRows(es, R) ==
    /\ R \in Seq(RowType) /\ Len(rows) <= Len(R) /\ KeysUnique(R)
    /\ \A i \in DOMAIN rows : rows[i].operator = R[i].operator /\ rows[i].key = R[i].key
    /\ \A o \in DOMAIN joined, i \in DOMAIN R :
           R[i].key = joined[o].key => R[i].operator = o
    /\ \A i \in DOMAIN R :
           \/ /\ i \in DOMAIN rows /\ R[i] = rows[i]
              /\ \A m \in DOMAIN es : IsCreate(es[m]) => es[m].key # rows[i].key
           \/ /\ OfValidator(R[i])
              /\ \E m \in DOMAIN es : es[m].operator = R[i].operator /\ MadeBy(rows, es[m], i, R[i])
    /\ \A m \in DOMAIN es : IsCreate(es[m]) => \E i \in DOMAIN R : MadeBy(rows, es[m], i, R[i])

LEMMA KnownRowsIs ==
    ASSUME TypeOK, KeysHaveOneOwner, NEW es \in Seq(Events), CreateValidators(es),
           NEW R, R = Known(rows, es)
    PROVE  KnownRows(es, R)
  <1>1. rows \in Seq(RowType) /\ height \in Nat /\ KeysUnique(rows)
    BY DEF TypeOK, KeysHaveOneOwner
  <1>2. CreationsDiffer(es)
    BY DEF CreateValidators, KeysHaveOneOwner, CreationsDiffer
  <1>3. KeysAgree(rows, es)
    BY DEF CreateValidators, KeysHaveOneOwner, KeysAgree
  <1>4. KnownIs(rows, es, Len(es), R)
    BY <1>1, <1>2, <1>3, FirstPass
  <1>5. DOMAIN es = 1..Len(es) /\ \A m \in DOMAIN es : es[m] \in Events
    OBVIOUS
  <1>6. /\ R \in Seq(RowType) /\ Len(rows) <= Len(R) /\ KeysUnique(R)
        /\ \A i \in DOMAIN R :
              \/ /\ i \in DOMAIN rows /\ R[i] = rows[i]
                 /\ \A m \in DOMAIN es : IsCreate(es[m]) => es[m].key # rows[i].key
              \/ \E m \in DOMAIN es : MadeBy(rows, es[m], i, R[i])
        /\ \A m \in DOMAIN es : IsCreate(es[m]) => \E i \in DOMAIN R : MadeBy(rows, es[m], i, R[i])
    BY <1>4, <1>5 DEF KnownIs
  <1>7. ASSUME NEW m \in DOMAIN es, NEW i, NEW row, MadeBy(rows, es[m], i, row)
        PROVE  row.operator = es[m].operator /\ OfValidator(row)
    <2>2. es[m] \in Events
      BY <1>5
    <2>1. row.operator = es[m].operator /\ row.key = es[m].key /\ IsCreate(es[m])
      BY <1>7 DEF MadeBy, Row
    <2> QED
      BY <2>1 DEF CreateValidators, OfValidator
  <1>8. ASSUME NEW i \in DOMAIN R
        PROVE  \/ /\ i \in DOMAIN rows /\ R[i] = rows[i]
                  /\ \A m \in DOMAIN es : IsCreate(es[m]) => es[m].key # rows[i].key
               \/ /\ OfValidator(R[i])
                  /\ \E m \in DOMAIN es :
                         es[m].operator = R[i].operator /\ MadeBy(rows, es[m], i, R[i])
    <2>1. CASE \E m \in DOMAIN es : MadeBy(rows, es[m], i, R[i])
      BY <2>1, <1>7
    <2> QED
      BY <2>1, <1>6
  <1>9. ASSUME NEW i \in DOMAIN rows
        PROVE  rows[i].operator = R[i].operator /\ rows[i].key = R[i].key
    <2>1. i \in DOMAIN R
      <3>1. /\ DOMAIN rows = 1..Len(rows) /\ DOMAIN R = 1..Len(R)
            /\ Len(rows) \in Nat /\ Len(R) \in Nat /\ Len(rows) <= Len(R)
        BY <1>1, <1>6
      <3> QED
        BY <3>1
    <2>2. ASSUME NEW m \in DOMAIN es, MadeBy(rows, es[m], i, R[i])
          PROVE  rows[i].operator = R[i].operator /\ rows[i].key = R[i].key
      <3>1. R[i].operator = es[m].operator /\ R[i].key = es[m].key
        BY <1>5, <2>2, MadeByHas
      <3> QED
        BY <3>1, <2>2 DEF MadeBy
    <2> QED
      BY <2>1, <2>2, <1>6
  <1>10. ASSUME NEW o \in DOMAIN joined, NEW i \in DOMAIN R, R[i].key = joined[o].key
         PROVE  R[i].operator = o
    <2>1. CASE i \in DOMAIN rows /\ R[i] = rows[i]
      BY <2>1, <1>10 DEF KeysHaveOneOwner
    <2>2. CASE OfValidator(R[i])
      BY <2>2, <1>10 DEF OfValidator, KeysHaveOneOwner
    <2> QED
      BY <2>1, <2>2, <1>8
  <1> QED
    BY <1>6, <1>8, <1>9, <1>10 DEF KnownRows

\* The newest row of an operator was its newest row, or it has just been created.
LEMMA CurrentWas ==
    ASSUME TypeOK, NEW es, NEW R, KnownRows(es, R), NEW i \in DOMAIN R, IsCurrent(R, i),
           i \in DOMAIN rows
    PROVE  IsCurrent(rows, i)
  <1>1. /\ DOMAIN rows = 1..Len(rows) /\ DOMAIN R = 1..Len(R)
        /\ Len(rows) \in Nat /\ Len(R) \in Nat /\ Len(rows) <= Len(R)
    BY DEF TypeOK, KnownRows
  <1>2. \A j \in DOMAIN rows : j \in DOMAIN R /\ rows[j].operator = R[j].operator
    BY <1>1 DEF KnownRows
  <1> QED
    BY <1>2 DEF IsCurrent

\* What is declared has a row when the creations are handled.
LEMMA DeclaredHasRow ==
    ASSUME TypeOK, NEW R, KnownRows(Happened, R), NEW o, NEW k, Declared(o, k)
    PROVE  \E i \in DOMAIN R : R[i].operator = o /\ R[i].key = k
  <1>1. /\ DOMAIN rows = 1..Len(rows) /\ DOMAIN R = 1..Len(R)
        /\ Len(rows) \in Nat /\ Len(R) \in Nat /\ Len(rows) <= Len(R)
    BY DEF TypeOK, KnownRows
  <1>2. CASE OfBoth(rows, o, k) # {}
    <2>1. PICK i \in DOMAIN rows : rows[i].operator = o /\ rows[i].key = k
      BY <1>2 DEF OfBoth, OfOperator, OfKey
    <2> QED
      BY <2>1, <1>1 DEF KnownRows
  <1>3. CASE IsCreatedIn(Happened, o, k)
    <2>1. PICK m \in DOMAIN Happened :
             IsCreate(Happened[m]) /\ Happened[m].operator = o /\ Happened[m].key = k
      BY <1>3 DEF IsCreatedIn
    <2>2. PICK i \in DOMAIN R : MadeBy(rows, Happened[m], i, R[i])
      BY <2>1 DEF KnownRows
    <2>3. Happened[m] \in Events
      <3>1. Happened \in Seq(Events)
        <4>1. Messages \subseteq Events
          BY DEF Events
        <4> QED
          BY <4>1 DEF TypeOK, Happened
      <3> QED
        BY <3>1
    <2>4. R[i].operator = Happened[m].operator /\ R[i].key = Happened[m].key
      BY <2>2 DEF MadeBy, Row
    <2> QED
      BY <2>1, <2>4
  <1> QED
    BY <1>2, <1>3 DEF Declared

\* The sequence of a set holds each of its elements once.
LEMMA SetToSeqIs ==
    ASSUME NEW S, IsFiniteSet(S)
    PROVE  /\ SetToSeq(S) \in Seq(S)
           /\ \A i, j \in DOMAIN SetToSeq(S) : SetToSeq(S)[i] = SetToSeq(S)[j] => i = j
           /\ \A x \in S : \E i \in DOMAIN SetToSeq(S) : SetToSeq(S)[i] = x
  <1> DEFINE c == Cardinality(S)
             q == SetToSeq(S)
  <1>1. c \in Nat /\ ExistsBijection(1..c, S)
    BY FS_CardinalityType
  <1>2. \E f \in [1..c -> S] : IsInjective(f)
    BY <1>1 DEF ExistsBijection, Bijection, Injection
  <1>3. q \in [1..c -> S] /\ IsInjective(q)
    BY <1>2 DEF SetToSeq
  <1>4. Cardinality(1..c) = c
    BY <1>1, FS_Interval
  <1>5. q \in Injection(1..c, S)
    BY <1>3 DEF Injection
  <1>6. q \in Surjection(1..c, S)
    <2> HIDE DEF q
    <2> QED
      BY <1>4, <1>5, FS_Injection
  <1> HIDE DEF q, c
  <1>7. q \in Seq(S) /\ DOMAIN q = 1..c
    BY <1>1, <1>3
  <1>8. \A i, j \in DOMAIN q : q[i] = q[j] => i = j
    BY <1>3 DEF IsInjective
  <1>9. \A x \in S : \E i \in DOMAIN q : q[i] = x
    BY <1>6, <1>7 DEF Surjection
  <1> QED
    BY <1>7, <1>8, <1>9 DEF q

LEMMA OperatorsFinite ==
    ASSUME TypeOK, NEW S, S \subseteq Operators
    PROVE  IsFiniteSet(S)
  BY FS_Subset, ScopesAssumption DEF TypeOK, Operators

LEMMA TypesStay ==
    ASSUME scope' = scope
    PROVE  Operators' = Operators /\ RowType' = RowType /\ Messages' = Messages /\ Events' = Events
  BY DEF Operators, RowType, Messages, Events

-----------------------------------------------------------------------------
(* The steps of the chain *)

LEMMA BeginBlockKeeps ==
    ASSUME IndInv, BeginBlock
    PROVE  IndInv'
  <1>1. PICK slashed \in SUBSET Active :
           /\ joined' = [o \in DOMAIN joined |->
                  [joined[o] EXCEPT !.jailed = @ \/ o \in slashed]]
           /\ jails' =
                  LET order == SetToSeq(slashed)
                  IN  [i \in 1..(2 * Len(order)) |->
                          [type |-> IF i % 2 = 1 THEN "ValidatorSlashed" ELSE "ValidatorJailed",
                           key |-> joined[order[(i + 1) \div 2]].key]]
    BY DEF BeginBlock
  <1>2. /\ phase = "begin" /\ phase' = "txs" /\ signers' \subseteq sets[1]
        /\ UNCHANGED <<height, sets, msgs, events, rows, votes, perfect, scope>>
    BY DEF BeginBlock
  <1>3. TypeOK /\ msgs = << >> /\ jails = << >> /\ events = << >>
    BY <1>2 DEF IndInv, TypeOK
  <1>4. DOMAIN joined \subseteq Operators /\ \A o \in DOMAIN joined : joined[o] \in Validators
    BY <1>3 DEF TypeOK
  <1>5. /\ DOMAIN joined' = DOMAIN joined
        /\ \A o \in DOMAIN joined :
              /\ joined'[o].key = joined[o].key /\ joined'[o].active = joined[o].active
              /\ joined'[o].jailed = (joined[o].jailed \/ o \in slashed)
              /\ joined'[o] \in Validators
    BY <1>1, <1>4 DEF Validators
  <1> DEFINE order == SetToSeq(slashed)
             n == Len(order)
  <1>6. /\ order \in Seq(slashed)
        /\ \A x \in slashed : \E i \in DOMAIN order : order[i] = x
    <2>1. IsFiniteSet(slashed)
      BY <1>3, <1>4, OperatorsFinite DEF Active
    <2> QED
      BY <2>1, SetToSeqIs
  <1> HIDE DEF order
  <1>7. /\ n \in Nat /\ \A i \in 1..n : order[i] \in slashed /\ order[i] \in DOMAIN joined
        /\ \A x \in slashed : \E i \in 1..n : order[i] = x
    BY <1>6 DEF Active
  <1>8. jails' = [i \in 1..(2 * n) |->
                     [type |-> IF i % 2 = 1 THEN "ValidatorSlashed" ELSE "ValidatorJailed",
                      key |-> joined[order[(i + 1) \div 2]].key]]
    BY <1>1 DEF order
  <1> HIDE DEF n
  <1>9. \A i \in 1..(2 * n) : (i + 1) \div 2 \in 1..n
    BY <1>7
  <1>10. jails' \in Seq(Slashings) /\ DOMAIN jails' = 1..(2 * n) /\ Len(jails') = 2 * n
    <2>1. \A i \in 1..(2 * n) : joined[order[(i + 1) \div 2]].key \in Keys
      BY <1>4, <1>7, <1>9 DEF Validators
    <2>2. jails' \in [1..(2 * n) -> Slashings]
      BY <1>8, <2>1 DEF Slashings
    <2>3. 2 * n \in Nat
      BY <1>7
    <2> QED
      BY <2>2, <2>3, IsASeqOfLen
  <1>11. \A o \in DOMAIN joined : JailedIn(jails', 2 * n, joined[o].key) <=> o \in slashed
    <2> TAKE o \in DOMAIN joined
    <2>1. ASSUME o \in slashed PROVE JailedIn(jails', 2 * n, joined[o].key)
      <3>1. PICK i \in 1..n : order[i] = o
        BY <1>7, <2>1
      <3>2. 2 * i \in 1..(2 * n) /\ (2 * i) % 2 # 1 /\ (2 * i + 1) \div 2 = i
        BY <1>7
      <3>3. jails'[2 * i].type = "ValidatorJailed" /\ jails'[2 * i].key = joined[o].key
        BY <1>8, <3>1, <3>2
      <3> QED
        BY <3>2, <3>3 DEF JailedIn
    <2>2. ASSUME JailedIn(jails', 2 * n, joined[o].key) PROVE o \in slashed
      <3>1. PICK i \in 1..(2 * n) : jails'[i].key = joined[o].key
        BY <2>2 DEF JailedIn
      <3>2. joined[order[(i + 1) \div 2]].key = joined[o].key
        BY <1>8, <3>1
      <3>3. order[(i + 1) \div 2] = o
        BY <3>2, <1>7, <1>9 DEF IndInv, KeysHaveOneOwner
      <3> QED
        BY <3>3, <1>7, <1>9
    <2> QED
      BY <2>1, <2>2
  <1>12. Happened = << >> /\ Happened' = << >>
    BY <1>2, <1>3 DEF Happened
  <1>13. \A o, k : Declared(o, k)' <=> Declared(o, k)
    BY <1>2, <1>12 DEF Declared, OfBoth, OfOperator, OfKey
  <1>14. CreatedIn(msgs)' = {} /\ CreatedIn(msgs) = {}
    BY <1>2, <1>3 DEF CreatedIn
  <1>15. TypeOK'
    <2>1. joined' \in [DOMAIN joined' -> Validators]
      BY <1>1, <1>5
    <2>2. signers' \subseteq Keys
      BY <1>2, <1>3 DEF TypeOK
    <2> QED
      BY <1>2, <1>3, <1>5, <1>10, <2>1, <2>2, TypesStay DEF TypeOK
  <1>16. KeysHaveOneOwner'
    BY <1>2, <1>5 DEF IndInv, KeysHaveOneOwner, KeysUnique
  <1>17. CreationsAreOfValidators'
    BY <1>12 DEF CreationsAreOfValidators, CreateValidators
  <1>18. ValidatorsAreDeclared'
    <2>1. Active' = Active
      BY <1>5 DEF Active
    <2>2. KeysOf(Active)' = KeysOf(Active)
      BY <2>1, <1>5 DEF KeysOf, Active
    <2> QED
      BY <1>2, <1>3, <1>5, <1>13, <2>2, TypesStay DEF IndInv, ValidatorsAreDeclared
  <1>19. EventsAreOfDeclared'
    <2>1. ASSUME NEW m \in 1..(2 * n) PROVE \E o \in DOMAIN joined : joined[o].key = jails'[m].key
      BY <1>7, <1>8, <1>9
    <2> QED
      BY <1>2, <1>5, <1>10, <1>12, <2>1 DEF EventsAreOfDeclared
  <1>20. /\ ActiveIsNotJailed' /\ StatusesAgree' /\ EventsTell'
    BY <1>2 DEF ActiveIsNotJailed, StatusesAgree, EventsTell
  <1>21. StatusesWillAgree'
    <2>1. \A o \in DOMAIN joined : joined[o].active => ~joined[o].jailed
      BY <1>2 DEF IndInv, ActiveIsNotJailed
    <2>2. \A o \in slashed : joined[o].active
      BY DEF Active
    <2>3. \A o : ~UnjailedIn(msgs', Len(msgs'), o)
      BY <1>2, <1>3 DEF UnjailedIn
    <2>4. ASSUME NEW o \in DOMAIN joined
          PROVE  JailedIn(jails', Len(jails'), joined'[o].key)
                     <=> joined'[o].active /\ joined'[o].jailed
      BY <1>5, <1>10, <1>11, <2>1, <2>2
    <2>5. ASSUME NEW i \in DOMAIN rows, IsCurrent(rows, i)
          PROVE  IF OfValidator(rows[i])
                 THEN LET v == joined'[rows[i].operator]
                      IN  /\ rows[i].status = "Bonded" <=> v.active
                          /\ v.active => ~rows[i].jailed
                          /\ ~v.active =>
                                /\ rows[i].jailed = v.jailed
                                /\ v.jailed => rows[i].status \in {"Jailed", "Unbonding"}
                 ELSE rows[i].status # "Bonded"
      <3>1. Agrees(rows[i], rows[i].status, rows[i].jailed)
        BY <1>2, <2>5 DEF IndInv, StatusesAgree
      <3>2. CASE OfValidator(rows[i])
        <4>1. rows[i].operator \in DOMAIN joined
          BY <3>2 DEF OfValidator
        <4> DEFINE o == rows[i].operator
        <4>2. /\ rows[i].status = "Bonded" <=> joined[o].active
              /\ rows[i].jailed = joined[o].jailed
              /\ joined[o].jailed => rows[i].status \in {"Jailed", "Unbonding"}
          BY <3>1, <3>2 DEF Agrees
        <4> HIDE DEF o
        <4>3. /\ joined'[o].active = joined[o].active
              /\ joined'[o].jailed = (joined[o].jailed \/ o \in slashed)
              /\ joined[o].active => ~joined[o].jailed
              /\ o \in slashed => joined[o].active
          BY <4>1, <1>5, <2>1, <2>2 DEF o
        <4>4. joined'[o].active \/ joined'[o].jailed = joined[o].jailed
          BY <4>1, <1>4, <4>3 DEF Validators, o
        <4> QED
          BY <3>2, <4>2, <4>3, <4>4 DEF o
      <3>3. CASE ~OfValidator(rows[i])
        BY <3>1, <3>3 DEF Agrees
      <3> QED
        BY <3>2, <3>3
    <2>6. \A i \in DOMAIN rows : OfValidator(rows[i])' <=> OfValidator(rows[i])
      BY <1>2, <1>5 DEF OfValidator
    <2>7. \A i \in DOMAIN rows : IsCurrent(rows, i)' <=> IsCurrent(rows, i)
      BY <1>2 DEF IsCurrent
    <2> QED
      BY <1>2, <1>5, <1>14, <2>3, <2>4, <2>5, <2>6, <2>7 DEF StatusesWillAgree
  <1>22. PerfectHaveSigned'
    <2>1. \A o \in perfect : o \in DOMAIN joined /\ joined[o].active
      BY DEF IndInv, PerfectHaveSigned
    <2>2. ASSUME NEW o \in perfect PROVE \E i \in DOMAIN rows : IsPerfect(rows, i, o, height - 1)'
      <3>1. PICK i \in DOMAIN rows : IsPerfect(rows, i, o, height - 1)
        BY <1>2 DEF IndInv, PerfectHaveSigned
      <3>2. IsPerfect(rows, i, o, height - 1)'
        BY <3>1, <1>2, <1>5, <2>1 DEF IsPerfect, IsCurrent
      <3> QED
        BY <3>2
    <2> QED
      BY <1>2, <1>5, <1>14, <2>1, <2>2 DEF PerfectHaveSigned
  <1>23. VotesAreCast'
    BY <1>2, <1>5, <1>14 DEF IndInv, VotesAreCast
  <1> QED
    BY <1>15, <1>16, <1>17, <1>18, <1>19, <1>20, <1>21, <1>22, <1>23 DEF IndInv

\* A message adds its event to those of the block.
LEMMA MessageIs ==
    ASSUME IndInv, NEW e \in Messages, Message(e)
    PROVE  /\ phase = "txs" /\ phase' = "txs"
           /\ UNCHANGED <<height, sets, signers, jails, events, rows, votes, perfect, scope>>
           /\ Happened = msgs /\ Happened' = msgs' /\ msgs' \in Seq(Messages)
           /\ \A m \in DOMAIN msgs : m \in DOMAIN msgs' /\ msgs'[m] = msgs[m]
           /\ \A m \in DOMAIN msgs' :
                 (m \in DOMAIN msgs /\ msgs'[m] = msgs[m]) \/ (m = Len(msgs) + 1 /\ msgs'[m] = e)
           /\ \A o : UnjailedIn(msgs', Len(msgs'), o) <=>
                 UnjailedIn(msgs, Len(msgs), o) \/ (e.type = "MsgUnjail" /\ e.operator = o)
           /\ \A o \in Operators :
                 o \in CreatedIn(msgs)' <=> o \in CreatedIn(msgs) \/ (IsCreate(e) /\ e.operator = o)
           /\ \A o, k : Declared(o, k)' <=>
                 Declared(o, k) \/ (IsCreate(e) /\ e.operator = o /\ e.key = k)
  <1> DEFINE n == Len(msgs)
  <1>1. /\ phase = "txs" /\ phase' = "txs" /\ msgs' = Append(msgs, e)
        /\ UNCHANGED <<height, sets, signers, jails, events, rows, votes, perfect, scope>>
    BY DEF Message
  <1>2. msgs \in Seq(Messages) /\ n \in Nat /\ DOMAIN msgs = 1..n
    BY DEF IndInv, TypeOK
  <1>3. /\ msgs' \in Seq(Messages) /\ Len(msgs') = n + 1 /\ DOMAIN msgs' = 1..(n + 1)
        /\ (\A m \in 1..n : msgs'[m] = msgs[m]) /\ msgs'[n + 1] = e
    BY <1>1, <1>2
  <1>4. Happened = msgs /\ Happened' = msgs'
    BY <1>1 DEF Happened
  <1> HIDE DEF n
  <1>5. 1..(n + 1) = (1..n) \cup {n + 1}
    BY <1>2
  <1>6. \A o : UnjailedIn(msgs', n + 1, o) <=>
            UnjailedIn(msgs, n, o) \/ (e.type = "MsgUnjail" /\ e.operator = o)
    BY <1>3, <1>5 DEF UnjailedIn
  <1>7. \A o \in Operators :
            o \in CreatedIn(msgs)' <=> o \in CreatedIn(msgs) \/ (IsCreate(e) /\ e.operator = o)
    BY <1>1, <1>2, <1>3, <1>5, TypesStay DEF CreatedIn
  <1>8. \A o, k : IsCreatedIn(Happened, o, k)' <=>
            IsCreatedIn(Happened, o, k) \/ (IsCreate(e) /\ e.operator = o /\ e.key = k)
    BY <1>2, <1>3, <1>4, <1>5 DEF IsCreatedIn
  <1>9. \A o, k : OfBoth(rows, o, k)' = OfBoth(rows, o, k)
    BY <1>1 DEF OfBoth, OfOperator, OfKey
  <1>10. \A o, k : Declared(o, k)' <=>
            Declared(o, k) \/ (IsCreate(e) /\ e.operator = o /\ e.key = k)
    BY <1>8, <1>9 DEF Declared
  <1>11. /\ \A m \in DOMAIN msgs : m \in DOMAIN msgs' /\ msgs'[m] = msgs[m]
         /\ \A m \in DOMAIN msgs' :
               (m \in DOMAIN msgs /\ msgs'[m] = msgs[m]) \/ (m = n + 1 /\ msgs'[m] = e)
    BY <1>2, <1>3
  <1> QED
    BY <1>1, <1>3, <1>4, <1>6, <1>7, <1>10, <1>11 DEF n

\* The messages of validators that exist: an unjailing, an edit, a redelegation, a vote.
LEMMA MessageKeeps ==
    ASSUME IndInv, NEW e \in Messages, Message(e), ~IsCreate(e),
           DOMAIN joined' = DOMAIN joined, joined' \in [DOMAIN joined -> Validators],
           \A o \in DOMAIN joined :
               /\ joined'[o].key = joined[o].key /\ joined'[o].active = joined[o].active
               /\ joined'[o].jailed = (joined[o].jailed /\ ~(e.type = "MsgUnjail" /\ e.operator = o)),
           e.type \in {"MsgUnjail", "MsgEditValidator"} => e.operator \in DOMAIN joined,
           e.type = "MsgUnjail" => joined[e.operator].jailed /\ ~joined[e.operator].active
    PROVE  IndInv'
  <1>1. /\ phase = "txs" /\ phase' = "txs"
        /\ UNCHANGED <<height, sets, signers, jails, events, rows, votes, perfect, scope>>
        /\ Happened = msgs /\ Happened' = msgs' /\ msgs' \in Seq(Messages)
        /\ \A m \in DOMAIN msgs : m \in DOMAIN msgs' /\ msgs'[m] = msgs[m]
        /\ \A m \in DOMAIN msgs' :
              (m \in DOMAIN msgs /\ msgs'[m] = msgs[m]) \/ msgs'[m] = e
    BY MessageIs
  <1>2. \A o : UnjailedIn(msgs', Len(msgs'), o) <=>
              UnjailedIn(msgs, Len(msgs), o) \/ (e.type = "MsgUnjail" /\ e.operator = o)
    BY MessageIs
  <1>3. \A o \in Operators : o \in CreatedIn(msgs)' <=> o \in CreatedIn(msgs)
    BY MessageIs
  <1>4. \A o, k : Declared(o, k)' <=> Declared(o, k)
    BY MessageIs
  <1>5. /\ TypeOK /\ DOMAIN joined \subseteq Operators
        /\ \A o \in DOMAIN joined : joined[o] \in Validators
    BY DEF IndInv, TypeOK
  <1>6. TypeOK'
    BY <1>1, <1>5, TypesStay DEF TypeOK
  <1>7. KeysHaveOneOwner'
    BY <1>1 DEF IndInv, KeysHaveOneOwner, KeysUnique
  <1>8. CreationsAreOfValidators'
    <2>1. \A m \in DOMAIN msgs' : IsCreate(msgs'[m]) => m \in DOMAIN msgs /\ msgs'[m] = msgs[m]
      BY <1>1
    <2> QED
      BY <1>1, <2>1 DEF IndInv, CreationsAreOfValidators, CreateValidators
  <1>9. ValidatorsAreDeclared'
    <2>1. Active' = Active
      BY DEF Active
    <2>2. KeysOf(Active)' = KeysOf(Active)
      BY <2>1 DEF KeysOf, Active
    <2> QED
      BY <1>1, <1>4, <2>2, TypesStay DEF IndInv, ValidatorsAreDeclared
  <1>10. EventsAreOfDeclared'
    <2>1. signers' \subseteq sets'[1]
      BY <1>1 DEF IndInv, EventsAreOfDeclared
    <2>2. \A m \in DOMAIN jails' : \E o \in DOMAIN joined' : joined'[o].key = jails'[m].key
      BY <1>1 DEF IndInv, EventsAreOfDeclared
    <2>3. ASSUME NEW m \in DOMAIN msgs'
          PROVE  LET x == msgs'[m]
                 IN  /\ x.type \in {"MsgUnjail", "MsgEditValidator"} =>
                            \E k \in Keys : Declared(x.operator, k)
                     /\ x.type \in {"ValidatorJailed", "PowerChanged"} =>
                            \E o \in Operators : Declared(o, x.key)
                     /\ x.type = "BlockCreated" =>
                            \A k \in x.signers : \E o \in Operators : Declared(o, k)
      <3>1. CASE m \in DOMAIN msgs /\ msgs'[m] = msgs[m]
        BY <3>1, <1>1 DEF IndInv, EventsAreOfDeclared
      <3>2. CASE msgs'[m] = e
        <4>1. e.type \in {"MsgUnjail", "MsgEditValidator"} =>
                  /\ joined[e.operator].key \in Keys
                  /\ Declared(e.operator, joined[e.operator].key)
          BY <1>5 DEF IndInv, ValidatorsAreDeclared, Validators
        <4>2. e.type \notin {"ValidatorJailed", "PowerChanged", "BlockCreated"}
          BY DEF Messages
        <4> QED
          BY <3>2, <4>1, <4>2
      <3> QED
        BY <3>1, <3>2, <1>1
    <2> QED
      BY <1>1, <1>4, <2>1, <2>2, <2>3, TypesStay DEF EventsAreOfDeclared
  <1>11. ActiveIsNotJailed' /\ StatusesAgree' /\ EventsTell'
    BY <1>1 DEF ActiveIsNotJailed, StatusesAgree, EventsTell
  <1>12. StatusesWillAgree'
    <2>1. ASSUME NEW o \in DOMAIN joined
          PROVE  /\ JailedIn(jails, Len(jails), joined[o].key)
                        <=> joined'[o].active /\ joined'[o].jailed
                 /\ o \in CreatedIn(msgs) => ~joined'[o].active /\ ~joined'[o].jailed
                 /\ UnjailedIn(msgs', Len(msgs'), o) => ~joined'[o].active /\ ~joined'[o].jailed
      <3>1. /\ JailedIn(jails, Len(jails), joined[o].key) <=> joined[o].active /\ joined[o].jailed
            /\ o \in CreatedIn(msgs) => ~joined[o].active /\ ~joined[o].jailed
            /\ UnjailedIn(msgs, Len(msgs), o) => ~joined[o].active /\ ~joined[o].jailed
        BY <1>1 DEF IndInv, StatusesWillAgree
      <3> QED
        BY <3>1, <1>2
    <2>2. ASSUME NEW i \in DOMAIN rows, IsCurrent(rows, i)
          PROVE  IF OfValidator(rows[i])
                 THEN LET v == joined'[rows[i].operator]
                      IN  rows[i].operator \notin CreatedIn(msgs) =>
                             /\ rows[i].status = "Bonded" <=> v.active
                             /\ v.active => ~rows[i].jailed
                             /\ ~v.active /\ ~UnjailedIn(msgs', Len(msgs'), rows[i].operator) =>
                                   /\ rows[i].jailed = v.jailed
                                   /\ v.jailed => rows[i].status \in {"Jailed", "Unbonding"}
                 ELSE rows[i].status # "Bonded"
      <3>1. CASE ~OfValidator(rows[i])
        BY <2>2, <3>1, <1>1 DEF IndInv, StatusesWillAgree
      <3>2. CASE OfValidator(rows[i])
        <4> DEFINE o == rows[i].operator
        <4>1. o \in DOMAIN joined
          BY <3>2 DEF OfValidator
        <4>2. o \notin CreatedIn(msgs) =>
                 /\ rows[i].status = "Bonded" <=> joined[o].active
                 /\ joined[o].active => ~rows[i].jailed
                 /\ ~joined[o].active /\ ~UnjailedIn(msgs, Len(msgs), o) =>
                       /\ rows[i].jailed = joined[o].jailed
                       /\ joined[o].jailed => rows[i].status \in {"Jailed", "Unbonding"}
          BY <2>2, <3>2, <1>1 DEF IndInv, StatusesWillAgree
        <4>3. /\ joined'[o].active = joined[o].active
              /\ joined'[o].jailed = (joined[o].jailed /\ ~(e.type = "MsgUnjail" /\ e.operator = o))
              /\ joined[o].jailed \in BOOLEAN
          BY <4>1, <1>5 DEF Validators
        <4>4. UnjailedIn(msgs', Len(msgs'), o) <=>
                 UnjailedIn(msgs, Len(msgs), o) \/ (e.type = "MsgUnjail" /\ e.operator = o)
          BY <1>2
        <4>5. ~UnjailedIn(msgs', Len(msgs'), o) =>
                 ~UnjailedIn(msgs, Len(msgs), o) /\ joined'[o].jailed = joined[o].jailed
          BY <4>3, <4>4
        <4> HIDE DEF o
        <4> QED
          BY <3>2, <4>2, <4>3, <4>5 DEF o
      <3> QED
        BY <3>1, <3>2
    <2>3. \A i \in DOMAIN rows : OfValidator(rows[i])' <=> OfValidator(rows[i])
      BY <1>1 DEF OfValidator
    <2>4. \A i \in DOMAIN rows : IsCurrent(rows, i)' <=> IsCurrent(rows, i)
      BY <1>1 DEF IsCurrent
    <2>5. \A i \in DOMAIN rows : rows[i].operator \in Operators
      BY <1>5, RowsOfSeq DEF TypeOK, RowType
    <2> QED
      BY <1>1, <1>3, <1>5, <2>1, <2>2, <2>3, <2>4, <2>5 DEF StatusesWillAgree
  <1>13. PerfectHaveSigned'
    <2>1. \A o \in perfect : o \in DOMAIN joined /\ joined[o].active /\ o \notin CreatedIn(msgs)
      BY <1>1 DEF IndInv, PerfectHaveSigned
    <2>2. ASSUME NEW o \in perfect PROVE \E i \in DOMAIN rows : IsPerfect(rows, i, o, height - 1)'
      <3>1. PICK i \in DOMAIN rows : IsPerfect(rows, i, o, height - 1)
        BY <1>1 DEF IndInv, PerfectHaveSigned
      <3>2. IsPerfect(rows, i, o, height - 1)'
        BY <3>1, <1>1, <2>1 DEF IsPerfect, IsCurrent
      <3> QED
        BY <3>2
    <2> QED
      BY <1>1, <1>3, <1>5, <2>1, <2>2 DEF PerfectHaveSigned
  <1>14. VotesAreCast'
    <2>1. \A o \in DOMAIN joined, i \in DOMAIN rows :
              o \notin CreatedIn(msgs) /\ rows[i].key = joined[o].key => rows[i].voted <= votes[o]
      BY <1>1 DEF IndInv, VotesAreCast
    <2> QED
      BY <1>1, <1>3, <1>5, <2>1 DEF VotesAreCast
  <1> QED
    BY <1>6, <1>7, <1>8, <1>9, <1>10, <1>11, <1>12, <1>13, <1>14 DEF IndInv

LEMMA MsgUnjailKeeps ==
    ASSUME IndInv, NEW o \in Operators, MsgUnjail(o)
    PROVE  IndInv'
  <1> DEFINE e == [type |-> "MsgUnjail", operator |-> o]
  <1>1. /\ o \in DOMAIN joined /\ joined[o].jailed /\ ~joined[o].active
        /\ joined' = [joined EXCEPT ![o].jailed = FALSE] /\ Message(e)
    BY DEF MsgUnjail
  <1>2. e \in Messages /\ e.type = "MsgUnjail" /\ e.operator = o /\ ~IsCreate(e)
    BY DEF Messages, IsCreate
  <1>3. joined \in [DOMAIN joined -> Validators]
    BY DEF IndInv, TypeOK
  <1> HIDE DEF e
  <1>4. /\ DOMAIN joined' = DOMAIN joined /\ joined' \in [DOMAIN joined -> Validators]
        /\ \A p \in DOMAIN joined :
              /\ joined'[p].key = joined[p].key /\ joined'[p].active = joined[p].active
              /\ joined'[p].jailed = (joined[p].jailed /\ ~(e.type = "MsgUnjail" /\ e.operator = p))
    BY <1>1, <1>2, <1>3 DEF Validators
  <1> QED
    BY <1>1, <1>2, <1>4, MessageKeeps

LEMMA OtherKeeps ==
    ASSUME IndInv, Other
    PROVE  IndInv'
  <1>1. joined' = joined /\ DOMAIN joined \subseteq Operators
    BY DEF Other, IndInv, TypeOK
  <1>2. joined \in [DOMAIN joined -> Validators]
    BY DEF IndInv, TypeOK
  <1>3. PICK e \in Messages :
           /\ Message(e) /\ e.type \in {"MsgEditValidator", "MsgBeginRedelegate", "MsgVote"}
           /\ e.type = "MsgEditValidator" => e.operator \in DOMAIN joined
    <2>1. ASSUME NEW o \in DOMAIN joined
          PROVE  [type |-> "MsgEditValidator", operator |-> o] \in Messages
      BY <1>1 DEF Messages
    <2>2. ASSUME NEW o \in DOMAIN joined, NEW p \in DOMAIN joined \ {o}
          PROVE  [type |-> "MsgBeginRedelegate", src |-> o, dst |-> p] \in Messages
      BY <1>1 DEF Messages
    <2>3. ASSUME NEW v \in Operators \cup {Outsider}
          PROVE  [type |-> "MsgVote", voter |-> v] \in Messages
      BY DEF Messages
    <2>4. CASE \E o \in DOMAIN joined : Message([type |-> "MsgEditValidator", operator |-> o])
      BY <2>1, <2>4
    <2>5. CASE \E o \in DOMAIN joined : \E p \in DOMAIN joined \ {o} :
                  Message([type |-> "MsgBeginRedelegate", src |-> o, dst |-> p])
      BY <2>2, <2>5
    <2>6. CASE \E v \in Operators \cup {Outsider} : Message([type |-> "MsgVote", voter |-> v])
      BY <2>3, <2>6
    <2> QED
      BY <2>4, <2>5, <2>6 DEF Other
  <1>4. ~IsCreate(e) /\ e.type # "MsgUnjail"
    BY <1>3 DEF IsCreate
  <1> QED
    BY <1>1, <1>2, <1>3, <1>4, MessageKeeps DEF Validators

LEMMA MsgCreateValidatorKeeps ==
    ASSUME IndInv, NEW o \in Operators, NEW k \in Keys, MsgCreateValidator(o, k)
    PROVE  IndInv'
  <1> DEFINE e == [type |-> "MsgCreateValidator", operator |-> o, key |-> k, jailed |-> FALSE]
  <1>1. /\ o \notin DOMAIN joined /\ MayUse(o, k) /\ Message(e)
        /\ joined' = [p \in DOMAIN joined \cup {o} |->
               IF p = o THEN [key |-> k, jailed |-> FALSE, active |-> FALSE] ELSE joined[p]]
    BY DEF MsgCreateValidator
  <1>2. /\ e \in Messages /\ IsCreate(e) /\ e.type = "MsgCreateValidator"
        /\ e.operator = o /\ e.key = k
    BY DEF Messages, IsCreate
  <1> HIDE DEF e
  <1>3. /\ phase = "txs" /\ phase' = "txs"
        /\ UNCHANGED <<height, sets, signers, jails, events, rows, votes, perfect, scope>>
        /\ Happened = msgs /\ Happened' = msgs' /\ msgs' \in Seq(Messages)
        /\ \A m \in DOMAIN msgs : m \in DOMAIN msgs' /\ msgs'[m] = msgs[m]
        /\ \A m \in DOMAIN msgs' :
              (m \in DOMAIN msgs /\ msgs'[m] = msgs[m]) \/ (m = Len(msgs) + 1 /\ msgs'[m] = e)
    BY <1>1, <1>2, MessageIs
  <1>4. \A p : UnjailedIn(msgs', Len(msgs'), p) <=> UnjailedIn(msgs, Len(msgs), p)
    BY <1>1, <1>2, MessageIs
  <1>5. \A p \in Operators : p \in CreatedIn(msgs)' <=> p \in CreatedIn(msgs) \/ p = o
    BY <1>1, <1>2, MessageIs
  <1>6. \A p, j : Declared(p, j)' <=> Declared(p, j) \/ (p = o /\ j = k)
    BY <1>1, <1>2, MessageIs
  <1>7. /\ TypeOK /\ DOMAIN joined \subseteq Operators
        /\ \A p \in DOMAIN joined : joined[p] \in Validators
    BY DEF IndInv, TypeOK
  <1>8. /\ DOMAIN joined' = DOMAIN joined \cup {o} /\ joined' \in [DOMAIN joined' -> Validators]
        /\ joined'[o] = [key |-> k, jailed |-> FALSE, active |-> FALSE]
        /\ \A p \in DOMAIN joined : joined'[p] = joined[p] /\ p # o /\ joined[p].key # k
    BY <1>1, <1>7 DEF Validators, MayUse
  <1>9. TypeOK'
    BY <1>3, <1>7, <1>8, TypesStay DEF TypeOK
  <1>10. KeysHaveOneOwner'
    <2>1. \A i \in DOMAIN rows : rows[i].key = k => rows[i].operator = o
      BY <1>1 DEF MayUse
    <2>2. \A p, q \in DOMAIN joined' : joined'[p].key = joined'[q].key => p = q
      BY <1>8 DEF IndInv, KeysHaveOneOwner
    <2>3. \A p \in DOMAIN joined', i \in DOMAIN rows :
             rows[i].key = joined'[p].key => rows[i].operator = p
      BY <1>8, <2>1 DEF IndInv, KeysHaveOneOwner
    <2>4. KeysUnique(rows)' <=> KeysUnique(rows)
      BY <1>3 DEF KeysUnique
    <2> QED
      BY <1>3, <2>2, <2>3, <2>4 DEF IndInv, KeysHaveOneOwner
  <1>11. CreationsAreOfValidators'
    <2>1. CreateValidators(msgs)
      BY <1>3 DEF IndInv, CreationsAreOfValidators
    <2>2. ASSUME NEW m \in DOMAIN msgs', IsCreate(msgs'[m])
          PROVE  /\ msgs'[m].operator \in DOMAIN joined'
                 /\ joined'[msgs'[m].operator].key = msgs'[m].key
                 /\ m \in DOMAIN msgs => msgs'[m].operator \in DOMAIN joined
                 /\ m \notin DOMAIN msgs => m = Len(msgs) + 1 /\ msgs'[m].operator = o
      BY <1>2, <1>3, <1>8, <2>1, <2>2 DEF CreateValidators
    <2>3. ASSUME NEW m \in DOMAIN msgs', IsCreate(msgs'[m]), NEW l \in DOMAIN msgs',
                 IsCreate(msgs'[l]), msgs'[l].operator = msgs'[m].operator
          PROVE  l = m
      <3>1. CASE m \in DOMAIN msgs /\ l \in DOMAIN msgs
        BY <3>1, <2>1, <2>3, <1>3 DEF CreateValidators
      <3>2. CASE m \notin DOMAIN msgs \/ l \notin DOMAIN msgs
        BY <3>2, <2>2, <2>3, <1>1
      <3> QED
        BY <3>1, <3>2
    <2> QED
      BY <1>3, <2>2, <2>3 DEF CreationsAreOfValidators, CreateValidators
  <1>12. ValidatorsAreDeclared'
    <2>1. Active' = Active
      BY <1>8 DEF Active
    <2>2. KeysOf(Active)' = KeysOf(Active)
      BY <2>1, <1>8 DEF KeysOf, Active
    <2>3. (\A p \in DOMAIN joined : Declared(p, joined[p].key))'
      <3>1. \A p \in DOMAIN joined : Declared(p, joined[p].key)
        BY DEF IndInv, ValidatorsAreDeclared
      <3> QED
        BY <3>1, <1>6, <1>8
    <2>4. \A i \in 1..3 : \A j \in sets[i] : \E p \in Operators : Declared(p, j)
      BY DEF IndInv, ValidatorsAreDeclared
    <2> QED
      BY <1>3, <1>6, <2>2, <2>3, <2>4, TypesStay DEF IndInv, ValidatorsAreDeclared
  <1>13. EventsAreOfDeclared'
    <2>1. signers' \subseteq sets'[1]
      BY <1>3 DEF IndInv, EventsAreOfDeclared
    <2>2. \A m \in DOMAIN jails' : \E p \in DOMAIN joined' : joined'[p].key = jails'[m].key
      BY <1>3, <1>8 DEF IndInv, EventsAreOfDeclared
    <2>3. ASSUME NEW m \in DOMAIN msgs'
          PROVE  LET x == msgs'[m]
                 IN  /\ x.type \in {"MsgUnjail", "MsgEditValidator"} =>
                            \E j \in Keys : Declared(x.operator, j)
                     /\ x.type \in {"ValidatorJailed", "PowerChanged"} =>
                            \E p \in Operators : Declared(p, x.key)
                     /\ x.type = "BlockCreated" =>
                            \A j \in x.signers : \E p \in Operators : Declared(p, j)
      <3>1. CASE m \in DOMAIN msgs /\ msgs'[m] = msgs[m]
        BY <3>1, <1>3 DEF IndInv, EventsAreOfDeclared
      <3>2. CASE msgs'[m] = e
        BY <3>2, <1>2
      <3> QED
        BY <3>1, <3>2, <1>3
    <2> QED
      BY <1>3, <1>6, <2>1, <2>2, <2>3, TypesStay DEF EventsAreOfDeclared
  <1>14. ActiveIsNotJailed' /\ StatusesAgree' /\ EventsTell'
    BY <1>3 DEF ActiveIsNotJailed, StatusesAgree, EventsTell
  <1>15. StatusesWillAgree'
    <2>1. ASSUME NEW p \in DOMAIN joined'
          PROVE  /\ JailedIn(jails, Len(jails), joined'[p].key)
                        <=> joined'[p].active /\ joined'[p].jailed
                 /\ p \in CreatedIn(msgs)' => ~joined'[p].active /\ ~joined'[p].jailed
                 /\ UnjailedIn(msgs', Len(msgs'), p) => ~joined'[p].active /\ ~joined'[p].jailed
      <3>1. CASE p = o
        <4>1. \A m \in 1..Len(jails) : jails[m].key # k
          <5>1. \A m \in DOMAIN jails : \E q \in DOMAIN joined : joined[q].key = jails[m].key
            BY DEF IndInv, EventsAreOfDeclared
          <5>2. DOMAIN jails = 1..Len(jails)
            BY <1>7 DEF TypeOK
          <5> QED
            BY <5>1, <5>2, <1>8
        <4> QED
          BY <3>1, <4>1, <1>8 DEF JailedIn
      <3>2. CASE p \in DOMAIN joined
        <4>1. /\ JailedIn(jails, Len(jails), joined[p].key) <=> joined[p].active /\ joined[p].jailed
              /\ p \in CreatedIn(msgs) => ~joined[p].active /\ ~joined[p].jailed
              /\ UnjailedIn(msgs, Len(msgs), p) => ~joined[p].active /\ ~joined[p].jailed
          BY <1>3, <3>2 DEF IndInv, StatusesWillAgree
        <4>2. p \in Operators /\ p # o /\ joined'[p] = joined[p]
          BY <3>2, <1>7, <1>8
        <4> QED
          BY <4>1, <4>2, <1>4, <1>5
      <3> QED
        BY <3>1, <3>2, <1>8
    <2>2. ASSUME NEW i \in DOMAIN rows, IsCurrent(rows, i)
          PROVE  IF OfValidator(rows[i])'
                 THEN LET v == joined'[rows[i].operator]
                      IN  rows[i].operator \notin CreatedIn(msgs)' =>
                             /\ rows[i].status = "Bonded" <=> v.active
                             /\ v.active => ~rows[i].jailed
                             /\ ~v.active /\ ~UnjailedIn(msgs', Len(msgs'), rows[i].operator) =>
                                   /\ rows[i].jailed = v.jailed
                                   /\ v.jailed => rows[i].status \in {"Jailed", "Unbonding"}
                 ELSE rows[i].status # "Bonded"
      <3>1. CASE rows[i].operator = o
        <4>1. ~OfValidator(rows[i])
          BY <3>1, <1>1 DEF OfValidator
        <4>2. rows[i].status # "Bonded"
          BY <2>2, <4>1, <1>3 DEF IndInv, StatusesWillAgree
        <4>3. o \in CreatedIn(msgs)'
          BY <1>5
        <4> QED
          BY <3>1, <4>2, <4>3
      <3>2. CASE rows[i].operator # o
        <4> DEFINE p == rows[i].operator
        <4>1. IF OfValidator(rows[i])
              THEN p \notin CreatedIn(msgs) =>
                      /\ rows[i].status = "Bonded" <=> joined[p].active
                      /\ joined[p].active => ~rows[i].jailed
                      /\ ~joined[p].active /\ ~UnjailedIn(msgs, Len(msgs), p) =>
                            /\ rows[i].jailed = joined[p].jailed
                            /\ joined[p].jailed => rows[i].status \in {"Jailed", "Unbonding"}
              ELSE rows[i].status # "Bonded"
          BY <2>2, <1>3 DEF IndInv, StatusesWillAgree
        <4>2. OfValidator(rows[i])' <=> OfValidator(rows[i])
          BY <1>3, <1>8, <3>2 DEF OfValidator
        <4>3. OfValidator(rows[i]) => joined'[p] = joined[p]
          BY <1>8 DEF OfValidator
        <4>4. p \in Operators
          BY <1>7, RowsOfSeq DEF TypeOK, RowType
        <4>5. p \in CreatedIn(msgs)' <=> p \in CreatedIn(msgs)
          BY <1>5, <3>2, <4>4
        <4>6. UnjailedIn(msgs', Len(msgs'), p) <=> UnjailedIn(msgs, Len(msgs), p)
          BY <1>4
        <4> HIDE DEF p
        <4> QED
          BY <4>1, <4>2, <4>3, <4>5, <4>6 DEF p
      <3> QED
        BY <3>1, <3>2
    <2>3. \A i \in DOMAIN rows : IsCurrent(rows, i)' <=> IsCurrent(rows, i)
      BY <1>3 DEF IsCurrent
    <2> QED
      BY <1>3, <2>1, <2>2, <2>3 DEF StatusesWillAgree
  <1>16. PerfectHaveSigned'
    <2>1. \A p \in perfect : p \in DOMAIN joined /\ joined[p].active /\ p \notin CreatedIn(msgs)
      BY <1>3 DEF IndInv, PerfectHaveSigned
    <2>2. ASSUME NEW p \in perfect PROVE \E i \in DOMAIN rows : IsPerfect(rows, i, p, height - 1)'
      <3>1. PICK i \in DOMAIN rows : IsPerfect(rows, i, p, height - 1)
        BY <1>3 DEF IndInv, PerfectHaveSigned
      <3>2. IsPerfect(rows, i, p, height - 1)'
        BY <3>1, <1>3, <1>8, <2>1 DEF IsPerfect, IsCurrent
      <3> QED
        BY <3>2
    <2>3. \A p \in perfect : p \in DOMAIN joined' /\ joined'[p].active /\ p \notin CreatedIn(msgs)'
      BY <1>5, <1>7, <1>8, <2>1
    <2> QED
      BY <1>3, <2>2, <2>3 DEF PerfectHaveSigned
  <1>17. VotesAreCast'
    <2>1. \A p \in DOMAIN joined, i \in DOMAIN rows :
              p \notin CreatedIn(msgs) /\ rows[i].key = joined[p].key => rows[i].voted <= votes[p]
      BY <1>3 DEF IndInv, VotesAreCast
    <2>2. o \in CreatedIn(msgs)'
      BY <1>5
    <2>3. \A p \in DOMAIN joined', i \in DOMAIN rows :
              p \notin CreatedIn(msgs)' /\ rows[i].key = joined'[p].key => rows[i].voted <= votes[p]
      BY <1>5, <1>7, <1>8, <2>1, <2>2
    <2> QED
      BY <1>3, <2>3 DEF VotesAreCast
  <1> QED
    BY <1>9, <1>10, <1>11, <1>12, <1>13, <1>14, <1>15, <1>16, <1>17 DEF IndInv

-----------------------------------------------------------------------------
(* The end of a block *)

LEMMA ConcatIs ==
    ASSUME NEW S, NEW s \in Seq(S), NEW t \in Seq(S)
    PROVE  /\ s \o t \in Seq(S) /\ Len(s \o t) = Len(s) + Len(t)
           /\ \A i \in 1..(Len(s) + Len(t)) :
                 (s \o t)[i] = IF i <= Len(s) THEN s[i] ELSE t[i - Len(s)]
  OBVIOUS

\* The validators that enter or leave the set.
Moved(set) == (set \ Active) \cup (Active \ set)

PowerOf(o, set) == [type |-> "PowerChanged", key |-> joined[o].key, zero |-> o \notin set]

\* What the events handed to the projection at the end of a block say.
BlockEvents(E, set) ==
    /\ E \in Seq(Events)
    /\ \A m \in DOMAIN E :
          \/ E[m] = [type |-> "BlockCreated", signers |-> signers]
          \/ m - 1 \in DOMAIN msgs /\ E[m] = msgs[m - 1]
          \/ \E l \in DOMAIN jails : E[m] = jails[l]
          \/ \E o \in Moved(set) : E[m] = PowerOf(o, set)
    /\ \A l \in DOMAIN msgs : l + 1 \in DOMAIN E /\ E[l + 1] = msgs[l]
    /\ \A l \in DOMAIN jails : \E m \in DOMAIN E : E[m] = jails[l]
    /\ \A o \in Moved(set) : \E m \in DOMAIN E : E[m] = PowerOf(o, set)
    /\ PowersComeLast(E)

LEMMA BlockEventsAre ==
    ASSUME IndInv, NEW set, set \subseteq DOMAIN joined, NEW E,
           E = <<[type |-> "BlockCreated", signers |-> signers]>>
                   \o msgs \o jails \o PowerChanges(set)
    PROVE  BlockEvents(E, set)
  <1> DEFINE q == SetToSeq(Moved(set))
             P == PowerChanges(set)
             B == <<[type |-> "BlockCreated", signers |-> signers]>>
             a == Len(msgs)
             b == Len(jails)
             c == Len(q)
  <1>1. /\ TypeOK /\ DOMAIN joined \subseteq Operators /\ Active \subseteq DOMAIN joined
        /\ \A o \in DOMAIN joined : joined[o] \in Validators
    BY DEF IndInv, TypeOK, Active
  <1>2. Moved(set) \subseteq DOMAIN joined
    BY <1>1 DEF Moved
  <1>3. IsFiniteSet(Moved(set))
    BY <1>1, <1>2, OperatorsFinite
  <1>4. /\ q \in Seq(Moved(set))
        /\ \A i, j \in DOMAIN q : q[i] = q[j] => i = j
        /\ \A x \in Moved(set) : \E i \in DOMAIN q : q[i] = x
    BY <1>3, SetToSeqIs
  <1>5. P = [i \in DOMAIN q |-> [type |-> "PowerChanged", key |-> joined[q[i]].key,
                                  zero |-> q[i] \notin set]]
    BY DEF PowerChanges, Moved
  <1> HIDE DEF q, P
  <1>6. c \in Nat /\ DOMAIN q = 1..c /\ \A i \in 1..c : q[i] \in Moved(set)
    BY <1>4
  <1>7. \A i \in 1..c : P[i] = PowerOf(q[i], set) /\ PowerOf(q[i], set) \in Events
    <2>1. \A i \in 1..c : joined[q[i]].key \in Keys
      BY <1>1, <1>2, <1>6 DEF Validators
    <2> QED
      BY <1>5, <1>6, <2>1 DEF PowerOf, Events
  <1>8. P \in Seq(Events) /\ Len(P) = c
    <2>1. P = [i \in 1..c |-> P[i]]
      BY <1>5, <1>6
    <2>2. P \in [1..c -> Events]
      BY <1>7, <2>1
    <2> QED
      BY <1>6, <2>2, IsASeqOfLen
  <1>9. /\ msgs \in Seq(Events) /\ jails \in Seq(Events) /\ a \in Nat /\ b \in Nat
        /\ DOMAIN msgs = 1..a /\ DOMAIN jails = 1..b
    <2>1. Messages \subseteq Events /\ Slashings \subseteq Events
      BY DEF Events
    <2> QED
      BY <1>1, <2>1 DEF TypeOK
  <1>10. B \in Seq(Events) /\ Len(B) = 1 /\ B[1] = [type |-> "BlockCreated", signers |-> signers]
    <2>1. signers \subseteq Keys
      BY <1>1 DEF TypeOK
    <2>2. [type |-> "BlockCreated", signers |-> signers] \in Events
      BY <2>1 DEF Events
    <2> QED
      BY <2>2
  <1>11. E = ((B \o msgs) \o jails) \o P
    BY DEF P
  <1> HIDE DEF B, a, b, c
  <1>12. /\ B \o msgs \in Seq(Events) /\ Len(B \o msgs) = 1 + a
         /\ \A i \in 1..(1 + a) : (B \o msgs)[i] = IF i <= 1 THEN B[i] ELSE msgs[i - 1]
    <2>1. B \in Seq(Events) /\ msgs \in Seq(Events)
      BY <1>9, <1>10
    <2>2. /\ B \o msgs \in Seq(Events) /\ Len(B \o msgs) = Len(B) + Len(msgs)
          /\ \A i \in 1..(Len(B) + Len(msgs)) :
                (B \o msgs)[i] = IF i <= Len(B) THEN B[i] ELSE msgs[i - Len(B)]
      BY <2>1, ConcatIs
    <2>3. Len(B) = 1 /\ Len(msgs) = a
      BY <1>10 DEF a
    <2> QED
      BY <2>2, <2>3
  <1> DEFINE C == B \o msgs
             D == C \o jails
  <1> HIDE DEF C
  <1>13. /\ D \in Seq(Events) /\ Len(D) = 1 + a + b
         /\ \A i \in 1..(1 + a + b) : D[i] = IF i <= 1 + a THEN C[i] ELSE jails[i - (1 + a)]
    <2>1. C \in Seq(Events) /\ Len(C) = 1 + a
      BY <1>12 DEF C
    <2>2. jails \in Seq(Events) /\ Len(jails) = b
      BY <1>9 DEF b
    <2>3. /\ C \o jails \in Seq(Events) /\ Len(C \o jails) = Len(C) + Len(jails)
          /\ \A i \in 1..(Len(C) + Len(jails)) :
                (C \o jails)[i] = IF i <= Len(C) THEN C[i] ELSE jails[i - Len(C)]
      BY <2>1, <2>2, ConcatIs
    <2> QED
      BY <2>1, <2>2, <2>3
  <1> HIDE DEF D
  <1>14. /\ E \in Seq(Events) /\ Len(E) = 1 + a + b + c
         /\ \A i \in 1..(1 + a + b + c) : E[i] = IF i <= 1 + a + b THEN D[i] ELSE P[i - (1 + a + b)]
    <2>1. E = D \o P
      BY <1>11 DEF D, C
    <2>2. /\ D \o P \in Seq(Events) /\ Len(D \o P) = Len(D) + Len(P)
          /\ \A i \in 1..(Len(D) + Len(P)) :
                (D \o P)[i] = IF i <= Len(D) THEN D[i] ELSE P[i - Len(D)]
      BY <1>8, <1>13, ConcatIs
    <2> QED
      BY <1>8, <1>13, <2>1, <2>2
  <1>15. DOMAIN E = 1..(1 + a + b + c)
    BY <1>14
  <1>16. /\ E[1] = [type |-> "BlockCreated", signers |-> signers]
         /\ \A l \in 1..a : E[l + 1] = msgs[l]
         /\ \A l \in 1..b : E[l + 1 + a] = jails[l]
         /\ \A l \in 1..c : E[l + 1 + a + b] = PowerOf(q[l], set)
    <2>1. E[1] = [type |-> "BlockCreated", signers |-> signers]
      <3>1. 1 \in 1..(1 + a) /\ 1 \in 1..(1 + a + b) /\ 1 \in 1..(1 + a + b + c)
        BY <1>6, <1>9
      <3> QED
        BY <3>1, <1>10, <1>12, <1>13, <1>14 DEF C
    <2>2. ASSUME NEW l \in 1..a PROVE E[l + 1] = msgs[l]
      <3>1. /\ l + 1 \in 1..(1 + a) /\ l + 1 \in 1..(1 + a + b) /\ l + 1 \in 1..(1 + a + b + c)
            /\ l + 1 - 1 = l /\ ~(l + 1 <= 1) /\ l + 1 <= 1 + a /\ l + 1 <= 1 + a + b
        BY <1>6, <1>9
      <3>2. E[l + 1] = D[l + 1]
        BY <3>1, <1>14
      <3>3. D[l + 1] = C[l + 1]
        BY <3>1, <1>13
      <3>4. C[l + 1] = msgs[l + 1 - 1]
        BY <3>1, <1>12 DEF C
      <3> QED
        BY <3>1, <3>2, <3>3, <3>4
    <2>3. ASSUME NEW l \in 1..b PROVE E[l + 1 + a] = jails[l]
      <3>1. /\ l + 1 + a \in 1..(1 + a + b) /\ l + 1 + a \in 1..(1 + a + b + c)
            /\ (l + 1 + a) - (1 + a) = l /\ ~(l + 1 + a <= 1 + a) /\ l + 1 + a <= 1 + a + b
        BY <1>6, <1>9
      <3> QED
        BY <3>1, <1>13, <1>14
    <2>4. ASSUME NEW l \in 1..c PROVE E[l + 1 + a + b] = PowerOf(q[l], set)
      <3>1. /\ l + 1 + a + b \in 1..(1 + a + b + c)
            /\ (l + 1 + a + b) - (1 + a + b) = l /\ ~(l + 1 + a + b <= 1 + a + b)
        BY <1>6, <1>9
      <3> QED
        BY <3>1, <1>7, <1>14
    <2> QED
      BY <2>1, <2>2, <2>3, <2>4
  <1>17. ASSUME NEW m \in DOMAIN E
         PROVE  \/ m = 1
                \/ m - 1 \in 1..a /\ E[m] = msgs[m - 1]
                \/ m - 1 - a \in 1..b /\ E[m] = jails[m - 1 - a]
                \/ m - 1 - a - b \in 1..c /\ E[m] = PowerOf(q[m - 1 - a - b], set)
    <2>1. m = 1 \/ m - 1 \in 1..a \/ m - 1 - a \in 1..b \/ m - 1 - a - b \in 1..c
      BY <1>6, <1>9, <1>15
    <2>2. m = (m - 1) + 1 /\ m = (m - 1 - a) + 1 + a /\ m = (m - 1 - a - b) + 1 + a + b
      BY <1>9, <1>15
    <2> QED
      BY <2>1, <2>2, <1>16
  <1>18. ASSUME NEW m \in DOMAIN E
         PROVE  \/ E[m] = [type |-> "BlockCreated", signers |-> signers]
                \/ m - 1 \in DOMAIN msgs /\ E[m] = msgs[m - 1]
                \/ \E l \in DOMAIN jails : E[m] = jails[l]
                \/ \E o \in Moved(set) : E[m] = PowerOf(o, set)
    BY <1>6, <1>9, <1>16, <1>17
  <1>19. \A l \in DOMAIN msgs : l + 1 \in DOMAIN E /\ E[l + 1] = msgs[l]
    BY <1>6, <1>9, <1>15, <1>16
  <1>20. \A l \in DOMAIN jails : \E m \in DOMAIN E : E[m] = jails[l]
    <2>1. \A l \in 1..b : l + 1 + a \in DOMAIN E
      BY <1>6, <1>9, <1>15
    <2> QED
      BY <2>1, <1>9, <1>16
  <1>21. \A o \in Moved(set) : \E m \in DOMAIN E : E[m] = PowerOf(o, set)
    <2>1. \A l \in 1..c : l + 1 + a + b \in DOMAIN E
      BY <1>6, <1>9, <1>15
    <2> TAKE o \in Moved(set)
    <2>2. PICK i \in 1..c : q[i] = o
      BY <1>4, <1>6
    <2>3. E[i + 1 + a + b] = PowerOf(o, set)
      BY <2>2, <1>16
    <2> QED
      BY <2>1, <2>3
  <1>22. \A m \in DOMAIN E : E[m].type = "PowerChanged" <=> m - 1 - a - b \in 1..c
    <2> TAKE m \in DOMAIN E
    <2>1. ASSUME m = 1 PROVE E[m].type # "PowerChanged" /\ m - 1 - a - b \notin 1..c
      BY <2>1, <1>6, <1>9, <1>16
    <2>2. ASSUME m - 1 \in 1..a, E[m] = msgs[m - 1]
          PROVE  E[m].type # "PowerChanged" /\ m - 1 - a - b \notin 1..c
      <3>1. msgs[m - 1] \in Messages
        BY <1>1, <1>9, <2>2 DEF TypeOK
      <3>2. msgs[m - 1].type # "PowerChanged"
        BY <3>1 DEF Messages
      <3> QED
        BY <2>2, <3>2, <1>6, <1>9
    <2>3. ASSUME m - 1 - a \in 1..b, E[m] = jails[m - 1 - a]
          PROVE  E[m].type # "PowerChanged" /\ m - 1 - a - b \notin 1..c
      <3>1. jails[m - 1 - a] \in Slashings
        BY <1>1, <1>9, <2>3 DEF TypeOK
      <3>2. jails[m - 1 - a].type # "PowerChanged"
        BY <3>1 DEF Slashings
      <3> QED
        BY <2>3, <3>2, <1>6, <1>9
    <2>4. ASSUME m - 1 - a - b \in 1..c, E[m] = PowerOf(q[m - 1 - a - b], set)
          PROVE  E[m].type = "PowerChanged"
      BY <2>4 DEF PowerOf
    <2> QED
      BY <2>1, <2>2, <2>3, <2>4, <1>17
  <1>23. PowersComeLast(E)
    <2> SUFFICES ASSUME NEW l \in DOMAIN E, NEW m \in DOMAIN E, E[l].type = "PowerChanged"
                 PROVE  /\ l < m => E[m].type = "PowerChanged"
                        /\ E[m].type = "PowerChanged" /\ E[m].key = E[l].key => l = m
      BY DEF PowersComeLast
    <2>0. l \in 1..(1 + a + b + c) /\ m \in 1..(1 + a + b + c)
      BY <1>15
    <2>1. l - 1 - a - b \in 1..c
      BY <1>22
    <2>2. l < m => E[m].type = "PowerChanged"
      <3>1. l < m => m - 1 - a - b \in 1..c
        BY <2>0, <2>1, <1>6, <1>9
      <3> QED
        BY <3>1, <1>22
    <2>3. ASSUME E[m].type = "PowerChanged", E[m].key = E[l].key PROVE l = m
      <3>1. m - 1 - a - b \in 1..c
        BY <1>22, <2>3
      <3> DEFINE x == q[l - 1 - a - b]
                 y == q[m - 1 - a - b]
      <3>2. E[l] = PowerOf(x, set) /\ E[m] = PowerOf(y, set)
        <4>1. l \in Nat /\ m \in Nat
          BY <2>0, <1>6, <1>9
        <4>2. l = (l - 1 - a - b) + 1 + a + b
          BY <4>1, <1>9
        <4>3. m = (m - 1 - a - b) + 1 + a + b
          BY <4>1, <1>9
        <4> QED
          BY <4>2, <4>3, <3>1, <2>1, <1>16
      <3>3. x \in DOMAIN joined /\ y \in DOMAIN joined
        BY <3>1, <2>1, <1>2, <1>6
      <3>4. x = y
        <4> HIDE DEF x, y
        <4>1. joined[x].key = joined[y].key
          <5>1. PowerOf(x, set).key = joined[x].key /\ PowerOf(y, set).key = joined[y].key
            BY DEF PowerOf
          <5>2. PowerOf(x, set).key = PowerOf(y, set).key
            BY <3>2, <2>3
          <5> QED
            BY <5>1, <5>2
        <4> QED
          BY <4>1, <3>3 DEF IndInv, KeysHaveOneOwner
      <3>5. l - 1 - a - b = m - 1 - a - b
        BY <3>1, <3>4, <2>1, <1>4, <1>6
      <3> QED
        BY <3>5, <2>0, <1>9
    <2> QED
      BY <2>2, <2>3
  <1> QED
    BY <1>14, <1>18, <1>19, <1>20, <1>21, <1>23 DEF BlockEvents

\* What the events of the block tell, in terms of the block's messages and slashings.
LEMMA BlockTells ==
    ASSUME IndInv, phase = "txs", NEW set, set \subseteq DOMAIN joined, NEW E, BlockEvents(E, set)
    PROVE  /\ CreateValidators(E)
           /\ \A o, k : IsCreatedIn(E, o, k) <=> IsCreatedIn(msgs, o, k)
           /\ \A m \in DOMAIN E : IsCreate(E[m]) =>
                 /\ E[m].type = "MsgCreateValidator" /\ E[m].jailed = FALSE
                 /\ E[m].operator \in CreatedIn(msgs)
           /\ \A o \in CreatedIn(msgs) : \E m \in DOMAIN E : IsCreate(E[m]) /\ E[m].operator = o
           /\ \A k : JailedIn(E, Len(E), k) <=> JailedIn(jails, Len(jails), k)
           /\ \A o : UnjailedIn(E, Len(E), o) <=> UnjailedIn(msgs, Len(msgs), o)
           /\ \A k, z : PowerIn(E, Len(E), k, z) <=>
                 \E o \in Moved(set) : joined[o].key = k /\ z = (o \notin set)
           /\ \A o : VotesOf(E, o) = VotesOf(msgs, o) /\ VotesOf(msgs, o) \in Nat
           /\ \A m \in DOMAIN E : E[m].type = "BlockCreated" => E[m].signers = signers
  <1>1. /\ TypeOK /\ DOMAIN joined \subseteq Operators
        /\ msgs \in Seq(Messages) /\ jails \in Seq(Slashings)
    BY DEF IndInv, TypeOK
  <1>2. /\ Len(msgs) \in Nat /\ DOMAIN msgs = 1..Len(msgs) /\ DOMAIN jails = 1..Len(jails)
        /\ \A l \in DOMAIN msgs : msgs[l] \in Messages
        /\ \A l \in DOMAIN jails : jails[l] \in Slashings
    BY <1>1
  <1>3. E \in Seq(Events) /\ DOMAIN E = 1..Len(E) /\ Len(E) \in Nat
    BY DEF BlockEvents
  <1>4. \A l \in DOMAIN msgs :
            /\ msgs[l].type \notin {"BlockCreated", "ValidatorJailed", "PowerChanged"}
            /\ IsCreate(msgs[l]) => msgs[l].type = "MsgCreateValidator" /\ msgs[l].jailed = FALSE
                                    /\ msgs[l].operator \in Operators
    BY <1>2 DEF Messages, IsCreate
  <1>5. \A l \in DOMAIN jails : jails[l].type \in {"ValidatorSlashed", "ValidatorJailed"}
    BY <1>2 DEF Slashings
  <1>6. \A o : PowerOf(o, set).type = "PowerChanged" /\ PowerOf(o, set).key = joined[o].key
               /\ PowerOf(o, set).zero = (o \notin set)
    BY DEF PowerOf
  <1>7. ASSUME NEW m \in DOMAIN E
        PROVE  \/ E[m].type = "BlockCreated" /\ E[m].signers = signers
               \/ /\ m - 1 \in DOMAIN msgs /\ E[m] = msgs[m - 1]
                  /\ E[m].type \notin {"BlockCreated", "ValidatorJailed", "PowerChanged"}
               \/ \E l \in DOMAIN jails :
                      E[m] = jails[l] /\ E[m].type \in {"ValidatorSlashed", "ValidatorJailed"}
               \/ \E o \in Moved(set) : E[m] = PowerOf(o, set) /\ E[m].type = "PowerChanged"
    <2>1. CASE E[m] = [type |-> "BlockCreated", signers |-> signers]
      BY <2>1
    <2>2. CASE m - 1 \in DOMAIN msgs /\ E[m] = msgs[m - 1]
      BY <2>2, <1>4
    <2>3. CASE \E l \in DOMAIN jails : E[m] = jails[l]
      BY <2>3, <1>5
    <2>4. CASE \E o \in Moved(set) : E[m] = PowerOf(o, set)
      BY <2>4, <1>6
    <2> QED
      BY <2>1, <2>2, <2>3, <2>4 DEF BlockEvents
  <1>8. \A l \in DOMAIN msgs : l + 1 \in DOMAIN E /\ E[l + 1] = msgs[l]
    BY DEF BlockEvents
  <1>9. \A m \in DOMAIN E : IsCreate(E[m]) => m - 1 \in DOMAIN msgs /\ E[m] = msgs[m - 1]
    BY <1>7 DEF IsCreate
  <1>10. CreateValidators(msgs)
    <2>1. Happened = msgs
      BY DEF Happened
    <2> QED
      BY <2>1 DEF IndInv, CreationsAreOfValidators
  <1>11. CreateValidators(E)
    <2>1. ASSUME NEW m \in DOMAIN E, IsCreate(E[m]), NEW l \in DOMAIN E, IsCreate(E[l]),
                 E[l].operator = E[m].operator
          PROVE  l = m
      <3>1. /\ m - 1 \in DOMAIN msgs /\ l - 1 \in DOMAIN msgs
            /\ E[m] = msgs[m - 1] /\ E[l] = msgs[l - 1]
        BY <2>1, <1>9
      <3>2. l - 1 = m - 1
        BY <2>1, <3>1, <1>10 DEF CreateValidators
      <3> QED
        BY <3>2, <1>3
    <2> QED
      BY <2>1, <1>9, <1>10 DEF CreateValidators
  <1>12. \A o, k : IsCreatedIn(E, o, k) <=> IsCreatedIn(msgs, o, k)
    BY <1>8, <1>9 DEF IsCreatedIn
  <1>13. \A m \in DOMAIN E : IsCreate(E[m]) =>
                 /\ E[m].type = "MsgCreateValidator" /\ E[m].jailed = FALSE
                 /\ E[m].operator \in CreatedIn(msgs)
    BY <1>4, <1>9 DEF CreatedIn
  <1>14. \A o \in CreatedIn(msgs) : \E m \in DOMAIN E : IsCreate(E[m]) /\ E[m].operator = o
    BY <1>8 DEF CreatedIn
  <1>15. \A k : JailedIn(E, Len(E), k) <=> JailedIn(jails, Len(jails), k)
    <2>1. \A l \in DOMAIN jails : \E m \in DOMAIN E : E[m] = jails[l]
      BY DEF BlockEvents
    <2>2. \A m \in DOMAIN E :
              E[m].type = "ValidatorJailed" => \E l \in DOMAIN jails : E[m] = jails[l]
      BY <1>7
    <2> TAKE k
    <2>3. ASSUME JailedIn(E, Len(E), k) PROVE JailedIn(jails, Len(jails), k)
      <3>1. PICK m \in DOMAIN E : E[m].type = "ValidatorJailed" /\ E[m].key = k
        BY <2>3, <1>3 DEF JailedIn
      <3>2. PICK l \in DOMAIN jails : E[m] = jails[l]
        BY <2>2, <3>1
      <3> QED
        BY <3>1, <3>2, <1>2 DEF JailedIn
    <2>4. ASSUME JailedIn(jails, Len(jails), k) PROVE JailedIn(E, Len(E), k)
      <3>1. PICK l \in DOMAIN jails : jails[l].type = "ValidatorJailed" /\ jails[l].key = k
        BY <2>4, <1>2 DEF JailedIn
      <3>2. PICK m \in DOMAIN E : E[m] = jails[l]
        BY <2>1
      <3> QED
        BY <3>1, <3>2, <1>3 DEF JailedIn
    <2> QED
      BY <2>3, <2>4
  <1>16. \A o : UnjailedIn(E, Len(E), o) <=> UnjailedIn(msgs, Len(msgs), o)
    <2>1. \A m \in DOMAIN E : E[m].type = "MsgUnjail" => m - 1 \in DOMAIN msgs /\ E[m] = msgs[m - 1]
      BY <1>7
    <2> TAKE o
    <2>2. ASSUME UnjailedIn(E, Len(E), o) PROVE UnjailedIn(msgs, Len(msgs), o)
      <3>1. PICK m \in DOMAIN E : E[m].type = "MsgUnjail" /\ E[m].operator = o
        BY <2>2, <1>3 DEF UnjailedIn
      <3>2. m - 1 \in DOMAIN msgs /\ E[m] = msgs[m - 1]
        BY <2>1, <3>1
      <3> QED
        BY <3>1, <3>2, <1>2 DEF UnjailedIn
    <2>3. ASSUME UnjailedIn(msgs, Len(msgs), o) PROVE UnjailedIn(E, Len(E), o)
      <3>1. PICK l \in DOMAIN msgs : msgs[l].type = "MsgUnjail" /\ msgs[l].operator = o
        BY <2>3, <1>2 DEF UnjailedIn
      <3>2. l + 1 \in DOMAIN E /\ E[l + 1] = msgs[l]
        BY <1>8
      <3> QED
        BY <3>1, <3>2, <1>3 DEF UnjailedIn
    <2> QED
      BY <2>2, <2>3
  <1>17. \A k, z : PowerIn(E, Len(E), k, z) <=>
                 \E o \in Moved(set) : joined[o].key = k /\ z = (o \notin set)
    <2> TAKE k, z
    <2>1. ASSUME NEW o \in Moved(set), joined[o].key = k, z = (o \notin set)
          PROVE  PowerIn(E, Len(E), k, z)
      <3>1. PICK m \in DOMAIN E : E[m] = PowerOf(o, set)
        BY DEF BlockEvents
      <3> QED
        BY <2>1, <3>1, <1>3, <1>6 DEF PowerIn
    <2>2. ASSUME PowerIn(E, Len(E), k, z)
          PROVE  \E o \in Moved(set) : joined[o].key = k /\ z = (o \notin set)
      <3>1. PICK m \in DOMAIN E : E[m].type = "PowerChanged" /\ E[m].key = k /\ E[m].zero = z
        BY <2>2, <1>3 DEF PowerIn
      <3>2. PICK o \in Moved(set) : E[m] = PowerOf(o, set)
        BY <3>1, <1>7
      <3> QED
        BY <3>1, <3>2, <1>6
    <2> QED
      BY <2>1, <2>2
  <1>18. \A o : VotesOf(E, o) = VotesOf(msgs, o) /\ VotesOf(msgs, o) \in Nat
    <2> TAKE o
    <2> DEFINE A == {i \in DOMAIN msgs : msgs[i].type = "MsgVote" /\ msgs[i].voter = o}
               B == {i \in DOMAIN E : E[i].type = "MsgVote" /\ E[i].voter = o}
               f == [i \in A |-> i + 1]
    <2>1. IsFiniteSet(A) /\ Cardinality(A) \in Nat
      <3>1. IsFiniteSet(DOMAIN msgs) /\ A \subseteq DOMAIN msgs
        BY <1>2, FS_Interval
      <3> HIDE DEF A
      <3> QED
        BY <3>1, FS_Subset, FS_CardinalityType
    <2>2. \A i \in A : i \in Nat /\ f[i] = i + 1 /\ i + 1 \in B
      BY <1>2, <1>8
    <2>3. \A m \in B : m \in Nat /\ m - 1 \in A /\ f[m - 1] = m
      <3>1. ASSUME NEW m \in B PROVE m \in Nat /\ m - 1 \in A
        BY <1>3, <1>7
      <3>2. \A m \in Nat : m - 1 + 1 = m
        OBVIOUS
      <3> QED
        BY <3>1, <3>2
    <2>4. f = [i \in A |-> f[i]] /\ DOMAIN f = A
      OBVIOUS
    <2> HIDE DEF A, B, f
    <2>5. f \in [A -> B]
      BY <2>2, <2>4
    <2>6. \A i, j \in A : f[i] = f[j] => i = j
      BY <2>2
    <2>7. \A m \in B : \E i \in A : f[i] = m
      BY <2>3
    <2>8. f \in Bijection(A, B)
      BY <2>4, <2>5, <2>6, <2>7 DEF Bijection, Injection, Surjection, IsInjective
    <2>9. Cardinality(B) = Cardinality(A)
      BY <2>1, <2>8, FS_Bijection DEF ExistsBijection
    <2> QED
      BY <2>1, <2>9 DEF VotesOf, A, B
  <1>19. \A m \in DOMAIN E : E[m].type = "BlockCreated" => E[m].signers = signers
    BY <1>7
  <1> QED
    BY <1>11, <1>12, <1>13, <1>14, <1>15, <1>16, <1>17, <1>18, <1>19

\* What the block's events make of the newest rows agrees with the new set.
LEMMA StatusesTold ==
    ASSUME IndInv, phase = "txs", NEW set, set \subseteq {o \in DOMAIN joined : ~joined[o].jailed},
           NEW E, BlockEvents(E, set), NEW R, KnownRows(E, R),
           NEW i \in DOMAIN R, IsCurrent(R, i)
    PROVE  LET row == R[i]
               status == StatusAfter(row, E, Len(E))
               jailed == JailedAfter(row, E, Len(E))
           IN  /\ ~(JailedIn(E, Len(E), row.key) /\ UnjailedIn(E, Len(E), row.operator))
               /\ OfValidator(row) =>
                     /\ status = "Bonded" <=> row.operator \in set
                     /\ jailed = joined[row.operator].jailed
                     /\ joined[row.operator].jailed => status \in {"Jailed", "Unbonding"}
               /\ ~OfValidator(row) => status # "Bonded"
  <1> DEFINE row == R[i]
             o == row.operator
             k == row.key
             J == JailedIn(E, Len(E), k)
             U == UnjailedIn(E, Len(E), o)
             P(z) == PowerIn(E, Len(E), k, z)
  <1>1. TypeOK /\ set \subseteq DOMAIN joined /\ \A p \in DOMAIN joined : joined[p] \in Validators
    BY DEF IndInv, TypeOK
  <1>2. /\ \A m \in DOMAIN E : IsCreate(E[m]) =>
                 /\ E[m].type = "MsgCreateValidator" /\ E[m].jailed = FALSE
                 /\ E[m].operator \in CreatedIn(msgs)
        /\ \A p \in CreatedIn(msgs) : \E m \in DOMAIN E : IsCreate(E[m]) /\ E[m].operator = p
        /\ J <=> JailedIn(jails, Len(jails), k)
        /\ U <=> UnjailedIn(msgs, Len(msgs), o)
        /\ \A z : P(z) <=> \E p \in Moved(set) : joined[p].key = k /\ z = (p \notin set)
        /\ CreateValidators(E)
    <2>1. set \subseteq DOMAIN joined
      BY <1>1
    <2>2. CreateValidators(E)
      BY <2>1, BlockTells
    <2>5. \A m \in DOMAIN E : IsCreate(E[m]) =>
             /\ E[m].type = "MsgCreateValidator" /\ E[m].jailed = FALSE
             /\ E[m].operator \in CreatedIn(msgs)
      BY <2>1, BlockTells
    <2>6. \A p \in CreatedIn(msgs) : \E m \in DOMAIN E : IsCreate(E[m]) /\ E[m].operator = p
      <3>1. \A l \in DOMAIN msgs : l + 1 \in DOMAIN E /\ E[l + 1] = msgs[l]
        BY DEF BlockEvents
      <3> QED
        BY <3>1 DEF CreatedIn
    <2>3. /\ \A x : JailedIn(E, Len(E), x) <=> JailedIn(jails, Len(jails), x)
          /\ \A p : UnjailedIn(E, Len(E), p) <=> UnjailedIn(msgs, Len(msgs), p)
      BY <2>1, BlockTells
    <2>4. \A x, z : PowerIn(E, Len(E), x, z) <=>
                 \E p \in Moved(set) : joined[p].key = x /\ z = (p \notin set)
      BY <2>1, BlockTells
    <2> HIDE DEF k, o
    <2> QED
      BY <2>2, <2>3, <2>4, <2>5, <2>6
  <1> HIDE DEF J, U, P
  <1>3. ASSUME NEW p \in DOMAIN joined, joined[p].key = k PROVE p = o /\ OfValidator(row)
    BY <1>3 DEF KnownRows, OfValidator
  <1>4. J => OfValidator(row)
    <2>1. \A m \in DOMAIN jails : \E p \in DOMAIN joined : joined[p].key = jails[m].key
      BY DEF IndInv, EventsAreOfDeclared
    <2>2. DOMAIN jails = 1..Len(jails)
      BY <1>1 DEF TypeOK
    <2> QED
      BY <2>1, <2>2, <1>2, <1>3 DEF JailedIn
  <1>5. \A z : P(z) => OfValidator(row)
    <2>1. Moved(set) \subseteq DOMAIN joined
      BY <1>1 DEF Moved, Active
    <2> QED
      BY <2>1, <1>2, <1>3
  <1>6. CASE ~OfValidator(row)
    <2>1. i \in DOMAIN rows /\ row = rows[i]
      BY <1>6 DEF KnownRows
    <2>2. IsCurrent(rows, i)
      BY <2>1, <1>1, CurrentWas
    <2>3. row.status # "Bonded"
      BY <2>1, <2>2, <1>6 DEF IndInv, StatusesWillAgree
    <2>4. ~J /\ \A z : ~P(z)
      BY <1>4, <1>5, <1>6
    <2>5. StatusAfter(row, E, Len(E)) # "Bonded"
      BY <2>3, <2>4 DEF StatusAfter, J, P, k
    <2> QED
      BY <1>6, <2>4, <2>5 DEF J, k
  <1>7. CASE OfValidator(row)
    <2> DEFINE v == joined[o]
    <2>1. o \in DOMAIN joined /\ v.key = k /\ v.jailed \in BOOLEAN /\ v.active \in BOOLEAN
      BY <1>1, <1>7 DEF OfValidator, Validators
    <2>2. o \in Active <=> v.active
      BY <2>1 DEF Active
    <2>3. \A z : P(z) <=> o \in Moved(set) /\ z = (o \notin set)
      <3>1. Moved(set) \subseteq DOMAIN joined
        BY <1>1 DEF Moved, Active
      <3> QED
        BY <3>1, <2>1, <1>2, <1>3
    <2>4. /\ P(FALSE) <=> o \in set /\ ~v.active
          /\ P(TRUE) <=> o \notin set /\ v.active
      BY <2>2, <2>3 DEF Moved
    <2>5. /\ J <=> v.active /\ v.jailed
          /\ o \in CreatedIn(msgs) => ~v.active /\ ~v.jailed
          /\ U => ~v.active /\ ~v.jailed
      BY <2>1, <1>2 DEF IndInv, StatusesWillAgree
    <2>6. o \in set => ~v.jailed
      OBVIOUS
    <2>7. CASE o \in CreatedIn(msgs)
      <3>1. PICK m \in DOMAIN E : IsCreate(E[m]) /\ E[m].operator = o
        BY <1>2, <2>7
      <3>2. E[m].key = k
        BY <3>1, <2>1, <1>2 DEF CreateValidators
      <3>3. PICK j \in DOMAIN R : MadeBy(rows, E[m], j, R[j])
        BY <3>1 DEF KnownRows
      <3>4. R[j].key = k /\ R[j].status = StatusOf(E[m]) /\ R[j].jailed = E[m].jailed
        BY <3>2, <3>3 DEF MadeBy, Row
      <3>5. R[j] = R[i]
        BY <3>4 DEF KnownRows, KeysUnique
      <3>6. height # 0
        BY <1>1 DEF TypeOK
      <3>7. row.jailed = FALSE /\ row.status = "Unbonded"
        BY <3>1, <3>4, <3>5, <3>6, <1>2 DEF StatusOf
      <3>8. ~v.active /\ ~v.jailed /\ ~J /\ ~P(TRUE)
        BY <2>1, <2>4, <2>5, <2>7
      <3>9. JailedAfter(row, E, Len(E)) = FALSE
        BY <3>7, <3>8 DEF JailedAfter, J, k
      <3>10. StatusAfter(row, E, Len(E)) = "Bonded" <=> o \in set
        BY <2>4, <3>7, <3>8 DEF StatusAfter, J, P, k
      <3> HIDE DEF v, k
      <3>11. v.jailed = FALSE
        BY <2>1, <3>8
      <3> QED
        BY <1>7, <3>8, <3>9, <3>10, <3>11 DEF J, k, v
    <2>8. CASE o \notin CreatedIn(msgs)
      <3>1. i \in DOMAIN rows /\ row = rows[i]
        <4>1. ASSUME NEW m \in DOMAIN E, MadeBy(rows, E[m], i, R[i]), E[m].operator = R[i].operator
              PROVE  FALSE
          BY <4>1, <1>2, <2>8 DEF MadeBy
        <4> QED
          BY <4>1 DEF KnownRows
      <3>2. IsCurrent(rows, i)
        BY <3>1, <1>1, CurrentWas
      <3>3. /\ row.status = "Bonded" <=> v.active
            /\ v.active => ~row.jailed
            /\ ~v.active /\ ~U => row.jailed = v.jailed
            /\ ~v.active /\ ~U /\ v.jailed => row.status \in {"Jailed", "Unbonding"}
        BY <3>1, <3>2, <1>2, <1>7, <2>8 DEF IndInv, StatusesWillAgree
      <3>4. row.jailed \in BOOLEAN
        <4>1. R[i] \in RowType
          BY RowsOfSeq DEF KnownRows
        <4> QED
          BY <4>1 DEF RowType
      <3> HIDE DEF v, k, o, row
      <3>5. JailedAfter(row, E, Len(E)) = v.jailed
        <4>1. JailedAfter(row, E, Len(E)) = IF J THEN TRUE ELSE IF U THEN FALSE ELSE row.jailed
          BY DEF JailedAfter, J, U, k, o
        <4>2. CASE v.active
          BY <4>1, <4>2, <3>3, <3>4, <2>1, <2>5
        <4>3. CASE ~v.active
          BY <4>1, <4>3, <3>3, <3>4, <2>1, <2>5
        <4> QED
          BY <4>2, <4>3
      <3>6. /\ StatusAfter(row, E, Len(E)) = "Bonded" <=> o \in set
            /\ v.jailed => StatusAfter(row, E, Len(E)) \in {"Jailed", "Unbonding"}
        <4>1. StatusAfter(row, E, Len(E)) =
                 IF P(FALSE) THEN "Bonded"
                 ELSE IF P(TRUE) /\ ~v.jailed THEN "Inactive"
                 ELSE IF J THEN "Jailed"
                 ELSE IF U THEN "Inactive"
                 ELSE row.status
          BY <3>5 DEF StatusAfter, J, U, P, k, o
        <4>2. CASE v.active
          BY <4>1, <4>2, <3>3, <2>1, <2>4, <2>5, <2>6 DEF v
        <4>3. CASE ~v.active
          BY <4>1, <4>3, <3>3, <2>1, <2>4, <2>5, <2>6 DEF v
        <4> QED
          BY <4>2, <4>3
      <3>7. ~(J /\ U)
        BY <2>5
      <3> QED
        BY <1>7, <3>5, <3>6, <3>7 DEF J, U, k, o, v, row
    <2> QED
      BY <2>7, <2>8
  <1> QED
    BY <1>6, <1>7

LEMMA KnownStays ==
    ASSUME height' = height, rows' = rows
    PROVE  Known(rows, events)' = Known(rows, events')
  BY DEF Known, Create, Upsert, Row, StatusOf

LEMMA EndBlockKeeps ==
    ASSUME IndInv, EndBlock
    PROVE  IndInv'
  <1>0. PICK set \in SUBSET {o \in DOMAIN joined : ~joined[o].jailed} :
           \E gone \in SUBSET {o \in DOMAIN joined \ set :
                                  \A i \in 1..3 : joined[o].key \notin sets[i]} :
           /\ gone \cap CreatedIn(msgs) = {}
           /\ events' = <<[type |-> "BlockCreated", signers |-> signers]>>
                        \o msgs \o jails \o PowerChanges(set)
           /\ joined' = [o \in DOMAIN joined \ gone |-> [joined[o] EXCEPT !.active = o \in set]]
           /\ sets' = <<sets[2], sets[3], KeysOf(set)>>
           /\ perfect' = {o \in set :
                  /\ o \in perfect \/ (o \in CreatedIn(msgs) /\ ~HasRow(o))
                  /\ joined[o].key \notin sets[1] \ signers}
    BY DEF EndBlock
  <1>1. PICK gone \in SUBSET {o \in DOMAIN joined \ set :
                                \A i \in 1..3 : joined[o].key \notin sets[i]} :
           /\ gone \cap CreatedIn(msgs) = {}
           /\ events' = <<[type |-> "BlockCreated", signers |-> signers]>>
                        \o msgs \o jails \o PowerChanges(set)
           /\ joined' = [o \in DOMAIN joined \ gone |-> [joined[o] EXCEPT !.active = o \in set]]
           /\ sets' = <<sets[2], sets[3], KeysOf(set)>>
           /\ perfect' = {o \in set :
                  /\ o \in perfect \/ (o \in CreatedIn(msgs) /\ ~HasRow(o))
                  /\ joined[o].key \notin sets[1] \ signers}
    BY <1>0
  <1>2. /\ phase = "txs" /\ phase' = "handle" /\ msgs' = << >> /\ jails' = << >> /\ signers' = {}
        /\ votes' = [o \in Operators |->
               VotesOf(msgs, o) + IF o \in CreatedIn(msgs) THEN 0 ELSE votes[o]]
        /\ scope' = scope /\ height' = height /\ rows' = rows
    BY DEF EndBlock
  <1>3. /\ TypeOK /\ DOMAIN joined \subseteq Operators /\ set \subseteq DOMAIN joined
        /\ \A o \in DOMAIN joined : joined[o] \in Validators
    BY DEF IndInv, TypeOK
  <1>4. PICK E : E = events'
    OBVIOUS
  <1>5. BlockEvents(E, set)
    BY <1>1, <1>3, <1>4, BlockEventsAre
  <1>6. E \in Seq(Events) /\ DOMAIN E = 1..Len(E)
    BY <1>5 DEF BlockEvents
  <1>7. CreateValidators(E)
    BY <1>2, <1>3, <1>5, BlockTells
  <1>8. PICK R : R = Known(rows, E)
    OBVIOUS
  <1>9. Known(rows, events)' = R
    BY <1>2, <1>4, <1>8, KnownStays
  <1>10. KnownRows(E, R)
    BY <1>3, <1>6, <1>7, <1>8, KnownRowsIs DEF IndInv
  <1>11. /\ DOMAIN joined' = DOMAIN joined \ gone
         /\ \A o \in DOMAIN joined' :
               /\ o \in DOMAIN joined /\ joined'[o].key = joined[o].key
               /\ joined'[o].active = (o \in set) /\ joined'[o].jailed = joined[o].jailed
               /\ joined'[o] \in Validators
    <2>1. DOMAIN joined' = DOMAIN joined \ gone
      BY <1>1
    <2>2. ASSUME NEW o \in DOMAIN joined \ gone
          PROVE  /\ joined'[o].key = joined[o].key
                 /\ joined'[o].active = (o \in set) /\ joined'[o].jailed = joined[o].jailed
                 /\ joined'[o] \in Validators
      <3>1. joined'[o] = [joined[o] EXCEPT !.active = o \in set] /\ joined[o] \in Validators
        BY <1>1, <1>3
      <3>2. /\ joined'[o].key = joined[o].key /\ joined'[o].jailed = joined[o].jailed
            /\ joined'[o].active = (o \in set)
        BY <3>1 DEF Validators
      <3>3. (o \in set) \in BOOLEAN
        OBVIOUS
      <3>4. \A b \in BOOLEAN : [joined[o] EXCEPT !.active = b] \in Validators
        BY <3>1 DEF Validators
      <3>5. joined'[o] \in Validators
        BY <3>1, <3>3, <3>4, Zenon
      <3> QED
        BY <3>2, <3>5
    <2> QED
      BY <2>1, <2>2
  <1>12. Happened = msgs /\ Happened' = E
    BY <1>2, <1>4 DEF Happened
  <1>13. \A o, k : Declared(o, k)' <=> Declared(o, k)
    <2>1. \A o, k : IsCreatedIn(E, o, k) <=> IsCreatedIn(msgs, o, k)
      BY <1>2, <1>3, <1>5, BlockTells
    <2>2. \A o, k : OfBoth(rows, o, k)' = OfBoth(rows, o, k)
      BY <1>2 DEF OfBoth, OfOperator, OfKey
    <2> QED
      BY <1>12, <2>1, <2>2 DEF Declared
  <1>14. /\ \A o \in set : o \in DOMAIN joined /\ ~joined[o].jailed /\ o \notin gone
         /\ gone \subseteq DOMAIN joined
    BY <1>1
  <1>15. /\ sets'[1] = sets[2] /\ sets'[2] = sets[3] /\ sets'[3] = KeysOf(set)
    BY <1>1
  <1>16. \A o \in DOMAIN joined : Declared(o, joined[o].key)
    BY DEF IndInv, ValidatorsAreDeclared
  <1>17. \A o : VotesOf(E, o) = VotesOf(msgs, o) /\ VotesOf(msgs, o) \in Nat
    BY <1>2, <1>3, <1>5, BlockTells
  <1>18. \A m \in DOMAIN E : IsCreate(E[m]) => E[m].operator \in CreatedIn(msgs)
    BY <1>2, <1>3, <1>5, BlockTells
  <1>19. ASSUME NEW o \in CreatedIn(msgs)
         PROVE  \E m \in DOMAIN E : IsCreate(E[m]) /\ E[m].operator = o
    <2>1. PICK k : IsCreatedIn(msgs, o, k)
      BY DEF CreatedIn, IsCreatedIn
    <2>2. IsCreatedIn(E, o, k)
      BY <2>1, <1>2, <1>3, <1>5, BlockTells
    <2> QED
      BY <2>2 DEF IsCreatedIn
  <1>20. TypeOK'
    <2>1. joined' \in [DOMAIN joined' -> Validators]
      <3>1. joined' = [o \in DOMAIN joined' |-> joined'[o]]
        BY <1>1
      <3> QED
        BY <3>1, <1>11
    <2>2. sets' \in [1..3 -> SUBSET Keys]
      <3>1. sets \in [1..3 -> SUBSET Keys]
        BY <1>3 DEF TypeOK
      <3>2. KeysOf(set) \subseteq Keys
        BY <1>3 DEF KeysOf, Validators
      <3> QED
        BY <1>1, <3>1, <3>2
    <2>3. votes' \in [Operators -> Nat]
      <3>1. votes \in [Operators -> Nat]
        BY <1>3 DEF TypeOK
      <3> QED
        BY <1>2, <1>17, <3>1
    <2>4. perfect' \subseteq Operators
      BY <1>1, <1>3
    <2>5. DOMAIN joined' \subseteq Operators
      BY <1>3, <1>11
    <2>6. events' \in Seq(Events)
      BY <1>4, <1>6
    <2> QED
      BY <1>2, <1>3, <2>1, <2>2, <2>3, <2>4, <2>5, <2>6, TypesStay DEF TypeOK
  <1>21. KeysHaveOneOwner'
    BY <1>2, <1>11 DEF IndInv, KeysHaveOneOwner, KeysUnique
  <1>22. CreationsAreOfValidators'
    <2>2. \A m \in DOMAIN E : IsCreate(E[m]) => E[m].operator \in DOMAIN joined'
      BY <1>18, <1>1, <1>7, <1>11 DEF CreateValidators
    <2> QED
      BY <2>2, <1>7, <1>11, <1>12 DEF CreationsAreOfValidators, CreateValidators
  <1>23. ValidatorsAreDeclared'
    <2>1. Active' = set
      BY <1>11, <1>14 DEF Active
    <2>2. KeysOf(Active)' = KeysOf(set)
      BY <2>1, <1>11, <1>14 DEF KeysOf
    <2>3. (\A o \in DOMAIN joined : Declared(o, joined[o].key))'
      BY <1>11, <1>13, <1>16
    <2>4. \A i \in 1..3 : \A k \in sets[i] : \E o \in Operators : Declared(o, k)
      BY DEF IndInv, ValidatorsAreDeclared
    <2>5. \A k \in KeysOf(set) : \E o \in Operators : Declared(o, k)
      BY <1>3, <1>16 DEF KeysOf
    <2>6. ASSUME NEW i \in 1..3, NEW k \in sets'[i] PROVE \E o \in Operators : Declared(o, k)
      <3>1. i = 1 \/ i = 2 \/ i = 3
        OBVIOUS
      <3> QED
        BY <3>1, <2>4, <2>5, <2>6, <1>15
    <2> QED
      BY <1>2, <1>13, <1>15, <2>2, <2>3, <2>6, TypesStay DEF ValidatorsAreDeclared
  <1>24. EventsAreOfDeclared'
    <2>1. \A m \in DOMAIN jails : \E o \in DOMAIN joined : joined[o].key = jails[m].key
      BY DEF IndInv, EventsAreOfDeclared
    <2>2. ASSUME NEW m \in DOMAIN E
          PROVE  LET x == E[m]
                 IN  /\ x.type \in {"MsgUnjail", "MsgEditValidator"} =>
                            \E k \in Keys : Declared(x.operator, k)
                     /\ x.type \in {"ValidatorJailed", "PowerChanged"} =>
                            \E o \in Operators : Declared(o, x.key)
                     /\ x.type = "BlockCreated" =>
                            \A k \in x.signers : \E o \in Operators : Declared(o, k)
      <3>1. CASE E[m] = [type |-> "BlockCreated", signers |-> signers]
        <4>1. \A k \in signers : \E o \in Operators : Declared(o, k)
          BY DEF IndInv, EventsAreOfDeclared, ValidatorsAreDeclared
        <4> QED
          BY <3>1, <4>1
      <3>2. CASE m - 1 \in DOMAIN msgs /\ E[m] = msgs[m - 1]
        BY <3>2, <1>12 DEF IndInv, EventsAreOfDeclared
      <3>3. CASE \E l \in DOMAIN jails : E[m] = jails[l]
        <4>1. PICK l \in DOMAIN jails : E[m] = jails[l]
          BY <3>3
        <4>2. jails[l] \in Slashings
          BY <1>3 DEF TypeOK
        <4>3. PICK o \in DOMAIN joined : joined[o].key = jails[l].key
          BY <2>1
        <4> QED
          BY <4>1, <4>2, <4>3, <1>3, <1>16 DEF Slashings
      <3>4. CASE \E o \in Moved(set) : E[m] = PowerOf(o, set)
        <4>1. PICK o \in Moved(set) : E[m] = PowerOf(o, set)
          BY <3>4
        <4>2. o \in DOMAIN joined /\ o \in Operators
          BY <1>3 DEF Moved, Active
        <4> QED
          BY <4>1, <4>2, <1>16 DEF PowerOf
      <3> QED
        BY <3>1, <3>2, <3>3, <3>4, <1>5 DEF BlockEvents
    <2> QED
      BY <1>2, <1>12, <1>13, <2>2, TypesStay DEF EventsAreOfDeclared
  <1>25. ActiveIsNotJailed' /\ StatusesAgree' /\ StatusesWillAgree'
    BY <1>2, <1>11, <1>14 DEF ActiveIsNotJailed, StatusesAgree, StatusesWillAgree
  <1>26. EventsTell'
    <2>1. PowersComeLast(E)
      BY <1>5 DEF BlockEvents
    <2>2. ASSUME NEW i \in DOMAIN R, IsCurrent(R, i)
          PROVE  LET row == R[i]
                     status == StatusAfter(row, E, Len(E))
                     jailed == JailedAfter(row, E, Len(E))
                 IN  /\ ~(JailedIn(E, Len(E), row.key) /\ UnjailedIn(E, Len(E), row.operator))
                     /\ IF row.operator \in DOMAIN joined' /\ joined'[row.operator].key = row.key
                        THEN /\ status = "Bonded" <=> joined'[row.operator].active
                             /\ jailed = joined'[row.operator].jailed
                             /\ joined'[row.operator].jailed => status \in {"Jailed", "Unbonding"}
                        ELSE status # "Bonded"
      <3> DEFINE row == R[i]
                 o == row.operator
                 status == StatusAfter(row, E, Len(E))
                 jailed == JailedAfter(row, E, Len(E))
      <3>1. /\ ~(JailedIn(E, Len(E), row.key) /\ UnjailedIn(E, Len(E), row.operator))
            /\ OfValidator(row) =>
                  /\ status = "Bonded" <=> o \in set
                  /\ jailed = joined[o].jailed
                  /\ joined[o].jailed => status \in {"Jailed", "Unbonding"}
            /\ ~OfValidator(row) => status # "Bonded"
        BY <1>2, <1>5, <1>10, <2>2, StatusesTold
      <3> HIDE DEF status, jailed, row
      <3>2. CASE o \in DOMAIN joined' /\ joined'[o].key = row.key
        <4>1. OfValidator(row)
          BY <3>2, <1>11 DEF OfValidator
        <4> QED
          BY <3>1, <3>2, <4>1, <1>11 DEF status, jailed, row
      <3>3. CASE ~(o \in DOMAIN joined' /\ joined'[o].key = row.key)
        <4>1. status # "Bonded"
          <5>1. OfValidator(row) => o \in gone
            BY <3>3, <1>11 DEF OfValidator
          <5> QED
            BY <5>1, <3>1, <1>14
        <4> QED
          BY <3>1, <3>3, <4>1 DEF status, jailed, row
      <3> QED
        BY <3>2, <3>3
    <2> QED
      BY <1>2, <1>4, <1>9, <2>1, <2>2 DEF EventsTell, Agrees, OfValidator
  <1>27. VotesAreCast'
    <2>1. ASSUME NEW o \in DOMAIN joined', NEW i \in DOMAIN R, R[i].key = joined[o].key
          PROVE  R[i].voted + VotesOf(E, o) <= votes'[o]
      <3>1. o \in Operators /\ o \in DOMAIN joined
        BY <1>3, <1>11
      <3>2. votes[o] \in Nat /\ VotesOf(E, o) = VotesOf(msgs, o) /\ VotesOf(msgs, o) \in Nat
        BY <3>1, <1>3, <1>17 DEF TypeOK
      <3>3. votes'[o] = VotesOf(msgs, o) + IF o \in CreatedIn(msgs) THEN 0 ELSE votes[o]
        BY <1>2, <3>1
      <3>4. CASE \E m \in DOMAIN E : MadeBy(rows, E[m], i, R[i])
        <4>1. R[i].voted = 0
          BY <3>4 DEF MadeBy, Row
        <4> QED
          BY <4>1, <3>2, <3>3
      <3>5. CASE /\ i \in DOMAIN rows /\ R[i] = rows[i]
                 /\ \A m \in DOMAIN E : IsCreate(E[m]) => E[m].key # rows[i].key
        <4>1. o \notin CreatedIn(msgs)
          <5>1. \A l \in DOMAIN msgs : l + 1 \in DOMAIN E /\ E[l + 1] = msgs[l]
            BY <1>5 DEF BlockEvents
          <5>2. ASSUME NEW m \in DOMAIN E, IsCreate(E[m]), E[m].operator = o PROVE FALSE
            BY <5>2, <3>5, <2>1, <1>7 DEF CreateValidators
          <5> QED
            BY <5>1, <5>2 DEF CreatedIn
        <4>2. R[i].voted <= votes[o]
          BY <4>1, <3>1, <3>5, <2>1, <1>2 DEF IndInv, VotesAreCast
        <4>3. R[i].voted \in Nat
          <5>1. R[i] \in RowType
            BY <1>10, RowsOfSeq DEF KnownRows
          <5> QED
            BY <5>1 DEF RowType
        <4> QED
          BY <4>1, <4>2, <4>3, <3>2, <3>3
      <3> QED
        BY <3>4, <3>5, <1>10 DEF KnownRows
    <2> QED
      BY <1>2, <1>4, <1>9, <1>11, <2>1 DEF VotesAreCast, VotesOf
  <1>28. PerfectHaveSigned'
    <2>1. ASSUME NEW o \in perfect'
          PROVE  \E i \in DOMAIN R :
                     /\ R[i].operator = o /\ R[i].key = joined[o].key /\ IsCurrent(R, i)
                     /\ R[i].signed = R[i].active /\ R[i].joinedAt <= height
                     /\ joined[o].key \in KeysOf(set)
                     /\ height - R[i].joinedAt >= 1 => joined[o].key \in sets[3]
                     /\ height - R[i].joinedAt >= 2 => joined[o].key \in sets[2]
                     /\ joined[o].key \in signers \/ height - R[i].joinedAt < 3
      <3>1. /\ o \in set /\ o \in DOMAIN joined /\ joined[o].key \notin sets[1] \ signers
            /\ o \in perfect \/ (o \in CreatedIn(msgs) /\ ~HasRow(o))
        BY <1>1, <1>14
      <3>2. joined[o].key \in KeysOf(set)
        BY <3>1 DEF KeysOf
      <3>3. height \in Nat /\ height > 0
        BY <1>2, <1>3 DEF TypeOK
      <3>4. /\ DOMAIN rows = 1..Len(rows) /\ DOMAIN R = 1..Len(R)
            /\ Len(rows) \in Nat /\ Len(R) \in Nat /\ Len(rows) <= Len(R)
        BY <1>3, <1>10 DEF TypeOK, KnownRows
      <3>5. CASE o \in perfect
        <4>1. o \notin CreatedIn(msgs)
          BY <3>5, <1>2 DEF IndInv, PerfectHaveSigned
        <4>2. PICK i \in DOMAIN rows : IsPerfect(rows, i, o, height - 1)
          BY <3>5, <1>2 DEF IndInv, PerfectHaveSigned
        <4>3. ASSUME NEW j \in DOMAIN R, R[j].operator = o
              PROVE  j \in DOMAIN rows /\ R[j] = rows[j]
          <5>1. \A m \in DOMAIN E : IsCreate(E[m]) => E[m].operator # o
            BY <4>1, <1>18
          <5> QED
            BY <5>1, <4>3, <1>10 DEF KnownRows, MadeBy
        <4>4. i \in DOMAIN R /\ R[i] = rows[i]
          <5>1. i \in DOMAIN R
            BY <3>4
          <5>2. R[i].operator = o
            BY <4>2, <1>10 DEF IsPerfect, KnownRows
          <5> QED
            BY <5>1, <5>2, <4>3
        <4>5. IsCurrent(R, i)
          <5>1. IsCurrent(rows, i) /\ rows[i].operator = o
            BY <4>2 DEF IsPerfect
          <5> QED
            BY <5>1, <4>3, <4>4 DEF IsCurrent
        <4>6. rows[i].joinedAt \in Nat
          BY <1>3, RowsOfSeq DEF TypeOK, RowType
        <4>7. /\ rows[i].operator = o /\ rows[i].key = joined[o].key
              /\ rows[i].signed = rows[i].active /\ rows[i].joinedAt <= height - 1
              /\ joined[o].key \in sets[3]
              /\ (height - 1) - rows[i].joinedAt >= 1 => joined[o].key \in sets[2]
              /\ (height - 1) - rows[i].joinedAt >= 2 => joined[o].key \in sets[1]
          BY <4>2 DEF IsPerfect
        <4>8. /\ rows[i].joinedAt <= height
              /\ height - rows[i].joinedAt >= 2 => (height - 1) - rows[i].joinedAt >= 1
              /\ height - rows[i].joinedAt < 3 \/ (height - 1) - rows[i].joinedAt >= 2
          BY <4>6, <4>7, <3>3
        <4>9. joined[o].key \in signers \/ height - rows[i].joinedAt < 3
          BY <4>7, <4>8, <3>1
        <4> QED
          BY <4>4, <4>5, <4>7, <4>8, <4>9, <3>2
      <3>6. CASE o \in CreatedIn(msgs) /\ ~HasRow(o)
        <4>1. PICK m \in DOMAIN E : IsCreate(E[m]) /\ E[m].operator = o
          BY <3>6, <1>19
        <4>2. E[m].key = joined[o].key
          BY <4>1, <1>7 DEF CreateValidators
        <4>3. PICK i \in DOMAIN R : MadeBy(rows, E[m], i, R[i])
          BY <4>1, <1>10 DEF KnownRows
        <4>4. i \notin DOMAIN rows
          BY <4>1, <4>2, <4>3, <3>6 DEF MadeBy, HasRow, OfBoth, OfOperator, OfKey
        <4>5. /\ R[i].operator = o /\ R[i].key = joined[o].key /\ R[i].joinedAt = height
              /\ R[i].signed = 0 /\ R[i].active = 0
          BY <4>1, <4>2, <4>3, <4>4 DEF MadeBy, Row
        <4>6. IsCurrent(R, i)
          <5> SUFFICES ASSUME NEW j \in DOMAIN R, R[j].operator = o, j > i PROVE FALSE
            BY <4>5, <3>4 DEF IsCurrent
          <5>1. j \notin DOMAIN rows
            BY <4>4, <3>4
          <5>2. OfValidator(R[j])
            BY <5>1, <1>10 DEF KnownRows
          <5>3. R[j].key = R[i].key
            BY <5>2, <4>5 DEF OfValidator
          <5>4. i = j
            BY <5>3, <1>10 DEF KnownRows, KeysUnique
          <5> QED
            BY <5>4, <3>4
        <4>7. /\ height - R[i].joinedAt = 0 /\ R[i].joinedAt <= height
          BY <4>5, <3>3
        <4> QED
          BY <4>5, <4>6, <4>7, <3>2
      <3> QED
        BY <3>1, <3>5, <3>6
    <2>2. \A o \in perfect' : o \in DOMAIN joined' /\ joined'[o].active
      BY <1>1, <1>11, <1>14
    <2>3. \A m \in DOMAIN E : E[m].type = "BlockCreated" => E[m].signers = signers
      BY <1>2, <1>3, <1>5, BlockTells
    <2>4. ASSUME NEW o \in perfect'
          PROVE  \E i \in DOMAIN R :
                     /\ IsPerfect(R, i, o, height)'
                     /\ \A m \in DOMAIN E : E[m].type = "BlockCreated" =>
                            joined[o].key \in E[m].signers \/ height - R[i].joinedAt < 3
      <3>1. PICK i \in DOMAIN R :
                     /\ R[i].operator = o /\ R[i].key = joined[o].key /\ IsCurrent(R, i)
                     /\ R[i].signed = R[i].active /\ R[i].joinedAt <= height
                     /\ joined[o].key \in KeysOf(set)
                     /\ height - R[i].joinedAt >= 1 => joined[o].key \in sets[3]
                     /\ height - R[i].joinedAt >= 2 => joined[o].key \in sets[2]
                     /\ joined[o].key \in signers \/ height - R[i].joinedAt < 3
        BY <2>1
      <3>2. joined'[o].key = joined[o].key
        BY <2>2, <1>11
      <3>3. IsPerfect(R, i, o, height)'
        BY <3>1, <3>2, <1>2, <1>15 DEF IsPerfect
      <3> QED
        BY <3>1, <3>3, <2>3
    <2>5. ASSUME NEW o \in perfect'
          PROVE  (\E i \in DOMAIN Known(rows, events) :
                     /\ IsPerfect(Known(rows, events), i, o, height)
                     /\ \A m \in DOMAIN events : events[m].type = "BlockCreated" =>
                            \/ joined[o].key \in events[m].signers
                            \/ height - Known(rows, events)[i].joinedAt < 3)'
      <3>1. joined'[o].key = joined[o].key
        BY <2>2, <1>11
      <3>2. PICK i \in DOMAIN R :
                     /\ IsPerfect(R, i, o, height)'
                     /\ \A m \in DOMAIN E : E[m].type = "BlockCreated" =>
                            joined[o].key \in E[m].signers \/ height - R[i].joinedAt < 3
        BY <2>4
      <3>3. IsPerfect(Known(rows, events), i, o, height)'
        BY <3>2, <1>9 DEF IsPerfect
      <3> QED
        BY <3>1, <3>2, <3>3, <1>2, <1>4, <1>9
    <2> QED
      BY <1>2, <2>2, <2>5 DEF PerfectHaveSigned
  <1> QED
    BY <1>20, <1>21, <1>22, <1>23, <1>24, <1>25, <1>26, <1>27, <1>28 DEF IndInv

-----------------------------------------------------------------------------
(* The step of the projection *)

LEMMA VotesOfType ==
    ASSUME NEW es \in Seq(Events), NEW o
    PROVE  VotesOf(es, o) \in Nat
  <1>1. Len(es) \in Nat /\ DOMAIN es = 1..Len(es)
    OBVIOUS
  <1>2. IsFiniteSet(1..Len(es))
    BY <1>1, FS_Interval
  <1>3. IsFiniteSet({i \in DOMAIN es : es[i].type = "MsgVote" /\ es[i].voter = o})
    BY <1>1, <1>2, FS_Subset
  <1> QED
    BY <1>3, FS_CardinalityType DEF VotesOf

LEMMA HandleEventsKeeps ==
    ASSUME IndInv, HandleEvents
    PROVE  IndInv'
  <1>1. /\ phase = "handle" /\ phase' = "begin" /\ ~Fails(rows, events)
        /\ rows' = Handled(rows, events) /\ height' = height + 1 /\ events' = << >>
        /\ UNCHANGED <<joined, sets, signers, msgs, jails, votes, perfect, scope>>
    BY DEF HandleEvents
  <1>2. /\ TypeOK /\ msgs = << >> /\ jails = << >> /\ height \in Nat
        /\ events \in Seq(Events) /\ DOMAIN joined \subseteq Operators
    BY <1>1 DEF IndInv, TypeOK
  <1>3. Happened = events /\ Happened' = << >>
    BY <1>1, <1>2 DEF Happened
  <1>4. PICK R : R = Known(rows, events)
    OBVIOUS
  <1>5. PICK H : H = Handled(rows, events)
    OBVIOUS
  <1>6. KnownRows(events, R)
    BY <1>2, <1>3, <1>4, KnownRowsIs DEF IndInv, CreationsAreOfValidators
  <1>7. R \in Seq(RowType) /\ KeysUnique(R) /\ \A i \in DOMAIN R : R[i] \in RowType
    BY <1>6, RowsOfSeq DEF KnownRows
  <1>8. EventsFindRows(R, events)
    BY <1>1, <1>4 DEF Fails, EventsFindRows
  <1>9. PowersComeLast(events)
    BY <1>1 DEF IndInv, EventsTell
  <1>10. H \in Seq(RowType) /\ DOMAIN H = DOMAIN R /\ \A i \in DOMAIN R : H[i] \in RowType
    <2>1. H \in Seq(RowType) /\ DOMAIN H = DOMAIN R
      BY <1>2, <1>4, <1>5, <1>7, HandledIs
    <2> QED
      BY <2>1, RowsOfSeq
  <1>11. \A i \in DOMAIN R : BecomesRow(R[i], events, H[i])
    BY <1>2, <1>4, <1>5, <1>7, HandledIs
  <1>12. \A i \in DOMAIN R :
            /\ H[i].operator = R[i].operator /\ H[i].key = R[i].key
            /\ H[i].joinedAt = R[i].joinedAt
    BY <1>11 DEF BecomesRow
  <1>13. \A i \in DOMAIN R : IsCurrent(H, i) <=> IsCurrent(R, i)
    BY <1>10, <1>12 DEF IsCurrent
  <1>14. \A o, k : Declared(o, k) => Declared(o, k)'
    <2> TAKE o, k
    <2> SUFFICES ASSUME Declared(o, k) PROVE OfBoth(rows', o, k) # {}
      BY DEF Declared
    <2>1. PICK i \in DOMAIN R : R[i].operator = o /\ R[i].key = k
      BY <1>2, <1>3, <1>6, DeclaredHasRow
    <2>2. i \in OfBoth(H, o, k)
      BY <2>1, <1>10, <1>12 DEF OfBoth, OfOperator, OfKey
    <2> QED
      BY <2>2, <1>1, <1>5
  <1>15. TypeOK'
    BY <1>1, <1>2, <1>5, <1>10, TypesStay DEF TypeOK
  <1>16. KeysHaveOneOwner'
    <2>1. KeysUnique(H)
      BY <1>7, <1>10, <1>12 DEF KeysUnique
    <2>2. \A o \in DOMAIN joined, i \in DOMAIN H : H[i].key = joined[o].key => H[i].operator = o
      BY <1>6, <1>10, <1>12 DEF KnownRows
    <2> QED
      BY <1>1, <1>5, <2>1, <2>2 DEF IndInv, KeysHaveOneOwner, KeysUnique
  <1>17. CreationsAreOfValidators'
    BY <1>3 DEF CreationsAreOfValidators, CreateValidators
  <1>18. ValidatorsAreDeclared'
    <2>1. KeysOf(Active)' = KeysOf(Active)
      BY <1>1 DEF KeysOf, Active
    <2> QED
      BY <1>1, <1>14, <2>1, TypesStay DEF IndInv, ValidatorsAreDeclared
  <1>19. EventsAreOfDeclared'
    BY <1>1, <1>2, <1>3 DEF IndInv, EventsAreOfDeclared
  <1>20. ActiveIsNotJailed'
    BY <1>1 DEF IndInv, ActiveIsNotJailed
  <1>21. StatusesAgree'
    <2>1. ASSUME NEW i \in DOMAIN H, IsCurrent(H, i)
          PROVE  Agrees(H[i], H[i].status, H[i].jailed)
      <3>1. i \in DOMAIN R /\ IsCurrent(R, i)
        BY <2>1, <1>10, <1>13
      <3>2. /\ ~(/\ JailedIn(events, Len(events), R[i].key)
                 /\ UnjailedIn(events, Len(events), R[i].operator))
            /\ Agrees(R[i], StatusAfter(R[i], events, Len(events)),
                            JailedAfter(R[i], events, Len(events)))
        BY <3>1, <1>1, <1>4 DEF IndInv, EventsTell
      <3>3. /\ H[i].status = StatusAfter(R[i], events, Len(events))
            /\ H[i].jailed = JailedAfter(R[i], events, Len(events))
        BY <3>1, <3>2, <1>2, <1>4, <1>5, <1>7, <1>8, <1>9, HandledIs
      <3>4. Agrees(R[i], H[i].status, H[i].jailed)
        BY <3>2, <3>3
      <3> QED
        BY <3>1, <3>4, <1>12 DEF Agrees, OfValidator
    <2> QED
      BY <1>1, <1>5, <2>1 DEF StatusesAgree, Agrees, OfValidator, IsCurrent
  <1>22. StatusesWillAgree' /\ EventsTell'
    BY <1>1 DEF StatusesWillAgree, EventsTell
  <1>23. PerfectHaveSigned'
    <2>1. \A o \in perfect : o \in DOMAIN joined /\ joined[o].active
      BY DEF IndInv, PerfectHaveSigned
    <2>2. ASSUME NEW o \in perfect PROVE \E i \in DOMAIN H : IsPerfect(H, i, o, height)
      <3>1. PICK i \in DOMAIN R :
               /\ IsPerfect(R, i, o, height)
               /\ \A m \in DOMAIN events : events[m].type = "BlockCreated" =>
                      joined[o].key \in events[m].signers \/ height - R[i].joinedAt < 3
        BY <1>1, <1>4 DEF IndInv, PerfectHaveSigned
      <3>2. height - R[i].joinedAt < 3 => height - R[i].joinedAt < JoinBuffer
        <4>1. R[i].joinedAt \in Nat
          BY <1>7 DEF RowType
        <4> QED
          BY <4>1, <1>2, JoinBufferAssumption
      <3>3. R[i].signed = R[i].active /\ R[i].key = joined[o].key
        BY <3>1 DEF IsPerfect
      <3>4. H[i].signed = H[i].active
        BY <3>1, <3>2, <3>3, <1>11 DEF BecomesRow
      <3>5. IsPerfect(H, i, o, height)
        BY <3>1, <3>4, <1>12, <1>13 DEF IsPerfect
      <3> QED
        BY <3>5, <1>10
    <2>3. ASSUME NEW o \in perfect PROVE (\E i \in DOMAIN rows : IsPerfect(rows, i, o, height - 1))'
      <3>1. PICK i \in DOMAIN H : IsPerfect(H, i, o, height)
        BY <2>2
      <3>2. height' - 1 = height
        BY <1>1, <1>2
      <3>3. IsPerfect(rows, i, o, height - 1)'
        BY <3>1, <3>2, <1>1, <1>5 DEF IsPerfect, IsCurrent
      <3> QED
        BY <3>1, <3>3, <1>1, <1>5
    <2>4. CreatedIn(msgs)' = {}
      BY <1>1, <1>2 DEF CreatedIn
    <2> QED
      BY <1>1, <2>1, <2>3, <2>4 DEF PerfectHaveSigned
  <1>24. VotesAreCast'
    <2>1. ASSUME NEW o \in DOMAIN joined, NEW i \in DOMAIN H, H[i].key = joined[o].key
          PROVE  H[i].voted <= votes[o]
      <3>1. R[i].key = joined[o].key /\ R[i].operator = o
        BY <2>1, <1>6, <1>10, <1>12 DEF KnownRows
      <3>2. R[i].voted + VotesOf(events, o) <= votes[o]
        BY <2>1, <3>1, <1>1, <1>4, <1>10 DEF IndInv, VotesAreCast
      <3>3. H[i].voted <= R[i].voted + VotesOf(events, o)
        BY <2>1, <3>1, <1>10, <1>11 DEF BecomesRow
      <3>4. VotesOf(events, o) \in Nat /\ H[i].voted \in Nat /\ R[i].voted \in Nat
        BY <2>1, <1>2, <1>7, <1>10, VotesOfType DEF RowType
      <3>5. votes[o] \in Nat
        BY <1>2 DEF TypeOK
      <3> QED
        BY <3>2, <3>3, <3>4, <3>5
    <2> QED
      BY <1>1, <1>5, <2>1 DEF VotesAreCast
  <1> QED
    BY <1>15, <1>16, <1>17, <1>18, <1>19, <1>20, <1>21, <1>22, <1>23, <1>24 DEF IndInv

-----------------------------------------------------------------------------
(* Genesis *)

LEMMA InitIndInv == Init => IndInv
  <1> SUFFICES ASSUME Init PROVE IndInv
    OBVIOUS
  <1>1. PICK ops \in SUBSET Operators \ {{}}, exported \in BOOLEAN :
           \E key \in {f \in [ops -> Keys] : \A o, p \in ops : f[o] = f[p] => o = p} :
           \E out \in SUBSET ops :
              /\ exported \/ out = {}
              /\ phase = "handle" /\ height = 0
              /\ joined = [o \in ops |->
                     [key |-> key[o], jailed |-> o \in out, active |-> o \notin out]]
              /\ sets = << {}, {key[o] : o \in ops \ out}, {key[o] : o \in ops \ out} >>
              /\ signers = {} /\ msgs = << >> /\ jails = << >>
              /\ events = GenesisEvents(ops, key, exported, out)
              /\ rows = << >> /\ votes = [o \in Operators |-> 0]
              /\ perfect = ops \ out
    BY DEF Init
  <1>2. PICK key \in {f \in [ops -> Keys] : \A o, p \in ops : f[o] = f[p] => o = p} :
           \E out \in SUBSET ops :
              /\ exported \/ out = {}
              /\ phase = "handle" /\ height = 0
              /\ joined = [o \in ops |->
                     [key |-> key[o], jailed |-> o \in out, active |-> o \notin out]]
              /\ sets = << {}, {key[o] : o \in ops \ out}, {key[o] : o \in ops \ out} >>
              /\ signers = {} /\ msgs = << >> /\ jails = << >>
              /\ events = GenesisEvents(ops, key, exported, out)
              /\ rows = << >> /\ votes = [o \in Operators |-> 0]
              /\ perfect = ops \ out
    BY <1>1
  <1>3. PICK out \in SUBSET ops :
           /\ exported \/ out = {}
           /\ phase = "handle" /\ height = 0
           /\ joined = [o \in ops |->
                  [key |-> key[o], jailed |-> o \in out, active |-> o \notin out]]
           /\ sets = << {}, {key[o] : o \in ops \ out}, {key[o] : o \in ops \ out} >>
           /\ signers = {} /\ msgs = << >> /\ jails = << >>
           /\ events = GenesisEvents(ops, key, exported, out)
           /\ rows = << >> /\ votes = [o \in Operators |-> 0]
           /\ perfect = ops \ out
    BY <1>2
  <1>4. /\ scope \in Scopes /\ ops \subseteq Operators
        /\ key \in [ops -> Keys] /\ \A o, p \in ops : key[o] = key[p] => o = p
    BY <1>1, <1>2 DEF Init
  <1>5. /\ DOMAIN joined = ops
        /\ \A o \in ops : /\ joined[o].key = key[o] /\ joined[o].active = (o \notin out)
                          /\ joined[o].jailed = (o \in out) /\ joined[o] \in Validators
    BY <1>3, <1>4 DEF Validators
  <1> DEFINE seq == SetToSeq(ops)
             n == Len(seq)
  <1>6. /\ seq \in Seq(ops)
        /\ \A i, j \in DOMAIN seq : seq[i] = seq[j] => i = j
        /\ \A x \in ops : \E i \in DOMAIN seq : seq[i] = x
    <2>1. IsFiniteSet(ops)
      BY <1>4, FS_Subset, ScopesAssumption DEF Operators
    <2> QED
      BY <2>1, SetToSeqIs
  <1>7. events = [i \in DOMAIN seq |->
            IF exported
            THEN [type |-> "CreateGenesisValidator", operator |-> seq[i], key |-> key[seq[i]],
                  status |-> IF seq[i] \in out THEN "Unbonding" ELSE "Bonded",
                  jailed |-> seq[i] \in out]
            ELSE [type |-> "MsgCreateValidator", operator |-> seq[i], key |-> key[seq[i]],
                  jailed |-> FALSE]]
    BY <1>3 DEF GenesisEvents
  <1> HIDE DEF seq
  <1>8. /\ n \in Nat /\ DOMAIN seq = 1..n /\ \A i \in 1..n : seq[i] \in ops
        /\ DOMAIN events = 1..n
    BY <1>6, <1>7
  <1>9. ASSUME NEW i \in 1..n
        PROVE  /\ IsCreate(events[i]) /\ events[i].operator = seq[i] /\ events[i].key = key[seq[i]]
               /\ events[i].jailed = (seq[i] \in out)
               /\ StatusOf(events[i]) = IF seq[i] \in out THEN "Unbonding" ELSE "Bonded"
               /\ events[i] \in Events
    <2>1. seq[i] \in ops /\ seq[i] \in Operators /\ key[seq[i]] \in Keys
      BY <1>4, <1>8
    <2>2. CASE exported
      <3>1. events[i] =
               [type |-> "CreateGenesisValidator", operator |-> seq[i], key |-> key[seq[i]],
                status |-> IF seq[i] \in out THEN "Unbonding" ELSE "Bonded",
                jailed |-> seq[i] \in out]
        BY <2>2, <1>7, <1>8
      <3>2. (seq[i] \in out) \in BOOLEAN
        OBVIOUS
      <3>3. events[i] \in Events
        BY <3>1, <3>2, <2>1 DEF Events
      <3> QED
        BY <3>1, <3>3 DEF IsCreate, StatusOf
    <2>3. CASE ~exported
      <3>1. events[i] =
               [type |-> "MsgCreateValidator", operator |-> seq[i], key |-> key[seq[i]],
                jailed |-> FALSE]
        BY <2>3, <1>7, <1>8
      <3>2. events[i] \in Events
        BY <3>1, <2>1 DEF Events, Messages
      <3>3. out = {} /\ height = 0
        BY <2>3, <1>3
      <3>4. /\ events[i].type = "MsgCreateValidator" /\ events[i].operator = seq[i]
            /\ events[i].key = key[seq[i]] /\ events[i].jailed = FALSE
        BY <3>1
      <3>5. StatusOf(events[i]) = "Bonded" /\ IsCreate(events[i])
        BY <3>3, <3>4 DEF IsCreate, StatusOf
      <3>6. events[i].jailed = (seq[i] \in out)
        <4>1. (seq[i] \in out) = FALSE
          BY <3>3
        <4> QED
          BY <3>4, <4>1, Zenon
      <3> QED
        BY <3>2, <3>3, <3>4, <3>5, <3>6
    <2> QED
      BY <2>2, <2>3
  <1>10. events \in Seq(Events) /\ Len(events) = n
    <2>1. events \in [1..n -> Events]
      BY <1>7, <1>8, <1>9
    <2> QED
      BY <2>1, <1>8, IsASeqOfLen
  <1>11. TypeOK
    <2>1. joined \in [DOMAIN joined -> Validators]
      BY <1>3, <1>5
    <2>2. {key[o] : o \in ops \ out} \subseteq Keys
      BY <1>4
    <2>3. sets \in [1..3 -> SUBSET Keys]
      BY <2>2, <1>3
    <2>4. rows \in Seq(RowType) /\ msgs \in Seq(Messages) /\ jails \in Seq(Slashings)
      BY <1>3
    <2>5. votes \in [Operators -> Nat] /\ perfect \subseteq Operators
      BY <1>3, <1>4
    <2> QED
      BY <1>3, <1>4, <1>5, <1>10, <2>1, <2>3, <2>4, <2>5 DEF TypeOK
  <1>12. Happened = events /\ DOMAIN rows = {}
    BY <1>3 DEF Happened
  <1>13. KeysHaveOneOwner
    BY <1>4, <1>5, <1>12 DEF KeysHaveOneOwner, KeysUnique
  <1>14. CreateValidators(events)
    BY <1>5, <1>6, <1>8, <1>9 DEF CreateValidators
  <1>15. PICK R : R = Known(rows, events)
    OBVIOUS
  <1>16. KnownRows(events, R)
    BY <1>10, <1>11, <1>13, <1>14, <1>15, KnownRowsIs
  <1>17. ASSUME NEW i \in DOMAIN R
         PROVE  /\ R[i].operator \in ops /\ OfValidator(R[i])
                /\ R[i].status = IF R[i].operator \in out THEN "Unbonding" ELSE "Bonded"
                /\ R[i].jailed = (R[i].operator \in out)
                /\ R[i].joinedAt = 0 /\ R[i].signed = 0 /\ R[i].active = 0 /\ R[i].voted = 0
    <2>1. PICK m \in DOMAIN events : MadeBy(rows, events[m], i, R[i])
      BY <1>12, <1>16 DEF KnownRows
    <2>2. OfValidator(R[i])
      BY <1>12, <1>16 DEF KnownRows
    <2>3. /\ R[i].operator = events[m].operator /\ R[i].status = StatusOf(events[m])
          /\ R[i].jailed = events[m].jailed /\ R[i].joinedAt = height
          /\ R[i].signed = 0 /\ R[i].active = 0 /\ R[i].voted = 0
      BY <2>1, <1>12 DEF MadeBy, Row
    <2>4. /\ events[m].operator = seq[m] /\ seq[m] \in ops
          /\ events[m].jailed = (seq[m] \in out)
          /\ StatusOf(events[m]) = IF seq[m] \in out THEN "Unbonding" ELSE "Bonded"
      BY <1>8, <1>9
    <2> QED
      BY <2>2, <2>3, <2>4, <1>3
  <1>18. \A m \in DOMAIN events :
            events[m].type \in {"CreateGenesisValidator", "MsgCreateValidator"}
    BY <1>8, <1>9 DEF IsCreate
  <1>19. \A o \in ops : Declared(o, key[o])
    <2> TAKE o \in ops
    <2>1. PICK i \in 1..n : seq[i] = o
      BY <1>6, <1>8
    <2> QED
      BY <2>1, <1>8, <1>9, <1>12 DEF Declared, IsCreatedIn
  <1>20. ValidatorsAreDeclared
    <2>1. Active = ops \ out
      BY <1>5 DEF Active
    <2>2. KeysOf(Active) = {key[o] : o \in ops \ out}
      BY <2>1, <1>5 DEF KeysOf
    <2>3. \A i \in 1..3 : sets[i] \subseteq {key[o] : o \in ops \ out}
      BY <1>3
    <2> QED
      BY <1>3, <1>4, <1>5, <1>19, <2>2, <2>3 DEF ValidatorsAreDeclared
  <1>21. EventsAreOfDeclared
    BY <1>3, <1>12, <1>18 DEF EventsAreOfDeclared
  <1>22. ActiveIsNotJailed /\ StatusesAgree /\ StatusesWillAgree
    BY <1>3, <1>5 DEF ActiveIsNotJailed, StatusesAgree, StatusesWillAgree
  <1>23. EventsTell
    <2>1. \A k, o, z : /\ ~JailedIn(events, Len(events), k) /\ ~UnjailedIn(events, Len(events), o)
                      /\ ~PowerIn(events, Len(events), k, z)
      BY <1>8, <1>10, <1>18 DEF JailedIn, UnjailedIn, PowerIn
    <2>2. PowersComeLast(events)
      BY <1>18 DEF PowersComeLast
    <2>3. ASSUME NEW i \in DOMAIN R PROVE Agrees(R[i], R[i].status, R[i].jailed)
      BY <1>5, <1>17 DEF Agrees, OfValidator
    <2>4. \A i \in DOMAIN R : /\ StatusAfter(R[i], events, Len(events)) = R[i].status
                              /\ JailedAfter(R[i], events, Len(events)) = R[i].jailed
      BY <2>1 DEF StatusAfter, JailedAfter
    <2> QED
      BY <1>15, <2>1, <2>2, <2>3, <2>4 DEF EventsTell
  <1>24. PerfectHaveSigned
    <2>1. ASSUME NEW o \in perfect PROVE \E i \in DOMAIN R : IsPerfect(R, i, o, height)
      <3>1. o \in ops /\ o \notin out
        BY <1>3
      <3>2. PICK m \in 1..n : seq[m] = o
        BY <3>1, <1>6, <1>8
      <3>3. PICK i \in DOMAIN R : MadeBy(rows, events[m], i, R[i])
        BY <1>8, <1>9, <1>16 DEF KnownRows
      <3>4. R[i].operator = o /\ R[i].key = joined[o].key
        <4>1. R[i].operator = events[m].operator /\ R[i].key = events[m].key
          BY <3>3 DEF MadeBy, Row
        <4> QED
          BY <4>1, <3>1, <3>2, <1>5, <1>9
      <3>5. \A j \in DOMAIN R : R[j].operator = o => j = i
        BY <3>4, <1>16, <1>17 DEF OfValidator, KnownRows, KeysUnique
      <3>6. IsCurrent(R, i)
        <4>1. i \in Nat
          <5>1. DOMAIN R = 1..Len(R) /\ Len(R) \in Nat
            BY <1>16 DEF KnownRows
          <5> QED
            BY <5>1
        <4> QED
          BY <3>4, <3>5, <4>1 DEF IsCurrent
      <3>7. joined[o].key \in sets[3]
        BY <3>1, <1>3, <1>5
      <3>8. R[i].signed = R[i].active /\ R[i].joinedAt = 0 /\ height = 0
        BY <1>3, <1>17
      <3> QED
        BY <3>4, <3>6, <3>7, <3>8 DEF IsPerfect
    <2> QED
      BY <1>3, <1>5, <1>15, <1>18, <2>1 DEF PerfectHaveSigned
  <1>25. VotesAreCast
    <2>1. ASSUME NEW o PROVE VotesOf(events, o) = 0
      <3>1. {i \in DOMAIN events : events[i].type = "MsgVote" /\ events[i].voter = o} = {}
        BY <1>18
      <3> QED
        BY <3>1, FS_EmptySet DEF VotesOf
    <2>2. ASSUME NEW o \in DOMAIN joined, NEW i \in DOMAIN R
          PROVE  R[i].voted + VotesOf(events, o) <= votes[o]
      <3>1. o \in Operators /\ votes[o] = 0 /\ R[i].voted = 0
        BY <1>3, <1>4, <1>5, <1>17
      <3> QED
        BY <3>1, <2>1
    <2> QED
      BY <1>3, <1>15, <2>2 DEF VotesAreCast
  <1> QED
    BY <1>11, <1>12, <1>13, <1>14, <1>20, <1>21, <1>22, <1>23, <1>24, <1>25
    DEF IndInv, CreationsAreOfValidators

-----------------------------------------------------------------------------
(* The invariant *)

LEMMA StutterKeeps ==
    ASSUME IndInv, UNCHANGED vars
    PROVE  IndInv'
  <1>1. /\ UNCHANGED <<scope, phase, height, joined, sets, signers, msgs, jails, events>>
        /\ UNCHANGED <<rows, votes, perfect>>
    BY DEF vars, chainVars
  <1>2. Known(rows, events)' = Known(rows, events)
    BY <1>1, KnownStays
  <1>3. Happened' = Happened
    BY <1>1 DEF Happened
  <1>4. \A o, k : Declared(o, k)' <=> Declared(o, k)
    BY <1>1, <1>3 DEF Declared, OfBoth, OfOperator, OfKey
  <1>5. CreatedIn(msgs)' = CreatedIn(msgs)
    BY <1>1 DEF CreatedIn, Operators
  <1>6. TypeOK'
    BY <1>1, TypesStay DEF IndInv, TypeOK
  <1>7. KeysHaveOneOwner' /\ CreationsAreOfValidators'
    BY <1>1, <1>3
    DEF IndInv, KeysHaveOneOwner, KeysUnique, CreationsAreOfValidators, CreateValidators
  <1>8. ValidatorsAreDeclared'
    <2>1. KeysOf(Active)' = KeysOf(Active)
      BY <1>1 DEF KeysOf, Active
    <2> QED
      BY <1>1, <1>4, <2>1, TypesStay DEF IndInv, ValidatorsAreDeclared
  <1>9. EventsAreOfDeclared'
    BY <1>1, <1>3, <1>4, TypesStay DEF IndInv, EventsAreOfDeclared
  <1>10. ActiveIsNotJailed' /\ StatusesAgree'
    BY <1>1 DEF IndInv, ActiveIsNotJailed, StatusesAgree, Agrees, OfValidator, IsCurrent
  <1>11. StatusesWillAgree'
    BY <1>1, <1>5 DEF IndInv, StatusesWillAgree, OfValidator, IsCurrent
  <1>12. EventsTell'
    BY <1>1, <1>2 DEF IndInv, EventsTell, Agrees, OfValidator, IsCurrent, PowersComeLast
  <1>13. PerfectHaveSigned'
    BY <1>1, <1>2, <1>5 DEF IndInv, PerfectHaveSigned, IsPerfect, IsCurrent
  <1>14. VotesAreCast'
    BY <1>1, <1>2, <1>5 DEF IndInv, VotesAreCast
  <1> QED
    BY <1>6, <1>7, <1>8, <1>9, <1>10, <1>11, <1>12, <1>13, <1>14 DEF IndInv

LEMMA StepKeeps ==
    ASSUME IndInv, [Next]_vars
    PROVE  IndInv'
  <1>1. CASE BeginBlock
    BY <1>1, BeginBlockKeeps
  <1>2. ASSUME NEW o \in Operators, NEW k \in Keys, MsgCreateValidator(o, k) PROVE IndInv'
    BY <1>2, MsgCreateValidatorKeeps
  <1>3. ASSUME NEW o \in Operators, MsgUnjail(o) PROVE IndInv'
    BY <1>3, MsgUnjailKeeps
  <1>4. CASE Other
    BY <1>4, OtherKeeps
  <1>5. CASE EndBlock
    BY <1>5, EndBlockKeeps
  <1>6. CASE HandleEvents
    BY <1>6, HandleEventsKeeps
  <1>7. CASE UNCHANGED vars
    BY <1>7, StutterKeeps
  <1> QED
    BY <1>1, <1>2, <1>3, <1>4, <1>5, <1>6, <1>7 DEF Next

\* The invariant holds from genesis on, after every step of the chain and every block
\* that the projection handles, for any validators, keys and length of the chain.
THEOREM Invariance == Spec => []IndInv
  <1>1. IndInv /\ [Next]_vars => IndInv'
    BY StepKeeps
  <1> QED
    BY <1>1, InitIndInv, PTL DEF Spec

-----------------------------------------------------------------------------
(* The properties *)

\* Between two blocks every validator of the chain has a row of its own.
LEMMA RowIdIs ==
    ASSUME IndInv, phase = "begin", NEW o \in DOMAIN joined
    PROVE  /\ RowId(o) \in DOMAIN rows /\ RowOf(o) = rows[RowId(o)]
           /\ RowOf(o).operator = o /\ RowOf(o).key = joined[o].key
           /\ \A i \in DOMAIN rows : rows[i].key = joined[o].key => i = RowId(o)
  <1>1. TypeOK /\ rows \in Seq(RowType) /\ msgs = << >>
    BY DEF IndInv, TypeOK
  <1>2. ~IsCreatedIn(Happened, o, joined[o].key)
    BY <1>1 DEF Happened, IsCreatedIn
  <1>3. OfBoth(rows, o, joined[o].key) # {}
    BY <1>2 DEF IndInv, ValidatorsAreDeclared, Declared
  <1>4. RowId(o) \in OfBoth(rows, o, joined[o].key)
    BY <1>1, <1>3, RowsOfSeq, NewestIs DEF RowId
  <1> QED
    BY <1>4 DEF OfBoth, OfOperator, OfKey, RowOf, IndInv, KeysHaveOneOwner, KeysUnique

\* The newest row that the view finds by an operator is the last of the operator.
LEMMA NewestIsCurrent ==
    ASSUME TypeOK, NEW i \in DOMAIN rows, IsNewest(i)
    PROVE  IsCurrent(rows, i)
  <1> DEFINE ids == OfOperator(rows, rows[i].operator)
  <1>1. Len(rows) \in Nat /\ ids \subseteq 1..Len(rows) /\ i \in ids
    BY RowsOfSeq DEF TypeOK, OfOperator
  <1>2. \A j \in ids : j <= Newest(ids)
    <2> HIDE DEF ids
    <2> QED
      BY <1>1, NewestIs
  <1> QED
    BY <1>2 DEF IsNewest, IsCurrent, OfOperator

\* HandleEvents (validator.go) finds a row for every validator that an event or a signature
\* of the block is about, so that it never returns the error that stops the projection.
THEOREM NeverFails == Spec => []HandlerNeverFails
  <1>1. IndInv => HandlerNeverFails
    <2> SUFFICES ASSUME IndInv, phase = "handle", NEW m \in DOMAIN events
                 PROVE  /\ ChangesRow(events[m]) => Concerned(Known(rows, events), events[m]) # {}
                        /\ events[m].type = "BlockCreated" =>
                              \A k \in events[m].signers : OfKey(Known(rows, events), k) # {}
      BY DEF HandlerNeverFails, Fails
    <2>1. TypeOK /\ Happened = events /\ events \in Seq(Events) /\ CreateValidators(Happened)
      BY DEF IndInv, TypeOK, Happened, CreationsAreOfValidators
    <2>2. PICK R : R = Known(rows, events)
      OBVIOUS
    <2>3. KnownRows(Happened, R)
      BY <2>1, <2>2, KnownRowsIs DEF IndInv
    <2>4. ASSUME NEW o, NEW k, Declared(o, k) PROVE OfOperator(R, o) # {} /\ OfKey(R, k) # {}
      <3>1. PICK i \in DOMAIN R : R[i].operator = o /\ R[i].key = k
        BY <2>1, <2>3, <2>4, DeclaredHasRow
      <3> QED
        BY <3>1 DEF OfOperator, OfKey
    <2>5. LET e == events[m]
          IN  /\ e.type \in {"MsgUnjail", "MsgEditValidator"} =>
                     \E k \in Keys : Declared(e.operator, k)
              /\ e.type \in {"ValidatorJailed", "PowerChanged"} =>
                     \E o \in Operators : Declared(o, e.key)
              /\ e.type = "BlockCreated" =>
                     \A k \in e.signers : \E o \in Operators : Declared(o, k)
      BY <2>1 DEF IndInv, EventsAreOfDeclared
    <2> QED
      BY <2>2, <2>4, <2>5 DEF ChangesRow, Concerned
  <1> QED
    BY <1>1, Invariance, PTL

\* The statuses that projectValidatorView writes are those of the chain, in whatever order
\* a block creates, unjails, slashes and elects, and over any number of blocks.
THEOREM StatusesMatch == Spec => []StatusMatchesChain
  <1>1. IndInv => StatusMatchesChain
    <2> SUFFICES ASSUME IndInv, phase = "begin" PROVE StatusMatchesChain
      BY DEF StatusMatchesChain
    <2>1. TypeOK
      BY DEF IndInv
    <2>2. \A i \in DOMAIN rows :
              IsNewest(i) => Agrees(rows[i], rows[i].status, rows[i].jailed)
      BY <2>1, NewestIsCurrent DEF IndInv, StatusesAgree
    <2>3. ASSUME NEW o \in DOMAIN joined, ~Returned(o)
          PROVE  /\ RowOf(o).status = "Bonded" <=> joined[o].active
                 /\ RowOf(o).jailed = joined[o].jailed
                 /\ joined[o].jailed => RowOf(o).status \in {"Jailed", "Unbonding"}
      <3>1. /\ RowId(o) \in DOMAIN rows /\ RowOf(o) = rows[RowId(o)]
            /\ RowOf(o).operator = o /\ RowOf(o).key = joined[o].key
        BY RowIdIs
      <3>2. OfValidator(RowOf(o))
        BY <3>1 DEF OfValidator
      <3>3. Agrees(RowOf(o), RowOf(o).status, RowOf(o).jailed)
        BY <2>2, <2>3, <3>1 DEF Returned
      <3> QED
        BY <3>1, <3>2, <3>3 DEF Agrees
    <2>4. ASSUME NEW i \in DOMAIN rows, IsNewest(i), rows[i].status = "Bonded"
          PROVE  \E o \in DOMAIN joined : o = rows[i].operator /\ joined[o].key = rows[i].key
      BY <2>2, <2>4 DEF Agrees, OfValidator
    <2> QED
      BY <2>3, <2>4 DEF StatusMatchesChain
  <1> QED
    BY <1>1, Invariance, PTL

\* Up time and votes of a row are those of its validator: the buffer of JoinBuffer blocks
\* covers the two blocks that an elected set has to wait, and the vote loop adds no vote.
THEOREM RowCounts == Spec => []RowCountsAreTrue
  <1>1. IndInv => RowCountsAreTrue
    <2> SUFFICES ASSUME IndInv, phase = "begin" PROVE RowCountsAreTrue
      BY DEF RowCountsAreTrue, PerfectUpTime, VotesNotOvercounted
    <2>1. CreatedIn(msgs) = {}
      BY DEF IndInv, TypeOK, CreatedIn
    <2>2. ASSUME NEW o \in perfect PROVE RowOf(o).signed = RowOf(o).active
      <3>1. o \in DOMAIN joined
        BY DEF IndInv, PerfectHaveSigned
      <3>2. PICK i \in DOMAIN rows : IsPerfect(rows, i, o, height - 1)
        BY DEF IndInv, PerfectHaveSigned
      <3>3. rows[i].key = joined[o].key /\ rows[i].signed = rows[i].active
        BY <3>2 DEF IsPerfect
      <3> QED
        BY <3>1, <3>3, RowIdIs
    <2>3. ASSUME NEW o \in DOMAIN joined PROVE RowOf(o).voted <= votes[o]
      <3>1. /\ RowId(o) \in DOMAIN rows /\ RowOf(o) = rows[RowId(o)]
            /\ rows[RowId(o)].key = joined[o].key
        BY RowIdIs
      <3> QED
        BY <2>1, <3>1 DEF IndInv, VotesAreCast
    <2> QED
      BY <2>2, <2>3 DEF RowCountsAreTrue, PerfectUpTime, VotesNotOvercounted
  <1> QED
    BY <1>1, Invariance, PTL

\* What the two tables hold, with the invariant of the rows of the validators.
ActivitiesInv ==
    /\ IndInv
    /\ activities \in Seq(ActivityType) /\ totals \in [Identities -> Nat]
    /\ ActivityTotalsMatch

LEMMA ActivitiesInitially == ActivitiesInit => ActivitiesInv
  <1> SUFFICES ASSUME ActivitiesInit PROVE ActivitiesInv
    OBVIOUS
  <1>1. IndInv
    BY InitIndInv DEF ActivitiesInit
  <1>2. activities = << >> /\ totals = [id \in Identities |-> 0]
    BY DEF ActivitiesInit
  <1>3. ASSUME NEW id PROVE Count(<< >>, id) = 0
    <2>1. {i \in DOMAIN << >> : CountedIn(<< >>[i], id)} = {}
      OBVIOUS
    <2> QED
      BY <2>1, FS_EmptySet DEF Count
  <1>4. ActivityTotalsMatch
    BY <1>2, <1>3 DEF ActivityTotalsMatch
  <1> QED
    BY <1>1, <1>2, <1>4 DEF ActivitiesInv

\* The tables that a block is recorded in
LEMMA BlockRecorded ==
    ASSUME ActivitiesInv, HandleActivities
    PROVE  /\ activities' \in Seq(ActivityType) /\ totals' \in [Identities -> Nat]
           /\ \A id \in Identities : totals'[id] = Count(activities', id)
  <1> DEFINE viewed == ProjectValidatorView(rows, events)
             before == [rows |-> activities, totals |-> totals]
  <1>1. /\ scope \in Scopes /\ height \in Nat
        /\ rows \in Seq(RowType) /\ events \in Seq(Events)
    BY DEF ActivitiesInv, IndInv, TypeOK
  <1>2. viewed \in Seq(RowType)
    <2>1. PICK R \in Seq(RowType) : R = Known(rows, events)
      BY <1>1, KnownByPrefix
    <2> QED
      BY <1>1, <2>1, SecondPass DEF SameRows
  <1> HIDE DEF viewed
  <1>3. \A m \in DOMAIN events :
           IsSlashing(events[m]) => OperatorOf(viewed, events[m]) \in Operators
    <2> SUFFICES ASSUME NEW m \in DOMAIN events, IsSlashing(events[m])
                 PROVE  OperatorOf(viewed, events[m]) \in Operators
      OBVIOUS
    <2> DEFINE ids == OfKey(viewed, events[m].key)
    <2>1. ids # {} /\ ids \subseteq 1..Len(viewed) /\ Len(viewed) \in Nat
      BY <1>2, RowsOfSeq DEF HandleActivities, ActivitiesFail, viewed
    <2>2. Newest(ids) \in ids
      <3> HIDE DEF ids
      <3> QED
        BY <2>1, NewestIs
    <2>3. viewed[Newest(ids)] \in RowType
      BY <1>2, <2>2, RowsOfSeq DEF OfKey
    <2> QED
      BY <2>3 DEF OperatorOf, RowType
  <1>4. before \in Tables /\ Match(before)
    BY DEF ActivitiesInv, ActivityTotalsMatch, Tables, Match
  <1>5. /\ activities' = ProjectValidatorActivitiesView(before, viewed, events).rows
        /\ totals' = ProjectValidatorActivitiesView(before, viewed, events).totals
    BY DEF HandleActivities, viewed
  <1> HIDE DEF before
  <1>6. /\ ProjectValidatorActivitiesView(before, viewed, events) \in Tables
        /\ Match(ProjectValidatorActivitiesView(before, viewed, events))
    BY <1>1, <1>3, <1>4, ViewMatches
  <1> QED
    BY <1>5, <1>6 DEF Tables, Match

\* The stored totals that projectValidatorActivitiesView increments, of all activities, of
\* an operator, of a type and of both, are at all times the numbers of the stored rows they
\* are about, a redelegation aside in the total its destination has of the type.
THEOREM ActivityTotals == ActivitiesSpec => []ActivityTotalsMatch
  <1>1. ActivitiesInv /\ [ActivitiesNext]_activityVars => ActivitiesInv'
    <2> SUFFICES ASSUME ActivitiesInv, [ActivitiesNext]_activityVars PROVE ActivitiesInv'
      OBVIOUS
    <2>1. [Next]_vars
      BY DEF ActivitiesNext, ChainStep, HandleActivities, Next, activityVars
    <2>2. IndInv'
      BY <2>1, StepKeeps DEF ActivitiesInv
    <2>3. scope' = scope
      BY <2>1 DEF Next, vars, BeginBlock, MsgCreateValidator, MsgUnjail, Other, Message, EndBlock,
                  HandleEvents
    <2>4. Operators' = Operators /\ Events' = Events /\ Identities' = Identities
      BY <2>3, TypesStay DEF Identities
    <2>5. ActivityType' = ActivityType
      BY <2>4 DEF ActivityType
    <2>6. CASE HandleActivities
      BY <2>2, <2>4, <2>5, <2>6, BlockRecorded DEF ActivitiesInv, ActivityTotalsMatch, Count
    <2>7. CASE UNCHANGED <<activities, totals>>
      BY <2>2, <2>4, <2>5, <2>7 DEF ActivitiesInv, ActivityTotalsMatch, Count
    <2> QED
      BY <2>6, <2>7 DEF ActivitiesNext, activityVars
  <1>2. ActivitiesInv => ActivityTotalsMatch
    BY DEF ActivitiesInv
  <1> QED
    BY <1>1, <1>2, ActivitiesInitially, PTL DEF ActivitiesSpec
=============================================================================
