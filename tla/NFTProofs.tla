------------------------------- MODULE NFTProofs ------------------------------
(***************************************************************************)
(* Proofs about NFT, for any denoms, tokens, accounts and drops and any    *)
(* number of events.                                                       *)
(***************************************************************************)
EXTENDS NFT, FiniteSetTheorems, TLAPS

-----------------------------------------------------------------------------
(* The inductive invariant *)

DenomRow == [id : Denoms, creator : Accounts]

TokenRow == [drop : Drops \cup {Nil}, minter : Accounts, owner : Accounts,
             editedAt : Nat, transferredAt : Nat]

MessageRow == [type : MessageTypes, denom : Denoms, token : TokenIds \cup {Nil},
               drop : Drops \cup {Nil}, height : Nat]

TypeOK ==
    /\ enableDrop \in BOOLEAN /\ height \in Nat
    /\ denoms \in Seq(DenomRow)
    /\ \A k \in DOMAIN denomTotals : denomTotals[k] \in Int
    /\ IsFiniteSet(DOMAIN tokens) /\ DOMAIN tokens \subseteq Denoms \X TokenIds
    /\ \A id \in DOMAIN tokens : tokens[id] \in TokenRow
    /\ \A k \in DOMAIN tokenTotals : tokenTotals[k] \in Int
    /\ messages \in Seq(MessageRow)
    /\ \A k \in DOMAIN messageTotals : messageTotals[k] \in Nat
    /\ deleted \subseteq DOMAIN messages

\* No token has a drop when drops are disabled.
DropsDisabled == ~enableDrop => \A id \in DOMAIN tokens : tokens[id].drop = Nil

\* Every denom is counted in the list of all denoms.
DenomsCounted == FindBy(denomTotals, Dash) = Len(denoms)

\* The filters whose totals are kept
Kept(filter) == ~enableDrop \/ filter[2] = Dash \/ filter[4] # Dash

TokensCounted ==
    \A filter \in TokenFilters :
        Kept(filter) => FindBy(tokenTotals, filter) = Cardinality(TokensList(filter).rows)

\* What SumBy counts
Units(totals, identities) ==
    UNION {{k} \X (1..totals[k]) : k \in identities \cap DOMAIN totals}

\* The messages of a list, deleted or not
Inserted(filter, types) == {i \in DOMAIN messages : HasFilter(messages[i], filter, types)}

MessagesCounted ==
    \A filter \in MessageFilters, types \in SUBSET MessageTypes :
        LET units == Units(messageTotals, ListIdentities(filter, types))
        IN  IsFiniteSet(units) /\ Cardinality(units) = Cardinality(Inserted(filter, types))

\* A date is the height of a message of some types, and no other one is newer.
IsNewest(date, id, types) ==
    /\ \E i \in MessagesOf(id) : messages[i].type \in types /\ messages[i].height = date
    /\ \A i \in MessagesOf(id) : messages[i].type \in types => messages[i].height <= date

\* A token has messages, and a token that is not there has none left.
TokensHaveMessages ==
    /\ \A i \in DOMAIN messages : messages[i].height <= height
    /\ \A id \in DOMAIN tokens :
          /\ IsNewest(tokens[id].editedAt, id, {"Mint", "Edit"})
          /\ IsNewest(tokens[id].transferredAt, id, {"Mint", "Transfer"})
    /\ \A id \in (Denoms \X TokenIds) \ DOMAIN tokens : \A i \in MessagesOf(id) :
          messages[i].type = "IssueDenom"

IndInv ==
    /\ TypeOK /\ DropsDisabled /\ DenomsCounted /\ TokensCounted /\ MessagesCounted
    /\ TokensHaveMessages

-----------------------------------------------------------------------------
(* The tables of totals *)

\* Incrementing adds one to the identities given, and makes those that are missing.
LEMMA IncrementCounts ==
    ASSUME NEW totals, NEW identities, \A k \in DOMAIN totals : totals[k] \in Int
    PROVE  /\ DOMAIN Increment(totals, identities) = DOMAIN totals \cup identities
           /\ \A k \in DOMAIN Increment(totals, identities) :
                 Increment(totals, identities)[k] \in Int
           /\ \A k : FindBy(totals, k) \in Int
           /\ \A k : FindBy(Increment(totals, identities), k) =
                        FindBy(totals, k) + IF k \in identities THEN 1 ELSE 0
  BY DEF Increment, FindBy

\* Decrementing subtracts one from the identities given that have a total.
LEMMA DecrementCounts ==
    ASSUME NEW totals, NEW identities, \A k \in DOMAIN totals : totals[k] \in Int
    PROVE  /\ DOMAIN Decrement(totals, identities) = DOMAIN totals \cup identities
           /\ \A k \in DOMAIN Decrement(totals, identities) :
                 Decrement(totals, identities)[k] \in Int
           /\ \A k : FindBy(totals, k) # 0 \/ k \notin identities =>
                 FindBy(Decrement(totals, identities), k) =
                        FindBy(totals, k) - IF k \in identities THEN 1 ELSE 0
  BY DEF Decrement, FindBy

\* A sum grows by one when one of its identities is incremented, and by nothing when
\* none is.
LEMMA IncrementAddsUnit ==
    ASSUME NEW totals, NEW identities, NEW asked,
           \A k \in DOMAIN totals : totals[k] \in Nat,
           IsFiniteSet(Units(totals, asked))
    PROVE  /\ Cardinality(Units(totals, asked)) \in Nat
           /\ asked \cap identities = {} =>
                 Units(Increment(totals, identities), asked) = Units(totals, asked)
           /\ (\E k : asked \cap identities = {k}) =>
                 /\ IsFiniteSet(Units(Increment(totals, identities), asked))
                 /\ Cardinality(Units(Increment(totals, identities), asked)) =
                       Cardinality(Units(totals, asked)) + 1
  <1> DEFINE new == Increment(totals, identities)
  <1>1. /\ DOMAIN new = DOMAIN totals \cup identities
        /\ \A k \in DOMAIN totals \ identities : new[k] = totals[k]
        /\ \A k \in identities \cap DOMAIN totals : new[k] = totals[k] + 1
        /\ \A k \in identities \ DOMAIN totals : new[k] = 1
    BY DEF Increment
  <1> HIDE DEF new
  <1>2. \A t, u : u \in Units(t, asked) <=>
           \E k \in asked \cap DOMAIN t : \E n \in 1..t[k] : u = <<k, n>>
    BY DEF Units
  <1>3. ASSUME asked \cap identities = {}
        PROVE  Units(new, asked) = Units(totals, asked)
    <2>1. asked \cap DOMAIN new = asked \cap DOMAIN totals
      BY <1>1, <1>3
    <2>2. \A k \in asked \cap DOMAIN totals : new[k] = totals[k]
      BY <1>1, <1>3
    <2> QED
      BY <2>1, <2>2 DEF Units
  <1>4. ASSUME NEW k, asked \cap identities = {k}
        PROVE  /\ IsFiniteSet(Units(new, asked))
               /\ Cardinality(Units(new, asked)) = Cardinality(Units(totals, asked)) + 1
    <2> DEFINE n == FindBy(totals, k) + 1
    <2>1. k \in asked /\ k \in identities /\ k \in DOMAIN new /\ new[k] = n /\ FindBy(totals, k) \in Nat
      BY <1>1, <1>4 DEF FindBy
    <2>2. \A j \in asked : j # k => (j \in DOMAIN new <=> j \in DOMAIN totals)
                                   /\ (j \in DOMAIN totals => new[j] = totals[j])
      BY <1>1, <1>4
    <2>3. <<k, n>> \notin Units(totals, asked)
      <3> SUFFICES ASSUME <<k, n>> \in Units(totals, asked) PROVE FALSE
        OBVIOUS
      <3>1. k \in DOMAIN totals /\ n \in 1..totals[k]
        BY <1>2
      <3> QED
        BY <2>1, <3>1 DEF FindBy
    <2>4. Units(new, asked) \subseteq Units(totals, asked) \cup {<<k, n>>}
      <3> SUFFICES ASSUME NEW u \in Units(new, asked), u # <<k, n>> PROVE u \in Units(totals, asked)
        OBVIOUS
      <3>1. PICK j \in asked \cap DOMAIN new : \E m \in 1..new[j] : u = <<j, m>>
        BY <1>2
      <3>2. PICK m \in 1..new[j] : u = <<j, m>>
        BY <3>1
      <3>3. CASE j # k
        BY <1>2, <2>2, <3>2, <3>3
      <3>4. CASE j = k
        <4>1. m \in 1..n /\ m # n
          BY <2>1, <3>2, <3>4
        <4>2. k \in DOMAIN totals /\ m \in 1..totals[k]
          BY <2>1, <4>1 DEF FindBy
        <4> QED
          BY <1>2, <2>1, <3>2, <3>4, <4>2
      <3> QED
        BY <3>3, <3>4
    <2>5. Units(totals, asked) \cup {<<k, n>>} \subseteq Units(new, asked)
      <3>1. <<k, n>> \in Units(new, asked)
        BY <1>2, <2>1
      <3>2. ASSUME NEW u \in Units(totals, asked) PROVE u \in Units(new, asked)
        <4>1. PICK j \in asked \cap DOMAIN totals : \E m \in 1..totals[j] : u = <<j, m>>
          BY <1>2
        <4>2. PICK m \in 1..totals[j] : u = <<j, m>>
          BY <4>1
        <4>3. j \in DOMAIN new /\ m \in 1..new[j]
          <5>1. CASE j # k
            BY <2>2, <5>1
          <5>2. CASE j = k
            BY <2>1, <5>2 DEF FindBy
          <5> QED
            BY <5>1, <5>2
        <4> QED
          BY <1>2, <4>2, <4>3
      <3> QED
        BY <3>1, <3>2
    <2> HIDE DEF n
    <2> QED
      BY <2>3, <2>4, <2>5, FS_AddElement
  <1>5. Cardinality(Units(totals, asked)) \in Nat
    BY FS_CardinalityType
  <1> QED
    BY <1>3, <1>4, <1>5 DEF new

-----------------------------------------------------------------------------
(* Messages *)

\* A list asks for the identities that a message is counted under: for one of them if
\* the message is of the list, else for none.
LEMMA ListIdentitiesOfMessage ==
    ASSUME NEW m \in MessageRow, NEW filter \in MessageFilters, NEW types \in SUBSET MessageTypes
    PROVE  /\ HasFilter(m, filter, types) =>
                 \E k : ListIdentities(filter, types) \cap MessageIdentities(m) = {k}
           /\ ~HasFilter(m, filter, types) =>
                 ListIdentities(filter, types) \cap MessageIdentities(m) = {}
  <1> DEFINE F(type) == <<filter[1], filter[2], filter[3], type>>
             asked == IF types = {} THEN {Dash} ELSE types
  <1>1. \A k : k \in ListIdentities(filter, types) <=> \E type \in asked : k = F(type)
    BY DEF ListIdentities
  <1>2. \A type : F(type) \in MessageIdentities(m) <=>
           /\ Asked(filter[1], m.drop) /\ Asked(filter[2], m.denom) /\ Asked(filter[3], m.token)
           /\ type \in {Dash, m.type}
    BY DEF MessageIdentities, Identities, Asked
  <1>3. m.type \in MessageTypes /\ Dash \notin MessageTypes
    BY DashAssumption DEF MessageRow
  <1>4. \A type \in asked : type \in {Dash, m.type} <=> types = {} \/ type = m.type
    BY <1>3
  <1>5. \A type, other : F(type) = F(other) => type = other
    OBVIOUS
  <1>6. CASE HasFilter(m, filter, types)
    <2>1. PICK type \in asked : type \in {Dash, m.type}
      BY <1>6 DEF HasFilter
    <2>2. F(type) \in ListIdentities(filter, types) \cap MessageIdentities(m)
      BY <1>1, <1>2, <1>6, <2>1 DEF HasFilter
    <2>3. ASSUME NEW k \in ListIdentities(filter, types) \cap MessageIdentities(m)
          PROVE  k = F(type)
      <3>1. PICK other \in asked : k = F(other)
        BY <1>1, <2>3
      <3>2. other \in {Dash, m.type}
        BY <1>2, <2>3, <3>1
      <3>3. other = type
        BY <1>3, <1>4, <2>1, <3>2
      <3> QED
        BY <3>1, <3>3
    <2> QED
      BY <1>6, <2>2, <2>3
  <1>7. CASE ~HasFilter(m, filter, types)
    <2> SUFFICES ASSUME NEW k \in ListIdentities(filter, types) \cap MessageIdentities(m)
                 PROVE  FALSE
      BY <1>7
    <2>1. PICK type \in asked : k = F(type)
      BY <1>1
    <2>2. /\ Asked(filter[1], m.drop) /\ Asked(filter[2], m.denom) /\ Asked(filter[3], m.token)
          /\ type \in {Dash, m.type}
      BY <1>2, <2>1
    <2> QED
      BY <1>3, <1>4, <1>7, <2>1, <2>2 DEF HasFilter
  <1> QED
    BY <1>6, <1>7

\* What a handler that records its message leaves in the tables of messages.
LEMMA InsertMessageStep ==
    ASSUME TypeOK, MessagesCounted,
           NEW type \in MessageTypes, NEW denom \in Denoms, NEW token \in TokenIds \cup {Nil},
           NEW drop \in Drops \cup {Nil},
           InsertMessage(type, denom, token, drop)
    PROVE  /\ messages' \in Seq(MessageRow) /\ Len(messages') = Len(messages) + 1
           /\ \A i \in DOMAIN messages : i \in DOMAIN messages' /\ messages'[i] = messages[i]
           /\ \A i \in DOMAIN messages' : i \in DOMAIN messages \/ i = Len(messages) + 1
           /\ messages'[Len(messages) + 1] =
                 [type |-> type, denom |-> denom, token |-> token, drop |-> drop, height |-> height]
           /\ \A k \in DOMAIN messageTotals' : messageTotals'[k] \in Nat
           /\ deleted' = deleted /\ deleted' \subseteq DOMAIN messages'
           /\ MessagesCounted'
  <1> DEFINE m == [type |-> type, denom |-> denom, token |-> token, drop |-> drop, height |-> height]
             n == Len(messages) + 1
  <1>1. /\ messages' = Append(messages, m) /\ deleted' = deleted
        /\ messageTotals' = Increment(messageTotals, MessageIdentities(m))
    BY DEF InsertMessage
  <1>2. m \in MessageRow
    BY DEF TypeOK, MessageRow
  <1> HIDE DEF m
  <1>3. /\ messages' \in Seq(MessageRow) /\ Len(messages') = n /\ messages'[n] = m
        /\ n \in DOMAIN messages' /\ n \notin DOMAIN messages
        /\ \A i \in DOMAIN messages : i \in DOMAIN messages' /\ messages'[i] = messages[i]
        /\ \A i \in DOMAIN messages' : i \in DOMAIN messages \/ i = n
    BY <1>1, <1>2 DEF TypeOK
  <1> HIDE DEF n
  <1>4. \A k \in DOMAIN messageTotals' : messageTotals'[k] \in Nat
    BY <1>1 DEF Increment, TypeOK
  <1>5. deleted' \subseteq DOMAIN messages'
    BY <1>1, <1>3 DEF TypeOK
  <1>6. MessagesCounted'
    <2> SUFFICES ASSUME NEW filter \in MessageFilters, NEW types \in SUBSET MessageTypes
                 PROVE  /\ IsFiniteSet(Units(messageTotals', ListIdentities(filter, types)))
                        /\ Cardinality(Units(messageTotals', ListIdentities(filter, types))) =
                              Cardinality(Inserted(filter, types)')
      BY DEF MessagesCounted
    <2> DEFINE asked == ListIdentities(filter, types)
               old == Inserted(filter, types)
    <2>1. /\ IsFiniteSet(Units(messageTotals, asked))
          /\ Cardinality(Units(messageTotals, asked)) = Cardinality(old)
      BY DEF MessagesCounted
    <2>2. IsFiniteSet(old)
      <3>1. DOMAIN messages = 1..Len(messages) /\ Len(messages) \in Nat
        BY DEF TypeOK
      <3>2. IsFiniteSet(DOMAIN messages)
        BY <3>1, FS_Interval
      <3>3. old \in SUBSET DOMAIN messages
        BY DEF Inserted
      <3> QED
        BY <3>2, <3>3, FS_Subset
    <2>3. \A k \in DOMAIN messageTotals : messageTotals[k] \in Nat
      BY DEF TypeOK
    <2>4. CASE HasFilter(m, filter, types)
      <3>1. Inserted(filter, types)' = old \cup {n} /\ n \notin old
        BY <1>3, <2>4 DEF Inserted
      <3>2. Cardinality(Inserted(filter, types)') = Cardinality(old) + 1
        BY <2>2, <3>1, FS_AddElement
      <3>3. \E k : asked \cap MessageIdentities(m) = {k}
        BY <1>2, <2>4, ListIdentitiesOfMessage
      <3> QED
        BY <1>1, <2>1, <2>3, <3>2, <3>3, IncrementAddsUnit
    <2>5. CASE ~HasFilter(m, filter, types)
      <3>1. Inserted(filter, types)' = old
        BY <1>3, <2>5 DEF Inserted
      <3>2. asked \cap MessageIdentities(m) = {}
        BY <1>2, <2>5, ListIdentitiesOfMessage
      <3> QED
        BY <1>1, <2>1, <2>3, <3>1, <3>2, IncrementAddsUnit
    <2> QED
      BY <2>4, <2>5
  <1> QED
    BY <1>1, <1>3, <1>4, <1>5, <1>6 DEF m, n

\* The messages of a token once a message is recorded.
LEMMA MessagesOfToken ==
    ASSUME TypeOK, MessagesCounted,
           NEW type \in MessageTypes, NEW denom \in Denoms, NEW token \in TokenIds \cup {Nil},
           NEW drop \in Drops \cup {Nil},
           InsertMessage(type, denom, token, drop), NEW id
    PROVE  /\ MessagesOf(id) \subseteq MessagesOf(id)'
           /\ \A i \in MessagesOf(id)' :
                 i \in MessagesOf(id) \/ (i = Len(messages) + 1 /\ id[1] = denom /\ id[2] = token)
           /\ id[1] = denom /\ id[2] = token => Len(messages) + 1 \in MessagesOf(id)'
  <1>1. /\ messages' \in Seq(MessageRow) /\ Len(messages') = Len(messages) + 1
        /\ \A i \in DOMAIN messages : i \in DOMAIN messages' /\ messages'[i] = messages[i]
        /\ \A i \in DOMAIN messages' : i \in DOMAIN messages \/ i = Len(messages) + 1
        /\ deleted' = deleted
    BY InsertMessageStep
  <1>2. messages'[Len(messages) + 1] =
           [type |-> type, denom |-> denom, token |-> token, drop |-> drop, height |-> height]
    BY InsertMessageStep
  <1>3. /\ messages'[Len(messages) + 1].denom = denom
        /\ messages'[Len(messages) + 1].token = token
    BY <1>2
  <1>4. Len(messages) + 1 \in DOMAIN messages' /\ Len(messages) + 1 \notin deleted
    BY <1>1 DEF TypeOK
  <1> QED
    BY <1>1, <1>3, <1>4 DEF MessagesOf, MessageRows

-----------------------------------------------------------------------------
(* Tokens *)

\* A token, with its row, is in the list of a filter.
Matches(id, row, filter) ==
    /\ Asked(filter[1], id[1]) /\ Asked(filter[2], row.drop)
    /\ Asked(filter[3], row.minter) /\ Asked(filter[4], row.owner)

\* A row is counted under the filters whose lists it is in, and moved with those of
\* its owner.
LEMMA FiltersOfToken ==
    ASSUME NEW id, NEW denom, denom = id[1], NEW row \in TokenRow, NEW filter \in TokenFilters
    PROVE  /\ filter \in TokenIdentities(denom, row) <=> Matches(id, row, filter)
           /\ filter \in OwnerIdentities(denom, row) <=>
                 Matches(id, row, filter) /\ filter[4] = row.owner
           /\ row.owner # Dash
  <1>1. filter \in TokenIdentities(denom, row) <=> Matches(id, row, filter)
    BY DEF TokenFilters, TokenIdentities, Identities, Matches, Asked
  <1>2. row.owner # Dash
    BY DashAssumption DEF TokenRow
  <1> QED
    BY <1>1, <1>2 DEF OwnerIdentities

\* The list of a filter is finite.
LEMMA TokensOfFilter ==
    ASSUME TypeOK, NEW filter
    PROVE  /\ TokensList(filter).rows = {id \in DOMAIN tokens : Matches(id, tokens[id], filter)}
           /\ IsFiniteSet(TokensList(filter).rows)
           /\ Cardinality(TokensList(filter).rows) \in Nat
  <1>1. TokensList(filter).rows = {id \in DOMAIN tokens : Matches(id, tokens[id], filter)}
    BY DEF TokensList, Matches
  <1>2. TokensList(filter).rows \in SUBSET DOMAIN tokens
    BY <1>1
  <1>3. IsFiniteSet(TokensList(filter).rows)
    BY <1>2, FS_Subset DEF TypeOK
  <1> QED
    BY <1>1, <1>3, FS_CardinalityType

\* A token that is minted is counted in the lists it comes into.
LEMMA MintCounts ==
    ASSUME TypeOK, TokensCounted, enableDrop' = enableDrop,
           NEW id, id \notin DOMAIN tokens, NEW row \in TokenRow, NEW denom, denom = id[1],
           DOMAIN tokens' = DOMAIN tokens \cup {id}, tokens'[id] = row,
           \A other \in DOMAIN tokens : tokens'[other] = tokens[other],
           tokenTotals' = Increment(tokenTotals, TokenIdentities(denom, row))
    PROVE  TokensCounted'
  <1> SUFFICES ASSUME NEW filter \in TokenFilters, Kept(filter)
               PROVE  FindBy(tokenTotals', filter) = Cardinality(TokensList(filter).rows')
    BY DEF TokensCounted, Kept
  <1> DEFINE rows == TokensList(filter).rows
             added == TokenIdentities(denom, row)
  <1>1. /\ rows = {other \in DOMAIN tokens : Matches(other, tokens[other], filter)}
        /\ IsFiniteSet(rows) /\ Cardinality(rows) \in Nat
    BY TokensOfFilter
  <1>2. rows' = {other \in DOMAIN tokens' : Matches(other, tokens'[other], filter)}
    BY DEF TokensList, Matches
  <1>3. FindBy(tokenTotals, filter) = Cardinality(rows)
    BY DEF TokensCounted
  <1>4. /\ tokenTotals' = Increment(tokenTotals, added)
        /\ \A k \in DOMAIN tokenTotals : tokenTotals[k] \in Int
        /\ filter \in added <=> Matches(id, row, filter)
    BY FiltersOfToken DEF TypeOK
  <1> HIDE DEF rows, added
  <1>5. FindBy(tokenTotals', filter) = Cardinality(rows) + IF filter \in added THEN 1 ELSE 0
    <2>1. FindBy(Increment(tokenTotals, added), filter) =
             FindBy(tokenTotals, filter) + IF filter \in added THEN 1 ELSE 0
      BY <1>4, IncrementCounts
    <2> QED
      BY <1>3, <1>4, <2>1
  <1>6. CASE Matches(id, row, filter)
    <2>1. rows' = rows \cup {id} /\ id \notin rows
      BY <1>1, <1>2, <1>6
    <2> QED
      BY <1>1, <1>4, <1>5, <1>6, <2>1, FS_AddElement DEF rows
  <1>7. CASE ~Matches(id, row, filter)
    <2>1. rows' = rows
      BY <1>1, <1>2, <1>7
    <2> QED
      BY <1>1, <1>4, <1>5, <1>7, <2>1 DEF rows
  <1> QED
    BY <1>6, <1>7

\* A token that is burnt is subtracted from the lists it was in.
LEMMA BurnCounts ==
    ASSUME TypeOK, TokensCounted, enableDrop' = enableDrop,
           NEW id \in DOMAIN tokens, DOMAIN tokens' = DOMAIN tokens \ {id},
           NEW denom, denom = id[1], NEW row, row = tokens[id],
           \A other \in DOMAIN tokens \ {id} : tokens'[other] = tokens[other],
           tokenTotals' = Decrement(tokenTotals, TokenIdentities(denom, row))
    PROVE  TokensCounted'
  <1> SUFFICES ASSUME NEW filter \in TokenFilters, Kept(filter)
               PROVE  FindBy(tokenTotals', filter) = Cardinality(TokensList(filter).rows')
    BY DEF TokensCounted, Kept
  <1> DEFINE rows == TokensList(filter).rows
             gone == TokenIdentities(denom, row)
  <1>1. /\ rows = {other \in DOMAIN tokens : Matches(other, tokens[other], filter)}
        /\ IsFiniteSet(rows) /\ Cardinality(rows) \in Nat
    BY TokensOfFilter
  <1>2. rows' = {other \in DOMAIN tokens' : Matches(other, tokens'[other], filter)}
    BY DEF TokensList, Matches
  <1>3. FindBy(tokenTotals, filter) = Cardinality(rows)
    BY DEF TokensCounted
  <1>4. /\ tokenTotals' = Decrement(tokenTotals, gone)
        /\ \A k \in DOMAIN tokenTotals : tokenTotals[k] \in Int
        /\ filter \in gone <=> Matches(id, row, filter)
    BY FiltersOfToken DEF TypeOK
  <1> HIDE DEF rows, gone
  <1>5. CASE Matches(id, row, filter)
    <2>1. rows' = rows \ {id} /\ id \in rows
      BY <1>1, <1>2, <1>5
    <2>2. Cardinality(rows) # 0 /\ Cardinality(rows') = Cardinality(rows) - 1
      BY <1>1, <2>1, FS_RemoveElement, FS_EmptySet
    <2>3. FindBy(tokenTotals', filter) = FindBy(tokenTotals, filter) - 1
      BY <1>3, <1>4, <1>5, <2>2, DecrementCounts
    <2> QED
      BY <1>3, <2>2, <2>3 DEF rows
  <1>6. CASE ~Matches(id, row, filter)
    <2>1. rows' = rows
      BY <1>1, <1>2, <1>6
    <2>2. FindBy(Decrement(tokenTotals, gone), filter) = FindBy(tokenTotals, filter)
      <3>1. filter \notin gone
        BY <1>4, <1>6
      <3>2. \A k : FindBy(tokenTotals, k) # 0 \/ k \notin gone =>
               FindBy(Decrement(tokenTotals, gone), k) =
                  FindBy(tokenTotals, k) - IF k \in gone THEN 1 ELSE 0
        BY <1>4, DecrementCounts
      <3> QED
        BY <1>1, <1>3, <3>1, <3>2
    <2> QED
      BY <1>3, <1>4, <2>1, <2>2 DEF rows
  <1> QED
    BY <1>5, <1>6

\* A token that is edited or transferred is moved from the lists of its old row to those
\* of the new one, although the totals of its old and its new owner alone are changed.
LEMMA UpdateCounts ==
    ASSUME TypeOK, TokensCounted, enableDrop' = enableDrop,
           NEW id \in DOMAIN tokens, NEW denom, denom = id[1], NEW old, old = tokens[id],
           NEW row \in TokenRow, row.minter = old.minter, enableDrop \/ row.drop = old.drop,
           UpdateToken(id, row)
    PROVE  TokensCounted'
  <1> SUFFICES ASSUME NEW filter \in TokenFilters, Kept(filter)
               PROVE  FindBy(tokenTotals', filter) = Cardinality(TokensList(filter).rows')
    BY DEF TokensCounted, Kept
  <1> DEFINE rows == TokensList(filter).rows
             from == OwnerIdentities(denom, old)
             to == OwnerIdentities(denom, row)
             less == Decrement(tokenTotals, from)
  <1>1. /\ rows = {other \in DOMAIN tokens : Matches(other, tokens[other], filter)}
        /\ IsFiniteSet(rows) /\ Cardinality(rows) \in Nat
    BY TokensOfFilter
  <1>2. rows' = {other \in DOMAIN tokens' : Matches(other, tokens'[other], filter)}
    BY DEF TokensList, Matches
  <1>3. /\ DOMAIN tokens' = DOMAIN tokens /\ tokens'[id] = row
        /\ \A other \in DOMAIN tokens \ {id} : tokens'[other] = tokens[other]
    BY DEF UpdateToken
  <1>4. FindBy(tokenTotals, filter) = Cardinality(rows)
    BY DEF TokensCounted
  <1>5. old \in TokenRow /\ \A k \in DOMAIN tokenTotals : tokenTotals[k] \in Int
    BY DEF TypeOK
  <1>6. tokenTotals' = Increment(less, to)
    BY DEF UpdateToken
  <1>7. /\ filter \in from <=> Matches(id, old, filter) /\ filter[4] = old.owner
        /\ filter \in to <=> Matches(id, row, filter) /\ filter[4] = row.owner
        /\ old.owner # Dash /\ row.owner # Dash
    <2>1. /\ filter \in from <=> Matches(id, old, filter) /\ filter[4] = old.owner
          /\ old.owner # Dash
      BY <1>5, FiltersOfToken
    <2>2. /\ filter \in to <=> Matches(id, row, filter) /\ filter[4] = row.owner
          /\ row.owner # Dash
      BY FiltersOfToken
    <2> QED
      BY <2>1, <2>2
  <1> HIDE DEF rows, less, from, to
  <1>8. \A k \in DOMAIN less : less[k] \in Int
    BY <1>5, DecrementCounts DEF less
  <1>9. FindBy(tokenTotals', filter) = FindBy(less, filter) + IF filter \in to THEN 1 ELSE 0
    <2>1. \A k : FindBy(Increment(less, to), k) = FindBy(less, k) + IF k \in to THEN 1 ELSE 0
      BY <1>8, IncrementCounts
    <2> QED
      BY <1>6, <2>1
  <1>10. FindBy(tokenTotals, filter) # 0 \/ filter \notin from =>
           FindBy(less, filter) = FindBy(tokenTotals, filter) - IF filter \in from THEN 1 ELSE 0
    <2>1. \A k : FindBy(tokenTotals, k) # 0 \/ k \notin from =>
             FindBy(Decrement(tokenTotals, from), k) =
                FindBy(tokenTotals, k) - IF k \in from THEN 1 ELSE 0
      BY <1>5, DecrementCounts
    <2> QED
      BY <2>1 DEF less
  <1>11. CASE filter[4] = Dash
    <2>1. FindBy(tokenTotals', filter) = Cardinality(rows)
      BY <1>1, <1>4, <1>7, <1>9, <1>10, <1>11
    <2>2. Matches(id, old, filter) <=> Matches(id, row, filter)
      BY <1>11 DEF Matches, Asked, Kept
    <2>3. rows' = rows
      BY <1>1, <1>2, <1>3, <2>2
    <2> QED
      BY <2>1, <2>3 DEF rows
  <1>12. CASE filter[4] # Dash
    <2>1. /\ filter \in from <=> Matches(id, old, filter)
          /\ filter \in to <=> Matches(id, row, filter)
      BY <1>7, <1>12 DEF Matches, Asked
    <2>2. CASE Matches(id, old, filter) /\ Matches(id, row, filter)
      <3>1. rows' = rows /\ id \in rows
        BY <1>1, <1>2, <1>3, <2>2
      <3>2. Cardinality(rows) # 0
        BY <1>1, <3>1, FS_EmptySet
      <3> QED
        BY <1>1, <1>4, <1>9, <1>10, <2>1, <2>2, <3>1, <3>2 DEF rows
    <2>3. CASE Matches(id, old, filter) /\ ~Matches(id, row, filter)
      <3>1. rows' = rows \ {id} /\ id \in rows
        BY <1>1, <1>2, <1>3, <2>3
      <3>2. Cardinality(rows) # 0 /\ Cardinality(rows') = Cardinality(rows) - 1
        BY <1>1, <3>1, FS_RemoveElement, FS_EmptySet
      <3> QED
        BY <1>1, <1>4, <1>9, <1>10, <2>1, <2>3, <3>2 DEF rows
    <2>4. CASE ~Matches(id, old, filter) /\ Matches(id, row, filter)
      <3>1. rows' = rows \cup {id} /\ id \notin rows
        BY <1>1, <1>2, <1>3, <2>4
      <3>2. Cardinality(rows') = Cardinality(rows) + 1
        BY <1>1, <3>1, FS_AddElement
      <3> QED
        BY <1>1, <1>4, <1>9, <1>10, <2>1, <2>4, <3>2 DEF rows
    <2>5. CASE ~Matches(id, old, filter) /\ ~Matches(id, row, filter)
      <3>1. rows' = rows
        BY <1>1, <1>2, <1>3, <2>5
      <3> QED
        BY <1>1, <1>4, <1>9, <1>10, <2>1, <2>5, <3>1 DEF rows
    <2> QED
      BY <2>2, <2>3, <2>4, <2>5
  <1> QED
    BY <1>11, <1>12

-----------------------------------------------------------------------------
(* The dates of tokens *)

\* A message leaves the dates of a token as they are, unless it is one of its own and
\* of the types asked for: then it is the newest.
LEMMA DatesAfterMessage ==
    ASSUME TypeOK, MessagesCounted, TokensHaveMessages, height' = height,
           NEW type \in MessageTypes, NEW denom \in Denoms, NEW token \in TokenIds \cup {Nil},
           NEW drop \in Drops \cup {Nil},
           InsertMessage(type, denom, token, drop), NEW id, NEW types
    PROVE  /\ \A i \in DOMAIN messages' : messages'[i].height <= height'
           /\ id[1] # denom \/ id[2] # token \/ type \notin types =>
                 \A date : IsNewest(date, id, types) => IsNewest(date, id, types)'
           /\ id[1] = denom /\ id[2] = token /\ type \in types => IsNewest(height, id, types)'
  <1> DEFINE n == Len(messages) + 1
  <1>1. /\ \A i \in DOMAIN messages : messages'[i] = messages[i]
        /\ \A i \in DOMAIN messages' : i \in DOMAIN messages \/ i = n
    BY InsertMessageStep
  <1>2. messages'[n].type = type /\ messages'[n].height = height
    <2>1. messages'[n] =
             [type |-> type, denom |-> denom, token |-> token, drop |-> drop, height |-> height]
      BY InsertMessageStep
    <2> QED
      BY <2>1
  <1>3. /\ MessagesOf(id) \subseteq MessagesOf(id)'
        /\ \A i \in MessagesOf(id)' :
              i \in MessagesOf(id) \/ (i = n /\ id[1] = denom /\ id[2] = token)
        /\ id[1] = denom /\ id[2] = token => n \in MessagesOf(id)'
    BY MessagesOfToken
  <1>4. MessagesOf(id) \subseteq DOMAIN messages
    BY DEF MessagesOf, MessageRows
  <1>5. \A i \in DOMAIN messages : messages[i].height <= height
    BY DEF TokensHaveMessages
  <1>6. height \in Nat
    BY DEF TypeOK
  <1> HIDE DEF n
  <1>7. \A i \in DOMAIN messages' : messages'[i].height <= height'
    BY <1>1, <1>2, <1>5, <1>6
  <1>8. ASSUME id[1] # denom \/ id[2] # token \/ type \notin types,
               NEW date, IsNewest(date, id, types)
        PROVE  IsNewest(date, id, types)'
    <2>1. \E i \in MessagesOf(id)' : messages'[i].type \in types /\ messages'[i].height = date
      BY <1>1, <1>3, <1>4, <1>8 DEF IsNewest
    <2>2. ASSUME NEW i \in MessagesOf(id)', messages'[i].type \in types
          PROVE  messages'[i].height <= date
      <3>1. i \in MessagesOf(id)
        BY <1>2, <1>3, <1>8, <2>2
      <3> QED
        BY <1>1, <1>4, <1>8, <2>2, <3>1 DEF IsNewest
    <2> QED
      BY <2>1, <2>2 DEF IsNewest
  <1>9. ASSUME id[1] = denom, id[2] = token, type \in types
        PROVE  IsNewest(height, id, types)'
    <2>1. \E i \in MessagesOf(id)' : messages'[i].type \in types /\ messages'[i].height = height
      BY <1>2, <1>3, <1>9
    <2>2. \A i \in MessagesOf(id)' : messages'[i].height <= height
      BY <1>1, <1>2, <1>3, <1>4, <1>5, <1>6
    <2> QED
      BY <2>1, <2>2 DEF IsNewest
  <1> QED
    BY <1>7, <1>8, <1>9

\* A message of a token dates the token, and no other one.
LEMMA TokensAfterMessage ==
    ASSUME TypeOK, MessagesCounted, TokensHaveMessages, height' = height,
           NEW type \in MessageTypes \ {"IssueDenom"}, NEW id \in Denoms \X TokenIds,
           NEW denom, denom = id[1], NEW token, token = id[2], NEW drop \in Drops \cup {Nil},
           InsertMessage(type, denom, token, drop),
           DOMAIN tokens' = DOMAIN tokens \cup {id}, type # "Mint" => id \in DOMAIN tokens,
           \A other \in DOMAIN tokens \ {id} : tokens'[other] = tokens[other],
           tokens'[id].editedAt = IF type = "Transfer" THEN tokens[id].editedAt ELSE height,
           tokens'[id].transferredAt = IF type = "Edit" THEN tokens[id].transferredAt ELSE height
    PROVE  TokensHaveMessages'
  <1>1. denom \in Denoms /\ token \in TokenIds \cup {Nil} /\ id = <<denom, token>>
    OBVIOUS
  <1>2. type \in {"Mint", "Edit", "Transfer"}
    BY DEF MessageTypes
  <1>3. \A i \in DOMAIN messages' : messages'[i].height <= height'
    BY <1>1, DatesAfterMessage
  <1>4. ASSUME NEW other \in DOMAIN tokens'
        PROVE  /\ IsNewest(tokens[other].editedAt, other, {"Mint", "Edit"})'
               /\ IsNewest(tokens[other].transferredAt, other, {"Mint", "Transfer"})'
    <2>1. /\ other[1] # denom \/ other[2] # token \/ type \notin {"Mint", "Edit"} =>
                \A date : IsNewest(date, other, {"Mint", "Edit"}) =>
                             IsNewest(date, other, {"Mint", "Edit"})'
          /\ other[1] = denom /\ other[2] = token /\ type \in {"Mint", "Edit"} =>
                IsNewest(height, other, {"Mint", "Edit"})'
      BY <1>1, DatesAfterMessage
    <2>2. /\ other[1] # denom \/ other[2] # token \/ type \notin {"Mint", "Transfer"} =>
                \A date : IsNewest(date, other, {"Mint", "Transfer"}) =>
                             IsNewest(date, other, {"Mint", "Transfer"})'
          /\ other[1] = denom /\ other[2] = token /\ type \in {"Mint", "Transfer"} =>
                IsNewest(height, other, {"Mint", "Transfer"})'
      BY <1>1, DatesAfterMessage
    <2>3. other \in DOMAIN tokens =>
             /\ IsNewest(tokens[other].editedAt, other, {"Mint", "Edit"})
             /\ IsNewest(tokens[other].transferredAt, other, {"Mint", "Transfer"})
      BY DEF TokensHaveMessages
    <2>4. other \in Denoms \X TokenIds
      BY <1>4 DEF TypeOK
    <2>5. CASE other = id
      <3>1. PICK edited, transferred :
               edited = tokens'[id].editedAt /\ transferred = tokens'[id].transferredAt
        OBVIOUS
      <3>2. IsNewest(edited, other, {"Mint", "Edit"})'
        <4>1. CASE type = "Transfer"
          BY <1>2, <2>1, <2>3, <2>5, <3>1, <4>1
        <4>2. CASE type # "Transfer"
          BY <1>1, <1>2, <2>1, <2>5, <3>1, <4>2
        <4> QED
          BY <4>1, <4>2
      <3>3. IsNewest(transferred, other, {"Mint", "Transfer"})'
        <4>1. CASE type = "Edit"
          BY <1>2, <2>2, <2>3, <2>5, <3>1, <4>1
        <4>2. CASE type # "Edit"
          BY <1>1, <1>2, <2>2, <2>5, <3>1, <4>2
        <4> QED
          BY <4>1, <4>2
      <3> QED
        BY <2>5, <3>1, <3>2, <3>3 DEF IsNewest
    <2>6. CASE other # id
      <3>1. other \in DOMAIN tokens /\ tokens'[other] = tokens[other]
        BY <1>4, <2>6
      <3>2. other[1] # denom \/ other[2] # token
        BY <1>1, <2>4, <2>6
      <3> QED
        BY <2>1, <2>2, <2>3, <3>1, <3>2
    <2> QED
      BY <2>5, <2>6
  <1>5. ASSUME NEW other \in (Denoms \X TokenIds) \ DOMAIN tokens', NEW i \in MessagesOf(other)'
        PROVE  messages'[i].type = "IssueDenom"
    <2>1. other \notin DOMAIN tokens /\ (other[1] # denom \/ other[2] # token)
      BY <1>1, <1>5
    <2>2. i \in MessagesOf(other)
      BY <1>1, <1>5, <2>1, MessagesOfToken
    <2>3. i \in DOMAIN messages /\ messages[i].type = "IssueDenom"
      BY <2>1, <2>2 DEF MessagesOf, MessageRows, TokensHaveMessages
    <2>4. messages'[i] = messages[i]
      BY <1>1, <2>3, InsertMessageStep
    <2> QED
      BY <2>3, <2>4
  <1> QED
    BY <1>3, <1>4, <1>5 DEF TokensHaveMessages

-----------------------------------------------------------------------------
(* The steps *)

\* A drop from the data of a message is one of the names or the one the token had.
LEMMA DropOfToken ==
    ASSUME NEW drop \in Drops \cup {Nil}, NEW otherwise \in Drops \cup {Nil}
    PROVE  /\ DropOf(drop, otherwise) \in Drops \cup {Nil}
           /\ ~enableDrop => DropOf(drop, otherwise) = otherwise
  BY DEF DropOf

\* The counts of tokens depend on the tokens and their totals only.
LEMMA TokensKept ==
    ASSUME TokensCounted, UNCHANGED <<enableDrop, tokens, tokenTotals>>
    PROVE  TokensCounted'
  BY DEF TokensCounted, Kept, TokensList, FindBy, Asked

LEMMA IssueDenomStep ==
    ASSUME IndInv, NEW denom \in Denoms, NEW sender \in Accounts, IssueDenom(denom, sender)
    PROVE  IndInv'
  <1>1. InsertMessage("IssueDenom", denom, Nil, Nil)
    BY DEF IssueDenom
  <1>2. /\ UNCHANGED <<enableDrop, height, tokens, tokenTotals>>
        /\ denoms' = Append(denoms, [id |-> denom, creator |-> sender])
        /\ denomTotals' = Increment(denomTotals, {Dash, denom})
    BY DEF IssueDenom
  <1>3. "IssueDenom" \in MessageTypes
    BY DEF MessageTypes
  <1>4. /\ TypeOK /\ DropsDisabled /\ DenomsCounted /\ TokensCounted /\ MessagesCounted
        /\ TokensHaveMessages
    BY DEF IndInv
  <1>5. /\ messages' \in Seq(MessageRow)
        /\ \A k \in DOMAIN messageTotals' : messageTotals'[k] \in Nat
        /\ deleted' \subseteq DOMAIN messages'
        /\ MessagesCounted'
    BY <1>1, <1>3, <1>4, InsertMessageStep
  <1>6. \A k \in DOMAIN denomTotals : denomTotals[k] \in Int
    BY <1>4 DEF TypeOK
  <1>7. denoms' \in Seq(DenomRow) /\ Len(denoms') = Len(denoms) + 1
    BY <1>2, <1>4 DEF TypeOK, DenomRow
  <1>8. TypeOK'
    <2>1. \A k \in DOMAIN denomTotals' : denomTotals'[k] \in Int
      BY <1>2, <1>6, IncrementCounts
    <2> QED
      BY <1>2, <1>4, <1>5, <1>7, <2>1 DEF TypeOK
  <1>9. DropsDisabled'
    BY <1>2, <1>4 DEF DropsDisabled
  <1>10. DenomsCounted'
    <2>1. \A k : FindBy(Increment(denomTotals, {Dash, denom}), k) =
                    FindBy(denomTotals, k) + IF k \in {Dash, denom} THEN 1 ELSE 0
      BY <1>6, IncrementCounts
    <2>2. FindBy(denomTotals', Dash) = FindBy(denomTotals, Dash) + 1
      BY <1>2, <2>1
    <2> QED
      BY <1>4, <1>7, <2>2 DEF DenomsCounted
  <1>11. TokensCounted'
    BY <1>2, <1>4, TokensKept
  <1>12. TokensHaveMessages'
    <2>1. \A i \in DOMAIN messages' : messages'[i].height <= height'
      BY <1>1, <1>2, <1>3, <1>4, DatesAfterMessage
    <2>2. ASSUME NEW id \in DOMAIN tokens'
          PROVE  /\ IsNewest(tokens[id].editedAt, id, {"Mint", "Edit"})'
                 /\ IsNewest(tokens[id].transferredAt, id, {"Mint", "Transfer"})'
      <3>1. /\ \A date : IsNewest(date, id, {"Mint", "Edit"}) =>
                            IsNewest(date, id, {"Mint", "Edit"})'
            /\ \A date : IsNewest(date, id, {"Mint", "Transfer"}) =>
                            IsNewest(date, id, {"Mint", "Transfer"})'
        <4>1. \A date : IsNewest(date, id, {"Mint", "Edit"}) =>
                           IsNewest(date, id, {"Mint", "Edit"})'
          BY <1>1, <1>2, <1>3, <1>4, DatesAfterMessage
        <4>2. \A date : IsNewest(date, id, {"Mint", "Transfer"}) =>
                           IsNewest(date, id, {"Mint", "Transfer"})'
          BY <1>1, <1>2, <1>3, <1>4, DatesAfterMessage
        <4> QED
          BY <4>1, <4>2
      <3>2. PICK edited, transferred :
               edited = tokens[id].editedAt /\ transferred = tokens[id].transferredAt
        OBVIOUS
      <3>3. IsNewest(edited, id, {"Mint", "Edit"}) /\ IsNewest(transferred, id, {"Mint", "Transfer"})
        BY <1>2, <1>4, <2>2, <3>2 DEF TokensHaveMessages
      <3>4. IsNewest(edited, id, {"Mint", "Edit"})' /\ IsNewest(transferred, id, {"Mint", "Transfer"})'
        BY <3>1, <3>3
      <3> QED
        BY <1>2, <3>2, <3>4 DEF IsNewest
    <2>3. ASSUME NEW id \in (Denoms \X TokenIds) \ DOMAIN tokens', NEW i \in MessagesOf(id)'
          PROVE  messages'[i].type = "IssueDenom"
      <3>1. i \in MessagesOf(id) \/ i = Len(messages) + 1
        BY <1>1, <1>3, <1>4, <2>3, MessagesOfToken
      <3>2. CASE i \in MessagesOf(id)
        <4>1. i \in DOMAIN messages /\ messages[i].type = "IssueDenom"
          BY <1>2, <1>4, <2>3, <3>2 DEF MessagesOf, MessageRows, TokensHaveMessages
        <4>2. messages'[i] = messages[i]
          BY <1>1, <1>3, <1>4, <4>1, InsertMessageStep
        <4> QED
          BY <4>1, <4>2
      <3>3. CASE i = Len(messages) + 1
        <4>1. messages'[Len(messages) + 1] = [type |-> "IssueDenom", denom |-> denom,
                                             token |-> Nil, drop |-> Nil, height |-> height]
          BY <1>1, <1>3, <1>4, InsertMessageStep
        <4> QED
          BY <3>3, <4>1
      <3> QED
        BY <3>1, <3>2, <3>3
    <2> QED
      BY <2>1, <2>2, <2>3 DEF TokensHaveMessages
  <1> QED
    BY <1>5, <1>8, <1>9, <1>10, <1>11, <1>12 DEF IndInv

LEMMA MintStep ==
    ASSUME IndInv, NEW denom \in Denoms, NEW token \in TokenIds, NEW minter \in Accounts,
           NEW owner \in Accounts, NEW drop \in Drops \cup {Nil},
           Mint(denom, token, minter, owner, drop)
    PROVE  IndInv'
  <1> DEFINE row == Token(DropOf(drop, Nil), minter, owner, height, height)
             id == <<denom, token>>
             added == TokenIdentities(denom, row)
  <1>1. /\ UNCHANGED <<enableDrop, height, denoms, denomTotals>> /\ id \notin DOMAIN tokens
        /\ tokens' = [k \in DOMAIN tokens \cup {id} |-> IF k = id THEN row ELSE tokens[k]]
        /\ tokenTotals' = Increment(tokenTotals, added)
        /\ InsertMessage("Mint", denom, token, row.drop)
    BY DEF Mint
  <1>2. "Mint" \in MessageTypes
    BY DEF MessageTypes
  <1>3. /\ TypeOK /\ DropsDisabled /\ DenomsCounted /\ TokensCounted /\ MessagesCounted
        /\ TokensHaveMessages
    BY DEF IndInv
  <1>4. row \in TokenRow /\ (~enableDrop => row.drop = Nil)
    BY <1>3, DropOfToken DEF Token, TokenRow, TypeOK
  <1>5. row.editedAt = height /\ row.transferredAt = height /\ row.drop \in Drops \cup {Nil}
    BY <1>4 DEF Token, TokenRow
  <1>6. id \in Denoms \X TokenIds /\ denom = id[1] /\ token = id[2]
    OBVIOUS
  <1> HIDE DEF row, added, id
  <1>7. /\ DOMAIN tokens' = DOMAIN tokens \cup {id} /\ tokens'[id] = row
        /\ \A other \in DOMAIN tokens : tokens'[other] = tokens[other]
    BY <1>1
  <1>8. PICK its : its = row.drop
    OBVIOUS
  <1>9. InsertMessage("Mint", denom, token, its) /\ its \in Drops \cup {Nil}
    BY <1>1, <1>5, <1>8
  <1>10. /\ messages' \in Seq(MessageRow)
         /\ \A k \in DOMAIN messageTotals' : messageTotals'[k] \in Nat
         /\ deleted' \subseteq DOMAIN messages'
         /\ MessagesCounted'
    BY <1>2, <1>3, <1>9, InsertMessageStep
  <1>11. TypeOK'
    <2>1. \A k \in DOMAIN tokenTotals : tokenTotals[k] \in Int
      BY <1>3 DEF TypeOK
    <2>2. \A k \in DOMAIN tokenTotals' : tokenTotals'[k] \in Int
      BY <1>1, <2>1, IncrementCounts
    <2>3. IsFiniteSet(DOMAIN tokens')
      BY <1>3, <1>7, FS_AddElement DEF TypeOK
    <2> QED
      BY <1>1, <1>3, <1>4, <1>6, <1>7, <1>10, <2>2, <2>3 DEF TypeOK
  <1>12. DropsDisabled'
    BY <1>1, <1>3, <1>4, <1>7 DEF DropsDisabled
  <1>13. DenomsCounted'
    BY <1>1, <1>3 DEF DenomsCounted, FindBy
  <1>14. TokensCounted'
    BY <1>1, <1>3, <1>4, <1>6, <1>7, MintCounts DEF added
  <1>15. TokensHaveMessages'
    <2>1. /\ tokens'[id].editedAt = height /\ tokens'[id].transferredAt = height
          /\ \A other \in DOMAIN tokens \ {id} : tokens'[other] = tokens[other]
      BY <1>5, <1>7
    <2>2. /\ "Mint" \in MessageTypes \ {"IssueDenom"} /\ ("Mint" # "Mint" => id \in DOMAIN tokens)
          /\ tokens'[id].editedAt = IF "Mint" = "Transfer" THEN tokens[id].editedAt ELSE height
          /\ tokens'[id].transferredAt = IF "Mint" = "Edit" THEN tokens[id].transferredAt ELSE height
      BY <1>2, <2>1
    <2> QED
      BY <1>1, <1>3, <1>6, <1>7, <1>9, <2>1, <2>2, TokensAfterMessage
  <1> QED
    BY <1>10, <1>11, <1>12, <1>13, <1>14, <1>15 DEF IndInv

\* An edit or a transfer: the row of a token is rewritten and a message recorded.
LEMMA UpdateStep ==
    ASSUME IndInv, UNCHANGED <<enableDrop, height, denoms, denomTotals>>,
           NEW id \in DOMAIN tokens, NEW denom, denom = id[1], NEW token, token = id[2],
           NEW old, old = tokens[id],
           NEW row \in TokenRow, row.minter = old.minter, enableDrop \/ row.drop = old.drop,
           NEW type \in {"Edit", "Transfer"}, NEW drop \in Drops \cup {Nil},
           row.editedAt = IF type = "Transfer" THEN old.editedAt ELSE height,
           row.transferredAt = IF type = "Edit" THEN old.transferredAt ELSE height,
           UpdateToken(id, row), InsertMessage(type, denom, token, drop)
    PROVE  IndInv'
  <1>1. type \in MessageTypes /\ type \in MessageTypes \ {"IssueDenom"} /\ type # "Mint"
    BY DEF MessageTypes
  <1>2. /\ TypeOK /\ DropsDisabled /\ DenomsCounted /\ TokensCounted /\ MessagesCounted
        /\ TokensHaveMessages
    BY DEF IndInv
  <1>3. /\ id \in Denoms \X TokenIds /\ denom \in Denoms /\ token \in TokenIds \cup {Nil}
        /\ old \in TokenRow
    BY <1>2 DEF TypeOK
  <1>4. /\ DOMAIN tokens' = DOMAIN tokens /\ tokens'[id] = row
        /\ \A other \in DOMAIN tokens \ {id} : tokens'[other] = tokens[other]
    BY DEF UpdateToken
  <1>5. /\ messages' \in Seq(MessageRow)
        /\ \A k \in DOMAIN messageTotals' : messageTotals'[k] \in Nat
        /\ deleted' \subseteq DOMAIN messages'
        /\ MessagesCounted'
    BY <1>1, <1>2, <1>3, InsertMessageStep
  <1>6. TypeOK'
    <2> DEFINE from == OwnerIdentities(id[1], tokens[id])
               to == OwnerIdentities(id[1], row)
               less == Decrement(tokenTotals, from)
    <2>1. tokenTotals' = Increment(less, to)
      BY DEF UpdateToken
    <2>2. \A k \in DOMAIN tokenTotals : tokenTotals[k] \in Int
      BY <1>2 DEF TypeOK
    <2> HIDE DEF from, to
    <2>3. \A k \in DOMAIN less : less[k] \in Int
      BY <2>2, DecrementCounts
    <2> HIDE DEF less
    <2>4. \A k \in DOMAIN tokenTotals' : tokenTotals'[k] \in Int
      BY <2>1, <2>3, IncrementCounts
    <2> QED
      BY <1>2, <1>4, <1>5, <2>4 DEF TypeOK
  <1>7. DropsDisabled'
    BY <1>2, <1>4 DEF DropsDisabled
  <1>8. DenomsCounted'
    BY <1>2 DEF DenomsCounted, FindBy
  <1>9. TokensCounted'
    BY <1>2, UpdateCounts
  <1>10. TokensHaveMessages'
    <2>1. /\ DOMAIN tokens' = DOMAIN tokens \cup {id}
          /\ tokens'[id].editedAt = IF type = "Transfer" THEN tokens[id].editedAt ELSE height
          /\ tokens'[id].transferredAt = IF type = "Edit" THEN tokens[id].transferredAt ELSE height
      BY <1>4
    <2> QED
      BY <1>1, <1>2, <1>3, <1>4, <2>1, TokensAfterMessage
  <1> QED
    BY <1>5, <1>6, <1>7, <1>8, <1>9, <1>10 DEF IndInv

LEMMA EditStep ==
    ASSUME IndInv, NEW id \in Denoms \X TokenIds, NEW drop \in Drops \cup {Nil}, Edit(id, drop)
    PROVE  IndInv'
  <1> DEFINE denom == id[1]
             token == id[2]
             old == tokens[id]
             row == EditedToken(old, drop)
             its == DropOf(drop, old.drop)
  <1>1. /\ id \in DOMAIN tokens /\ UNCHANGED <<enableDrop, height, denoms, denomTotals>>
        /\ UpdateToken(id, row) /\ InsertMessage("Edit", denom, token, its)
    BY DEF Edit
  <1>2. old \in TokenRow /\ height \in Nat
    BY <1>1 DEF IndInv, TypeOK
  <1>3. its \in Drops \cup {Nil} /\ (~enableDrop => its = old.drop)
    BY <1>2, DropOfToken DEF TokenRow
  <1>4. row = [drop |-> its, minter |-> old.minter, owner |-> old.owner,
               editedAt |-> height, transferredAt |-> old.transferredAt]
    BY DEF EditedToken, Token
  <1> HIDE DEF its, row
  <1>5. /\ row \in TokenRow /\ row.minter = old.minter /\ (enableDrop \/ row.drop = old.drop)
        /\ row.editedAt = height /\ row.transferredAt = old.transferredAt
    BY <1>2, <1>3, <1>4 DEF TokenRow
  <1> HIDE DEF denom, token, old
  <1>6. denom = id[1] /\ token = id[2] /\ old = tokens[id]
    BY DEF denom, token, old
  <1>7. /\ "Edit" \in {"Edit", "Transfer"}
        /\ row.editedAt = IF "Edit" = "Transfer" THEN old.editedAt ELSE height
        /\ row.transferredAt = IF "Edit" = "Edit" THEN old.transferredAt ELSE height
    BY <1>5
  <1> QED
    BY <1>1, <1>3, <1>5, <1>6, <1>7, UpdateStep

LEMMA TransferStep ==
    ASSUME IndInv, NEW id \in Denoms \X TokenIds, NEW recipient \in Accounts,
           Transfer(id, recipient)
    PROVE  IndInv'
  <1> DEFINE denom == id[1]
             token == id[2]
             old == tokens[id]
             its == old.drop
             row == Token(its, old.minter, recipient, old.editedAt, height)
  <1>1. /\ id \in DOMAIN tokens /\ UNCHANGED <<enableDrop, height, denoms, denomTotals>>
        /\ UpdateToken(id, row) /\ InsertMessage("Transfer", denom, token, its)
    BY DEF Transfer
  <1>2. old \in TokenRow /\ its \in Drops \cup {Nil} /\ height \in Nat
    BY <1>1 DEF IndInv, TypeOK, TokenRow
  <1>3. row = [drop |-> its, minter |-> old.minter, owner |-> recipient,
               editedAt |-> old.editedAt, transferredAt |-> height]
    BY DEF Token
  <1> HIDE DEF row
  <1>4. /\ row \in TokenRow /\ row.minter = old.minter /\ row.drop = old.drop
        /\ row.editedAt = old.editedAt /\ row.transferredAt = height
    BY <1>2, <1>3 DEF TokenRow
  <1> HIDE DEF denom, token, old, its
  <1>5. denom = id[1] /\ token = id[2] /\ old = tokens[id]
    BY DEF denom, token, old
  <1>6. /\ "Transfer" \in {"Edit", "Transfer"}
        /\ row.editedAt = IF "Transfer" = "Transfer" THEN old.editedAt ELSE height
        /\ row.transferredAt = IF "Transfer" = "Edit" THEN old.transferredAt ELSE height
    BY <1>4
  <1> QED
    BY <1>1, <1>2, <1>4, <1>5, <1>6, UpdateStep

LEMMA BurnStep ==
    ASSUME IndInv, NEW id \in Denoms \X TokenIds, Burn(id)
    PROVE  IndInv'
  <1> DEFINE denom == id[1]
             row == tokens[id]
             gone == TokenIdentities(denom, row)
  <1>1. /\ id \in DOMAIN tokens
        /\ UNCHANGED <<enableDrop, height, denoms, denomTotals, messages, messageTotals>>
        /\ deleted' = deleted \cup MessagesOf(id)
        /\ tokens' = [other \in DOMAIN tokens \ {id} |-> tokens[other]]
        /\ tokenTotals' = Decrement(tokenTotals, gone)
    BY DEF Burn
  <1>2. /\ TypeOK /\ DropsDisabled /\ DenomsCounted /\ TokensCounted /\ MessagesCounted
        /\ TokensHaveMessages
    BY DEF IndInv
  <1>3. /\ DOMAIN tokens' = DOMAIN tokens \ {id}
        /\ \A other \in DOMAIN tokens \ {id} : tokens'[other] = tokens[other]
    BY <1>1
  <1> HIDE DEF gone, row, denom
  <1>4. TypeOK'
    <2>1. \A k \in DOMAIN tokenTotals : tokenTotals[k] \in Int
      BY <1>2 DEF TypeOK
    <2>2. \A k \in DOMAIN tokenTotals' : tokenTotals'[k] \in Int
      BY <1>1, <2>1, DecrementCounts
    <2>3. IsFiniteSet(DOMAIN tokens')
      BY <1>2, <1>3, FS_RemoveElement DEF TypeOK
    <2>4. deleted' \subseteq DOMAIN messages'
      BY <1>1, <1>2 DEF TypeOK, MessagesOf, MessageRows
    <2> QED
      BY <1>1, <1>2, <1>3, <2>2, <2>3, <2>4 DEF TypeOK
  <1>5. DropsDisabled'
    BY <1>1, <1>2, <1>3 DEF DropsDisabled
  <1>6. DenomsCounted'
    BY <1>1, <1>2 DEF DenomsCounted, FindBy
  <1>7. TokensCounted'
    <2>1. denom = id[1] /\ row = tokens[id]
      BY DEF denom, row
    <2>2. tokenTotals' = Decrement(tokenTotals, TokenIdentities(denom, row))
      BY <1>1 DEF gone
    <2> QED
      BY <1>1, <1>2, <1>3, <2>1, <2>2, BurnCounts
  <1>8. MessagesCounted'
    BY <1>1, <1>2 DEF MessagesCounted, Inserted
  <1>9. TokensHaveMessages'
    <2>1. ASSUME NEW other \in Denoms \X TokenIds
          PROVE  MessagesOf(other)' = IF other = id THEN {} ELSE MessagesOf(other)
      <3>1. \A i \in DOMAIN messages : (i \in MessagesOf(id) /\ other # id) =>
               messages[i].denom # other[1] \/ messages[i].token # other[2]
        BY DEF MessagesOf
      <3> QED
        BY <1>1, <3>1 DEF MessagesOf, MessageRows
    <2>2. \A other \in DOMAIN tokens' : MessagesOf(other)' = MessagesOf(other)
      BY <1>2, <1>3, <2>1 DEF TypeOK
    <2>3. ASSUME NEW other \in DOMAIN tokens'
          PROVE  /\ IsNewest(tokens[other].editedAt, other, {"Mint", "Edit"})'
                 /\ IsNewest(tokens[other].transferredAt, other, {"Mint", "Transfer"})'
      <3>1. /\ IsNewest(tokens[other].editedAt, other, {"Mint", "Edit"})
            /\ IsNewest(tokens[other].transferredAt, other, {"Mint", "Transfer"})
        BY <1>2, <1>3, <2>3 DEF TokensHaveMessages
      <3> QED
        BY <1>1, <1>3, <2>2, <2>3, <3>1 DEF IsNewest
    <2>4. \A i \in DOMAIN messages' : messages'[i].height <= height'
      BY <1>1, <1>2 DEF TokensHaveMessages
    <2>5. \A other \in (Denoms \X TokenIds) \ DOMAIN tokens' : \A i \in MessagesOf(other)' :
             messages'[i].type = "IssueDenom"
      BY <1>1, <1>2, <1>3, <2>1 DEF TokensHaveMessages
    <2> QED
      BY <2>3, <2>4, <2>5 DEF TokensHaveMessages
  <1> QED
    BY <1>4, <1>5, <1>6, <1>7, <1>8, <1>9 DEF IndInv

LEMMA NextBlockStep ==
    ASSUME IndInv, NextBlock
    PROVE  IndInv'
  <1>1. /\ UNCHANGED <<enableDrop, denoms, denomTotals, tokens, tokenTotals>>
        /\ UNCHANGED <<messages, messageTotals, deleted>>
        /\ height' \in {height, height + 1}
    BY DEF NextBlock, messageVars
  <1>2. /\ TypeOK /\ DropsDisabled /\ DenomsCounted /\ TokensCounted /\ MessagesCounted
        /\ TokensHaveMessages
    BY DEF IndInv
  <1>3. height' \in Nat /\ height <= height'
    BY <1>1, <1>2 DEF TypeOK
  <1>4. TypeOK'
    BY <1>1, <1>2, <1>3 DEF TypeOK
  <1>5. DropsDisabled' /\ DenomsCounted'
    BY <1>1, <1>2 DEF DropsDisabled, DenomsCounted, FindBy
  <1>6. TokensCounted'
    BY <1>1, <1>2, TokensKept
  <1>7. MessagesCounted'
    BY <1>1, <1>2 DEF MessagesCounted, Inserted
  <1>8. TokensHaveMessages'
    <2>1. \A i \in DOMAIN messages : messages[i].height \in Nat
      <3>1. \A i \in DOMAIN messages : messages[i] \in MessageRow
        BY <1>2 DEF TypeOK
      <3> QED
        BY <3>1 DEF MessageRow
    <2>2. \A i \in DOMAIN messages' : messages'[i].height <= height'
      BY <1>1, <1>2, <1>3, <2>1 DEF TokensHaveMessages, TypeOK
    <2>3. \A id : MessagesOf(id)' = MessagesOf(id)
      BY <1>1 DEF MessagesOf, MessageRows
    <2> QED
      BY <1>1, <1>2, <2>2, <2>3 DEF TokensHaveMessages, IsNewest
  <1> QED
    BY <1>4, <1>5, <1>6, <1>7, <1>8 DEF IndInv

-----------------------------------------------------------------------------
(* The theorems *)

\* The tables start empty.
LEMMA InitialState ==
    ASSUME Init
    PROVE  IndInv
  <1>1. /\ enableDrop \in BOOLEAN /\ height = 0 /\ denoms = << >>
        /\ tokens = << >> /\ messages = << >> /\ deleted = {}
        /\ denomTotals = << >> /\ tokenTotals = << >> /\ messageTotals = << >>
    BY DEF Init
  <1>2. DOMAIN tokens = {} /\ DOMAIN messages = {} /\ DOMAIN messageTotals = {}
        /\ DOMAIN tokenTotals = {} /\ DOMAIN denomTotals = {}
    BY <1>1
  <1>3. IsFiniteSet({}) /\ Cardinality({}) = 0
    BY FS_EmptySet
  <1>4. TypeOK
    BY <1>1, <1>2, <1>3 DEF TypeOK
  <1>5. DropsDisabled
    BY <1>2 DEF DropsDisabled
  <1>6. DenomsCounted
    BY <1>1, <1>2 DEF DenomsCounted, FindBy
  <1>7. TokensCounted
    <2>1. \A filter : TokensList(filter).rows = {}
      BY <1>2 DEF TokensList
    <2> QED
      BY <1>2, <1>3, <2>1 DEF TokensCounted, FindBy
  <1>8. MessagesCounted
    <2>1. \A asked : Units(messageTotals, asked) = {}
      BY <1>2 DEF Units
    <2>2. \A filter, types : Inserted(filter, types) = {}
      BY <1>2 DEF Inserted
    <2> QED
      BY <1>3, <2>1, <2>2 DEF MessagesCounted
  <1>9. TokensHaveMessages
    BY <1>2 DEF TokensHaveMessages, MessagesOf, MessageRows
  <1> QED
    BY <1>4, <1>5, <1>6, <1>7, <1>8, <1>9 DEF IndInv

\* Every event keeps the inductive invariant, and so does a commit.
LEMMA NextKeepsInvariant ==
    ASSUME IndInv, [Next]_vars
    PROVE  IndInv'
  <1>1. CASE UNCHANGED vars
    <2>1. /\ UNCHANGED <<enableDrop, height, denoms, denomTotals, tokens, tokenTotals>>
          /\ UNCHANGED <<messages, messageTotals, deleted>>
      BY <1>1 DEF vars, messageVars
    <2>2. TypeOK' /\ DropsDisabled' /\ DenomsCounted'
      BY <2>1 DEF IndInv, TypeOK, DropsDisabled, DenomsCounted, FindBy
    <2>3. TokensCounted'
      BY <2>1, TokensKept DEF IndInv
    <2>4. MessagesCounted'
      BY <2>1 DEF IndInv, MessagesCounted, Inserted
    <2>5. TokensHaveMessages'
      BY <2>1 DEF IndInv, TokensHaveMessages, IsNewest, MessagesOf, MessageRows
    <2> QED
      BY <2>2, <2>3, <2>4, <2>5 DEF IndInv
  <1>2. CASE NextBlock
    BY <1>2, NextBlockStep
  <1>3. ASSUME NEW d \in Denoms, NEW sender \in Accounts, IssueDenom(d, sender)
        PROVE  IndInv'
    BY <1>3, IssueDenomStep
  <1>4. ASSUME NEW d \in Denoms, NEW t \in TokenIds, NEW m \in Accounts, NEW o \in Accounts,
               NEW drop \in Drops \cup {Nil}, Mint(d, t, m, o, drop)
        PROVE  IndInv'
    BY <1>4, MintStep
  <1>5. ASSUME NEW id \in Denoms \X TokenIds, NEW drop \in Drops \cup {Nil}, Edit(id, drop)
        PROVE  IndInv'
    BY <1>5, EditStep
  <1>6. ASSUME NEW id \in Denoms \X TokenIds, NEW recipient \in Accounts, Transfer(id, recipient)
        PROVE  IndInv'
    BY <1>6, TransferStep
  <1>7. ASSUME NEW id \in Denoms \X TokenIds, Burn(id)
        PROVE  IndInv'
    BY <1>7, BurnStep
  <1> QED
    BY <1>1, <1>2, <1>3, <1>4, <1>5, <1>6, <1>7 DEF Next, Event

\* The tables have their types, and what the totals and the dates stand for is kept by
\* every event.
THEOREM Invariance == Spec => []IndInv
  <1>1. Init => IndInv
    BY InitialState
  <1>2. IndInv /\ [Next]_vars => IndInv'
    BY NextKeepsInvariant
  <1> QED
    BY <1>1, <1>2, PTL DEF Spec

\* Every list whose total is kept has as many rows as it says: mints, edits, transfers
\* and burns never let the two drift apart, whatever they are and however many.
THEOREM ListsHaveTheirTotals == Spec => []ListTotalsMatch
  <1>1. IndInv => ListTotalsMatch
    <2> SUFFICES ASSUME IndInv PROVE ListTotalsMatch
      OBVIOUS
    <2>1. TypeOK /\ DropsDisabled /\ DenomsCounted /\ TokensCounted
      BY DEF IndInv
    <2>2. ASSUME NEW filter \in TokenFilters, ~enableDrop \/ filter[2] = Dash \/ filter[4] # Dash
          PROVE  TokensList(filter).total = Cardinality(TokensList(filter).rows)
      <3>1. TokensList(filter).total = FindBy(tokenTotals, filter)
        BY DEF TokensList
      <3> QED
        BY <2>1, <2>2, <3>1 DEF TokensCounted, Kept
    <2>3. DenomsList(Dash).total = Cardinality(DenomsList(Dash).rows)
      <3>1. DenomsList(Dash).rows = 1..Len(denoms) /\ Len(denoms) \in Nat
        BY <2>1 DEF DenomsList, Asked, TypeOK
      <3>2. DenomsList(Dash).total = FindBy(denomTotals, Dash)
        BY DEF DenomsList
      <3>3. Cardinality(1..Len(denoms)) = Len(denoms)
        BY <3>1, FS_Interval
      <3> QED
        BY <2>1, <3>1, <3>2, <3>3 DEF DenomsCounted
    <2>4. ListDrops.rows # {} => enableDrop
      BY <2>1 DEF ListDrops, DropsDisabled
    <2> QED
      BY <2>2, <2>3, <2>4 DEF ListTotalsMatch
  <1> QED
    BY <1>1, Invariance, PTL

\* The total of every list of messages is the number of messages inserted into it, those
\* that a burn has deleted included.
THEOREM MessagesHaveTheirTotals == Spec => []MessageTotalsCountInsertions
  <1>1. IndInv => MessageTotalsCountInsertions
    <2> SUFFICES ASSUME IndInv, NEW filter \in MessageFilters, NEW types \in SUBSET MessageTypes
                 PROVE  MessagesList(filter, types).total =
                           Cardinality(MessagesList(filter, types).rows) +
                           Cardinality({i \in deleted : HasFilter(messages[i], filter, types)})
      BY DEF MessageTotalsCountInsertions
    <2> DEFINE rows == MessagesList(filter, types).rows
               gone == {i \in deleted : HasFilter(messages[i], filter, types)}
               all == Inserted(filter, types)
    <2>1. TypeOK /\ MessagesCounted
      BY DEF IndInv
    <2>2. MessagesList(filter, types).total = Cardinality(all)
      <3>1. MessagesList(filter, types).total =
               Cardinality(Units(messageTotals, ListIdentities(filter, types)))
        BY DEF MessagesList, SumBy, Units
      <3> QED
        BY <2>1, <3>1 DEF MessagesCounted
    <2>3. all = rows \cup gone /\ rows \cap gone = {}
      BY <2>1 DEF Inserted, MessagesList, MessageRows, TypeOK
    <2>4. IsFiniteSet(rows) /\ IsFiniteSet(gone)
      <3>1. DOMAIN messages = 1..Len(messages) /\ Len(messages) \in Nat
        BY <2>1 DEF TypeOK
      <3>2. IsFiniteSet(DOMAIN messages)
        BY <3>1, FS_Interval
      <3>3. rows \in SUBSET DOMAIN messages /\ gone \in SUBSET DOMAIN messages
        BY <2>1 DEF MessagesList, MessageRows, TypeOK
      <3> QED
        BY <3>2, <3>3, FS_Subset
    <2> HIDE DEF rows, gone, all
    <2>5. Cardinality(rows \cup gone) = Cardinality(rows) + Cardinality(gone)
      <3>1. Cardinality(rows \cup gone) =
               Cardinality(rows) + Cardinality(gone) - Cardinality(rows \cap gone)
        BY <2>4, FS_Union
      <3>2. Cardinality(rows \cap gone) = 0
        BY <2>3, FS_EmptySet
      <3>3. Cardinality(rows) \in Nat /\ Cardinality(gone) \in Nat
        BY <2>4, FS_CardinalityType
      <3> QED
        BY <3>1, <3>2, <3>3
    <2> QED
      BY <2>2, <2>3, <2>5 DEF rows, gone
  <1> QED
    BY <1>1, Invariance, PTL

\* A token is always dated by the newest of the messages that it has.
THEOREM TokensHaveTheirDates == Spec => []TokensAreDated
  <1>1. IndInv => TokensAreDated
    <2> SUFFICES ASSUME IndInv PROVE TokensAreDated
      OBVIOUS
    <2> DEFINE dates(id, types) ==
                  {messages[i].height : i \in {j \in MessagesOf(id) : messages[j].type \in types}}
               newest(S) == CHOOSE h \in S : \A g \in S : g <= h
    <2>1. ASSUME NEW id, NEW types, NEW date, IsNewest(date, id, types)
          PROVE  newest(dates(id, types)) = date
      <3>1. \A h \in dates(id, types) : h \in Nat
        <4>1. \A i \in DOMAIN messages : messages[i] \in MessageRow
          BY DEF IndInv, TypeOK
        <4>2. MessagesOf(id) \subseteq DOMAIN messages
          BY DEF MessagesOf, MessageRows
        <4> QED
          BY <4>1, <4>2 DEF MessageRow
      <3>2. date \in dates(id, types) /\ \A g \in dates(id, types) : g <= date
        BY <2>1 DEF IsNewest
      <3> HIDE DEF dates
      <3>3. \A h \in dates(id, types) : (\A g \in dates(id, types) : g <= h) => h = date
        <4> SUFFICES ASSUME NEW h \in dates(id, types), \A g \in dates(id, types) : g <= h
                     PROVE  h = date
          OBVIOUS
        <4>1. h <= date /\ date <= h /\ h \in Nat /\ date \in Nat
          BY <3>1, <3>2
        <4> QED
          BY <4>1
      <3> QED
        BY <3>2, <3>3
    <2>2. ASSUME NEW id \in DOMAIN tokens
          PROVE  /\ tokens[id].editedAt = newest(dates(id, {"Mint", "Edit"}))
                 /\ tokens[id].transferredAt = newest(dates(id, {"Mint", "Transfer"}))
      BY <2>1 DEF IndInv, TokensHaveMessages
    <2> QED
      BY <2>2 DEF TokensAreDated
  <1> QED
    BY <1>1, Invariance, PTL

=============================================================================
