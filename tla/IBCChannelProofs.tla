---------------------------- MODULE IBCChannelProofs ----------------------------
(***************************************************************************)
(* Proofs about IBCChannel, for every set of channels, supply, bound and   *)
(* name of an end: what the tables of an index show of its chain, and what *)
(* can stop it.                                                            *)
(*                                                                         *)
(* The inductive invariant IInv has two parts.  The chains: the escrow     *)
(* account of an end holds what the counterparty minted and what is in     *)
(* flight, and vouchers are held by somebody, so that no refund or return  *)
(* finds too little.  The indexes: were an index to handle the blocks that *)
(* wait for it, it would match its chain, unless one of them stops it.     *)
(***************************************************************************)
EXTENDS IBCChannel, FiniteSetTheorems, WellFoundedInduction, SequenceTheorems, TLAPS

-----------------------------------------------------------------------------
(* Bags and denoms *)

IsBag(B) == B = [d \in DOMAIN B |-> B[d]] /\ \A d \in DOMAIN B : B[d] \in Nat \ {0}

Amount(d, B) == IF d \in DOMAIN B THEN B[d] ELSE 0

\* What is in a bag is a natural number, and what is not in it is 0.
LEMMA AmountIsNat ==
    ASSUME NEW B, IsBag(B), NEW d
    PROVE  Amount(d, B) \in Nat /\ (d \in DOMAIN B <=> Amount(d, B) > 0)
  BY DEF IsBag, Amount

\* Two bags with the same amounts are the same.
LEMMA SameBag ==
    ASSUME NEW B, IsBag(B), NEW C, IsBag(C), \A d : Amount(d, B) = Amount(d, C)
    PROVE  B = C
  <1>1. \A d : d \in DOMAIN B <=> d \in DOMAIN C
    BY AmountIsNat
  <1>2. DOMAIN B = DOMAIN C
    BY <1>1
  <1>3. \A d \in DOMAIN B : B[d] = C[d]
    BY <1>2 DEF Amount
  <1> QED
    BY <1>2, <1>3 DEF IsBag

\* Tokens are added to a bag.
LEMMA PlusIs ==
    ASSUME NEW B, IsBag(B), NEW d, NEW n \in Nat \ {0}
    PROVE  IsBag(B (+) Tokens(d, n)) /\ DOMAIN (B (+) Tokens(d, n)) = DOMAIN B \cup {d}
  <1>1. DOMAIN Tokens(d, n) = {d} /\ Tokens(d, n)[d] = n
    BY DEF Tokens
  <1>2. B (+) Tokens(d, n) =
            [x \in DOMAIN B \cup {d} |-> Amount(x, B) + (IF x = d THEN n ELSE 0)]
    BY <1>1 DEF (+), Amount
  <1>3. \A x : Amount(x, B) \in Nat /\ (x \in DOMAIN B <=> Amount(x, B) > 0)
    BY AmountIsNat
  <1> QED
    BY <1>2, <1>3 DEF IsBag, Amount

\* The amount of each denom when tokens are added.
LEMMA PlusAmount ==
    ASSUME NEW B, IsBag(B), NEW d, NEW n \in Nat \ {0}, NEW x
    PROVE  Amount(x, B (+) Tokens(d, n)) = Amount(x, B) + (IF x = d THEN n ELSE 0)
  <1>1. DOMAIN Tokens(d, n) = {d} /\ Tokens(d, n)[d] = n
    BY DEF Tokens
  <1>2. B (+) Tokens(d, n) =
            [y \in DOMAIN B \cup {d} |-> Amount(y, B) + (IF y = d THEN n ELSE 0)]
    BY <1>1 DEF (+), Amount
  <1>3. \A y : Amount(y, B) \in Nat /\ (y \in DOMAIN B <=> Amount(y, B) > 0)
    BY AmountIsNat
  <1> QED
    BY <1>2, <1>3 DEF IsBag, Amount

\* Tokens that are in a bag are taken out of it.
LEMMA MinusIs ==
    ASSUME NEW B, IsBag(B), NEW d, NEW n \in Nat \ {0}, n <= Amount(d, B)
    PROVE  /\ IsBag(B (-) Tokens(d, n)) /\ DOMAIN (B (-) Tokens(d, n)) \subseteq DOMAIN B
           /\ \A x : Amount(x, B (-) Tokens(d, n)) = Amount(x, B) - (IF x = d THEN n ELSE 0)
  <1>1. DOMAIN Tokens(d, n) = {d} /\ Tokens(d, n)[d] = n
    BY DEF Tokens
  <1> DEFINE D == [x \in DOMAIN B |-> B[x] - (IF x = d THEN n ELSE 0)]
  <1>2. B (-) Tokens(d, n) = [x \in {y \in DOMAIN D : D[y] > 0} |-> D[x]]
    <2>1. [x \in DOMAIN B |-> IF x \in DOMAIN Tokens(d, n)
                              THEN B[x] - Tokens(d, n)[x] ELSE B[x]] = D
      BY <1>1 DEF IsBag
    <2> QED
      BY <2>1 DEF (-)
  <1>3. \A x : Amount(x, B) \in Nat /\ (x \in DOMAIN B <=> Amount(x, B) > 0)
    BY AmountIsNat
  <1>4. d \in DOMAIN B
    BY <1>3
  <1>5. \A x \in DOMAIN B : D[x] = Amount(x, B) - (IF x = d THEN n ELSE 0) /\ D[x] \in Nat
    BY <1>3 DEF Amount
  <1>6. DOMAIN D = DOMAIN B
    OBVIOUS
  <1> HIDE DEF D
  <1>7. DOMAIN (B (-) Tokens(d, n)) = {y \in DOMAIN B : D[y] > 0}
    BY <1>2, <1>6
  <1>8. \A x \in DOMAIN (B (-) Tokens(d, n)) : (B (-) Tokens(d, n))[x] = D[x]
    BY <1>2
  <1>9. IsBag(B (-) Tokens(d, n))
    BY <1>2, <1>5, <1>7, <1>8 DEF IsBag
  <1>10. ASSUME NEW x
         PROVE  Amount(x, B (-) Tokens(d, n)) = Amount(x, B) - (IF x = d THEN n ELSE 0)
    <2>1. CASE x \in DOMAIN B
      BY <1>5, <1>7, <1>8, <2>1 DEF Amount
    <2>2. CASE x \notin DOMAIN B
      BY <1>4, <1>7, <2>2 DEF Amount
    <2> QED
      BY <2>1, <2>2
  <1> QED
    BY <1>7, <1>9, <1>10

\* The subtraction of the index is that of the chain when there is enough.
LEMMA SubtractIs ==
    ASSUME NEW B, IsBag(B), NEW d, NEW n \in Nat \ {0}, n <= Amount(d, B)
    PROVE  /\ IsBag(SubtractToken(B, d, n)) /\ DOMAIN SubtractToken(B, d, n) \subseteq DOMAIN B
           /\ \A x : Amount(x, SubtractToken(B, d, n)) =
                         Amount(x, B) - (IF x = d THEN n ELSE 0)
  <1>1. d \in DOMAIN B /\ Amount(d, B) = B[d]
    BY AmountIsNat DEF Amount
  <1>2. CASE B[d] = n
    BY <1>1, <1>2, AmountIsNat DEF SubtractToken, IsBag, Amount
  <1>3. CASE B[d] # n
    BY <1>1, <1>3, AmountIsNat DEF SubtractToken, IsBag, Amount
  <1> QED
    BY <1>2, <1>3

\* A path of more than one member is its head in front of the rest.
LEMMA BackOf ==
    ASSUME NEW S, NEW d \in Seq(S), Len(d) > 1
    PROVE  d = <<Head(d)>> \o Tail(d) /\ Tail(d) \in Seq(S) /\ Len(Tail(d)) > 0
  OBVIOUS

-----------------------------------------------------------------------------
(* Sums *)

\* A set of numbers has a least one.
LEMMA LeastNumber ==
    ASSUME NEW S, S \subseteq Nat, S # {}
    PROVE  \E n \in S : \A m \in S : n <= m
  <1> DEFINE T == {1..n : n \in S}
             R == StrictSubsetOrdering(Nat)
             F == FiniteSubsetsOf(Nat)
  <1>1. T \subseteq F /\ T # {}
    <2>1. \A n \in S : IsFiniteSet(1..n) /\ (1..n) \subseteq Nat
      BY FS_Interval
    <2> QED
      BY <2>1 DEF FiniteSubsetsOf
  <1>2. IsWellFoundedOn(R, F)
    BY FS_StrictSubsetOrderingWellFounded
  <1>3. \E x \in T : \A y \in T : <<y, x>> \notin R
    <2> HIDE DEF R, T, F
    <2> QED
      BY <1>1, <1>2, WFMin
  <1>4. PICK n \in S : \A m \in S : <<1..m, 1..n>> \notin R
    BY <1>3
  <1>5. ASSUME NEW m \in S, m < n PROVE FALSE
    <2>1. (1..m) \subseteq (1..n) /\ n \in (1..n) /\ n \notin 1..m
      BY <1>5
    <2>2. <<1..m, 1..n>> \in R
      BY <2>1 DEF StrictSubsetOrdering
    <2> QED
      BY <2>2, <1>4
  <1> QED
    BY <1>5

\* A set that holds 0 and with every number the next one, up to N, holds all of them.
LEMMA UpTo ==
    ASSUME NEW N \in Nat, NEW S, 0 \in S,
           \A n \in 1..N : n - 1 \in S => n \in S
    PROVE  \A n \in 0..N : n \in S
  <1> DEFINE T == {n \in 0..N : n \notin S}
  <1> SUFFICES ASSUME T # {} PROVE FALSE
    OBVIOUS
  <1>0. T \subseteq Nat
    OBVIOUS
  <1>1. PICK n \in T : \A m \in T : n <= m
    <2> HIDE DEF T
    <2> QED
      BY <1>0, LeastNumber
  <1>2. n \in 1..N /\ n - 1 \in 0..N /\ n - 1 \notin T
    BY <1>1
  <1> QED
    BY <1>1, <1>2

\* A running total of N terms, and the sum it ends with.
Totals(g, s, N) ==
    /\ g \in [0..N -> Int] /\ g[0] = 0
    /\ \A n \in 1..N : g[n] = g[n - 1] + s[n]

Sum(s, N) == (CHOOSE g : Totals(g, s, N))[N]

\* There is a running total.
LEMMA TotalsExist ==
    ASSUME NEW N \in Nat, NEW s, s \in [1..N -> Int]
    PROVE  \E g : Totals(g, s, N)
  <1> DEFINE S == {n \in 0..N : \E g : Totals(g, s, n)}
  <1>1. 0 \in S
    <2>1. Totals([n \in 0..0 |-> 0], s, 0)
      BY DEF Totals
    <2> QED
      BY <2>1
  <1>2. ASSUME NEW n \in 1..N, n - 1 \in S PROVE n \in S
    <2>1. PICK g : Totals(g, s, n - 1)
      BY <1>2
    <2> DEFINE f == [m \in 0..n |-> IF m = n THEN g[n - 1] + s[n] ELSE g[m]]
    <2>2. g[n - 1] \in Int /\ s[n] \in Int
      BY <2>1 DEF Totals
    <2>3. f \in [0..n -> Int] /\ f[0] = 0
      BY <2>1, <2>2 DEF Totals
    <2>4. ASSUME NEW m \in 1..n PROVE f[m] = f[m - 1] + s[m]
      <3>1. m - 1 \in 0..(n - 1) /\ f[m - 1] = g[m - 1]
        OBVIOUS
      <3>2. CASE m = n
        BY <3>1, <3>2
      <3>3. CASE m # n
        BY <3>1, <3>3, <2>1 DEF Totals
      <3> QED
        BY <3>2, <3>3
    <2>5. Totals(f, s, n)
      BY <2>3, <2>4 DEF Totals
    <2> HIDE DEF f
    <2> QED
      BY <2>5
  <1>3. \A n \in 0..N : n \in S
    <2> HIDE DEF S
    <2> QED
      BY <1>1, <1>2, UpTo
  <1> QED
    BY <1>3

\* The sum is what any running total ends with.
LEMMA SumIs ==
    ASSUME NEW N \in Nat, NEW s, s \in [1..N -> Int], NEW g, Totals(g, s, N)
    PROVE  Sum(s, N) = g[N] /\ Sum(s, N) \in Int
  <1> DEFINE f == CHOOSE f : Totals(f, s, N)
             S == {n \in 0..N : f[n] = g[n]}
  <1>1. Totals(f, s, N)
    OBVIOUS
  <1> HIDE DEF f
  <1>2. 0 \in S
    BY <1>1 DEF Totals
  <1>3. ASSUME NEW n \in 1..N, n - 1 \in S PROVE n \in S
    BY <1>1, <1>3 DEF Totals
  <1>4. \A n \in 0..N : n \in S
    <2> HIDE DEF S
    <2> QED
      BY <1>2, <1>3, UpTo
  <1>5. f[N] = g[N] /\ g[N] \in Int
    BY <1>4 DEF Totals
  <1> QED
    BY <1>5 DEF Sum, f

\* No terms sum to 0.
LEMMA SumOfNone == ASSUME NEW s PROVE Sum(s, 0) = 0
  <1>1. Totals([n \in 0..0 |-> 0], s, 0)
    BY DEF Totals
  <1>2. Totals(CHOOSE g : Totals(g, s, 0), s, 0)
    BY <1>1
  <1> QED
    BY <1>2 DEF Totals, Sum

\* Terms that are 0 sum to 0.
LEMMA SumOfZeros ==
    ASSUME NEW N \in Nat, NEW s, s \in [1..N -> Int], \A n \in 1..N : s[n] = 0
    PROVE  Sum(s, N) = 0
  <1>1. Totals([n \in 0..N |-> 0], s, N)
    BY DEF Totals
  <1> QED
    BY <1>1, SumIs

\* A sum of numbers is one, and no term exceeds it.
LEMMA SumIsNat ==
    ASSUME NEW N \in Nat, NEW s, s \in [1..N -> Nat]
    PROVE  Sum(s, N) \in Nat /\ \A i \in 1..N : s[i] <= Sum(s, N)
  <1>0. s \in [1..N -> Int]
    OBVIOUS
  <1>1. PICK g : Totals(g, s, N)
    BY <1>0, TotalsExist
  <1> DEFINE S == {n \in 0..N : g[n] >= 0 /\ \A i \in 1..n : s[i] <= g[n]}
  <1>2. 0 \in S
    BY <1>1 DEF Totals
  <1>3. ASSUME NEW n \in 1..N, n - 1 \in S PROVE n \in S
    <2>1. g[n - 1] >= 0 /\ g[n] = g[n - 1] + s[n] /\ g[n - 1] \in Int /\ s[n] \in Nat
          /\ \A i \in 1..(n - 1) : s[i] <= g[n - 1]
      BY <1>1, <1>3 DEF Totals
    <2>2. ASSUME NEW i \in 1..n PROVE s[i] <= g[n]
      <3>1. CASE i = n
        BY <2>1, <3>1
      <3>2. CASE i # n
        <4>1. i \in 1..(n - 1) /\ s[i] \in Nat
          BY <3>2
        <4> QED
          BY <2>1, <4>1
      <3> QED
        BY <3>1, <3>2
    <2> QED
      BY <2>1, <2>2
  <1>4. \A n \in 0..N : n \in S
    <2> HIDE DEF S
    <2> QED
      BY <1>2, <1>3, UpTo
  <1>5. Sum(s, N) = g[N] /\ Sum(s, N) \in Int
    BY <1>0, <1>1, SumIs
  <1> QED
    BY <1>4, <1>5

\* One more term adds itself to the sum.
LEMMA SumOfOneMore ==
    ASSUME NEW N \in Nat, NEW t, t \in [1..(N + 1) -> Int], NEW s, s \in [1..N -> Int],
           \A n \in 1..N : t[n] = s[n]
    PROVE  Sum(t, N + 1) = Sum(s, N) + t[N + 1]
  <1>1. PICK f : Totals(f, t, N + 1)
    BY TotalsExist
  <1> DEFINE g == [n \in 0..N |-> f[n]]
  <1>2. Totals(g, s, N)
    <2>1. g \in [0..N -> Int] /\ g[0] = 0
      BY <1>1 DEF Totals
    <2>2. ASSUME NEW n \in 1..N PROVE g[n] = g[n - 1] + s[n]
      <3>1. n \in 1..(N + 1) /\ n \in 0..N /\ n - 1 \in 0..N
        OBVIOUS
      <3> QED
        BY <1>1, <3>1 DEF Totals
    <2> QED
      BY <2>1, <2>2 DEF Totals
  <1>3. Sum(s, N) = f[N]
    BY <1>2, SumIs
  <1>4. Sum(t, N + 1) = f[N + 1]
    BY <1>1, SumIs
  <1>5. f[N + 1] = f[N] + t[N + 1]
    BY <1>1 DEF Totals
  <1> QED
    BY <1>3, <1>4, <1>5

\* A term that changes changes the sum by as much.
LEMMA SumChanges ==
    ASSUME NEW N \in Nat, NEW s, s \in [1..N -> Int], NEW t, t \in [1..N -> Int],
           NEW i \in 1..N, \A n \in 1..N : n # i => t[n] = s[n]
    PROVE  Sum(t, N) = Sum(s, N) + t[i] - s[i]
  <1>1. PICK g : Totals(g, s, N)
    BY TotalsExist
  <1> DEFINE f == [n \in 0..N |-> IF n < i THEN g[n] ELSE g[n] + t[i] - s[i]]
  <1>2. Totals(f, t, N)
    <2>1. f \in [0..N -> Int] /\ f[0] = 0
      <3>1. t[i] \in Int /\ s[i] \in Int /\ 0 < i /\ g[0] = 0 /\ g \in [0..N -> Int]
        BY <1>1 DEF Totals
      <3> QED
        BY <3>1
    <2>2. ASSUME NEW n \in 1..N PROVE f[n] = f[n - 1] + t[n]
      <3>1. n - 1 \in 0..N /\ n \in 0..N /\ g[n] = g[n - 1] + s[n] /\ g[n] \in Int
            /\ g[n - 1] \in Int /\ s[n] \in Int /\ t[n] \in Int /\ s[i] \in Int /\ t[i] \in Int
        BY <1>1 DEF Totals
      <3>2. CASE n < i
        BY <3>1, <3>2
      <3>3. CASE n = i
        <4>1. n - 1 < i /\ ~(n < i)
          BY <3>3
        <4> QED
          BY <3>1, <3>3, <4>1
      <3>4. CASE n > i
        <4>1. ~(n - 1 < i) /\ ~(n < i) /\ t[n] = s[n]
          BY <3>4
        <4> QED
          BY <3>1, <4>1
      <3> QED
        BY <3>2, <3>3, <3>4
    <2> QED
      BY <2>1, <2>2 DEF Totals
  <1>3. Sum(s, N) = g[N] /\ Sum(t, N) = f[N] /\ g[N] \in Int /\ f[N] = g[N] + t[i] - s[i]
    <2>1. N \in 0..N /\ ~(N < i) /\ g[N] \in Int
      BY <1>1 DEF Totals
    <2> QED
      BY <1>1, <1>2, <2>1, SumIs
  <1> QED
    BY <1>3

-----------------------------------------------------------------------------
(* Chains and ends *)

\* There are two chains, each the other one of the other.
LEMMA TwoChains ==
    /\ \A c \in Chains : Other(c) \in Chains /\ Other(c) # c /\ Other(Other(c)) = c
    /\ \A c, d \in Chains : d = c \/ d = Other(c)
  <1>1. ASSUME NEW c \in Chains PROVE \E d : Chains \ {c} = {d}
    <2>1. IsFiniteSet(Chains \ {c}) /\ Cardinality(Chains \ {c}) = 1
      <3>1. /\ IsFiniteSet(Chains \ {c})
            /\ Cardinality(Chains \ {c}) = IF c \in Chains THEN Cardinality(Chains) - 1
                                                          ELSE Cardinality(Chains)
        BY IBCAssumption, FS_RemoveElement
      <3> QED
        BY <3>1, IBCAssumption
    <2> QED
      BY <2>1, FS_Singleton
  <1>2. ASSUME NEW c \in Chains
        PROVE  Other(c) \in Chains /\ Other(c) # c /\ \A d \in Chains : d = c \/ d = Other(c)
    <2>1. PICK d : Chains \ {c} = {d}
      BY <1>1, <1>2
    <2>2. Other(c) = d
      BY <2>1 DEF Other
    <2> QED
      BY <2>1, <2>2
  <1> QED
    BY <1>2

\* An end belongs to one chain and one pair.
LEMMA EndIs ==
    ASSUME NEW c \in Chains, NEW p \in Pairs
    PROVE  /\ p[c] \in Ends /\ p[c] \in EndsOf(c) /\ ChainOf(p[c]) = c
           /\ Counterparty(p[c]) = p[Other(c)]
  <1>1. p[c] \in Ends /\ p[c] \in EndsOf(c)
    BY DEF Ends, EndsOf
  <1>2. \A d \in Chains : p[c] \in EndsOf(d) => d = c
    BY IBCAssumption DEF EndsOf
  <1>3. ChainOf(p[c]) = c
    BY <1>1, <1>2 DEF ChainOf
  <1>4. \A q \in Pairs : q[ChainOf(p[c])] = p[c] => q = p
    BY <1>3, IBCAssumption
  <1>5. Counterparty(p[c]) = p[Other(c)]
    BY <1>3, <1>4 DEF Counterparty
  <1> QED
    BY <1>1, <1>3, <1>5

\* The counterparty of an end is an end of the other chain, and the end is its own.
LEMMA EndsAre ==
    /\ \A e \in Ends : /\ ChainOf(e) \in Chains /\ e \in EndsOf(ChainOf(e))
                       /\ Counterparty(e) \in Ends /\ Counterparty(Counterparty(e)) = e
                       /\ ChainOf(Counterparty(e)) = Other(ChainOf(e))
                       /\ Counterparty(e) # e
    /\ \A c \in Chains : \A e \in EndsOf(c) : e \in Ends /\ ChainOf(e) = c
  <1>1. ASSUME NEW e \in Ends
        PROVE  /\ ChainOf(e) \in Chains /\ e \in EndsOf(ChainOf(e))
               /\ Counterparty(e) \in Ends /\ Counterparty(Counterparty(e)) = e
               /\ ChainOf(Counterparty(e)) = Other(ChainOf(e)) /\ Counterparty(e) # e
    <2>1. PICK p \in Pairs, c \in Chains : e = p[c]
      BY <1>1 DEF Ends
    <2>2. ChainOf(e) = c /\ e \in EndsOf(c) /\ Counterparty(e) = p[Other(c)]
      BY <2>1, EndIs
    <2>3. Other(c) \in Chains /\ Other(c) # c /\ Other(Other(c)) = c
      BY TwoChains
    <2>4. /\ p[Other(c)] \in Ends /\ ChainOf(p[Other(c)]) = Other(c)
          /\ Counterparty(p[Other(c)]) = p[Other(Other(c))]
      BY <2>3, EndIs
    <2>5. p[Other(c)] # p[c]
      BY <2>3, IBCAssumption
    <2> QED
      BY <2>1, <2>2, <2>3, <2>4, <2>5
  <1>2. ASSUME NEW c \in Chains, NEW e \in EndsOf(c) PROVE e \in Ends /\ ChainOf(e) = c
    <2>1. PICK p \in Pairs : e = p[c]
      BY <1>2 DEF EndsOf
    <2> QED
      BY <2>1, EndIs
  <1> QED
    BY <1>1, <1>2

\* The ends of a chain in some order.
EndCount(c) == Cardinality(EndsOf(c))
EndSeq(c) == CHOOSE f : f \in Bijection(1..EndCount(c), EndsOf(c))

\* A chain has finitely many ends, and they can be counted.
LEMMA EndsAreFinite ==
    ASSUME NEW c \in Chains
    PROVE  /\ IsFiniteSet(EndsOf(c)) /\ EndCount(c) \in Nat
           /\ EndSeq(c) \in [1..EndCount(c) -> EndsOf(c)]
           /\ \A e \in EndsOf(c) : \E i \in 1..EndCount(c) : EndSeq(c)[i] = e
           /\ \A i, j \in 1..EndCount(c) : EndSeq(c)[i] = EndSeq(c)[j] => i = j
  <1>1. IsFiniteSet(EndsOf(c))
    <2> DEFINE f == [p \in Pairs |-> p[c]]
    <2>1. f \in Surjection(Pairs, EndsOf(c))
      BY DEF Surjection, EndsOf
    <2> HIDE DEF f
    <2> QED
      BY <2>1, IBCAssumption, FS_Surjection
  <1>2. EndCount(c) \in Nat /\ \E f : f \in Bijection(1..EndCount(c), EndsOf(c))
    BY <1>1, FS_CardinalityType DEF EndCount, ExistsBijection
  <1>3. EndSeq(c) \in Bijection(1..EndCount(c), EndsOf(c))
    BY <1>2 DEF EndSeq
  <1> QED
    BY <1>1, <1>2, <1>3 DEF Bijection, Injection, Surjection, IsInjective

-----------------------------------------------------------------------------
(* Tokens of the chains *)

\* Paths of tokens.
Paths == {d \in Seq(Ends \cup Chains) : Len(d) > 0}

\* Bags of paths.
IsPurse(B) == IsBag(B) /\ DOMAIN B \subseteq Paths

\* What the escrow accounts of a chain hold of a token.
InEscrow(accounts, c, d) ==
    Sum([i \in 1..EndCount(c) |-> Amount(d, accounts[EndSeq(c)[i]])], EndCount(c))

\* It is no less than what one account holds.
LEMMA InEscrowIsNat ==
    ASSUME NEW accounts, \A e \in Ends : IsBag(accounts[e]), NEW c \in Chains, NEW d
    PROVE  /\ InEscrow(accounts, c, d) \in Nat
           /\ \A e \in EndsOf(c) : Amount(d, accounts[e]) <= InEscrow(accounts, c, d)
  <1> DEFINE N == EndCount(c)
             s == [i \in 1..N |-> Amount(d, accounts[EndSeq(c)[i]])]
  <1>1. N \in Nat /\ s \in [1..N -> Nat]
    BY EndsAreFinite, EndsAre, AmountIsNat
  <1>2. \A e \in EndsOf(c) : \E i \in 1..N : s[i] = Amount(d, accounts[e])
    BY EndsAreFinite
  <1>3. InEscrow(accounts, c, d) = Sum(s, N)
    BY DEF InEscrow
  <1> HIDE DEF s, N
  <1> QED
    BY <1>1, <1>2, <1>3, SumIsNat

\* It changes as the one account that changes.
LEMMA InEscrowChanges ==
    ASSUME NEW accounts, \A e \in Ends : IsBag(accounts[e]),
           NEW others, \A e \in Ends : IsBag(others[e]),
           NEW e \in Ends, NEW d,
           \A g \in Ends : g # e => Amount(d, others[g]) = Amount(d, accounts[g])
    PROVE  /\ InEscrow(others, ChainOf(e), d) =
                  InEscrow(accounts, ChainOf(e), d) + Amount(d, others[e]) - Amount(d, accounts[e])
           /\ \A c \in Chains : c # ChainOf(e) =>
                  InEscrow(others, c, d) = InEscrow(accounts, c, d)
  <1> DEFINE S(acc, c) == [i \in 1..EndCount(c) |-> Amount(d, acc[EndSeq(c)[i]])]
  <1>1. ASSUME NEW c \in Chains
        PROVE  /\ EndCount(c) \in Nat
               /\ S(accounts, c) \in [1..EndCount(c) -> Int]
               /\ S(others, c) \in [1..EndCount(c) -> Int]
               /\ \A i \in 1..EndCount(c) : EndSeq(c)[i] \in Ends /\ ChainOf(EndSeq(c)[i]) = c
    BY EndsAreFinite, EndsAre, AmountIsNat
  <1>2. ASSUME NEW c \in Chains, c # ChainOf(e)
        PROVE  InEscrow(others, c, d) = InEscrow(accounts, c, d)
    <2>1. S(others, c) = S(accounts, c)
      BY <1>1, <1>2
    <2> QED
      BY <2>1 DEF InEscrow
  <1>3. InEscrow(others, ChainOf(e), d) =
            InEscrow(accounts, ChainOf(e), d) + Amount(d, others[e]) - Amount(d, accounts[e])
    <2>0. PICK c : c = ChainOf(e)
      OBVIOUS
    <2>1. c \in Chains /\ e \in EndsOf(c)
      BY <2>0, EndsAre
    <2>2. PICK i \in 1..EndCount(c) : EndSeq(c)[i] = e
      BY <2>1, EndsAreFinite
    <2>3. \A n \in 1..EndCount(c) : n # i => EndSeq(c)[n] # e
      BY <2>1, <2>2, EndsAreFinite
    <2>4. \A n \in 1..EndCount(c) : n # i => S(others, c)[n] = S(accounts, c)[n]
      BY <1>1, <2>1, <2>3
    <2>5. S(others, c)[i] = Amount(d, others[e]) /\ S(accounts, c)[i] = Amount(d, accounts[e])
      BY <2>2
    <2>6. PICK s, t : s = S(accounts, c) /\ t = S(others, c)
      OBVIOUS
    <2>7. Sum(t, EndCount(c)) = Sum(s, EndCount(c)) + t[i] - s[i]
      <3> HIDE DEF S
      <3>1. s \in [1..EndCount(c) -> Int] /\ t \in [1..EndCount(c) -> Int] /\ EndCount(c) \in Nat
        BY <1>1, <2>1, <2>6
      <3>2. \A n \in 1..EndCount(c) : n # i => t[n] = s[n]
        BY <2>4, <2>6
      <3> QED
        BY <3>1, <3>2, SumChanges
    <2> QED
      BY <2>0, <2>5, <2>6, <2>7 DEF InEscrow
  <1> QED
    BY <1>2, <1>3

PacketStates == {"sent", "received", "failed", "acknowledged", "returned", "timedOut"}

Packet == [src : Ends, dst : Ends, denom : Paths, amount : Nat \ {0}, seq : Nat,
           state : PacketStates]

\* A packet that is neither received nor refunded carries tokens between an account of
\* end e and its counterparty: d on its way out, or on its way back.
Carries(p, e, d) ==
    \/ p.src = e /\ p.denom = d /\ ~ReturnsThrough(d, e)
    \/ p.src = Counterparty(e) /\ p.denom = <<Counterparty(e)>> \o d

Weight(p, e, d) == IF p.state \in {"sent", "failed"} /\ Carries(p, e, d) THEN p.amount ELSE 0

InFlight(sent, e, d) == Sum([i \in 1..Len(sent) |-> Weight(sent[i], e, d)], Len(sent))

\* A packet's weight is at most what is in flight.
LEMMA InFlightIsNat ==
    ASSUME NEW sent \in Seq(Packet), NEW e, NEW d
    PROVE  /\ InFlight(sent, e, d) \in Nat
           /\ \A i \in 1..Len(sent) : Weight(sent[i], e, d) \in Nat
                                      /\ Weight(sent[i], e, d) <= InFlight(sent, e, d)
  <1> DEFINE s == [i \in 1..Len(sent) |-> Weight(sent[i], e, d)]
  <1>1. \A i \in 1..Len(sent) : Weight(sent[i], e, d) \in Nat
    <2>1. ASSUME NEW i \in 1..Len(sent) PROVE Weight(sent[i], e, d) \in Nat
      <3>1. sent[i] \in Packet
        OBVIOUS
      <3>2. sent[i].amount \in Nat
        BY <3>1 DEF Packet
      <3> QED
        BY <3>2 DEF Weight
    <2> QED
      BY <2>1
  <1>2. s \in [1..Len(sent) -> Nat] /\ Len(sent) \in Nat
    BY <1>1
  <1>3. Sum(s, Len(sent)) \in Nat /\ \A i \in 1..Len(sent) : s[i] <= Sum(s, Len(sent))
    <2> HIDE DEF s
    <2> QED
      BY <1>2, SumIsNat
  <1> QED
    BY <1>1, <1>3 DEF InFlight

\* A packet that is sent adds its weight.
LEMMA SendAdds ==
    ASSUME NEW sent \in Seq(Packet), NEW p \in Packet, NEW e, NEW d
    PROVE  InFlight(Append(sent, p), e, d) = InFlight(sent, e, d) + Weight(p, e, d)
  <1> DEFINE more == Append(sent, p)
             N == Len(sent)
             s == [i \in 1..N |-> Weight(sent[i], e, d)]
             t == [i \in 1..(N + 1) |-> Weight(more[i], e, d)]
  <1>1. more \in Seq(Packet) /\ Len(more) = N + 1 /\ N \in Nat /\ more[N + 1] = p
        /\ \A i \in 1..N : more[i] = sent[i]
    OBVIOUS
  <1> HIDE DEF more
  <1>2. s \in [1..N -> Int] /\ t \in [1..(N + 1) -> Int]
    <2>1. \A i \in 1..N : Weight(sent[i], e, d) \in Nat
      BY InFlightIsNat
    <2>2. \A i \in 1..(N + 1) : Weight(more[i], e, d) \in Nat
      BY <1>1, InFlightIsNat
    <2> QED
      BY <2>1, <2>2
  <1>3. t[N + 1] = Weight(p, e, d) /\ \A i \in 1..N : t[i] = s[i]
    <2>1. N + 1 \in 1..(N + 1) /\ \A i \in 1..N : i \in 1..(N + 1)
      BY <1>1
    <2> QED
      BY <1>1, <2>1
  <1>4. Sum(t, N + 1) = Sum(s, N) + t[N + 1]
    <2> HIDE DEF s, t, more, N
    <2> QED
      BY <1>1, <1>2, <1>3, SumOfOneMore
  <1> QED
    BY <1>1, <1>3, <1>4 DEF InFlight, more

\* A packet whose state changes changes what is in flight by its weight.
LEMMA StateChanges ==
    ASSUME NEW sent \in Seq(Packet), NEW i \in DOMAIN sent, NEW state \in PacketStates,
           NEW after, after = [sent EXCEPT ![i].state = state]
    PROVE  /\ after \in Seq(Packet) /\ Len(after) = Len(sent) /\ DOMAIN after = DOMAIN sent
           /\ \A j \in DOMAIN sent : j # i => after[j] = sent[j]
           /\ after[i] = [sent[i] EXCEPT !.state = state]
  <1>1. DOMAIN sent = 1..Len(sent) /\ sent[i] \in Packet
    OBVIOUS
  <1>2. [sent[i] EXCEPT !.state = state] \in Packet
    BY <1>1 DEF Packet
  <1> QED
    BY <1>1, <1>2

\* One packet that changes changes what is in flight by the difference of its weights.
LEMMA WeightChanges ==
    ASSUME NEW sent \in Seq(Packet), NEW i \in DOMAIN sent,
           NEW after \in Seq(Packet), Len(after) = Len(sent),
           \A j \in DOMAIN sent : j # i => after[j] = sent[j], NEW e, NEW d
    PROVE  InFlight(after, e, d) =
               InFlight(sent, e, d) + Weight(after[i], e, d) - Weight(sent[i], e, d)
  <1> DEFINE N == Len(sent)
             s == [j \in 1..N |-> Weight(sent[j], e, d)]
             t == [j \in 1..N |-> Weight(after[j], e, d)]
  <1>1. N \in Nat /\ DOMAIN sent = 1..N /\ i \in 1..N
    OBVIOUS
  <1>5. s \in [1..N -> Int] /\ t \in [1..N -> Int] /\ N \in Nat
    <2>1. \A j \in 1..N : Weight(sent[j], e, d) \in Nat
      BY InFlightIsNat
    <2>2. \A j \in 1..N : Weight(after[j], e, d) \in Nat
      BY InFlightIsNat
    <2> QED
      BY <2>1, <2>2
  <1>6. \A j \in 1..N : j # i => t[j] = s[j]
    BY <1>1
  <1>7. Sum(t, N) = Sum(s, N) + t[i] - s[i]
    <2> HIDE DEF s, t, N
    <2> QED
      BY <1>1, <1>5, <1>6, SumChanges
  <1> QED
    BY <1>1, <1>7 DEF InFlight

-----------------------------------------------------------------------------
(* Conservation *)

MoneyTypes ==
    /\ packets \in Seq(Packet)
    /\ \A i \in DOMAIN packets : packets[i].dst = Counterparty(packets[i].src)
    /\ held = [c \in Chains |-> held[c]] /\ \A c \in Chains : IsPurse(held[c])
    /\ escrow = [e \in Ends |-> escrow[e]] /\ \A e \in Ends : IsPurse(escrow[e])
    /\ minted = [e \in Ends |-> minted[e]] /\ \A e \in Ends : IsPurse(minted[e])

\* Vouchers of an end bear its name.
VouchersAreMarked == \A e \in Ends : \A d \in DOMAIN minted[e] : ReturnsThrough(d, e)

\* What an end holds in escrow is what the other end has minted for it, and what is on
\* its way between them.
EscrowBacksVouchers ==
    \A e \in Ends, d \in Paths :
        Amount(d, escrow[e]) = Amount(<<Counterparty(e)>> \o d, minted[Counterparty(e)])
                               + InFlight(packets, e, d)

\* Vouchers are in the accounts or in escrow for another end.
VouchersAreHeld ==
    \A e \in Ends, d \in Paths : ReturnsThrough(d, e) =>
        Amount(d, held[ChainOf(e)]) + InEscrow(escrow, ChainOf(e), d) = Amount(d, minted[e])

MoneyOK == MoneyTypes /\ VouchersAreMarked /\ EscrowBacksVouchers /\ VouchersAreHeld

\* The tokens that leave end e: those on their way back leave the vouchers, others go to the
\* escrow account.
Leaves(e, denom, amount) ==
    /\ held' = [held EXCEPT ![ChainOf(e)] = @ (-) Tokens(denom, amount)]
    /\ IF ReturnsThrough(denom, e)
       THEN minted' = [minted EXCEPT ![e] = @ (-) Tokens(denom, amount)] /\ UNCHANGED escrow
       ELSE escrow' = [escrow EXCEPT ![e] = @ (+) Tokens(denom, amount)] /\ UNCHANGED minted

\* A path and the path with an end in front of it.
LEMMA PathIs ==
    ASSUME NEW d \in Paths, NEW e \in Ends
    PROVE  /\ <<e>> \o d \in Paths /\ ReturnsThrough(<<e>> \o d, e)
           /\ Tail(<<e>> \o d) = d
           /\ ReturnsThrough(d, e) => Tail(d) \in Paths /\ d = <<e>> \o Tail(d)
           /\ \A x \in Paths : <<e>> \o d = <<e>> \o x => x = d
           /\ \A g : ReturnsThrough(d, e) /\ ReturnsThrough(d, g) => g = e
  <1> DEFINE S == Ends \cup Chains
  <1>1. d \in Seq(S) /\ Len(d) > 0 /\ e \in S
    BY DEF Paths
  <1> HIDE DEF S
  <1>2. /\ <<e>> \o d \in Seq(S) /\ Len(<<e>> \o d) = Len(d) + 1
        /\ Head(<<e>> \o d) = e /\ Tail(<<e>> \o d) = d
    BY <1>1
  <1>3. ReturnsThrough(d, e) => Tail(d) \in Seq(S) /\ Len(Tail(d)) > 0 /\ d = <<e>> \o Tail(d)
    BY <1>1, BackOf DEF ReturnsThrough
  <1>4. \A x \in Paths : Tail(<<e>> \o x) = x
    BY DEF Paths
  <1>5. \A x \in Paths : <<e>> \o d = <<e>> \o x => x = d
    BY <1>2, <1>4
  <1>6. <<e>> \o d \in Paths /\ ReturnsThrough(<<e>> \o d, e)
    BY <1>1, <1>2 DEF Paths, ReturnsThrough, S
  <1>7. ReturnsThrough(d, e) => Tail(d) \in Paths
    BY <1>3 DEF Paths, S
  <1> QED
    BY <1>2, <1>3, <1>5, <1>6, <1>7 DEF ReturnsThrough

\* What a bag holds less, or more, of a token.
Less(B, A, d, n) ==
    IsPurse(B) /\ \A x : Amount(x, B) = Amount(x, A) - (IF x = d THEN n ELSE 0)
More(B, A, d, n) ==
    IsPurse(B) /\ \A x : Amount(x, B) = Amount(x, A) + (IF x = d THEN n ELSE 0)

\* Taking tokens out leaves less.
LEMMA MinusIsLess ==
    ASSUME NEW A, IsPurse(A), NEW d, NEW n \in Nat \ {0}, n <= Amount(d, A)
    PROVE  Less(A (-) Tokens(d, n), A, d, n)
  BY MinusIs DEF Less, IsPurse

\* Adding tokens leaves more.
LEMMA PlusIsMore ==
    ASSUME NEW A, IsPurse(A), NEW d \in Paths, NEW n \in Nat \ {0}
    PROVE  More(A (+) Tokens(d, n), A, d, n)
  <1>1. IsBag(A) /\ DOMAIN A \subseteq Paths
    BY DEF IsPurse
  <1>2. IsBag(A (+) Tokens(d, n)) /\ DOMAIN (A (+) Tokens(d, n)) = DOMAIN A \cup {d}
    BY <1>1, PlusIs
  <1>3. \A x : Amount(x, A (+) Tokens(d, n)) = Amount(x, A) + (IF x = d THEN n ELSE 0)
    BY <1>1, PlusAmount
  <1> QED
    BY <1>1, <1>2, <1>3 DEF More, IsPurse

\* Only the bag of one end, or of one chain, changes.
Only(bags, k) == \A j \in DOMAIN bags : j # k => bags'[j] = bags[j]

\* A voucher that leaves over its end is there to be taken.
LEMMA VoucherIsThere ==
    ASSUME MoneyOK, NEW e \in Ends, NEW d \in Paths, ReturnsThrough(d, e)
    PROVE  Amount(d, held[ChainOf(e)]) <= Amount(d, minted[e])
  <1>1. \A g \in Ends : IsBag(escrow[g])
    BY DEF MoneyOK, MoneyTypes, IsPurse
  <1>2. ChainOf(e) \in Chains
    BY EndsAre
  <1>3. InEscrow(escrow, ChainOf(e), d) \in Nat
    BY <1>1, <1>2, InEscrowIsNat
  <1>4. Amount(d, held[ChainOf(e)]) \in Nat /\ Amount(d, minted[e]) \in Nat
    BY <1>2, AmountIsNat DEF MoneyOK, MoneyTypes, IsPurse
  <1> QED
    BY <1>3, <1>4 DEF MoneyOK, VouchersAreHeld

\* What a packet carries is in escrow, where it left or where it arrives.
LEMMA EscrowIsThere ==
    ASSUME MoneyOK, NEW i \in DOMAIN packets, packets[i].state \in {"sent", "failed"},
           NEW e \in Ends, NEW d \in Paths, Carries(packets[i], e, d)
    PROVE  packets[i].amount <= Amount(d, escrow[e])
  <1>0. packets \in Seq(Packet)
    BY DEF MoneyOK, MoneyTypes
  <1>1. i \in 1..Len(packets) /\ packets[i] \in Packet
    BY <1>0
  <1>2. /\ InFlight(packets, e, d) \in Nat
        /\ Weight(packets[i], e, d) <= InFlight(packets, e, d)
    BY <1>0, <1>1, InFlightIsNat
  <1>3. Weight(packets[i], e, d) = packets[i].amount /\ packets[i].amount \in Nat
    BY <1>1 DEF Weight, Packet
  <1>4. Amount(<<Counterparty(e)>> \o d, minted[Counterparty(e)]) \in Nat
    BY EndsAre, AmountIsNat DEF MoneyOK, MoneyTypes, IsPurse
  <1>5. Amount(d, escrow[e]) = Amount(<<Counterparty(e)>> \o d, minted[Counterparty(e)])
                               + InFlight(packets, e, d)
    BY DEF MoneyOK, EscrowBacksVouchers
  <1> QED
    BY <1>2, <1>3, <1>4, <1>5

\* The bags that a transfer changes.
LEMMA LeavesIs ==
    ASSUME MoneyOK, NEW e \in Ends, NEW d \in Paths, NEW n \in Nat \ {0},
           n <= Amount(d, held[ChainOf(e)]), Leaves(e, d, n)
    PROVE  /\ Less(held'[ChainOf(e)], held[ChainOf(e)], d, n) /\ Only(held, ChainOf(e))
           /\ held' = [c \in Chains |-> held'[c]]
           /\ IF ReturnsThrough(d, e)
              THEN /\ Less(minted'[e], minted[e], d, n) /\ Only(minted, e)
                   /\ minted' = [g \in Ends |-> minted'[g]] /\ UNCHANGED escrow
              ELSE /\ More(escrow'[e], escrow[e], d, n) /\ Only(escrow, e)
                   /\ escrow' = [g \in Ends |-> escrow'[g]] /\ UNCHANGED minted
  <1>1. ChainOf(e) \in Chains
    BY EndsAre
  <1>2. /\ held = [c \in Chains |-> held[c]] /\ IsPurse(held[ChainOf(e)])
        /\ escrow = [g \in Ends |-> escrow[g]] /\ IsPurse(escrow[e])
        /\ minted = [g \in Ends |-> minted[g]] /\ IsPurse(minted[e])
    BY <1>1 DEF MoneyOK, MoneyTypes
  <1>3. Less(held[ChainOf(e)] (-) Tokens(d, n), held[ChainOf(e)], d, n)
    BY <1>2, MinusIsLess
  <1>4. held' = [held EXCEPT ![ChainOf(e)] = held[ChainOf(e)] (-) Tokens(d, n)]
    BY DEF Leaves
  <1>5. /\ Less(held'[ChainOf(e)], held[ChainOf(e)], d, n) /\ Only(held, ChainOf(e))
        /\ held' = [c \in Chains |-> held'[c]]
    BY <1>1, <1>2, <1>3, <1>4 DEF Only
  <1>6. CASE ReturnsThrough(d, e)
    <2>1. n <= Amount(d, minted[e])
      <3>1. Amount(d, held[ChainOf(e)]) <= Amount(d, minted[e])
        BY <1>6, VoucherIsThere
      <3>2. Amount(d, held[ChainOf(e)]) \in Nat /\ Amount(d, minted[e]) \in Nat
        BY <1>2, AmountIsNat DEF IsPurse
      <3> QED
        BY <3>1, <3>2
    <2>2. Less(minted[e] (-) Tokens(d, n), minted[e], d, n)
      BY <1>2, <2>1, MinusIsLess
    <2>3. minted' = [minted EXCEPT ![e] = minted[e] (-) Tokens(d, n)] /\ UNCHANGED escrow
      BY <1>6 DEF Leaves
    <2>4. Less(minted'[e], minted[e], d, n) /\ Only(minted, e)
          /\ minted' = [g \in Ends |-> minted'[g]]
      BY <1>2, <2>2, <2>3 DEF Only
    <2> QED
      BY <1>5, <1>6, <2>3, <2>4
  <1>7. CASE ~ReturnsThrough(d, e)
    <2>2. More(escrow[e] (+) Tokens(d, n), escrow[e], d, n)
      BY <1>2, PlusIsMore
    <2>3. escrow' = [escrow EXCEPT ![e] = escrow[e] (+) Tokens(d, n)] /\ UNCHANGED minted
      BY <1>7 DEF Leaves
    <2>4. More(escrow'[e], escrow[e], d, n) /\ Only(escrow, e)
          /\ escrow' = [g \in Ends |-> escrow'[g]]
      BY <1>2, <2>2, <2>3 DEF Only
    <2> QED
      BY <1>5, <1>7, <2>3, <2>4
  <1> QED
    BY <1>6, <1>7

\* Amounts are numbers.
LEMMA AmountsAreNat ==
    ASSUME MoneyTypes, NEW d
    PROVE  /\ \A c \in Chains : Amount(d, held[c]) \in Nat
           /\ \A e \in Ends : Amount(d, escrow[e]) \in Nat /\ Amount(d, minted[e]) \in Nat
  BY AmountIsNat DEF MoneyTypes, IsPurse

\* A transfer keeps the accounts.
LEMMA SendKeepsMoney ==
    ASSUME MoneyOK, NEW p \in Packet, p.dst = Counterparty(p.src), p.state = "sent",
           p.amount <= Amount(p.denom, held[ChainOf(p.src)]),
           packets' = Append(packets, p), Leaves(p.src, p.denom, p.amount)
    PROVE  MoneyOK'
  <1> DEFINE e == p.src
             d == p.denom
             n == p.amount
             c == ChainOf(e)
  <1>0. e \in Ends /\ d \in Paths /\ n \in Nat \ {0} /\ c \in Chains
    BY EndsAre DEF Packet
  <1>1. /\ Less(held'[c], held[c], d, n) /\ Only(held, c)
        /\ held' = [b \in Chains |-> held'[b]]
        /\ IF ReturnsThrough(d, e)
           THEN /\ Less(minted'[e], minted[e], d, n) /\ Only(minted, e)
                /\ minted' = [g \in Ends |-> minted'[g]] /\ UNCHANGED escrow
           ELSE /\ More(escrow'[e], escrow[e], d, n) /\ Only(escrow, e)
                /\ escrow' = [g \in Ends |-> escrow'[g]] /\ UNCHANGED minted
    BY <1>0, LeavesIs
  <1> HIDE DEF e, d, n, c
  <1>2. MoneyTypes
    BY DEF MoneyOK
  <1>d. DOMAIN held = Chains /\ DOMAIN escrow = Ends /\ DOMAIN minted = Ends
    BY <1>2 DEF MoneyTypes
  <1>3. MoneyTypes'
    <2>1. packets' \in Seq(Packet)
      BY <1>2 DEF MoneyTypes
    <2>2. \A i \in DOMAIN packets' : packets'[i].dst = Counterparty(packets'[i].src)
      <3>1. DOMAIN packets' = 1..(Len(packets) + 1) /\ Len(packets) \in Nat
            /\ \A i \in 1..Len(packets) : packets'[i] = packets[i] /\ i \in DOMAIN packets
        BY <1>2 DEF MoneyTypes
      <3>2. packets'[Len(packets) + 1] = p
        BY <1>2 DEF MoneyTypes
      <3> QED
        BY <1>2, <3>1, <3>2 DEF MoneyTypes
    <2>3. \A b \in Chains : IsPurse(held'[b])
      BY <1>0, <1>1, <1>2, <1>d DEF MoneyTypes, Only, Less
    <2>4. (\A g \in Ends : IsPurse(escrow'[g])) /\ escrow' = [g \in Ends |-> escrow'[g]]
      BY <1>0, <1>1, <1>2, <1>d DEF MoneyTypes, Only, More
    <2>5. (\A g \in Ends : IsPurse(minted'[g])) /\ minted' = [g \in Ends |-> minted'[g]]
      BY <1>0, <1>1, <1>2, <1>d DEF MoneyTypes, Only, Less
    <2> QED
      BY <1>1, <2>1, <2>2, <2>3, <2>4, <2>5 DEF MoneyTypes
  <1>4. VouchersAreMarked'
    <2> SUFFICES ASSUME NEW g \in Ends, NEW x \in DOMAIN minted'[g] PROVE ReturnsThrough(x, g)
      BY DEF VouchersAreMarked
    <2>1. x \in DOMAIN minted[g]
      <3>1. CASE minted'[g] = minted[g]
        BY <3>1
      <3>2. CASE minted'[g] # minted[g]
        <4>1. g = e /\ Less(minted'[e], minted[e], d, n)
          BY <1>1, <1>d, <3>2 DEF Only
        <4>2. Amount(x, minted'[e]) > 0 /\ Amount(x, minted'[e]) \in Nat
          BY <4>1, AmountIsNat DEF Less, IsPurse
        <4>3. Amount(x, minted[e]) \in Nat
          BY <1>0, <1>2, AmountsAreNat
        <4>4. Amount(x, minted[e]) > 0
          BY <1>0, <4>1, <4>2, <4>3 DEF Less
        <4> QED
          BY <1>0, <1>2, <4>1, <4>4, AmountIsNat DEF MoneyTypes, IsPurse
      <3> QED
        BY <3>1, <3>2
    <2> QED
      BY <2>1 DEF MoneyOK, VouchersAreMarked
  <1>5. EscrowBacksVouchers'
    <2> SUFFICES ASSUME NEW g \in Ends, NEW x \in Paths
                 PROVE  Amount(x, escrow'[g]) =
                            Amount(<<Counterparty(g)>> \o x, minted'[Counterparty(g)])
                            + InFlight(packets', g, x)
      BY DEF EscrowBacksVouchers
    <2> DEFINE h == Counterparty(g)
               y == <<Counterparty(g)>> \o x
    <2>0. h \in Ends /\ y \in Paths /\ Counterparty(h) = g
      BY EndsAre, PathIs
    <2>1. Amount(x, escrow[g]) = Amount(y, minted[h]) + InFlight(packets, g, x)
      BY DEF MoneyOK, EscrowBacksVouchers
    <2>2. InFlight(packets', g, x) = InFlight(packets, g, x) + Weight(p, g, x)
      BY <1>2, SendAdds DEF MoneyTypes
    <2>3. /\ Amount(x, escrow[g]) \in Nat /\ Amount(y, minted[h]) \in Nat
          /\ InFlight(packets, g, x) \in Nat
      BY <1>2, <2>0, AmountsAreNat, InFlightIsNat DEF MoneyTypes
    <2>4. Weight(p, g, x) = IF (e = g /\ d = x /\ ~ReturnsThrough(x, g)) \/ (e = h /\ d = y)
                            THEN n ELSE 0
      BY DEF Weight, Carries, e, d, n
    <2> HIDE DEF h, y
    <2>5. CASE ReturnsThrough(d, e)
      <3>1. UNCHANGED escrow /\ Less(minted'[e], minted[e], d, n) /\ Only(minted, e)
        BY <1>1, <2>5
      <3>2. Weight(p, g, x) = IF e = h /\ d = y THEN n ELSE 0
        BY <2>4, <2>5
      <3>3. Amount(y, minted'[h]) = Amount(y, minted[h]) - (IF e = h /\ d = y THEN n ELSE 0)
        <4>1. CASE h = e
          BY <3>1, <4>1 DEF Less
        <4>2. CASE h # e
          BY <1>d, <2>0, <2>3, <3>1, <4>2 DEF Only
        <4> QED
          BY <4>1, <4>2
      <3> QED
        BY <1>0, <2>1, <2>2, <2>3, <3>1, <3>2, <3>3 DEF h, y
    <2>6. CASE ~ReturnsThrough(d, e)
      <3>1. UNCHANGED minted /\ More(escrow'[e], escrow[e], d, n) /\ Only(escrow, e)
        BY <1>1, <2>6
      <3>2. ~(e = h /\ d = y)
        <4>1. ReturnsThrough(y, h)
          BY <2>0, PathIs DEF h, y
        <4> QED
          BY <2>6, <4>1
      <3>3. Weight(p, g, x) = IF e = g /\ d = x THEN n ELSE 0
        BY <2>4, <2>6, <3>2
      <3>4. Amount(x, escrow'[g]) = Amount(x, escrow[g]) + (IF e = g /\ d = x THEN n ELSE 0)
        <4>1. CASE g = e
          BY <3>1, <4>1 DEF More
        <4>2. CASE g # e
          BY <1>d, <2>3, <3>1, <4>2 DEF Only
        <4> QED
          BY <4>1, <4>2
      <3> QED
        BY <1>0, <2>1, <2>2, <2>3, <3>1, <3>3, <3>4 DEF h, y
    <2> QED
      BY <2>5, <2>6
  <1>6. VouchersAreHeld'
    <2> SUFFICES ASSUME NEW g \in Ends, NEW x \in Paths, ReturnsThrough(x, g)
                 PROVE  Amount(x, held'[ChainOf(g)]) + InEscrow(escrow', ChainOf(g), x) =
                            Amount(x, minted'[g])
      BY DEF VouchersAreHeld
    <2> DEFINE b == ChainOf(g)
    <2>0. b \in Chains
      BY EndsAre
    <2>1. Amount(x, held[b]) + InEscrow(escrow, b, x) = Amount(x, minted[g])
      BY DEF MoneyOK, VouchersAreHeld
    <2>e. (\A j \in Ends : IsBag(escrow[j])) /\ (\A j \in Ends : IsBag(escrow'[j]))
      BY <1>2, <1>3 DEF MoneyTypes, IsPurse
    <2>2. /\ Amount(x, held[b]) \in Nat /\ Amount(x, minted[g]) \in Nat
          /\ InEscrow(escrow, b, x) \in Nat
      BY <1>2, <2>0, <2>e, AmountsAreNat, InEscrowIsNat
    <2> HIDE DEF b
    <2>3. Amount(x, held'[b]) = Amount(x, held[b]) - (IF b = c /\ x = d THEN n ELSE 0)
      <3>1. CASE b = c
        BY <1>1, <3>1 DEF Less
      <3>2. CASE b # c
        BY <1>1, <1>d, <2>0, <2>2, <3>2 DEF Only
      <3> QED
        BY <3>1, <3>2
    <2>4. CASE ReturnsThrough(d, e)
      <3>1. UNCHANGED escrow /\ Less(minted'[e], minted[e], d, n) /\ Only(minted, e)
        BY <1>1, <2>4
      <3>2. x = d => g = e
        BY <2>4 DEF ReturnsThrough
      <3>3. b = c /\ x = d <=> g = e /\ x = d
        BY <3>2 DEF b, c
      <3>4. Amount(x, minted'[g]) = Amount(x, minted[g]) - (IF g = e /\ x = d THEN n ELSE 0)
        <4>1. CASE g = e
          BY <3>1, <4>1 DEF Less
        <4>2. CASE g # e
          BY <1>d, <2>2, <3>1, <4>2 DEF Only
        <4> QED
          BY <4>1, <4>2
      <3> QED
        BY <1>0, <2>1, <2>2, <2>3, <3>1, <3>3, <3>4 DEF b
    <2>5. CASE ~ReturnsThrough(d, e)
      <3>1. UNCHANGED minted /\ More(escrow'[e], escrow[e], d, n) /\ Only(escrow, e)
        BY <1>1, <2>5
      <3>2. \A j \in Ends : j # e => Amount(x, escrow'[j]) = Amount(x, escrow[j])
        BY <1>d, <3>1 DEF Only
      <3>3. /\ InEscrow(escrow', c, x) =
                  InEscrow(escrow, c, x) + Amount(x, escrow'[e]) - Amount(x, escrow[e])
            /\ \A a \in Chains : a # c => InEscrow(escrow', a, x) = InEscrow(escrow, a, x)
        <4>1. PICK accounts, others : accounts = escrow /\ others = escrow'
          OBVIOUS
        <4>2. /\ \A j \in Ends : IsBag(accounts[j])
              /\ \A j \in Ends : IsBag(others[j])
              /\ \A j \in Ends : j # e => Amount(x, others[j]) = Amount(x, accounts[j])
          BY <2>e, <3>2, <4>1
        <4>3. /\ InEscrow(others, ChainOf(e), x) = InEscrow(accounts, ChainOf(e), x)
                       + Amount(x, others[e]) - Amount(x, accounts[e])
              /\ \A a \in Chains : a # ChainOf(e) => InEscrow(others, a, x) = InEscrow(accounts, a, x)
          BY <1>0, <4>2, InEscrowChanges
        <4> QED
          BY <4>1, <4>3 DEF c
      <3>4. /\ Amount(x, escrow'[e]) = Amount(x, escrow[e]) + (IF x = d THEN n ELSE 0)
            /\ Amount(x, escrow[e]) \in Nat
        BY <1>0, <1>2, <3>1, AmountsAreNat DEF More
      <3>5. InEscrow(escrow', b, x) = InEscrow(escrow, b, x) + (IF b = c /\ x = d THEN n ELSE 0)
        BY <1>0, <2>0, <2>2, <3>3, <3>4
      <3> QED
        BY <1>0, <2>1, <2>2, <2>3, <3>1, <3>5 DEF b
    <2> QED
      BY <2>4, <2>5
  <1> QED
    BY <1>3, <1>4, <1>5, <1>6 DEF MoneyOK

InFlightStates == {"sent", "failed"}

\* A packet carries one token between one pair of ends.
LEMMA CarriesOne ==
    ASSUME NEW p \in Packet, NEW e \in Ends, NEW d \in Paths, Carries(p, e, d),
           NEW g \in Ends, NEW x \in Paths
    PROVE  Carries(p, g, x) <=> g = e /\ x = d
  <1>1. \A h \in Ends : Counterparty(h) \in Ends /\ Counterparty(Counterparty(h)) = h
    BY EndsAre
  <1>2. \A h \in Ends, y \in Paths : ReturnsThrough(<<h>> \o y, h)
    BY PathIs
  <1>4. \A h \in Ends, y, z \in Paths : <<h>> \o y = <<h>> \o z => y = z
    BY PathIs
  <1>3. ASSUME Carries(p, g, x) PROVE g = e /\ x = d
    <2>1. CASE p.src = e /\ p.denom = d /\ ~ReturnsThrough(d, e)
      BY <1>1, <1>2, <1>3, <2>1 DEF Carries
    <2>2. CASE p.src = Counterparty(e) /\ p.denom = <<Counterparty(e)>> \o d
      <3>1. ~(p.src = g /\ p.denom = x /\ ~ReturnsThrough(x, g))
        BY <1>1, <1>2, <2>2
      <3>2. p.src = Counterparty(g) /\ p.denom = <<Counterparty(g)>> \o x
        BY <1>3, <3>1 DEF Carries
      <3>3. g = e
        BY <1>1, <2>2, <3>2
      <3> QED
        BY <1>4, <2>2, <3>2, <3>3, <1>1
    <2> QED
      BY <2>1, <2>2 DEF Carries
  <1> QED
    BY <1>3

\* What every packet in flight carries.
LEMMA CarriesSome ==
    ASSUME NEW p \in Packet
    PROVE  IF ReturnsThrough(p.denom, p.src)
           THEN /\ Carries(p, Counterparty(p.src), Tail(p.denom)) /\ Tail(p.denom) \in Paths
                /\ p.denom = <<p.src>> \o Tail(p.denom)
           ELSE Carries(p, p.src, p.denom)
  <1>1. p.src \in Ends /\ p.denom \in Paths
    BY DEF Packet
  <1>2. Counterparty(Counterparty(p.src)) = p.src
    BY <1>1, EndsAre
  <1>3. ReturnsThrough(p.denom, p.src) =>
            Tail(p.denom) \in Paths /\ p.denom = <<p.src>> \o Tail(p.denom)
    BY <1>1, PathIs
  <1> QED
    BY <1>2, <1>3 DEF Carries

\* The state of one packet changes.
StateChange(sent, after, i, state) == after = [sent EXCEPT ![i].state = state]

\* A packet that changes its state is the same transfer, and the others stay.
LEMMA StateChangeIs ==
    ASSUME NEW sent \in Seq(Packet), NEW i \in DOMAIN sent, NEW state \in PacketStates,
           NEW after, StateChange(sent, after, i, state)
    PROVE  /\ after \in Seq(Packet) /\ DOMAIN after = DOMAIN sent
           /\ \A j \in DOMAIN sent : j # i => after[j] = sent[j]
           /\ after[i].state = state /\ after[i].src = sent[i].src /\ after[i].dst = sent[i].dst
           /\ after[i].denom = sent[i].denom /\ after[i].amount = sent[i].amount
           /\ \A e, d : InFlight(after, e, d) = InFlight(sent, e, d)
                            + Weight(after[i], e, d) - Weight(sent[i], e, d)
  <1>1. after = [sent EXCEPT ![i].state = state]
    BY DEF StateChange
  <1>2. /\ after \in Seq(Packet) /\ DOMAIN after = DOMAIN sent
        /\ \A j \in DOMAIN sent : j # i => after[j] = sent[j]
        /\ after[i] = [sent[i] EXCEPT !.state = state]
    BY <1>1, StateChanges
  <1>a. after \in Seq(Packet) /\ \A j \in DOMAIN sent : j # i => after[j] = sent[j]
    BY <1>2
  <1>3. sent[i] \in Packet
    OBVIOUS
  <1>4. /\ after[i].state = state /\ after[i].src = sent[i].src /\ after[i].dst = sent[i].dst
        /\ after[i].denom = sent[i].denom /\ after[i].amount = sent[i].amount
    BY <1>2, <1>3 DEF Packet
  <1>5. ASSUME NEW e, NEW d
        PROVE  InFlight(after, e, d) = InFlight(sent, e, d)
                   + Weight(after[i], e, d) - Weight(sent[i], e, d)
    <2>1. Len(after) = Len(sent)
      BY <1>1, StateChanges
    <2> QED
      BY <1>a, <2>1, WeightChanges
  <1> QED
    BY <1>2, <1>4, <1>5

\* The types of the packets when the state of one changes.
LEMMA PacketsStay ==
    ASSUME MoneyTypes, NEW i \in DOMAIN packets, NEW state \in PacketStates,
           StateChange(packets, packets', i, state)
    PROVE  /\ packets' \in Seq(Packet)
           /\ \A j \in DOMAIN packets' : packets'[j].dst = Counterparty(packets'[j].src)
  <1>1. /\ packets' \in Seq(Packet) /\ DOMAIN packets' = DOMAIN packets
        /\ \A j \in DOMAIN packets : j # i => packets'[j] = packets[j]
        /\ packets'[i].src = packets[i].src /\ packets'[i].dst = packets[i].dst
    BY StateChangeIs DEF MoneyTypes
  <1>2. \A j \in DOMAIN packets : packets[j].dst = Counterparty(packets[j].src)
    BY DEF MoneyTypes
  <1> QED
    BY <1>1, <1>2

\* A packet that is settled takes what it carries out of flight.
LEMMA PacketSettles ==
    ASSUME NEW sent \in Seq(Packet), NEW i \in DOMAIN sent,
           NEW state \in PacketStates, state \notin InFlightStates,
           sent[i].state \in InFlightStates, NEW after, StateChange(sent, after, i, state),
           NEW e \in Ends, NEW d \in Paths, Carries(sent[i], e, d)
    PROVE  \A g \in Ends, x \in Paths :
              InFlight(after, g, x) =
                 InFlight(sent, g, x) - (IF g = e /\ x = d THEN sent[i].amount ELSE 0)
  <1>1. sent[i] \in Packet /\ sent[i].amount \in Nat
    <2>1. sent[i] \in Packet
      OBVIOUS
    <2> QED
      BY <2>1 DEF Packet
  <1>2. /\ after[i].state = state
        /\ \A g, x : InFlight(after, g, x) = InFlight(sent, g, x)
                            + Weight(after[i], g, x) - Weight(sent[i], g, x)
    BY StateChangeIs
  <1>3. \A g, x : Weight(after[i], g, x) = 0
    BY <1>2 DEF Weight, InFlightStates
  <1>4. ASSUME NEW g \in Ends, NEW x \in Paths
        PROVE  Weight(sent[i], g, x) = IF g = e /\ x = d THEN sent[i].amount ELSE 0
    <2>1. Carries(sent[i], g, x) <=> g = e /\ x = d
      BY <1>1, CarriesOne
    <2> QED
      BY <2>1 DEF Weight, InFlightStates
  <1>5. \A g, x : InFlight(sent, g, x) \in Nat
    BY InFlightIsNat
  <1> QED
    BY <1>1, <1>2, <1>3, <1>4, <1>5

\* A packet that stays in flight, or out of it, moves no tokens.
LEMMA PacketRests ==
    ASSUME NEW sent \in Seq(Packet), NEW i \in DOMAIN sent, NEW state \in PacketStates,
           sent[i].state \in InFlightStates <=> state \in InFlightStates,
           NEW after, StateChange(sent, after, i, state)
    PROVE  \A g, x : InFlight(after, g, x) = InFlight(sent, g, x)
  <1>2. /\ after[i].state = state /\ after[i].src = sent[i].src
        /\ after[i].denom = sent[i].denom /\ after[i].amount = sent[i].amount
        /\ \A g, x : InFlight(after, g, x) = InFlight(sent, g, x)
                            + Weight(after[i], g, x) - Weight(sent[i], g, x)
    BY StateChangeIs
  <1>3. \A g, x : Weight(after[i], g, x) = Weight(sent[i], g, x)
    BY <1>2 DEF Weight, Carries, InFlightStates
  <1>4. \A g, x : InFlight(sent, g, x) \in Nat /\ Weight(sent[i], g, x) \in Nat
    <2>1. i \in 1..Len(sent)
      OBVIOUS
    <2> QED
      BY <2>1, InFlightIsNat
  <1> QED
    BY <1>2, <1>3, <1>4

\* The accounts are kept when no tokens move.
LEMMA RestKeepsMoney ==
    ASSUME MoneyOK, NEW i \in DOMAIN packets, NEW state \in PacketStates,
           packets[i].state \in InFlightStates <=> state \in InFlightStates,
           StateChange(packets, packets', i, state),
           UNCHANGED <<held, escrow, minted>>
    PROVE  MoneyOK'
  <1>1. MoneyTypes /\ VouchersAreMarked /\ EscrowBacksVouchers /\ VouchersAreHeld
    BY DEF MoneyOK
  <1>2. /\ packets' \in Seq(Packet)
        /\ \A j \in DOMAIN packets' : packets'[j].dst = Counterparty(packets'[j].src)
    BY <1>1, PacketsStay
  <1>3. MoneyTypes'
    BY <1>1, <1>2 DEF MoneyTypes
  <1>4. VouchersAreMarked' /\ VouchersAreHeld'
    BY <1>1 DEF VouchersAreMarked, VouchersAreHeld
  <1>5. \A g, x : InFlight(packets', g, x) = InFlight(packets, g, x)
    <2>1. packets \in Seq(Packet)
      BY <1>1 DEF MoneyTypes
    <2> QED
      BY <2>1, PacketRests
  <1>6. EscrowBacksVouchers'
    BY <1>1, <1>5 DEF EscrowBacksVouchers
  <1> QED
    BY <1>3, <1>4, <1>6 DEF MoneyOK

\* Tokens that leave an escrow account to an account of the chain.
Unlocks(e, d, n) ==
    /\ escrow' = [escrow EXCEPT ![e] = @ (-) Tokens(d, n)]
    /\ held' = [held EXCEPT ![ChainOf(e)] = @ (+) Tokens(d, n)]
    /\ UNCHANGED minted

\* Vouchers of an end that are minted to an account of the chain.
Mints(e, d, n) ==
    /\ minted' = [minted EXCEPT ![e] = @ (+) Tokens(d, n)]
    /\ held' = [held EXCEPT ![ChainOf(e)] = @ (+) Tokens(d, n)]
    /\ UNCHANGED escrow

\* Tokens that arrive are held by the chain of the end, and no other account changes.
LEMMA HeldIsMore ==
    ASSUME MoneyTypes, NEW e \in Ends, NEW d \in Paths, NEW n \in Nat \ {0},
           held' = [held EXCEPT ![ChainOf(e)] = @ (+) Tokens(d, n)]
    PROVE  /\ \A c \in Chains : IsPurse(held'[c]) /\ held' = [b \in Chains |-> held'[b]]
           /\ \A c \in Chains, x \in Paths : Amount(x, held'[c]) =
                  Amount(x, held[c]) + (IF c = ChainOf(e) /\ x = d THEN n ELSE 0)
  <1>1. ChainOf(e) \in Chains
    BY EndsAre
  <1>2. held = [c \in Chains |-> held[c]] /\ IsPurse(held[ChainOf(e)])
    BY <1>1 DEF MoneyTypes
  <1>3. PICK B : B = held[ChainOf(e)] (+) Tokens(d, n)
    OBVIOUS
  <1>4. held' = [held EXCEPT ![ChainOf(e)] = B]
    BY <1>3
  <1>5. held'[ChainOf(e)] = B /\ (\A c \in Chains : c # ChainOf(e) => held'[c] = held[c])
        /\ held' = [b \in Chains |-> held'[b]]
    BY <1>1, <1>2, <1>4
  <1>6. More(B, held[ChainOf(e)], d, n)
    BY <1>2, <1>3, PlusIsMore
  <1>7. \A c \in Chains : IsPurse(held'[c])
    <2>1. \A c \in Chains : IsPurse(held[c])
      BY DEF MoneyTypes
    <2> QED
      BY <1>5, <1>6, <2>1 DEF More
  <1>8. ASSUME NEW c \in Chains, NEW x \in Paths
        PROVE  Amount(x, held'[c]) =
                  Amount(x, held[c]) + (IF c = ChainOf(e) /\ x = d THEN n ELSE 0)
    <2>1. CASE c = ChainOf(e)
      BY <1>5, <1>6, <2>1 DEF More
    <2>2. CASE c # ChainOf(e)
      <3>1. Amount(x, held[c]) \in Nat
        BY AmountsAreNat
      <3> QED
        BY <1>5, <2>2, <3>1
    <2> QED
      BY <2>1, <2>2
  <1> QED
    BY <1>5, <1>7, <1>8

\* Tokens that a packet takes out of escrow keep the accounts.
LEMMA UnlockKeepsMoney ==
    ASSUME MoneyOK, NEW i \in DOMAIN packets, NEW state \in PacketStates,
           state \notin InFlightStates, packets[i].state \in InFlightStates,
           StateChange(packets, packets', i, state),
           NEW e \in Ends, NEW d \in Paths, Carries(packets[i], e, d),
           Unlocks(e, d, packets[i].amount)
    PROVE  MoneyOK'
  <1>1. MoneyTypes /\ VouchersAreMarked /\ EscrowBacksVouchers /\ VouchersAreHeld
    BY DEF MoneyOK
  <1>2. PICK n : n = packets[i].amount
    OBVIOUS
  <1>3. packets \in Seq(Packet) /\ n \in Nat \ {0} /\ n <= Amount(d, escrow[e])
    <2>1. packets \in Seq(Packet) /\ packets[i] \in Packet
      BY <1>1 DEF MoneyTypes
    <2>2. packets[i].amount \in Nat \ {0}
      BY <2>1 DEF Packet
    <2>3. packets[i].amount <= Amount(d, escrow[e])
      BY EscrowIsThere DEF InFlightStates
    <2> QED
      BY <1>2, <2>1, <2>2, <2>3
  <1>4. /\ escrow' = [escrow EXCEPT ![e] = escrow[e] (-) Tokens(d, n)]
        /\ held' = [held EXCEPT ![ChainOf(e)] = held[ChainOf(e)] (+) Tokens(d, n)]
        /\ UNCHANGED minted
    BY <1>2 DEF Unlocks
  <1>5. /\ \A c \in Chains : IsPurse(held'[c]) /\ held' = [b \in Chains |-> held'[b]]
        /\ \A c \in Chains, x \in Paths : Amount(x, held'[c]) =
               Amount(x, held[c]) + (IF c = ChainOf(e) /\ x = d THEN n ELSE 0)
    BY <1>1, <1>3, <1>4, HeldIsMore
  <1>6. /\ Less(escrow'[e], escrow[e], d, n)
        /\ \A g \in Ends : g # e => escrow'[g] = escrow[g]
        /\ escrow' = [g \in Ends |-> escrow'[g]]
    <2>1. escrow = [g \in Ends |-> escrow[g]] /\ IsPurse(escrow[e])
      BY <1>1 DEF MoneyTypes
    <2>2. PICK B : B = escrow[e] (-) Tokens(d, n)
      OBVIOUS
    <2>3. Less(B, escrow[e], d, n)
      BY <1>3, <2>1, <2>2, MinusIsLess
    <2>4. escrow' = [escrow EXCEPT ![e] = B]
      BY <1>4, <2>2
    <2> QED
      BY <2>1, <2>3, <2>4
  <1>7. \A g \in Ends, x \in Paths : Amount(x, escrow'[g]) =
            Amount(x, escrow[g]) - (IF g = e /\ x = d THEN n ELSE 0)
    <2> TAKE g \in Ends, x \in Paths
    <2>1. Amount(x, escrow[g]) \in Nat
      BY <1>1, AmountsAreNat
    <2>2. CASE g = e
      BY <1>6, <2>2 DEF Less
    <2>3. CASE g # e
      BY <1>6, <2>1, <2>3
    <2> QED
      BY <2>2, <2>3
  <1>8. \A g \in Ends, x \in Paths : InFlight(packets', g, x) =
            InFlight(packets, g, x) - (IF g = e /\ x = d THEN n ELSE 0)
    BY <1>2, <1>3, PacketSettles
  <1>9. MoneyTypes'
    <2>1. /\ packets' \in Seq(Packet)
          /\ \A j \in DOMAIN packets' : packets'[j].dst = Counterparty(packets'[j].src)
      BY <1>1, PacketsStay
    <2>2. \A g \in Ends : IsPurse(escrow'[g])
      <3>1. \A g \in Ends : IsPurse(escrow[g])
        BY <1>1 DEF MoneyTypes
      <3> QED
        BY <1>6, <3>1 DEF Less
    <2>3. minted' = [g \in Ends |-> minted'[g]] /\ \A g \in Ends : IsPurse(minted'[g])
      BY <1>1, <1>4 DEF MoneyTypes
    <2>4. held' = [c \in Chains |-> held'[c]]
      <3>1. \E c : c \in Chains
        BY EndsAre
      <3> QED
        BY <1>5, <3>1
    <2> QED
      BY <1>5, <1>6, <2>1, <2>2, <2>3, <2>4 DEF MoneyTypes
  <1>10. VouchersAreMarked'
    BY <1>1, <1>4 DEF VouchersAreMarked
  <1>11. EscrowBacksVouchers'
    <2> SUFFICES ASSUME NEW g \in Ends, NEW x \in Paths
                 PROVE  Amount(x, escrow'[g]) =
                            Amount(<<Counterparty(g)>> \o x, minted'[Counterparty(g)])
                            + InFlight(packets', g, x)
      BY DEF EscrowBacksVouchers
    <2>1. PICK y, h : y = <<Counterparty(g)>> \o x /\ h = Counterparty(g)
      OBVIOUS
    <2>2. y \in Paths /\ h \in Ends
      BY <2>1, EndsAre, PathIs
    <2>3. Amount(x, escrow[g]) = Amount(y, minted[h]) + InFlight(packets, g, x)
      BY <1>1, <2>1 DEF EscrowBacksVouchers
    <2>4. Amount(x, escrow[g]) \in Nat /\ Amount(y, minted[h]) \in Nat
      BY <1>1, <2>2, AmountsAreNat
    <2>5. InFlight(packets, g, x) \in Nat
      BY <1>3, InFlightIsNat
    <2>6. Amount(x, escrow'[g]) = Amount(y, minted'[h]) + InFlight(packets', g, x)
      BY <1>3, <1>4, <1>7, <1>8, <2>3, <2>4, <2>5
    <2> QED
      BY <2>1, <2>6
  <1>12. VouchersAreHeld'
    <2> SUFFICES ASSUME NEW g \in Ends, NEW x \in Paths, ReturnsThrough(x, g)
                 PROVE  Amount(x, held'[ChainOf(g)]) + InEscrow(escrow', ChainOf(g), x) =
                            Amount(x, minted'[g])
      BY DEF VouchersAreHeld
    <2>1. PICK b, c : b = ChainOf(g) /\ c = ChainOf(e)
      OBVIOUS
    <2>2. b \in Chains /\ c \in Chains
      BY <2>1, EndsAre
    <2>3. Amount(x, held[b]) + InEscrow(escrow, b, x) = Amount(x, minted[g])
      BY <1>1, <2>1 DEF VouchersAreHeld
    <2>4. (\A j \in Ends : IsBag(escrow[j])) /\ (\A j \in Ends : IsBag(escrow'[j]))
      BY <1>1, <1>9 DEF MoneyTypes, IsPurse
    <2>5. /\ InEscrow(escrow', c, x) =
                 InEscrow(escrow, c, x) + Amount(x, escrow'[e]) - Amount(x, escrow[e])
          /\ \A a \in Chains : a # c => InEscrow(escrow', a, x) = InEscrow(escrow, a, x)
      <3>1. \A j \in Ends : j # e => Amount(x, escrow'[j]) = Amount(x, escrow[j])
        BY <1>6
      <3> QED
        BY <2>1, <2>4, <3>1, InEscrowChanges
    <2>6. /\ Amount(x, held[b]) \in Nat /\ Amount(x, minted[g]) \in Nat
          /\ InEscrow(escrow, b, x) \in Nat /\ Amount(x, escrow[e]) \in Nat
      BY <1>1, <2>2, <2>4, AmountsAreNat, InEscrowIsNat
    <2>7. Amount(x, escrow'[e]) = Amount(x, escrow[e]) - (IF x = d THEN n ELSE 0)
      BY <1>7
    <2>8. Amount(x, held'[b]) = Amount(x, held[b]) + (IF b = c /\ x = d THEN n ELSE 0)
      BY <1>5, <2>1, <2>2
    <2>9. InEscrow(escrow', b, x) = InEscrow(escrow, b, x) - (IF b = c /\ x = d THEN n ELSE 0)
      BY <1>3, <2>2, <2>5, <2>6, <2>7
    <2>10. Amount(x, held'[b]) + InEscrow(escrow', b, x) = Amount(x, minted'[g])
      BY <1>3, <1>4, <2>3, <2>6, <2>8, <2>9
    <2> QED
      BY <2>1, <2>10
  <1> QED
    BY <1>9, <1>10, <1>11, <1>12 DEF MoneyOK

\* Vouchers that a packet brings, or brings back, keep the accounts.
LEMMA MintKeepsMoney ==
    ASSUME MoneyOK, NEW i \in DOMAIN packets, NEW state \in PacketStates,
           state \notin InFlightStates, packets[i].state \in InFlightStates,
           StateChange(packets, packets', i, state),
           NEW e \in Ends, NEW d \in Paths, Carries(packets[i], e, d),
           Mints(Counterparty(e), <<Counterparty(e)>> \o d, packets[i].amount)
    PROVE  MoneyOK'
  <1>1. MoneyTypes /\ VouchersAreMarked /\ EscrowBacksVouchers /\ VouchersAreHeld
    BY DEF MoneyOK
  <1>2. PICK n, k, v : /\ n = packets[i].amount /\ k = Counterparty(e)
                       /\ v = <<Counterparty(e)>> \o d
    OBVIOUS
  <1>3. /\ packets \in Seq(Packet) /\ n \in Nat \ {0} /\ k \in Ends /\ Counterparty(k) = e
        /\ v \in Paths /\ ReturnsThrough(v, k)
    <2>1. packets \in Seq(Packet) /\ packets[i] \in Packet
      BY <1>1 DEF MoneyTypes
    <2>2. packets[i].amount \in Nat \ {0}
      BY <2>1 DEF Packet
    <2>3. k \in Ends /\ Counterparty(k) = e
      BY <1>2, EndsAre
    <2>4. v \in Paths /\ ReturnsThrough(v, k)
      BY <1>2, <2>3, PathIs
    <2> QED
      BY <1>2, <2>1, <2>2, <2>3, <2>4
  <1>4. /\ minted' = [minted EXCEPT ![k] = minted[k] (+) Tokens(v, n)]
        /\ held' = [held EXCEPT ![ChainOf(k)] = held[ChainOf(k)] (+) Tokens(v, n)]
        /\ UNCHANGED escrow
    BY <1>2 DEF Mints
  <1>5. /\ \A c \in Chains : IsPurse(held'[c]) /\ held' = [b \in Chains |-> held'[b]]
        /\ \A c \in Chains, x \in Paths : Amount(x, held'[c]) =
               Amount(x, held[c]) + (IF c = ChainOf(k) /\ x = v THEN n ELSE 0)
    BY <1>1, <1>3, <1>4, HeldIsMore
  <1>6. /\ More(minted'[k], minted[k], v, n)
        /\ \A g \in Ends : g # k => minted'[g] = minted[g]
        /\ minted' = [g \in Ends |-> minted'[g]]
    <2>1. minted = [g \in Ends |-> minted[g]] /\ IsPurse(minted[k])
      BY <1>1, <1>3 DEF MoneyTypes
    <2>2. PICK B : B = minted[k] (+) Tokens(v, n)
      OBVIOUS
    <2>3. More(B, minted[k], v, n)
      BY <1>3, <2>1, <2>2, PlusIsMore
    <2>4. minted' = [minted EXCEPT ![k] = B]
      BY <1>4, <2>2
    <2> QED
      BY <1>3, <2>1, <2>3, <2>4
  <1>7. \A g \in Ends, x \in Paths : Amount(x, minted'[g]) =
            Amount(x, minted[g]) + (IF g = k /\ x = v THEN n ELSE 0)
    <2> TAKE g \in Ends, x \in Paths
    <2>1. Amount(x, minted[g]) \in Nat
      BY <1>1, AmountsAreNat
    <2>2. CASE g = k
      BY <1>6, <2>2 DEF More
    <2>3. CASE g # k
      BY <1>6, <2>1, <2>3
    <2> QED
      BY <2>2, <2>3
  <1>8. \A g \in Ends, x \in Paths : InFlight(packets', g, x) =
            InFlight(packets, g, x) - (IF g = e /\ x = d THEN n ELSE 0)
    BY <1>2, <1>3, PacketSettles
  <1>9. MoneyTypes'
    <2>1. /\ packets' \in Seq(Packet)
          /\ \A j \in DOMAIN packets' : packets'[j].dst = Counterparty(packets'[j].src)
      BY <1>1, PacketsStay
    <2>2. \A g \in Ends : IsPurse(minted'[g])
      <3>1. \A g \in Ends : IsPurse(minted[g])
        BY <1>1 DEF MoneyTypes
      <3> QED
        BY <1>6, <3>1 DEF More
    <2>3. escrow' = [g \in Ends |-> escrow'[g]] /\ \A g \in Ends : IsPurse(escrow'[g])
      BY <1>1, <1>4 DEF MoneyTypes
    <2>4. held' = [c \in Chains |-> held'[c]]
      <3>1. \E c : c \in Chains
        BY EndsAre
      <3> QED
        BY <1>5, <3>1
    <2> QED
      BY <1>5, <1>6, <2>1, <2>2, <2>3, <2>4 DEF MoneyTypes
  <1>10. VouchersAreMarked'
    <2> SUFFICES ASSUME NEW g \in Ends, NEW x \in DOMAIN minted'[g] PROVE ReturnsThrough(x, g)
      BY DEF VouchersAreMarked
    <2>1. CASE g = k
      <3>1. Amount(x, minted'[k]) > 0 /\ Amount(x, minted'[k]) \in Nat
        BY <1>6, <2>1, AmountIsNat DEF More, IsPurse
      <3>2. CASE x = v
        BY <1>3, <2>1, <3>2
      <3>3. CASE x # v
        <4>1. Amount(x, minted[k]) \in Nat
          BY <1>1, <1>3, AmountsAreNat
        <4>2. Amount(x, minted[k]) > 0
          BY <1>6, <3>1, <3>3, <4>1 DEF More
        <4>3. x \in DOMAIN minted[k]
          BY <1>1, <1>3, <4>2, AmountIsNat DEF MoneyTypes, IsPurse
        <4> QED
          BY <1>1, <1>3, <2>1, <4>3 DEF VouchersAreMarked
      <3> QED
        BY <3>2, <3>3
    <2>2. CASE g # k
      BY <1>1, <1>6, <2>2 DEF VouchersAreMarked
    <2> QED
      BY <2>1, <2>2
  <1>11. EscrowBacksVouchers'
    <2> SUFFICES ASSUME NEW g \in Ends, NEW x \in Paths
                 PROVE  Amount(x, escrow'[g]) =
                            Amount(<<Counterparty(g)>> \o x, minted'[Counterparty(g)])
                            + InFlight(packets', g, x)
      BY DEF EscrowBacksVouchers
    <2>1. PICK y, h : y = <<Counterparty(g)>> \o x /\ h = Counterparty(g)
      OBVIOUS
    <2>2. y \in Paths /\ h \in Ends /\ Counterparty(h) = g
      BY <2>1, EndsAre, PathIs
    <2>3. Amount(x, escrow[g]) = Amount(y, minted[h]) + InFlight(packets, g, x)
      BY <1>1, <2>1 DEF EscrowBacksVouchers
    <2>4. Amount(x, escrow[g]) \in Nat /\ Amount(y, minted[h]) \in Nat
      BY <1>1, <2>2, AmountsAreNat
    <2>5. InFlight(packets, g, x) \in Nat
      BY <1>3, InFlightIsNat
    <2>6. h = k /\ y = v <=> g = e /\ x = d
      <3>1. h = k <=> g = e
        BY <1>2, <1>3, <2>1, <2>2
      <3>2. h = k /\ y = v => x = d
        <4>1. SUFFICES ASSUME h = k, y = v PROVE x = d
          OBVIOUS
        <4>2. <<k>> \o x = <<k>> \o d
          BY <1>2, <2>1, <4>1
        <4> QED
          BY <1>3, <4>2, PathIs
      <3>3. g = e /\ x = d => y = v
        BY <1>2, <2>1
      <3> QED
        BY <3>1, <3>2, <3>3
    <2>7. Amount(x, escrow'[g]) = Amount(y, minted'[h]) + InFlight(packets', g, x)
      BY <1>3, <1>4, <1>7, <1>8, <2>2, <2>3, <2>4, <2>5, <2>6
    <2> QED
      BY <2>1, <2>7
  <1>12. VouchersAreHeld'
    <2> SUFFICES ASSUME NEW g \in Ends, NEW x \in Paths, ReturnsThrough(x, g)
                 PROVE  Amount(x, held'[ChainOf(g)]) + InEscrow(escrow', ChainOf(g), x) =
                            Amount(x, minted'[g])
      BY DEF VouchersAreHeld
    <2>1. PICK b, c : b = ChainOf(g) /\ c = ChainOf(k)
      OBVIOUS
    <2>2. b \in Chains /\ c \in Chains
      BY <1>3, <2>1, EndsAre
    <2>3. Amount(x, held[b]) + InEscrow(escrow, b, x) = Amount(x, minted[g])
      BY <1>1, <2>1 DEF VouchersAreHeld
    <2>4. \A j \in Ends : IsBag(escrow[j])
      BY <1>1 DEF MoneyTypes, IsPurse
    <2>5. /\ Amount(x, held[b]) \in Nat /\ Amount(x, minted[g]) \in Nat
          /\ InEscrow(escrow, b, x) \in Nat
      BY <1>1, <2>2, <2>4, AmountsAreNat, InEscrowIsNat
    <2>6. b = c /\ x = v <=> g = k /\ x = v
      <3>1. x = v => g = k
        BY <1>3 DEF ReturnsThrough
      <3> QED
        BY <2>1, <3>1
    <2>7. Amount(x, held'[b]) = Amount(x, held[b]) + (IF g = k /\ x = v THEN n ELSE 0)
      BY <1>5, <2>1, <2>2, <2>6
    <2>8. Amount(x, minted'[g]) = Amount(x, minted[g]) + (IF g = k /\ x = v THEN n ELSE 0)
      BY <1>7
    <2>9. Amount(x, held'[b]) + InEscrow(escrow', b, x) = Amount(x, minted'[g])
      BY <1>3, <1>4, <2>3, <2>5, <2>7, <2>8
    <2> QED
      BY <2>1, <2>9
  <1> QED
    BY <1>9, <1>10, <1>11, <1>12 DEF MoneyOK

-----------------------------------------------------------------------------
(* Blocks *)

\* A block of one event, and a block with one event more.
LEMMA BlockIs ==
    ASSUME NEW S, NEW events \in Seq(S), NEW v, NEW h
    PROVE  \E after : /\ HandleBlock(v, events, h) = after[Len(events)]
                      /\ after = [n \in 0..Len(events) |-> after[n]] /\ after[0] = v
                      /\ \A n \in 1..Len(events) :
                            after[n] = HandleEvent(after[n - 1], events[n], h)
  <1> DEFINE N == Len(events)
             Is(f, m) == f = [n \in 0..m |-> IF n = 0 THEN v
                                             ELSE HandleEvent(f[n - 1], events[n], h)]
             S2 == {m \in 0..N : \E f : Is(f, m)}
  <1>1. N \in Nat
    OBVIOUS
  <1>2. 0 \in S2
    <2>1. PICK f : f = [n \in 0..0 |-> v]
      OBVIOUS
    <2>2. \A n \in 0..0 : n = 0
      OBVIOUS
    <2>3. Is(f, 0)
      BY <2>1, <2>2
    <2> QED
      BY <2>3, <1>1
  <1>3. ASSUME NEW n \in 1..N, n - 1 \in S2 PROVE n \in S2
    <2>1. PICK g : Is(g, n - 1)
      BY <1>3
    <2> DEFINE f == [m \in 0..n |-> IF m = n THEN HandleEvent(g[n - 1], events[n], h) ELSE g[m]]
    <2>2. ASSUME NEW m \in 0..n
          PROVE  f[m] = IF m = 0 THEN v ELSE HandleEvent(f[m - 1], events[m], h)
      <3>1. CASE m = 0
        BY <2>1, <3>1
      <3>2. CASE m # 0
        <4>1. m - 1 \in 0..(n - 1) /\ m - 1 # n /\ f[m - 1] = g[m - 1]
          BY <3>2
        <4>2. CASE m = n
          BY <3>2, <4>1, <4>2
        <4>3. CASE m # n
          <5>1. m \in 0..(n - 1) /\ f[m] = g[m]
            BY <4>3
          <5> QED
            BY <2>1, <3>2, <4>1, <5>1
        <4> QED
          BY <4>2, <4>3
      <3> QED
        BY <3>1, <3>2
    <2>3. Is(f, n)
      <3>1. f = [m \in 0..n |-> f[m]]
        OBVIOUS
      <3> HIDE DEF f
      <3> QED
        BY <2>2, <3>1
    <2> HIDE DEF f, Is
    <2> QED
      BY <2>3
  <1>4. \A n \in 0..N : n \in S2
    <2> HIDE DEF S2, N
    <2> QED
      BY <1>1, <1>2, <1>3, UpTo
  <1>5. PICK f : Is(f, N)
    BY <1>1, <1>4
  <1> DEFINE after == CHOOSE g : Is(g, N)
  <1>6. Is(after, N)
    BY <1>5
  <1>7. HandleBlock(v, events, h) = after[N]
    BY DEF HandleBlock
  <1> HIDE DEF after
  <1>8. after = [n \in 0..N |-> after[n]] /\ after[0] = v
        /\ \A n \in 1..N : after[n] = HandleEvent(after[n - 1], events[n], h)
    BY <1>1, <1>6
  <1> QED
    BY <1>7, <1>8

\* A block of one event is that event.
LEMMA BlockOfOne ==
    ASSUME NEW v, NEW ev, NEW h
    PROVE  HandleBlock(v, <<ev>>, h) = HandleEvent(v, ev, h)
  <1>1. PICK events : events = <<ev>>
    OBVIOUS
  <1>2. events \in Seq({ev})
    BY <1>1
  <1>3. Len(events) = 1 /\ events[1] = ev
    BY <1>1
  <1>4. PICK after : /\ HandleBlock(v, events, h) = after[Len(events)] /\ after[0] = v
                     /\ \A n \in 1..Len(events) :
                            after[n] = HandleEvent(after[n - 1], events[n], h)
    BY <1>2, BlockIs
  <1>5. 1 \in 1..Len(events) /\ 1 - 1 = 0
    BY <1>3
  <1> QED
    BY <1>1, <1>3, <1>4, <1>5

\* An event that joins a block is handled after the others.
LEMMA BlockOfMore ==
    ASSUME NEW S, NEW events \in Seq(S), NEW ev \in S, NEW v, NEW h
    PROVE  HandleBlock(v, Append(events, ev), h) =
               HandleEvent(HandleBlock(v, events, h), ev, h)
  <1>1. PICK more : more = Append(events, ev)
    OBVIOUS
  <1>2. /\ more \in Seq(S) /\ Len(more) = Len(events) + 1 /\ Len(events) \in Nat
        /\ more[Len(events) + 1] = ev /\ \A n \in 1..Len(events) : more[n] = events[n]
    <2>1. Append(events, ev) \in Seq(S) /\ Len(Append(events, ev)) = Len(events) + 1
      OBVIOUS
    <2>2. Append(events, ev)[Len(events) + 1] = ev /\ Len(events) \in Nat
          /\ \A n \in 1..Len(events) : Append(events, ev)[n] = events[n]
      OBVIOUS
    <2> QED
      BY <1>1, <2>1, <2>2
  <1>3. PICK f : /\ HandleBlock(v, events, h) = f[Len(events)] /\ f[0] = v
                 /\ \A n \in 1..Len(events) : f[n] = HandleEvent(f[n - 1], events[n], h)
    BY BlockIs
  <1>4. PICK g : /\ HandleBlock(v, more, h) = g[Len(more)] /\ g[0] = v
                 /\ \A n \in 1..Len(more) : g[n] = HandleEvent(g[n - 1], more[n], h)
    <2>1. more \in Seq(S)
      BY <1>2
    <2> QED
      BY <2>1, BlockIs
  <1> DEFINE T == {n \in 0..Len(events) : f[n] = g[n]}
  <1>5. 0 \in T
    BY <1>2, <1>3, <1>4
  <1>6. ASSUME NEW n \in 1..Len(events), n - 1 \in T PROVE n \in T
    <2>1. n \in 1..Len(more) /\ more[n] = events[n] /\ f[n - 1] = g[n - 1]
      BY <1>2, <1>6
    <2> QED
      BY <1>3, <1>4, <2>1
  <1>7. \A n \in 0..Len(events) : n \in T
    <2> HIDE DEF T
    <2> QED
      BY <1>2, <1>5, <1>6, UpTo
  <1>8. f[Len(events)] = g[Len(events)]
    BY <1>2, <1>7
  <1>9. Len(more) \in 1..Len(more) /\ Len(more) - 1 = Len(events)
    BY <1>2
  <1> QED
    BY <1>1, <1>2, <1>3, <1>4, <1>8, <1>9

-----------------------------------------------------------------------------
(* Tables *)

IsTable(t) == t = [i \in DOMAIN t |-> t[i]]

IsRow(r) ==
    r = [connection |-> r.connection, cpChannel |-> r.cpChannel, cpChain |-> r.cpChain,
         status |-> r.status, createdAt |-> r.createdAt, lastActivity |-> r.lastActivity,
         lastIn |-> r.lastIn, lastOut |-> r.lastOut, relayIn |-> r.relayIn,
         relayOut |-> r.relayOut, relayOutSuccess |-> r.relayOutSuccess, rate |-> r.rate,
         onThis |-> r.onThis, onCounterparty |-> r.onCounterparty]

IsView(v) ==
    /\ v = [clients |-> v.clients, connections |-> v.connections, channels |-> v.channels,
            denoms |-> v.denoms, traces |-> v.traces, failed |-> v.failed]
    /\ IsTable(v.clients) /\ IsTable(v.connections) /\ IsTable(v.channels) /\ IsTable(v.traces)
    /\ \A e \in DOMAIN v.channels : IsRow(v.channels[e])

\* A view that stops keeps its tables.
LEMMA StopIs ==
    ASSUME NEW v, IsView(v)
    PROVE  /\ IsView(Stop(v)) /\ Stop(v).failed
           /\ Stop(v).clients = v.clients /\ Stop(v).connections = v.connections
           /\ Stop(v).channels = v.channels
  <1>1. PICK w : w = Stop(v)
    OBVIOUS
  <1>2. /\ w.clients = v.clients /\ w.connections = v.connections /\ w.channels = v.channels
        /\ w.denoms = v.denoms /\ w.traces = v.traces /\ w.failed
        /\ w = [clients |-> w.clients, connections |-> w.connections, channels |-> w.channels,
                denoms |-> w.denoms, traces |-> w.traces, failed |-> w.failed]
    BY <1>1 DEF Stop, IsView
  <1>3. IsView(w)
    BY <1>2 DEF IsView
  <1> QED
    BY <1>1, <1>2, <1>3

\* What stays when one row of a channel is written.
RowSet(v, w, e, r) ==
    /\ IsView(w) /\ w.clients = v.clients /\ w.connections = v.connections
    /\ v.denoms \subseteq w.denoms /\ w.traces = v.traces /\ w.failed = v.failed
    /\ DOMAIN w.channels = DOMAIN v.channels /\ w.channels[e] = r
    /\ \A g \in DOMAIN v.channels : g # e => w.channels[g] = v.channels[g]

\* Writing a row of a channel writes nothing else.
LEMMA RowSetIs ==
    ASSUME NEW v, IsView(v), NEW e \in DOMAIN v.channels, NEW r, IsRow(r),
           NEW w, w = [v EXCEPT !.channels[e] = r]
    PROVE  RowSet(v, w, e, r)
  <1>1. /\ w.clients = v.clients /\ w.connections = v.connections
        /\ w.denoms = v.denoms /\ w.traces = v.traces /\ w.failed = v.failed
        /\ w = [clients |-> w.clients, connections |-> w.connections, channels |-> w.channels,
                denoms |-> w.denoms, traces |-> w.traces, failed |-> w.failed]
        /\ w.channels = [v.channels EXCEPT ![e] = r]
    BY DEF IsView
  <1>2. IsTable(v.channels) /\ \A g \in DOMAIN v.channels : IsRow(v.channels[g])
    BY DEF IsView
  <1>3. /\ DOMAIN w.channels = DOMAIN v.channels /\ w.channels[e] = r
        /\ \A g \in DOMAIN v.channels : g # e => w.channels[g] = v.channels[g]
        /\ IsTable(w.channels)
    BY <1>1, <1>2 DEF IsTable
  <1>4. \A g \in DOMAIN w.channels : IsRow(w.channels[g])
    BY <1>2, <1>3
  <1>5. IsView(w)
    <2>1. IsTable(w.clients) /\ IsTable(w.connections) /\ IsTable(w.traces)
      BY <1>1 DEF IsView
    <2> QED
      BY <1>1, <1>3, <1>4, <2>1 DEF IsView
  <1> QED
    BY <1>1, <1>3, <1>5 DEF RowSet

\* Rows written one after the other
LEMMA RowSetTwice ==
    ASSUME NEW v, NEW e \in DOMAIN v.channels, NEW w, NEW r, RowSet(v, w, e, r),
           NEW u, NEW s, RowSet(w, u, e, s)
    PROVE  RowSet(v, u, e, s)
  BY DEF RowSet

-----------------------------------------------------------------------------
(* Rows *)

\* The bonded tokens of a row.
Bonded(r, these, those) == [r EXCEPT !.onThis = these, !.onCounterparty = those]

\* A row after a transfer, a receipt, and the end of a packet, but for the tokens.
Sent(r, seq, h) ==
    UpdateLastActivity(
        UpdateSequence(UpdateTotalRelayOutSuccessRate(Increment(r, "relayOut")), "lastOut", seq), h)
Got(r, seq, h) ==
    UpdateLastActivity(UpdateSequence(Increment(r, "relayIn"), "lastIn", seq), h)
Settled(r, h) ==
    UpdateTotalRelayOutSuccessRate(Increment(UpdateLastActivity(r, h), "relayOutSuccess"))

\* Writing bonded tokens leaves the other columns.
LEMMA BondedIs ==
    ASSUME NEW r, IsRow(r), NEW these, NEW those,
           NEW s, s = Bonded(r, these, those)
    PROVE  /\ IsRow(s)
           /\ s.connection = r.connection /\ s.cpChannel = r.cpChannel
           /\ s.cpChain = r.cpChain /\ s.status = r.status /\ s.createdAt = r.createdAt
           /\ s.lastActivity = r.lastActivity /\ s.lastOut = r.lastOut
           /\ s.relayIn = r.relayIn /\ s.relayOut = r.relayOut
           /\ s.relayOutSuccess = r.relayOutSuccess /\ s.rate = r.rate
           /\ s.onThis = these /\ s.onCounterparty = those
  <1>1. s =
            [connection |-> r.connection, cpChannel |-> r.cpChannel, cpChain |-> r.cpChain,
             status |-> r.status, createdAt |-> r.createdAt, lastActivity |-> r.lastActivity,
             lastIn |-> r.lastIn, lastOut |-> r.lastOut, relayIn |-> r.relayIn,
             relayOut |-> r.relayOut, relayOutSuccess |-> r.relayOutSuccess, rate |-> r.rate,
             onThis |-> these, onCounterparty |-> those]
    BY DEF Bonded, IsRow
  <1> QED
    BY ONLY <1>1 DEF IsRow

\* A transfer writes its sequence and the activity, and leaves the other columns.
LEMMA SentIs ==
    ASSUME NEW r, IsRow(r), NEW seq, NEW h,
           NEW s, s = Sent(r, seq, h)
    PROVE  /\ IsRow(s)
           /\ s.connection = r.connection /\ s.cpChannel = r.cpChannel
           /\ s.cpChain = r.cpChain /\ s.status = r.status /\ s.createdAt = r.createdAt
           /\ s.lastActivity = h /\ s.lastOut = seq /\ s.relayIn = r.relayIn
           /\ s.relayOutSuccess = r.relayOutSuccess /\ s.onThis = r.onThis
           /\ s.onCounterparty = r.onCounterparty
  <1>1. s =
            [connection |-> r.connection, cpChannel |-> r.cpChannel, cpChain |-> r.cpChain,
             status |-> r.status, createdAt |-> r.createdAt, lastActivity |-> h,
             lastIn |-> r.lastIn, lastOut |-> seq, relayIn |-> r.relayIn,
             relayOut |-> r.relayOut + 1, relayOutSuccess |-> r.relayOutSuccess, rate |-> (IF r.relayOut + 1 > 0 THEN <<r.relayOutSuccess, r.relayOut + 1>> ELSE <<0, 1>>),
             onThis |-> r.onThis, onCounterparty |-> r.onCounterparty]
    BY DEF Sent, UpdateLastActivity, UpdateSequence, UpdateTotalRelayOutSuccessRate, Increment, IsRow
  <1> QED
    BY ONLY <1>1 DEF IsRow

\* A transfer adds one to those sent, and the rate is computed after it.
LEMMA SentCounts ==
    ASSUME NEW r, IsRow(r), NEW seq, NEW h,
           NEW s, s = Sent(r, seq, h)
    PROVE  /\ s.relayOut = r.relayOut + 1
           /\ s.rate = (IF r.relayOut + 1 > 0 THEN <<r.relayOutSuccess, r.relayOut + 1>> ELSE <<0, 1>>)
  <1>1. s =
            [connection |-> r.connection, cpChannel |-> r.cpChannel, cpChain |-> r.cpChain,
             status |-> r.status, createdAt |-> r.createdAt, lastActivity |-> h,
             lastIn |-> r.lastIn, lastOut |-> seq, relayIn |-> r.relayIn,
             relayOut |-> r.relayOut + 1, relayOutSuccess |-> r.relayOutSuccess, rate |-> (IF r.relayOut + 1 > 0 THEN <<r.relayOutSuccess, r.relayOut + 1>> ELSE <<0, 1>>),
             onThis |-> r.onThis, onCounterparty |-> r.onCounterparty]
    BY DEF Sent, UpdateLastActivity, UpdateSequence, UpdateTotalRelayOutSuccessRate, Increment, IsRow
  <1> QED
    BY ONLY <1>1

\* A receipt writes the activity and leaves the columns of what was sent.
LEMMA GotIs ==
    ASSUME NEW r, IsRow(r), NEW seq, NEW h,
           NEW s, s = Got(r, seq, h)
    PROVE  /\ IsRow(s)
           /\ s.connection = r.connection /\ s.cpChannel = r.cpChannel
           /\ s.cpChain = r.cpChain /\ s.status = r.status /\ s.createdAt = r.createdAt
           /\ s.lastActivity = h /\ s.lastOut = r.lastOut /\ s.relayOut = r.relayOut
           /\ s.relayOutSuccess = r.relayOutSuccess /\ s.rate = r.rate
           /\ s.onThis = r.onThis /\ s.onCounterparty = r.onCounterparty
  <1>1. s =
            [connection |-> r.connection, cpChannel |-> r.cpChannel, cpChain |-> r.cpChain,
             status |-> r.status, createdAt |-> r.createdAt, lastActivity |-> h,
             lastIn |-> seq, lastOut |-> r.lastOut, relayIn |-> r.relayIn + 1,
             relayOut |-> r.relayOut, relayOutSuccess |-> r.relayOutSuccess, rate |-> r.rate,
             onThis |-> r.onThis, onCounterparty |-> r.onCounterparty]
    BY DEF Got, UpdateLastActivity, UpdateSequence, Increment, IsRow
  <1> QED
    BY ONLY <1>1 DEF IsRow

\* A receipt adds one to those received.
LEMMA GotCounts ==
    ASSUME NEW r, IsRow(r), NEW seq, NEW h,
           NEW s, s = Got(r, seq, h)
    PROVE  /\ s.relayIn = r.relayIn + 1
  <1>1. s =
            [connection |-> r.connection, cpChannel |-> r.cpChannel, cpChain |-> r.cpChain,
             status |-> r.status, createdAt |-> r.createdAt, lastActivity |-> h,
             lastIn |-> seq, lastOut |-> r.lastOut, relayIn |-> r.relayIn + 1,
             relayOut |-> r.relayOut, relayOutSuccess |-> r.relayOutSuccess, rate |-> r.rate,
             onThis |-> r.onThis, onCounterparty |-> r.onCounterparty]
    BY DEF Got, UpdateLastActivity, UpdateSequence, Increment, IsRow
  <1> QED
    BY ONLY <1>1

\* A packet that is settled writes the activity and leaves the columns of the others.
LEMMA SettledIs ==
    ASSUME NEW r, IsRow(r), NEW h,
           NEW s, s = Settled(r, h)
    PROVE  /\ IsRow(s)
           /\ s.connection = r.connection /\ s.cpChannel = r.cpChannel
           /\ s.cpChain = r.cpChain /\ s.status = r.status /\ s.createdAt = r.createdAt
           /\ s.lastActivity = h /\ s.lastOut = r.lastOut /\ s.relayIn = r.relayIn
           /\ s.relayOut = r.relayOut /\ s.onThis = r.onThis
           /\ s.onCounterparty = r.onCounterparty
  <1>1. s =
            [connection |-> r.connection, cpChannel |-> r.cpChannel, cpChain |-> r.cpChain,
             status |-> r.status, createdAt |-> r.createdAt, lastActivity |-> h,
             lastIn |-> r.lastIn, lastOut |-> r.lastOut, relayIn |-> r.relayIn,
             relayOut |-> r.relayOut, relayOutSuccess |-> r.relayOutSuccess + 1, rate |-> (IF r.relayOut > 0 THEN <<r.relayOutSuccess + 1, r.relayOut>> ELSE <<0, 1>>),
             onThis |-> r.onThis, onCounterparty |-> r.onCounterparty]
    BY DEF Settled, UpdateLastActivity, Increment, UpdateTotalRelayOutSuccessRate, IsRow
  <1> QED
    BY ONLY <1>1 DEF IsRow

\* A packet that is settled adds one to those settled, and the rate is computed after it.
LEMMA SettledCounts ==
    ASSUME NEW r, IsRow(r), NEW h,
           NEW s, s = Settled(r, h)
    PROVE  /\ s.relayOutSuccess = r.relayOutSuccess + 1
           /\ s.rate = (IF r.relayOut > 0 THEN <<r.relayOutSuccess + 1, r.relayOut>> ELSE <<0, 1>>)
  <1>1. s =
            [connection |-> r.connection, cpChannel |-> r.cpChannel, cpChain |-> r.cpChain,
             status |-> r.status, createdAt |-> r.createdAt, lastActivity |-> h,
             lastIn |-> r.lastIn, lastOut |-> r.lastOut, relayIn |-> r.relayIn,
             relayOut |-> r.relayOut, relayOutSuccess |-> r.relayOutSuccess + 1, rate |-> (IF r.relayOut > 0 THEN <<r.relayOutSuccess + 1, r.relayOut>> ELSE <<0, 1>>),
             onThis |-> r.onThis, onCounterparty |-> r.onCounterparty]
    BY DEF Settled, UpdateLastActivity, Increment, UpdateTotalRelayOutSuccessRate, IsRow
  <1> QED
    BY ONLY <1>1

-----------------------------------------------------------------------------
(* The events of a packet *)

\* What a packet's event leaves: a row that is written, and perhaps a denom and a trace.
Follows(v, w, e, r) ==
    /\ IsView(w) /\ ~w.failed /\ w.clients = v.clients /\ w.connections = v.connections
    /\ v.denoms \subseteq w.denoms
    /\ DOMAIN w.channels = DOMAIN v.channels /\ w.channels[e] = r
    /\ \A g \in DOMAIN v.channels : g # e => w.channels[g] = v.channels[g]
    /\ IF EnableTxMsgTrace
       THEN \A g \in DOMAIN w.traces :
               IF g = e THEN w.traces[g] = <<r.onThis, r.onCounterparty>>
               ELSE g \in DOMAIN v.traces /\ w.traces[g] = v.traces[g]
       ELSE w.traces = v.traces

\* What an event that fails leaves.
Stops(v, w) ==
    /\ IsView(w) /\ w.failed
    /\ DOMAIN w.channels = DOMAIN v.channels /\ w.connections = v.connections

\* A trace shows the row and changes no other table.
LEMMA TracedIs ==
    ASSUME NEW v, NEW e \in DOMAIN v.channels, ~v.failed,
           NEW u, NEW r, RowSet(v, u, e, r), NEW w, w = Traced(u, e)
    PROVE  Follows(v, w, e, r) /\ w.denoms = u.denoms
  <1>1. /\ IsView(u) /\ u.clients = v.clients /\ u.connections = v.connections
        /\ v.denoms \subseteq u.denoms /\ u.traces = v.traces /\ ~u.failed
        /\ DOMAIN u.channels = DOMAIN v.channels /\ u.channels[e] = r
        /\ \A g \in DOMAIN v.channels : g # e => u.channels[g] = v.channels[g]
    BY DEF RowSet
  <1>2. CASE ~EnableTxMsgTrace
    BY <1>1, <1>2 DEF Traced, Follows
  <1>3. CASE EnableTxMsgTrace
    <2>0. PICK pair : pair = <<r.onThis, r.onCounterparty>>
      OBVIOUS
    <2>1. PICK t : t = With(v.traces, e, pair)
      OBVIOUS
    <2>2. w = [u EXCEPT !.traces = t]
      BY <1>1, <1>3, <2>0, <2>1 DEF Traced
    <2>3. /\ w.clients = u.clients /\ w.connections = u.connections /\ w.channels = u.channels
          /\ w.denoms = u.denoms /\ w.traces = t /\ ~w.failed
          /\ w = [clients |-> w.clients, connections |-> w.connections, channels |-> w.channels,
                  denoms |-> w.denoms, traces |-> w.traces, failed |-> w.failed]
      BY <1>1, <2>2 DEF IsView
    <2>4. /\ IsTable(t) /\ DOMAIN t = DOMAIN v.traces \cup {e}
          /\ t[e] = pair
          /\ \A i \in DOMAIN v.traces : i # e => t[i] = v.traces[i]
      <3>1. PICK tr : tr = v.traces
        OBVIOUS
      <3>2. t = With(tr, e, pair)
        BY <2>1, <3>1
      <3>3. /\ IsTable(t) /\ DOMAIN t = DOMAIN tr \cup {e} /\ t[e] = pair
            /\ \A i \in DOMAIN tr : i # e => t[i] = tr[i]
        BY <3>2 DEF With, IsTable
      <3> QED
        BY <3>1, <3>3
    <2>5. IsView(w)
      BY <1>1, <2>3, <2>4 DEF IsView
    <2> QED
      BY <1>1, <1>3, <2>0, <2>3, <2>4, <2>5 DEF Follows
  <1> QED
    BY <1>2, <1>3

\* An index that stopped leaves no trace.
LEMMA TracedStop ==
    ASSUME NEW v, NEW e, IsView(v), v.failed
    PROVE  Traced(v, e) = v
  BY DEF Traced

\* The bonded tokens that are written.
LEMMA BondedRow ==
    ASSUME NEW r, IsRow(r), NEW x
    PROVE  /\ [r EXCEPT !.onThis = x] = Bonded(r, x, r.onCounterparty)
           /\ [r EXCEPT !.onCounterparty = x] = Bonded(r, r.onThis, x)
  <1>1. PICK a, b : a = r.onThis /\ b = r.onCounterparty
    OBVIOUS
  <1> QED
    BY <1>1 DEF Bonded, IsRow

\* Tokens bonded to this chain are written in the row of the channel.
LEMMA BondedThis ==
    ASSUME NEW v, IsView(v), NEW e \in DOMAIN v.channels, NEW x,
           NEW row, row = v.channels[e], NEW w, w = [v EXCEPT !.channels[e].onThis = x]
    PROVE  RowSet(v, w, e, Bonded(row, x, row.onCounterparty))
  <1>1. IsRow(row)
    BY DEF IsView
  <1>2. PICK r : r = Bonded(row, x, row.onCounterparty)
    OBVIOUS
  <1>3. IsRow(r)
    BY <1>1, <1>2, BondedIs
  <1>4. [row EXCEPT !.onThis = x] = r
    BY <1>1, <1>2, BondedRow
  <1>5. w = [v EXCEPT !.channels[e] = r]
    BY <1>4
  <1> QED
    BY <1>2, <1>3, <1>5, RowSetIs

\* Tokens bonded to the counterparty are written in the row of the channel.
LEMMA BondedThose ==
    ASSUME NEW v, IsView(v), NEW e \in DOMAIN v.channels, NEW x,
           NEW row, row = v.channels[e], NEW w, w = [v EXCEPT !.channels[e].onCounterparty = x]
    PROVE  RowSet(v, w, e, Bonded(row, row.onThis, x))
  <1>1. IsRow(row)
    BY DEF IsView
  <1>2. PICK r : r = Bonded(row, row.onThis, x)
    OBVIOUS
  <1>3. IsRow(r)
    BY <1>1, <1>2, BondedIs
  <1>4. [row EXCEPT !.onCounterparty = x] = r
    BY <1>1, <1>2, BondedRow
  <1>5. w = [v EXCEPT !.channels[e] = r]
    BY <1>4
  <1> QED
    BY <1>2, <1>3, <1>5, RowSetIs

\* Each change of bonded tokens
LEMMA AddsThis ==
    ASSUME NEW v, IsView(v), NEW e \in DOMAIN v.channels, NEW d, NEW n,
           NEW row, row = v.channels[e]
    PROVE  RowSet(v, AddOnThisChain(v, e, d, n), e,
                  Bonded(row, AddToken(row.onThis, d, n), row.onCounterparty))
  <1>1. PICK x, w : x = AddToken(row.onThis, d, n) /\ w = AddOnThisChain(v, e, d, n)
    OBVIOUS
  <1>2. w = [v EXCEPT !.channels[e].onThis = x]
    BY <1>1 DEF AddOnThisChain
  <1> QED
    BY <1>1, <1>2, BondedThis

\* Adding tokens on the counterparty.
LEMMA AddsThose ==
    ASSUME NEW v, IsView(v), NEW e \in DOMAIN v.channels, NEW d, NEW n,
           NEW row, row = v.channels[e]
    PROVE  RowSet(v, AddOnCounterpartyChain(v, e, d, n), e,
                  Bonded(row, row.onThis, AddToken(row.onCounterparty, d, n)))
  <1>1. PICK x, w : x = AddToken(row.onCounterparty, d, n) /\ w = AddOnCounterpartyChain(v, e, d, n)
    OBVIOUS
  <1>2. w = [v EXCEPT !.channels[e].onCounterparty = x]
    BY <1>1 DEF AddOnCounterpartyChain
  <1> QED
    BY <1>1, <1>2, BondedThose

\* Subtracting tokens that are bonded to this chain.
LEMMA SubtractsThis ==
    ASSUME NEW v, IsView(v), NEW e \in DOMAIN v.channels, NEW d, NEW n,
           NEW row, row = v.channels[e],
           d \in DOMAIN row.onThis
    PROVE  RowSet(v, SubtractOnThisChain(v, e, d, n), e,
                  Bonded(row, SubtractToken(row.onThis, d, n), row.onCounterparty))
  <1>1. PICK x, w : x = SubtractToken(row.onThis, d, n) /\ w = SubtractOnThisChain(v, e, d, n)
    OBVIOUS
  <1>2. w = [v EXCEPT !.channels[e].onThis = x]
    BY <1>1 DEF SubtractOnThisChain
  <1> QED
    BY <1>1, <1>2, BondedThis

\* Subtracting tokens that are bonded to the counterparty.
LEMMA SubtractsThose ==
    ASSUME NEW v, IsView(v), NEW e \in DOMAIN v.channels, NEW d, NEW n,
           NEW row, row = v.channels[e],
           d \in DOMAIN row.onCounterparty
    PROVE  RowSet(v, SubtractOnCounterpartyChain(v, e, d, n), e,
                  Bonded(row, row.onThis, SubtractToken(row.onCounterparty, d, n)))
  <1>1. PICK x, w : x = SubtractToken(row.onCounterparty, d, n) /\ w = SubtractOnCounterpartyChain(v, e, d, n)
    OBVIOUS
  <1>2. w = [v EXCEPT !.channels[e].onCounterparty = x]
    BY <1>1 DEF SubtractOnCounterpartyChain
  <1> QED
    BY <1>1, <1>2, BondedThose

\* What a row is written first.
LEMMA CountedIs ==
    ASSUME NEW v, IsView(v), NEW e \in DOMAIN v.channels,
           NEW r, IsRow(r), NEW u, u = [v EXCEPT !.channels[e] = r], ~v.failed
    PROVE  /\ RowSet(v, u, e, r) /\ IsView(u) /\ ~u.failed
           /\ e \in DOMAIN u.channels /\ u.channels[e] = r
  <1>1. RowSet(v, u, e, r)
    BY RowSetIs
  <1> QED
    BY <1>1 DEF RowSet

\* A view that stops on the way leaves its rows where they are.
LEMMA StopsIs ==
    ASSUME NEW v, NEW e, NEW r, NEW u, RowSet(v, u, e, r), NEW w, w = Traced(Stop(u), e)
    PROVE  Stops(v, w)
  <1>1. IsView(u)
    BY DEF RowSet
  <1>2. /\ IsView(Stop(u)) /\ Stop(u).failed
        /\ Stop(u).connections = u.connections /\ Stop(u).channels = u.channels
    BY <1>1, StopIs
  <1>3. w = Stop(u)
    BY <1>2, TracedStop
  <1> QED
    BY <1>2, <1>3 DEF Stops, RowSet

\* MsgIBCTransferTransfer counts a packet and bonds its tokens, or stops on a voucher that
\* is not there.
LEMMA TransferIs ==
    ASSUME NEW v, IsView(v), ~v.failed, NEW p, p.src \in DOMAIN v.channels, NEW h,
           NEW w, w = MsgIBCTransferTransfer(v, p, h), NEW row, row = v.channels[p.src]
    PROVE  IF receiverChainIsTokenSource(p)
           THEN IF p.denom \in DOMAIN row.onThis
                THEN Follows(v, w, p.src, Bonded(Sent(row, p.seq, h),
                        SubtractToken(row.onThis, p.denom, p.amount), row.onCounterparty))
                ELSE Stops(v, w)
           ELSE Follows(v, w, p.src, Bonded(Sent(row, p.seq, h),
                   row.onThis, AddToken(row.onCounterparty, BondedDenom(p), p.amount)))
  <1>1. PICK e, r : e = p.src /\ r = Sent(row, p.seq, h)
    OBVIOUS
  <1>2. IsRow(row)
    BY DEF IsView
  <1>3. IsRow(r) /\ r.onThis = row.onThis /\ r.onCounterparty = row.onCounterparty
    <2>1. PICK seq : seq = p.seq
      OBVIOUS
    <2>2. r = Sent(row, seq, h)
      BY <1>1, <2>1
    <2>3. IsRow(r)
      BY <1>2, <2>2, SentIs
    <2>4. r.onThis = row.onThis
      BY <1>2, <2>2, SentIs
    <2>5. r.onCounterparty = row.onCounterparty
      BY <1>2, <2>2, SentIs
    <2> QED
      BY <2>3, <2>4, <2>5
  <1>4. PICK u : u = [v EXCEPT !.channels[e] = r]
    OBVIOUS
  <1>5. /\ RowSet(v, u, e, r) /\ IsView(u) /\ ~u.failed
        /\ e \in DOMAIN u.channels /\ u.channels[e] = r
    <2>1. e \in DOMAIN v.channels
      BY <1>1
    <2>2. IsRow(r)
      BY <1>3
    <2> QED
      BY <1>4, <2>1, <2>2, CountedIs
  <1>6. w = Traced(updateBondedTokensWhenMsgIBCTransfer(u, p), e)
    <2>1. r = UpdateLastActivity(UpdateSequence(UpdateTotalRelayOutSuccessRate(
                  Increment(v.channels[p.src], "relayOut")), "lastOut", p.seq), h)
      BY <1>1 DEF Sent
    <2>2. w = Traced(updateBondedTokensWhenMsgIBCTransfer(
                         [v EXCEPT !.channels[p.src] = r], p), p.src)
      BY <2>1 DEF MsgIBCTransferTransfer
    <2> QED
      BY <1>1, <1>4, <2>2
  <1>7. CASE receiverChainIsTokenSource(p) /\ p.denom \in DOMAIN row.onThis
    <2>1. PICK s, x : /\ s = SubtractOnThisChain(u, e, p.denom, p.amount)
                      /\ x = Bonded(r, SubtractToken(r.onThis, p.denom, p.amount), r.onCounterparty)
      OBVIOUS
    <2>2. w = Traced(s, e)
      BY <1>1, <1>6, <1>7, <2>1 DEF updateBondedTokensWhenMsgIBCTransfer
    <2>3. RowSet(u, s, e, x)
      BY <1>3, <1>5, <1>7, <2>1, SubtractsThis
    <2>4. RowSet(v, s, e, x)
      BY <1>1, <1>5, <2>3, RowSetTwice
    <2>5. Follows(v, w, e, x)
      BY <1>1, <2>2, <2>4, TracedIs
    <2> QED
      BY <1>1, <1>3, <1>7, <2>1, <2>5
  <1>8. CASE receiverChainIsTokenSource(p) /\ p.denom \notin DOMAIN row.onThis
    <2>1. SubtractOnThisChain(u, e, p.denom, p.amount) = Stop(u)
      BY <1>3, <1>5, <1>8 DEF SubtractOnThisChain
    <2>2. w = Traced(Stop(u), e)
      BY <1>1, <1>6, <1>8, <2>1 DEF updateBondedTokensWhenMsgIBCTransfer
    <2>3. Stops(v, w)
      BY <1>5, <2>2, StopsIs
    <2> QED
      BY <1>8, <2>3
  <1>9. CASE ~receiverChainIsTokenSource(p)
    <2>1. PICK s, x : /\ s = AddOnCounterpartyChain(u, e, BondedDenom(p), p.amount)
                      /\ x = Bonded(r, r.onThis,
                                    AddToken(r.onCounterparty, BondedDenom(p), p.amount))
      OBVIOUS
    <2>2. w = Traced(s, e)
      BY <1>1, <1>6, <1>9, <2>1 DEF updateBondedTokensWhenMsgIBCTransfer
    <2>3. RowSet(u, s, e, x)
      BY <1>5, <2>1, AddsThose
    <2>4. RowSet(v, s, e, x)
      BY <1>1, <1>5, <2>3, RowSetTwice
    <2>5. Follows(v, w, e, x)
      BY <1>1, <2>2, <2>4, TracedIs
    <2> QED
      BY <1>1, <1>3, <1>9, <2>1, <2>5
  <1> QED
    BY <1>7, <1>8, <1>9

\* A denomination is recorded.
LEMMA DenomIs ==
    ASSUME NEW v, NEW s, NEW e, NEW x, RowSet(v, s, e, x), NEW d,
           NEW t, t = insertDenomHashMappingIfNotExist(s, d)
    PROVE  RowSet(v, t, e, x) /\ d \in t.denoms
  <1>1. CASE d \in s.denoms
    BY <1>1 DEF insertDenomHashMappingIfNotExist, IfDenomExist
  <1>2. CASE d \notin s.denoms
    <2>1. t = [s EXCEPT !.denoms = @ \cup {d}]
      BY <1>2 DEF insertDenomHashMappingIfNotExist, IfDenomExist, InsertDenom
    <2>2. /\ t.clients = s.clients /\ t.connections = s.connections /\ t.channels = s.channels
          /\ t.denoms = s.denoms \cup {d} /\ t.traces = s.traces /\ t.failed = s.failed
          /\ t = [clients |-> t.clients, connections |-> t.connections, channels |-> t.channels,
                  denoms |-> t.denoms, traces |-> t.traces, failed |-> t.failed]
      BY <2>1 DEF RowSet, IsView
    <2>3. IsView(t)
      BY <2>2 DEF RowSet, IsView
    <2> QED
      BY <2>2, <2>3 DEF RowSet
  <1> QED
    BY <1>1, <1>2

\* MsgIBCRecvPacket counts a packet; one that succeeds bonds a voucher or takes back what
\* was bonded to the counterparty, and stops when that is not there.
LEMMA RecvIs ==
    ASSUME NEW v, IsView(v), ~v.failed, NEW p, p.dst \in DOMAIN v.channels, NEW success, NEW h,
           NEW w, w = MsgIBCRecvPacket(v, p, success, h), NEW row, row = v.channels[p.dst]
    PROVE  IF ~success THEN Follows(v, w, p.dst, Got(row, p.seq, h))
           ELSE IF receiverChainIsTokenSource(p)
           THEN IF p.denom \in DOMAIN row.onCounterparty
                THEN Follows(v, w, p.dst, Bonded(Got(row, p.seq, h),
                        row.onThis, SubtractToken(row.onCounterparty, p.denom, p.amount)))
                ELSE Stops(v, w)
           ELSE /\ Follows(v, w, p.dst, Bonded(Got(row, p.seq, h),
                      AddToken(row.onThis, BondedDenom(p), p.amount), row.onCounterparty))
                /\ BondedDenom(p) \in w.denoms
  <1>1. PICK e, r : e = p.dst /\ r = Got(row, p.seq, h)
    OBVIOUS
  <1>2. IsRow(row)
    BY DEF IsView
  <1>3. IsRow(r) /\ r.onThis = row.onThis /\ r.onCounterparty = row.onCounterparty
    <2>1. PICK seq : seq = p.seq
      OBVIOUS
    <2>2. r = Got(row, seq, h)
      BY <1>1, <2>1
    <2> QED
      BY <1>2, <2>2, GotIs
  <1>4. PICK u : u = [v EXCEPT !.channels[e] = r]
    OBVIOUS
  <1>5. /\ RowSet(v, u, e, r) /\ IsView(u) /\ ~u.failed
        /\ e \in DOMAIN u.channels /\ u.channels[e] = r
    <2>1. e \in DOMAIN v.channels
      BY <1>1
    <2>2. IsRow(r)
      BY <1>3
    <2> QED
      BY <1>4, <2>1, <2>2, CountedIs
  <1>6. w = Traced(IF success THEN updateBondedTokensWhenMsgIBCRecvPacket(u, p) ELSE u, e)
    <2>1. r = UpdateLastActivity(UpdateSequence(
                  Increment(v.channels[p.dst], "relayIn"), "lastIn", p.seq), h)
      BY <1>1 DEF Got
    <2>2. [v EXCEPT !.channels[p.dst] = UpdateLastActivity(UpdateSequence(
                  Increment(@, "relayIn"), "lastIn", p.seq), h)]
              = [v EXCEPT !.channels[p.dst] = r]
      BY <2>1
    <2>3. w = Traced(IF success THEN updateBondedTokensWhenMsgIBCRecvPacket(
                                         [v EXCEPT !.channels[p.dst] = r], p)
                     ELSE [v EXCEPT !.channels[p.dst] = r], p.dst)
      BY <2>2 DEF MsgIBCRecvPacket
    <2> QED
      BY <1>1, <1>4, <2>3
  <1>7. CASE ~success
    <2>1. w = Traced(u, e)
      BY <1>6, <1>7
    <2>2. Follows(v, w, e, r)
      BY <1>1, <1>5, <2>1, TracedIs
    <2> QED
      BY <1>1, <1>7, <2>2
  <1>8. CASE success /\ receiverChainIsTokenSource(p) /\ p.denom \in DOMAIN row.onCounterparty
    <2>1. PICK s, x : /\ s = SubtractOnCounterpartyChain(u, e, p.denom, p.amount)
                      /\ x = Bonded(r, r.onThis,
                                    SubtractToken(r.onCounterparty, p.denom, p.amount))
      OBVIOUS
    <2>2. w = Traced(s, e)
      BY <1>1, <1>6, <1>8, <2>1 DEF updateBondedTokensWhenMsgIBCRecvPacket
    <2>3. RowSet(u, s, e, x)
      BY <1>3, <1>5, <1>8, <2>1, SubtractsThose
    <2>4. RowSet(v, s, e, x)
      BY <1>1, <1>5, <2>3, RowSetTwice
    <2>5. Follows(v, w, e, x)
      BY <1>1, <2>2, <2>4, TracedIs
    <2> QED
      BY <1>1, <1>3, <1>8, <2>1, <2>5
  <1>9. CASE success /\ receiverChainIsTokenSource(p) /\ p.denom \notin DOMAIN row.onCounterparty
    <2>1. SubtractOnCounterpartyChain(u, e, p.denom, p.amount) = Stop(u)
      BY <1>3, <1>5, <1>9 DEF SubtractOnCounterpartyChain
    <2>2. w = Traced(Stop(u), e)
      BY <1>1, <1>6, <1>9, <2>1 DEF updateBondedTokensWhenMsgIBCRecvPacket
    <2>3. Stops(v, w)
      BY <1>5, <2>2, StopsIs
    <2> QED
      BY <1>9, <2>3
  <1>10. CASE success /\ ~receiverChainIsTokenSource(p)
    <2>1. PICK s, x, t : /\ s = AddOnThisChain(u, e, BondedDenom(p), p.amount)
                         /\ x = Bonded(r, AddToken(r.onThis, BondedDenom(p), p.amount),
                                       r.onCounterparty)
                         /\ t = insertDenomHashMappingIfNotExist(s, BondedDenom(p))
      OBVIOUS
    <2>2. w = Traced(t, e)
      BY <1>1, <1>6, <1>10, <2>1 DEF updateBondedTokensWhenMsgIBCRecvPacket
    <2>3. RowSet(u, s, e, x)
      BY <1>5, <2>1, AddsThis
    <2>4. RowSet(v, s, e, x)
      BY <1>1, <1>5, <2>3, RowSetTwice
    <2>5. RowSet(v, t, e, x) /\ BondedDenom(p) \in t.denoms
      BY <2>1, <2>4, DenomIs
    <2>6. Follows(v, w, e, x) /\ w.denoms = t.denoms
      BY <1>1, <2>2, <2>5, TracedIs
    <2> QED
      BY <1>1, <1>3, <1>10, <2>1, <2>5, <2>6
  <1> QED
    BY <1>7, <1>8, <1>9, <1>10

\* The end of a packet is counted; one that is refunded gets its tokens back, and the index
\* stops when they are not there.
LEMMA SettleIs ==
    ASSUME NEW v, IsView(v), ~v.failed, NEW p, p.src \in DOMAIN v.channels, NEW refunded, NEW h,
           NEW w, w = Settle(v, p, refunded, h), NEW row, row = v.channels[p.src]
    PROVE  IF ~refunded THEN Follows(v, w, p.src, Settled(row, h))
           ELSE IF receiverChainIsTokenSource(p)
           THEN Follows(v, w, p.src, Bonded(Settled(row, h),
                   AddToken(row.onThis, p.denom, p.amount), row.onCounterparty))
           ELSE IF BondedDenom(p) \in DOMAIN row.onCounterparty
           THEN Follows(v, w, p.src, Bonded(Settled(row, h),
                   row.onThis, SubtractToken(row.onCounterparty, BondedDenom(p), p.amount)))
           ELSE Stops(v, w)
  <1>1. PICK e, r : e = p.src /\ r = Settled(row, h)
    OBVIOUS
  <1>2. IsRow(row)
    BY DEF IsView
  <1>3. IsRow(r) /\ r.onThis = row.onThis /\ r.onCounterparty = row.onCounterparty
    BY <1>1, <1>2, SettledIs
  <1>4. PICK u : u = [v EXCEPT !.channels[e] = r]
    OBVIOUS
  <1>5. /\ RowSet(v, u, e, r) /\ IsView(u) /\ ~u.failed
        /\ e \in DOMAIN u.channels /\ u.channels[e] = r
    <2>1. e \in DOMAIN v.channels
      BY <1>1
    <2>2. IsRow(r)
      BY <1>3
    <2> QED
      BY <1>4, <2>1, <2>2, CountedIs
  <1>6. w = Traced(IF refunded THEN revertUpdateBondedTokensWhenMsgIBCTransfer(u, p) ELSE u, e)
    <2>1. r = UpdateTotalRelayOutSuccessRate(
                  Increment(UpdateLastActivity(v.channels[p.src], h), "relayOutSuccess"))
      BY <1>1 DEF Settled
    <2>2. w = Traced(IF refunded THEN revertUpdateBondedTokensWhenMsgIBCTransfer(
                                          [v EXCEPT !.channels[p.src] = r], p)
                     ELSE [v EXCEPT !.channels[p.src] = r], p.src)
      BY <2>1 DEF Settle
    <2> QED
      BY <1>1, <1>4, <2>2
  <1>7. CASE ~refunded
    <2>1. w = Traced(u, e)
      BY <1>6, <1>7
    <2>2. Follows(v, w, e, r)
      BY <1>1, <1>5, <2>1, TracedIs
    <2> QED
      BY <1>1, <1>7, <2>2
  <1>8. CASE refunded /\ receiverChainIsTokenSource(p)
    <2>1. PICK s, x : /\ s = AddOnThisChain(u, e, p.denom, p.amount)
                      /\ x = Bonded(r, AddToken(r.onThis, p.denom, p.amount), r.onCounterparty)
      OBVIOUS
    <2>2. w = Traced(s, e)
      BY <1>1, <1>6, <1>8, <2>1 DEF revertUpdateBondedTokensWhenMsgIBCTransfer
    <2>3. RowSet(u, s, e, x)
      BY <1>5, <2>1, AddsThis
    <2>4. RowSet(v, s, e, x)
      BY <1>1, <1>5, <2>3, RowSetTwice
    <2>5. Follows(v, w, e, x)
      BY <1>1, <2>2, <2>4, TracedIs
    <2> QED
      BY <1>1, <1>3, <1>8, <2>1, <2>5
  <1>9. CASE refunded /\ ~receiverChainIsTokenSource(p)
             /\ BondedDenom(p) \in DOMAIN row.onCounterparty
    <2>1. PICK s, x : /\ s = SubtractOnCounterpartyChain(u, e, BondedDenom(p), p.amount)
                      /\ x = Bonded(r, r.onThis,
                                    SubtractToken(r.onCounterparty, BondedDenom(p), p.amount))
      OBVIOUS
    <2>2. w = Traced(s, e)
      BY <1>1, <1>6, <1>9, <2>1 DEF revertUpdateBondedTokensWhenMsgIBCTransfer
    <2>3. RowSet(u, s, e, x)
      BY <1>3, <1>5, <1>9, <2>1, SubtractsThose
    <2>4. RowSet(v, s, e, x)
      BY <1>1, <1>5, <2>3, RowSetTwice
    <2>5. Follows(v, w, e, x)
      BY <1>1, <2>2, <2>4, TracedIs
    <2> QED
      BY <1>1, <1>3, <1>9, <2>1, <2>5
  <1>10. CASE refunded /\ ~receiverChainIsTokenSource(p)
              /\ BondedDenom(p) \notin DOMAIN row.onCounterparty
    <2>1. SubtractOnCounterpartyChain(u, e, BondedDenom(p), p.amount) = Stop(u)
      BY <1>3, <1>5, <1>10 DEF SubtractOnCounterpartyChain
    <2>2. w = Traced(Stop(u), e)
      BY <1>1, <1>6, <1>10, <2>1 DEF revertUpdateBondedTokensWhenMsgIBCTransfer
    <2>3. Stops(v, w)
      BY <1>5, <2>2, StopsIs
    <2> QED
      BY <1>10, <2>3
  <1> QED
    BY <1>7, <1>8, <1>9, <1>10

-----------------------------------------------------------------------------
(* The events of a handshake *)

\* Rows of a channel that is opened, and that is closed
Opened(r, ev, chain, h) == UpdateStatus(UpdateFactualColumns(r, ev, chain, h), "OPENED")
Closed(r, h) == UpdateLastActivity(UpdateStatus(r, "CLOSED"), h)

\* Opening a channel writes what its last handshake says and leaves the counts.
LEMMA OpenedIs ==
    ASSUME NEW r, IsRow(r), NEW ev, NEW chain, NEW h,
           NEW s, s = Opened(r, ev, chain, h)
    PROVE  /\ IsRow(s)
           /\ s.connection = ev.connection /\ s.cpChannel = ev.cpId
           /\ s.cpChain = chain /\ s.status = "OPENED" /\ s.createdAt = h
           /\ s.lastActivity = r.lastActivity /\ s.lastOut = r.lastOut
           /\ s.relayIn = r.relayIn /\ s.relayOut = r.relayOut
           /\ s.relayOutSuccess = r.relayOutSuccess /\ s.rate = r.rate
           /\ s.onThis = r.onThis /\ s.onCounterparty = r.onCounterparty
  <1>1. s =
            [connection |-> ev.connection, cpChannel |-> ev.cpId, cpChain |-> chain,
             status |-> "OPENED", createdAt |-> h, lastActivity |-> r.lastActivity,
             lastIn |-> r.lastIn, lastOut |-> r.lastOut, relayIn |-> r.relayIn,
             relayOut |-> r.relayOut, relayOutSuccess |-> r.relayOutSuccess, rate |-> r.rate,
             onThis |-> r.onThis, onCounterparty |-> r.onCounterparty]
    BY DEF Opened, UpdateStatus, UpdateFactualColumns, IsRow
  <1> QED
    BY ONLY <1>1 DEF IsRow

\* Closing a channel writes its status and activity and leaves the other columns.
LEMMA ClosedIs ==
    ASSUME NEW r, IsRow(r), NEW h,
           NEW s, s = Closed(r, h)
    PROVE  /\ IsRow(s)
           /\ s.connection = r.connection /\ s.cpChannel = r.cpChannel
           /\ s.cpChain = r.cpChain /\ s.status = "CLOSED" /\ s.createdAt = r.createdAt
           /\ s.lastActivity = h /\ s.lastOut = r.lastOut /\ s.relayIn = r.relayIn
           /\ s.relayOut = r.relayOut /\ s.relayOutSuccess = r.relayOutSuccess
           /\ s.rate = r.rate /\ s.onThis = r.onThis
           /\ s.onCounterparty = r.onCounterparty
  <1>1. s =
            [connection |-> r.connection, cpChannel |-> r.cpChannel, cpChain |-> r.cpChain,
             status |-> "CLOSED", createdAt |-> r.createdAt, lastActivity |-> h,
             lastIn |-> r.lastIn, lastOut |-> r.lastOut, relayIn |-> r.relayIn,
             relayOut |-> r.relayOut, relayOutSuccess |-> r.relayOutSuccess, rate |-> r.rate,
             onThis |-> r.onThis, onCounterparty |-> r.onCounterparty]
    BY DEF Closed, UpdateStatus, UpdateLastActivity, IsRow
  <1> QED
    BY ONLY <1>1 DEF IsRow

\* A new channel has no counts and no tokens.
LEMMA NewChannelIs ==
    ASSUME NEW ev, NEW chain, NEW s, s = NewChannel(ev, chain)
    PROVE  /\ IsRow(s) /\ s.cpChain = chain /\ s.status = "NOT_ESTABLISHED"
           /\ s.createdAt = 0 /\ s.lastActivity = 0 /\ s.lastOut = 0 /\ s.relayIn = 0
           /\ s.relayOut = 0 /\ s.relayOutSuccess = 0 /\ s.rate = <<0, 1>>
           /\ s.onThis = EmptyBag /\ s.onCounterparty = EmptyBag
  BY DEF NewChannel, IsRow

\* A client is inserted.
LEMMA ClientIs ==
    ASSUME NEW v, IsView(v), NEW ev, ev.client \notin DOMAIN v.clients,
           NEW w, w = InsertClient(v, ev)
    PROVE  /\ IsView(w) /\ w.connections = v.connections /\ w.channels = v.channels
           /\ w.denoms = v.denoms /\ w.traces = v.traces /\ w.failed = v.failed
           /\ w.clients = With(v.clients, ev.client, ev.chain)
  <1>1. PICK t : t = With(v.clients, ev.client, ev.chain)
    OBVIOUS
  <1>2. w = [v EXCEPT !.clients = t]
    BY <1>1 DEF InsertClient
  <1>3. /\ w.clients = t /\ w.connections = v.connections /\ w.channels = v.channels
        /\ w.denoms = v.denoms /\ w.traces = v.traces /\ w.failed = v.failed
        /\ w = [clients |-> w.clients, connections |-> w.connections, channels |-> w.channels,
                denoms |-> w.denoms, traces |-> w.traces, failed |-> w.failed]
    BY <1>2 DEF IsView
  <1>4. IsTable(t)
    BY <1>1 DEF With, IsTable
  <1>5. IsView(w)
    BY <1>3, <1>4 DEF IsView
  <1> QED
    BY <1>1, <1>3, <1>5

\* A connection is inserted, or updated.
LEMMA ConnectionIs ==
    ASSUME NEW v, IsView(v), NEW ev, ev.client \in DOMAIN v.clients,
           NEW w, \/ w = InsertConnection(v, ev) /\ ev.id \notin DOMAIN v.connections
                  \/ w = UpdateConnection(v, ev) /\ ev.id \in DOMAIN v.connections
    PROVE  /\ IsView(w) /\ w.clients = v.clients /\ w.channels = v.channels
           /\ w.denoms = v.denoms /\ w.traces = v.traces /\ w.failed = v.failed
           /\ DOMAIN w.connections = DOMAIN v.connections \cup {ev.id}
           /\ w.connections[ev.id].cpChain = v.clients[ev.client]
           /\ \A i \in DOMAIN v.connections : i # ev.id => w.connections[i] = v.connections[i]
  <1>1. \E row : /\ row.cpChain = v.clients[ev.client]
                 /\ w = [v EXCEPT !.connections = With(v.connections, ev.id, row)]
    <2>1. CASE w = InsertConnection(v, ev) /\ ev.id \notin DOMAIN v.connections
      <3>1. PICK row : row = [client |-> ev.client, cpConnection |-> ev.cpId,
                              cpClient |-> ev.cpClient, cpChain |-> v.clients[ev.client]]
        OBVIOUS
      <3>2. w = [v EXCEPT !.connections = With(v.connections, ev.id, row)]
        BY <2>1, <3>1 DEF InsertConnection
      <3> QED
        BY <3>1, <3>2
    <2>2. CASE w = UpdateConnection(v, ev) /\ ev.id \in DOMAIN v.connections
      <3>1. PICK row : row = [client |-> ev.cpClient, cpConnection |-> ev.cpId,
                              cpClient |-> ev.cpClient, cpChain |-> v.clients[ev.client]]
        OBVIOUS
      <3>2. w = [v EXCEPT !.connections[ev.id] = row]
        BY <2>2, <3>1 DEF UpdateConnection
      <3>3. PICK t : t = [v.connections EXCEPT ![ev.id] = row]
        OBVIOUS
      <3>4. w = [v EXCEPT !.connections = t]
        BY <3>2, <3>3
      <3>5. With(v.connections, ev.id, row) = t
        <4>1. PICK cs : cs = v.connections
          OBVIOUS
        <4>2. IsTable(cs) /\ ev.id \in DOMAIN cs
          BY <2>2, <4>1 DEF IsView
        <4>3. With(cs, ev.id, row) = [cs EXCEPT ![ev.id] = row]
          BY <4>2 DEF With, IsTable
        <4> QED
          BY <3>3, <4>1, <4>3
      <3> QED
        BY <3>1, <3>4, <3>5
    <2> QED
      BY <2>1, <2>2
  <1>2. PICK row : /\ row.cpChain = v.clients[ev.client]
                   /\ w = [v EXCEPT !.connections = With(v.connections, ev.id, row)]
    BY <1>1
  <1>3. PICK t, cs : cs = v.connections /\ t = With(cs, ev.id, row)
    OBVIOUS
  <1>4. w = [v EXCEPT !.connections = t]
    BY <1>2, <1>3
  <1>5. /\ w.clients = v.clients /\ w.connections = t /\ w.channels = v.channels
        /\ w.denoms = v.denoms /\ w.traces = v.traces /\ w.failed = v.failed
        /\ w = [clients |-> w.clients, connections |-> w.connections, channels |-> w.channels,
                denoms |-> w.denoms, traces |-> w.traces, failed |-> w.failed]
    BY <1>4 DEF IsView
  <1>6. /\ IsTable(t) /\ DOMAIN t = DOMAIN cs \cup {ev.id} /\ t[ev.id] = row
        /\ \A i \in DOMAIN cs : i # ev.id => t[i] = cs[i]
    BY <1>3 DEF With, IsTable
  <1>7. IsView(w)
    BY <1>5, <1>6 DEF IsView
  <1> QED
    BY <1>2, <1>3, <1>5, <1>6, <1>7

\* A channel is inserted.
LEMMA ChannelIs ==
    ASSUME NEW v, IsView(v), NEW ev, ev.connection \in DOMAIN v.connections,
           ev.id \notin DOMAIN v.channels, NEW w, w = InsertChannel(v, ev)
    PROVE  /\ IsView(w) /\ w.clients = v.clients /\ w.connections = v.connections
           /\ w.denoms = v.denoms /\ w.traces = v.traces /\ w.failed = v.failed
           /\ DOMAIN w.channels = DOMAIN v.channels \cup {ev.id}
           /\ w.channels[ev.id] = NewChannel(ev, v.connections[ev.connection].cpChain)
           /\ \A i \in DOMAIN v.channels : i # ev.id => w.channels[i] = v.channels[i]
  <1>1. PICK row : row = NewChannel(ev, v.connections[ev.connection].cpChain)
    OBVIOUS
  <1>2. PICK t, cs : cs = v.channels /\ t = With(cs, ev.id, row)
    OBVIOUS
  <1>3. w = [v EXCEPT !.channels = t]
    BY <1>1, <1>2 DEF InsertChannel
  <1>5. /\ w.clients = v.clients /\ w.connections = v.connections /\ w.channels = t
        /\ w.denoms = v.denoms /\ w.traces = v.traces /\ w.failed = v.failed
        /\ w = [clients |-> w.clients, connections |-> w.connections, channels |-> w.channels,
                denoms |-> w.denoms, traces |-> w.traces, failed |-> w.failed]
    BY <1>3 DEF IsView
  <1>6. /\ IsTable(t) /\ DOMAIN t = DOMAIN cs \cup {ev.id} /\ t[ev.id] = row
        /\ \A i \in DOMAIN cs : i # ev.id => t[i] = cs[i]
    BY <1>2 DEF With, IsTable
  <1>7. IsRow(row)
    BY <1>1, NewChannelIs
  <1>8. \A g \in DOMAIN t : IsRow(t[g])
    BY <1>2, <1>6, <1>7 DEF IsView
  <1>9. IsView(w)
    BY <1>5, <1>6, <1>8 DEF IsView
  <1> QED
    BY <1>1, <1>2, <1>5, <1>6, <1>9

\* A channel is opened, or closed.
LEMMA OpenIs ==
    ASSUME NEW v, IsView(v), NEW ev, ev.connection \in DOMAIN v.connections,
           ev.id \in DOMAIN v.channels, NEW h, NEW w, w = OpenChannel(v, ev, h)
    PROVE  RowSet(v, w, ev.id, Opened(v.channels[ev.id], ev,
                                      v.connections[ev.connection].cpChain, h))
  <1>1. PICK r : r = Opened(v.channels[ev.id], ev, v.connections[ev.connection].cpChain, h)
    OBVIOUS
  <1>2. IsRow(v.channels[ev.id])
    BY DEF IsView
  <1>3. IsRow(r)
    BY <1>1, <1>2, OpenedIs
  <1>4. w = [v EXCEPT !.channels[ev.id] = r]
    BY <1>1 DEF OpenChannel, Opened
  <1> QED
    BY <1>1, <1>3, <1>4, RowSetIs

\* CloseChannelRow closes the row of its channel and no other.
LEMMA CloseIs ==
    ASSUME NEW v, IsView(v), NEW ev, ev.id \in DOMAIN v.channels, NEW h,
           NEW w, w = CloseChannelRow(v, ev, h)
    PROVE  RowSet(v, w, ev.id, Closed(v.channels[ev.id], h))
  <1>1. PICK r : r = Closed(v.channels[ev.id], h)
    OBVIOUS
  <1>2. IsRow(v.channels[ev.id])
    BY DEF IsView
  <1>3. IsRow(r)
    BY <1>1, <1>2, ClosedIs
  <1>4. w = [v EXCEPT !.channels[ev.id] = r]
    BY <1>1 DEF CloseChannelRow, Closed
  <1> QED
    BY <1>1, <1>3, <1>4, RowSetIs

-----------------------------------------------------------------------------
(* The packets of an end *)

\* Packets that leave, or reach, an end and are in some state
Which(sent, end, e, states) ==
    {i \in DOMAIN sent : sent[i][end] = e /\ sent[i].state \in states}

Count(sent, end, e, states) == Cardinality(Which(sent, end, e, states))

Matching(p, end, e, states) == IF p[end] = e /\ p.state \in states THEN 1 ELSE 0

\* The packets of an end can be counted.
LEMMA WhichIsFinite ==
    ASSUME NEW S, NEW sent \in Seq(S), NEW end, NEW e, NEW states
    PROVE  /\ IsFiniteSet(Which(sent, end, e, states)) /\ Count(sent, end, e, states) \in Nat
           /\ Which(sent, end, e, states) \subseteq 1..Len(sent)
  <1>1. Which(sent, end, e, states) \subseteq 1..Len(sent)
    BY DEF Which
  <1>2. IsFiniteSet(1..Len(sent))
    BY FS_Interval
  <1>3. IsFiniteSet(Which(sent, end, e, states))
    BY <1>1, <1>2, FS_Subset
  <1> QED
    BY <1>1, <1>3, FS_CardinalityType DEF Count

\* One packet more
LEMMA CountOfMore ==
    ASSUME NEW S, NEW sent \in Seq(S), NEW p \in S, NEW end, NEW e, NEW states
    PROVE  Count(Append(sent, p), end, e, states) =
               Count(sent, end, e, states) + Matching(p, end, e, states)
  <1>1. PICK more, N : more = Append(sent, p) /\ N = Len(sent) + 1
    OBVIOUS
  <1>2. DOMAIN more = DOMAIN sent \cup {N} /\ N \notin DOMAIN sent
        /\ more[N] = p /\ \A i \in DOMAIN sent : more[i] = sent[i]
    BY <1>1
  <1>3. PICK A : A = Which(sent, end, e, states)
    OBVIOUS
  <1>4. IsFiniteSet(A) /\ N \notin A /\ Cardinality(A) \in Nat
    <2>1. IsFiniteSet(A)
      BY <1>3, WhichIsFinite
    <2>2. N \notin A
      BY <1>2, <1>3 DEF Which
    <2> QED
      BY <2>1, <2>2, FS_CardinalityType
  <1>5. CASE p[end] = e /\ p.state \in states
    <2>1. Which(more, end, e, states) = A \cup {N}
      BY <1>2, <1>3, <1>5 DEF Which
    <2>2. Cardinality(A \cup {N}) = Cardinality(A) + 1
      <3>1. /\ IsFiniteSet(A \cup {N})
            /\ Cardinality(A \cup {N}) = IF N \in A THEN Cardinality(A) ELSE Cardinality(A) + 1
        BY <1>4, FS_AddElement
      <3> QED
        BY <1>4, <3>1
    <2> QED
      BY <1>1, <1>3, <1>5, <2>1, <2>2 DEF Count, Matching
  <1>6. CASE ~(p[end] = e /\ p.state \in states)
    <2>1. Which(more, end, e, states) = A
      BY <1>2, <1>3, <1>6 DEF Which
    <2> QED
      BY <1>1, <1>3, <1>4, <1>6, <2>1 DEF Count, Matching
  <1> QED
    BY <1>5, <1>6

\* A packet that changes
LEMMA CountOfChange ==
    ASSUME NEW S, NEW sent \in Seq(S), NEW i \in DOMAIN sent, NEW after,
           DOMAIN after = DOMAIN sent, \A j \in DOMAIN sent : j # i => after[j] = sent[j],
           NEW end, NEW e, NEW states
    PROVE  Count(after, end, e, states) = Count(sent, end, e, states)
               + Matching(after[i], end, e, states) - Matching(sent[i], end, e, states)
  <1>1. PICK A, B : A = Which(sent, end, e, states) /\ B = Which(after, end, e, states)
    OBVIOUS
  <1>2. IsFiniteSet(A) /\ Cardinality(A) \in Nat
    BY <1>1, WhichIsFinite DEF Count
  <1>3. i \in A <=> sent[i][end] = e /\ sent[i].state \in states
    BY <1>1 DEF Which
  <1>4. i \in B <=> after[i][end] = e /\ after[i].state \in states
    BY <1>1 DEF Which
  <1>5. \A j : j # i => (j \in A <=> j \in B)
    BY <1>1 DEF Which
  <1>6. Matching(sent[i], end, e, states) = IF i \in A THEN 1 ELSE 0
    BY <1>3 DEF Matching
  <1>7. Matching(after[i], end, e, states) = IF i \in B THEN 1 ELSE 0
    BY <1>4 DEF Matching
  <1>8. Cardinality(B) = Cardinality(A) + (IF i \in B THEN 1 ELSE 0) - (IF i \in A THEN 1 ELSE 0)
    <2>1. CASE i \in A <=> i \in B
      <3>1. \A j : j \in A <=> j \in B
        BY <1>5, <2>1
      <3>2. A = B
        BY <1>1, <3>1 DEF Which
      <3> QED
        BY <1>2, <3>2, <2>1
    <2>2. CASE i \in B /\ i \notin A
      <3>1. B = A \cup {i}
        BY <1>5, <2>2
      <3>2. Cardinality(A \cup {i}) = Cardinality(A) + 1
        <4>1. /\ IsFiniteSet(A \cup {i})
              /\ Cardinality(A \cup {i}) = IF i \in A THEN Cardinality(A) ELSE Cardinality(A) + 1
          BY <1>2, FS_AddElement
        <4> QED
          BY <2>2, <4>1
      <3> QED
        BY <1>2, <2>2, <3>1, <3>2
    <2>3. CASE i \in A /\ i \notin B
      <3>1. B = A \ {i}
        BY <1>5, <2>3
      <3>2. Cardinality(A \ {i}) = Cardinality(A) - 1
        <4>1. /\ IsFiniteSet(A \ {i})
              /\ Cardinality(A \ {i}) = IF i \in A THEN Cardinality(A) - 1 ELSE Cardinality(A)
          BY <1>2, FS_RemoveElement
        <4> QED
          BY <2>3, <4>1
      <3> QED
        BY <1>2, <2>3, <3>1, <3>2
    <2> QED
      BY <2>1, <2>2, <2>3
  <1> QED
    BY <1>1, <1>6, <1>7, <1>8 DEF Count

\* No packet, no count.
LEMMA CountOfNone ==
    ASSUME NEW sent, NEW end, NEW e, NEW states,
           \A i \in DOMAIN sent : ~(sent[i][end] = e /\ sent[i].state \in states)
    PROVE  Count(sent, end, e, states) = 0
  <1>1. Which(sent, end, e, states) = {}
    BY DEF Which
  <1> QED
    BY <1>1, FS_EmptySet DEF Count

-----------------------------------------------------------------------------
(* The state of the chains *)

ConnectionStates == {"none", "INIT", "TRYOPEN", "OPEN"}
ChannelStates == {"none", "INIT", "TRYOPEN", "OPEN", "CLOSED"}
ChannelStep == {"OpenInit", "OpenTry", "OpenAck", "OpenConfirm", "CloseInit", "CloseConfirm"}
PacketType == {"Transfer", "RecvPacket", "Acknowledgement", "Timeout", "TimeoutOnClose"}

Event ==
    {CreateClientEvent(c) : c \in Chains}
    \cup {ConnectionEvent(c, step) : c \in Chains, step \in ChannelStep}
    \cup {ChannelEvent(e, step) : e \in Ends, step \in ChannelStep}
    \cup {PacketEvent(type, p, success) : type \in PacketType, p \in Packet, success \in BOOLEAN}

EndTypes ==
    /\ scope \in Scopes /\ client \subseteq Chains
    /\ connection \in [Chains -> ConnectionStates]
    /\ channel \in [Ends -> [state : ChannelStates, opened : Nat, active : Nat]]

QueueTypes == height \in [Chains -> Nat] /\ queue \in [Chains -> Seq(Seq(Event))]

\* The states of a packet that its destination got, and of one that its source is done with
Reached == {"received", "failed", "acknowledged", "returned"}
Over == {"acknowledged", "returned", "timedOut"}

\* Nothing went through an end that was never open.
NewEndsAreEmpty ==
    \A e \in Ends : channel[e].state \notin {"OPEN", "CLOSED"} =>
        /\ channel[e].opened = 0 /\ channel[e].active = 0
        /\ escrow[e] = EmptyBag /\ minted[e] = EmptyBag
        /\ \A i \in DOMAIN packets :
              packets[i].src # e /\ (packets[i].dst = e => packets[i].state \notin Reached)

\* The events of some blocks
EventsOf(blocks) == UNION {ToSet(blocks[k]) : k \in DOMAIN blocks}

\* An OpenTry leaves the states in which there may be one.
TriesAreOver ==
    \A c \in Chains : \A ev \in EventsOf(queue[c]) :
        /\ ev.type = "Connection" /\ ev.step = "OpenTry" => connection[c] \in {"TRYOPEN", "OPEN"}
        /\ ev.type = "Channel" /\ ev.step = "OpenTry" =>
              ev.id \in Ends /\ channel[ev.id].state \notin {"none", "INIT"}

ChainOK == EndTypes /\ QueueTypes /\ NewEndsAreEmpty /\ TriesAreOver /\ MoneyOK

-----------------------------------------------------------------------------
(* The tables of an index *)

Out(e) == Count(packets, "src", e, PacketStates)
Done(e) == Count(packets, "src", e, Over)
In(e) == Count(packets, "dst", e, Reached)

StatusOf(state) ==
    CASE state = "OPEN" -> "OPENED" [] state = "CLOSED" -> "CLOSED" [] OTHER -> "NOT_ESTABLISHED"

\* The escrow account of an end, under the names its tokens have at the counterparty
Mirrors(B, e, account) ==
    /\ IsBag(B) /\ \A x \in DOMAIN B : \E d \in Paths : x = <<Counterparty(e)>> \o d
    /\ \A d \in Paths : Amount(<<Counterparty(e)>> \o d, B) = Amount(d, account)

RowMatches(e, row) ==
    /\ row.status = StatusOf(channel[e].state)
    /\ row.cpChain = Other(ChainOf(e))
    /\ row.createdAt = channel[e].opened /\ row.lastActivity = channel[e].active
    /\ row.status # "NOT_ESTABLISHED" =>
          row.cpChannel = Counterparty(e) /\ row.connection = ConnectionId(ChainOf(e))
    /\ row.relayOut = Out(e) /\ row.lastOut = Out(e)
    /\ row.relayOutSuccess = Done(e) /\ row.relayIn = In(e)
    /\ row.rate = (IF row.relayOut > 0 THEN <<row.relayOutSuccess, row.relayOut>> ELSE <<0, 1>>)
    /\ row.onThis = minted[e] /\ Mirrors(row.onCounterparty, e, escrow[e])

ClientMatches(c, v) ==
    /\ \A i : i \in DOMAIN v.clients <=> c \in client /\ i = ClientId(c)
    /\ c \in client => v.clients[ClientId(c)] = Other(c)

ConnectionMatches(c, v) ==
    /\ \A i : i \in DOMAIN v.connections <=> connection[c] # "none" /\ i = ConnectionId(c)
    /\ connection[c] # "none" => v.connections[ConnectionId(c)].cpChain = Other(c)

RowsMatch(c, v) ==
    /\ \A e : e \in DOMAIN v.channels <=> e \in EndsOf(c) /\ channel[e].state # "none"
    /\ \A e \in DOMAIN v.channels : RowMatches(e, v.channels[e]) /\ DOMAIN minted[e] \subseteq v.denoms

TracesMatch(v) ==
    \A e \in DOMAIN v.traces :
        /\ EnableTxMsgTrace /\ e \in DOMAIN v.channels
        /\ v.traces[e] = <<v.channels[e].onThis, v.channels[e].onCounterparty>>

\* The index has followed a token back only where the chain does, and knows its name.
OwnMatch(c, v) ==
    \A i \in DOMAIN packets : packets[i].src \in EndsOf(c) =>
        /\ receiverChainIsTokenSource(packets[i])
               <=> ReturnsThrough(packets[i].denom, packets[i].src)
        /\ ReturnsThrough(packets[i].denom, packets[i].src) => packets[i].denom \in v.denoms

Matches(c, v) ==
    /\ IsView(v) /\ ~v.failed /\ ClientMatches(c, v) /\ ConnectionMatches(c, v)
    /\ RowsMatch(c, v) /\ TracesMatch(v) /\ OwnMatch(c, v)

-----------------------------------------------------------------------------
(* The blocks that an index has not handled *)

\* Identifiers of the connections, or channels, of an index
Ids(v, type) == IF type = "Channel" THEN DOMAIN v.channels ELSE DOMAIN v.connections

Tries(ev) == ev.type \in {"Connection", "Channel"} /\ ev.step = "OpenTry"

\* An event of a block that starts a connection or channel
Starts(events, type, step, id) ==
    \E other \in ToSet(events) : other.type = type /\ other.step = step /\ other.id = id

\* Why a block may fail
Excuse(v, events, ev) ==
    \/ Lookalike(ev)
    \/ Tries(ev) /\ (ev.id \in Ids(v, ev.type) \/ Starts(events, ev.type, "OpenInit", ev.id))

\* What an event, and a block, may do to an index
EventStep(v, ev, w) ==
    /\ w.failed => Lookalike(ev) \/ (Tries(ev) /\ ev.id \in Ids(v, ev.type))
    /\ ~w.failed => \A type \in {"Connection", "Channel"} : \A id \in Ids(w, type) :
          \/ id \in Ids(v, type)
          \/ ev.type = type /\ ev.step \in {"OpenInit", "OpenTry"} /\ ev.id = id

BlockStep(v, events, w) ==
    /\ w.failed => \E ev \in ToSet(events) : Excuse(v, events, ev)
    /\ ~w.failed => \A type \in {"Connection", "Channel"} : \A id \in Ids(w, type) :
          \/ id \in Ids(v, type)
          \/ \E step \in {"OpenInit", "OpenTry"} : Starts(events, type, step, id)

\* The events of a block with one more.
LEMMA EventsOfMore ==
    ASSUME NEW S, NEW events \in Seq(S), NEW ev
    PROVE  ToSet(Append(events, ev)) = ToSet(events) \cup {ev}
  <1>1. PICK more, N : more = Append(events, ev) /\ N = Len(events) + 1
    OBVIOUS
  <1>2. DOMAIN more = DOMAIN events \cup {N} /\ N \notin DOMAIN events
        /\ more[N] = ev /\ \A i \in DOMAIN events : more[i] = events[i]
    BY <1>1
  <1>3. ToSet(more) = ToSet(events) \cup {ev}
    BY <1>2 DEF ToSet
  <1> QED
    BY <1>1, <1>3

\* The event of a block of one.
LEMMA EventOfOne == ASSUME NEW ev PROVE ToSet(<<ev>>) = {ev}
  BY DEF ToSet

\* What an event may do, a block of it may do.
LEMMA StepOfOne ==
    ASSUME NEW v, NEW ev, NEW w, EventStep(v, ev, w)
    PROVE  BlockStep(v, <<ev>>, w)
  <1>1. ToSet(<<ev>>) = {ev}
    BY EventOfOne
  <1>2. w.failed => Excuse(v, <<ev>>, ev)
    BY DEF EventStep, Excuse
  <1>3. ASSUME ~w.failed, NEW type \in {"Connection", "Channel"}, NEW id \in Ids(w, type),
               id \notin Ids(v, type)
        PROVE  \E step \in {"OpenInit", "OpenTry"} : Starts(<<ev>>, type, step, id)
    BY <1>1, <1>3 DEF EventStep, Starts
  <1> QED
    BY <1>1, <1>2, <1>3 DEF BlockStep

\* A block with an event more may do what the block and then the event may do.
LEMMA StepOfMore ==
    ASSUME NEW S, NEW events \in Seq(S), NEW ev, NEW v, NEW u, NEW w,
           BlockStep(v, events, u), ~u.failed, EventStep(u, ev, w),
           Tries(ev) => ~Starts(events, ev.type, "OpenTry", ev.id)
    PROVE  BlockStep(v, Append(events, ev), w)
  <1>1. PICK more : more = Append(events, ev)
    OBVIOUS
  <1>2. ToSet(more) = ToSet(events) \cup {ev}
    BY <1>1, EventsOfMore
  <1>3. \A type, step, id : Starts(events, type, step, id) => Starts(more, type, step, id)
    BY <1>2 DEF Starts
  <1>4. ASSUME w.failed PROVE Excuse(v, more, ev)
    <2>1. Lookalike(ev) \/ (Tries(ev) /\ ev.id \in Ids(u, ev.type))
      BY <1>4 DEF EventStep
    <2>2. CASE Lookalike(ev)
      BY <2>2 DEF Excuse
    <2>3. CASE Tries(ev) /\ ev.id \in Ids(u, ev.type)
      <3>1. ev.type \in {"Connection", "Channel"}
        BY <2>3 DEF Tries
      <3>2. \/ ev.id \in Ids(v, ev.type)
            \/ \E step \in {"OpenInit", "OpenTry"} : Starts(events, ev.type, step, ev.id)
        BY <2>3, <3>1 DEF BlockStep
      <3>3. ev.id \in Ids(v, ev.type) \/ Starts(events, ev.type, "OpenInit", ev.id)
        BY <2>3, <3>2
      <3> QED
        BY <1>3, <2>3, <3>3 DEF Excuse
    <2> QED
      BY <2>1, <2>2, <2>3
  <1>5. ASSUME ~w.failed, NEW type \in {"Connection", "Channel"}, NEW id \in Ids(w, type),
               id \notin Ids(v, type)
        PROVE  \E step \in {"OpenInit", "OpenTry"} : Starts(more, type, step, id)
    <2>1. CASE id \in Ids(u, type)
      <3>1. \E step \in {"OpenInit", "OpenTry"} : Starts(events, type, step, id)
        BY <1>5, <2>1 DEF BlockStep
      <3> QED
        BY <1>3, <3>1
    <2>2. CASE id \notin Ids(u, type)
      <3>1. ev.type = type /\ ev.step \in {"OpenInit", "OpenTry"} /\ ev.id = id
        BY <1>5, <2>2 DEF EventStep
      <3> QED
        BY <1>2, <3>1 DEF Starts
    <2> QED
      BY <2>1, <2>2
  <1>6. ev \in ToSet(more)
    BY <1>2
  <1> QED
    BY <1>1, <1>4, <1>5, <1>6 DEF BlockStep

\* A block that has stopped the index has done so whatever joins it.
LEMMA StepOfFailed ==
    ASSUME NEW S, NEW events \in Seq(S), NEW ev, NEW v, NEW u,
           BlockStep(v, events, u), u.failed
    PROVE  BlockStep(v, Append(events, ev), u)
  <1>1. PICK more : more = Append(events, ev)
    OBVIOUS
  <1>2. ToSet(more) = ToSet(events) \cup {ev}
    BY <1>1, EventsOfMore
  <1>3. \A type, step, id : Starts(events, type, step, id) => Starts(more, type, step, id)
    BY <1>2 DEF Starts
  <1>4. PICK other \in ToSet(events) : Excuse(v, events, other)
    BY DEF BlockStep
  <1>5. other \in ToSet(more) /\ Excuse(v, more, other)
    BY <1>2, <1>3, <1>4 DEF Excuse
  <1> QED
    BY <1>1, <1>5 DEF BlockStep

-----------------------------------------------------------------------------

\* The tables an index will have after each of the blocks it has not handled.
Trail(blocks, h, v, s) ==
    /\ s = [k \in 0..Len(blocks) |-> s[k]] /\ s[0] = v
    /\ \A k \in 1..Len(blocks) :
          /\ s[k] = HandleBlock(s[k - 1], blocks[k], h - Len(blocks) + k)
          /\ ~s[k - 1].failed => BlockStep(s[k - 1], blocks[k], s[k])

\* The index handles the first block.
LEMMA TrailOfRest ==
    ASSUME NEW S, NEW blocks \in Seq(S), blocks # << >>, NEW h \in Nat, NEW v, NEW s,
           Trail(blocks, h, v, s)
    PROVE  \E t : /\ Trail(Tail(blocks), h, s[1], t) /\ t[Len(Tail(blocks))] = s[Len(blocks)]
  <1>1. PICK n, rest : n = Len(blocks) /\ rest = Tail(blocks)
    OBVIOUS
  <1>2. n \in Nat /\ n >= 1 /\ Len(rest) = n - 1 /\ \A k \in 1..(n - 1) : rest[k] = blocks[k + 1]
    BY <1>1
  <1>3. PICK t : t = [k \in 0..(n - 1) |-> s[k + 1]]
    OBVIOUS
  <1>4. t[0] = s[1] /\ t[n - 1] = s[n] /\ t = [k \in 0..(n - 1) |-> t[k]]
    BY <1>2, <1>3
  <1>5. ASSUME NEW k \in 1..(n - 1)
        PROVE  /\ t[k] = HandleBlock(t[k - 1], rest[k], h - (n - 1) + k)
               /\ ~t[k - 1].failed => BlockStep(t[k - 1], rest[k], t[k])
    <2>1. t[k] = s[k + 1] /\ t[k - 1] = s[k] /\ rest[k] = blocks[k + 1]
      BY <1>2, <1>3
    <2>2. k + 1 \in 1..n /\ (k + 1) - 1 = k /\ h - (n - 1) + k = h - n + (k + 1)
      BY <1>2
    <2>3. /\ s[k + 1] = HandleBlock(s[(k + 1) - 1], blocks[k + 1], h - n + (k + 1))
          /\ ~s[(k + 1) - 1].failed => BlockStep(s[(k + 1) - 1], blocks[k + 1], s[k + 1])
      BY <1>1, <2>2 DEF Trail
    <2> QED
      BY <2>1, <2>2, <2>3
  <1>6. Trail(rest, h, s[1], t)
    BY <1>2, <1>4, <1>5 DEF Trail
  <1> QED
    BY <1>1, <1>2, <1>4, <1>6

\* An event in a block of its own
LEMMA TrailOfBlock ==
    ASSUME NEW S, NEW blocks \in Seq(S), NEW h \in Nat, NEW v, NEW s, Trail(blocks, h, v, s),
           NEW ev, <<ev>> \in S, NEW w, w = HandleEvent(s[Len(blocks)], ev, h + 1),
           ~s[Len(blocks)].failed => EventStep(s[Len(blocks)], ev, w)
    PROVE  \E t : /\ Trail(Append(blocks, <<ev>>), h + 1, v, t)
                  /\ t[Len(Append(blocks, <<ev>>))] = w
  <1>1. PICK n, more : n = Len(blocks) /\ more = Append(blocks, <<ev>>)
    OBVIOUS
  <1>2. n \in Nat /\ Len(more) = n + 1 /\ more[n + 1] = <<ev>>
        /\ \A k \in 1..n : more[k] = blocks[k]
    BY <1>1
  <1>3. PICK t : t = [k \in 0..(n + 1) |-> IF k = n + 1 THEN w ELSE s[k]]
    OBVIOUS
  <1>4. /\ t[n + 1] = w /\ t = [k \in 0..(n + 1) |-> t[k]]
        /\ \A k \in 0..n : t[k] = s[k]
    BY <1>2, <1>3
  <1>5. t[0] = v
    <2>1. s[0] = v
      BY DEF Trail
    <2>2. 0 \in 0..n
      BY <1>2
    <2> QED
      BY <1>4, <2>1, <2>2
  <1>6. ASSUME NEW k \in 1..(n + 1)
        PROVE  /\ t[k] = HandleBlock(t[k - 1], more[k], (h + 1) - (n + 1) + k)
               /\ ~t[k - 1].failed => BlockStep(t[k - 1], more[k], t[k])
    <2>1. CASE k = n + 1
      <3>1. t[k - 1] = s[n] /\ t[k] = w /\ more[k] = <<ev>> /\ (h + 1) - (n + 1) + k = h + 1
        <4>1. k - 1 = n /\ n \in 0..n /\ (h + 1) - (n + 1) + k = h + 1
          BY <1>2, <2>1
        <4> QED
          BY <1>2, <1>4, <2>1, <4>1
      <3>2. HandleBlock(s[n], <<ev>>, h + 1) = w
        BY <1>1, BlockOfOne
      <3>3. ~s[n].failed => BlockStep(s[n], <<ev>>, w)
        BY <1>1, StepOfOne
      <3> QED
        BY <3>1, <3>2, <3>3
    <2>2. CASE k # n + 1
      <3>1. k \in 1..n /\ k - 1 \in 0..n /\ k \in 0..n
        BY <1>2, <2>2
      <3>2. t[k] = s[k] /\ t[k - 1] = s[k - 1] /\ more[k] = blocks[k]
        BY <1>2, <1>4, <3>1
      <3>3. (h + 1) - (n + 1) + k = h - n + k
        BY <1>2
      <3>4. /\ s[k] = HandleBlock(s[k - 1], blocks[k], h - n + k)
            /\ ~s[k - 1].failed => BlockStep(s[k - 1], blocks[k], s[k])
        BY <1>1, <3>1 DEF Trail
      <3> QED
        BY <3>2, <3>3, <3>4
    <2> QED
      BY <2>1, <2>2
  <1>7. Trail(more, h + 1, v, t)
    BY <1>2, <1>4, <1>5, <1>6 DEF Trail
  <1> QED
    BY <1>1, <1>2, <1>4, <1>7

\* An event at the end of the last block
LEMMA TrailOfEvent ==
    ASSUME NEW E, NEW blocks \in Seq(Seq(E)), blocks # << >>, NEW h \in Nat, NEW v, NEW s,
           Trail(blocks, h, v, s), NEW ev \in E,
           NEW w, w = HandleEvent(s[Len(blocks)], ev, h),
           ~s[Len(blocks)].failed => EventStep(s[Len(blocks)], ev, w),
           Tries(ev) => ~Starts(blocks[Len(blocks)], ev.type, "OpenTry", ev.id),
           NEW more, more = Joined(blocks, ev)
    PROVE  \E t : /\ Trail(more, h, v, t) /\ t[Len(more)] = w
  <1>1. PICK n, last : n = Len(blocks) /\ last = blocks[Len(blocks)]
    OBVIOUS
  <1>2. n \in Nat /\ n >= 1 /\ Len(more) = n /\ more[n] = Append(last, ev) /\ last \in Seq(E)
        /\ \A k \in 1..n : k # n => more[k] = blocks[k]
    BY <1>1 DEF Joined
  <1>3. PICK t : t = [k \in 0..n |-> IF k = n THEN w ELSE s[k]]
    OBVIOUS
  <1>4. /\ t[n] = w /\ t = [k \in 0..n |-> t[k]]
        /\ \A k \in 0..(n - 1) : t[k] = s[k]
    BY <1>2, <1>3
  <1>5. t[0] = v
    <2>1. s[0] = v
      BY DEF Trail
    <2>2. 0 \in 0..(n - 1)
      BY <1>2
    <2> QED
      BY <1>4, <2>1, <2>2
  <1>6. ASSUME NEW k \in 1..n
        PROVE  /\ t[k] = HandleBlock(t[k - 1], more[k], h - n + k)
               /\ ~t[k - 1].failed => BlockStep(t[k - 1], more[k], t[k])
    <2>0. /\ s[k] = HandleBlock(s[k - 1], blocks[k], h - n + k)
          /\ ~s[k - 1].failed => BlockStep(s[k - 1], blocks[k], s[k])
      BY <1>1 DEF Trail
    <2>1. CASE k = n
      <3>1. t[k - 1] = s[n - 1] /\ t[k] = w /\ more[k] = Append(last, ev) /\ h - n + k = h
        <4>1. k - 1 = n - 1 /\ n - 1 \in 0..(n - 1) /\ h - n + k = h
          BY <1>2, <2>1
        <4> QED
          BY <1>2, <1>4, <2>1, <4>1
      <3>2. s[n] = HandleBlock(s[n - 1], last, h)
            /\ (~s[n - 1].failed => BlockStep(s[n - 1], last, s[n]))
        BY <1>1, <2>0, <2>1, <3>1
      <3>3. HandleBlock(s[n - 1], Append(last, ev), h) = w
        BY <1>1, <1>2, <3>2, BlockOfMore
      <3>4. ASSUME ~s[n - 1].failed PROVE BlockStep(s[n - 1], Append(last, ev), w)
        <4>1. CASE s[n].failed
          <5>1. w = s[n]
            BY <1>1, <4>1 DEF HandleEvent
          <5>2. BlockStep(s[n - 1], last, s[n])
            BY <3>2, <3>4
          <5>3. BlockStep(s[n - 1], Append(last, ev), s[n])
            BY <1>2, <4>1, <5>2, StepOfFailed
          <5> QED
            BY <5>1, <5>3
        <4>2. CASE ~s[n].failed
          <5>1. EventStep(s[n], ev, w)
            BY <1>1, <4>2
          <5>2. BlockStep(s[n - 1], last, s[n])
            BY <3>2, <3>4
          <5>3. Tries(ev) => ~Starts(last, ev.type, "OpenTry", ev.id)
            BY <1>1
          <5> QED
            BY <1>2, <4>2, <5>1, <5>2, <5>3, StepOfMore
        <4> QED
          BY <4>1, <4>2
      <3> QED
        BY <3>1, <3>3, <3>4
    <2>2. CASE k # n
      <3>1. k \in 0..(n - 1) /\ k - 1 \in 0..(n - 1)
        BY <1>2, <2>2
      <3>2. t[k] = s[k] /\ t[k - 1] = s[k - 1] /\ more[k] = blocks[k]
        BY <1>2, <1>4, <2>2, <3>1
      <3> QED
        BY <2>0, <3>2
    <2> QED
      BY <2>1, <2>2
  <1>7. Trail(more, h, v, t)
    BY <1>2, <1>4, <1>5, <1>6 DEF Trail
  <1> QED
    BY <1>1, <1>2, <1>4, <1>7

\* The tables the index of c will have match the chain, if it does not stop before.
ViewOK(c) ==
    /\ ~view[c].failed
    /\ \E s : /\ Trail(queue[c], height[c], view[c], s)
              /\ s[Len(queue[c])].failed \/ Matches(c, s[Len(queue[c])])

-----------------------------------------------------------------------------
(* Events *)

\* An event goes to the last block, or to a block of its own.
Joins(c, ev) ==
    /\ queue[c] # << >> /\ height'[c] = height[c]
    /\ queue'[c] = Joined(queue[c], ev)

Follow(c, ev) ==
    height'[c] = height[c] + 1 /\ queue'[c] = Append(queue[c], <<ev>>)

\* An event joins the last block of its chain or starts one, and other chains rest.
LEMMA EmitIs ==
    ASSUME QueueTypes, NEW c \in Chains, NEW ev \in Event, NEW h \in Heights(c), Emit(c, ev, h)
    PROVE  /\ QueueTypes' /\ h \in Nat /\ height'[c] = h
           /\ Joins(c, ev) \/ Follow(c, ev)
           /\ \A d \in Chains : d # c => queue'[d] = queue[d] /\ height'[d] = height[d]
           /\ scope' = scope /\ view' = view
  <1>1. /\ height \in [Chains -> Nat] /\ queue \in [Chains -> Seq(Seq(Event))]
        /\ queue[c] \in Seq(Seq(Event)) /\ height[c] \in Nat
    BY DEF QueueTypes
  <1>2. PICK q, more : q = queue[c] /\ more = IF h = height[c]
                                          THEN Joined(q, ev)
                                          ELSE Append(q, <<ev>>)
    OBVIOUS
  <1>3. height' = [height EXCEPT ![c] = h] /\ queue' = [queue EXCEPT ![c] = more]
        /\ scope' = scope /\ view' = view
    <2>1. height' = [height EXCEPT ![c] = h] /\ scope' = scope /\ view' = view
      BY DEF Emit
    <2>2. queue' = [queue EXCEPT ![c] = IF h = height[c]
                       THEN Joined(queue[c], ev)
                       ELSE Append(queue[c], <<ev>>)]
      BY DEF Emit
    <2> QED
      BY <1>2, <2>1, <2>2
  <1>4. h \in Nat /\ (h = height[c] => q # << >>) /\ (h # height[c] => h = height[c] + 1)
    BY <1>1, <1>2 DEF Heights
  <1>5. height'[c] = h /\ queue'[c] = more
        /\ \A d \in Chains : d # c => queue'[d] = queue[d] /\ height'[d] = height[d]
    BY <1>1, <1>3
  <1>6. more \in Seq(Seq(Event))
    <2>1. CASE h = height[c]
      <3>1. q \in Seq(Seq(Event)) /\ q # << >>
        BY <1>1, <1>2, <1>4, <2>1
      <3>2. PICK n : n = Len(q)
        OBVIOUS
      <3>3. n \in DOMAIN q /\ q[n] \in Seq(Event)
        BY <3>1, <3>2
      <3>4. PICK last : last = Append(q[n], ev)
        OBVIOUS
      <3>5. last \in Seq(Event)
        BY <3>3, <3>4
      <3>6. more = [q EXCEPT ![n] = last]
        BY <1>2, <2>1, <3>2, <3>4 DEF Joined
      <3> QED
        BY <3>1, <3>3, <3>5, <3>6
    <2>2. CASE h # height[c]
      <3>1. <<ev>> \in Seq(Event)
        OBVIOUS
      <3> QED
        BY <1>1, <1>2, <2>2, <3>1
    <2> QED
      BY <2>1, <2>2
  <1>7. QueueTypes'
    BY <1>1, <1>3, <1>4, <1>6 DEF QueueTypes
  <1>8. Joins(c, ev) \/ Follow(c, ev)
    BY <1>2, <1>4, <1>5 DEF Joins, Follow
  <1> QED
    BY <1>3, <1>4, <1>5, <1>7, <1>8

\* The events of the blocks when one joins them.
LEMMA EventsJoin ==
    ASSUME NEW E, NEW blocks \in Seq(Seq(E)), NEW ev \in E, NEW more,
           \/ blocks # << >> /\ more = Joined(blocks, ev)
           \/ more = Append(blocks, <<ev>>)
    PROVE  EventsOf(more) = EventsOf(blocks) \cup {ev}
  <1>1. CASE blocks # << >> /\ more = Joined(blocks, ev)
    <2>1. PICK n : n = Len(blocks)
      OBVIOUS
    <2>2. /\ n \in DOMAIN blocks /\ blocks[n] \in Seq(E) /\ DOMAIN more = DOMAIN blocks
          /\ more[n] = Append(blocks[n], ev)
          /\ \A k \in DOMAIN blocks : k # n => more[k] = blocks[k]
      BY <1>1, <2>1 DEF Joined
    <2>3. ToSet(more[n]) = ToSet(blocks[n]) \cup {ev}
      BY <2>2, EventsOfMore
    <2>4. \A k \in DOMAIN blocks : k # n => ToSet(more[k]) = ToSet(blocks[k])
      BY <2>2
    <2> QED
      BY <2>2, <2>3, <2>4 DEF EventsOf
  <1>2. CASE more = Append(blocks, <<ev>>)
    <2>1. PICK n : n = Len(blocks) + 1
      OBVIOUS
    <2>2. /\ DOMAIN more = DOMAIN blocks \cup {n} /\ n \notin DOMAIN blocks
          /\ more[n] = <<ev>> /\ \A k \in DOMAIN blocks : more[k] = blocks[k]
      BY <1>2, <2>1
    <2>3. ToSet(more[n]) = {ev}
      BY <2>2, EventOfOne
    <2>4. \A k \in DOMAIN blocks : ToSet(more[k]) = ToSet(blocks[k])
      BY <2>2
    <2> QED
      BY <2>2, <2>3, <2>4 DEF EventsOf
  <1> QED
    BY <1>1, <1>2

\* What an event does to an index that matches its chain.
Advances(c, ev, h) ==
    \A v, w : Matches(c, v) /\ w = HandleEvent(v, ev, h) =>
        EventStep(v, ev, w) /\ (~w.failed => Matches(c, w)')

\* An OpenTry comes to an end that has not opened.
TryIsDue(c, ev) ==
    /\ ev.type = "Connection" /\ ev.step = "OpenTry" => connection[c] \in {"none", "INIT"}
    /\ ev.type = "Channel" /\ ev.step = "OpenTry" => channel[ev.id].state \in {"none", "INIT"}

\* An index that will match the chain does so still when the chain emits an event that
\* advances every index that matches.
LEMMA EmitAdvances ==
    ASSUME QueueTypes, TriesAreOver, NEW c \in Chains, ViewOK(c), NEW ev \in Event,
           NEW h \in Heights(c), Emit(c, ev, h), Advances(c, ev, h), TryIsDue(c, ev),
           Tries(ev) /\ ev.type = "Connection" => ev.id = ConnectionId(c)
    PROVE  ViewOK(c)'
  <1>1. h \in Nat /\ height'[c] = h /\ (Joins(c, ev) \/ Follow(c, ev)) /\ view' = view
    BY EmitIs
  <1>2. PICK q, H, v : q = queue[c] /\ H = height[c] /\ v = view[c]
    OBVIOUS
  <1>3. q \in Seq(Seq(Event)) /\ H \in Nat
    BY <1>2 DEF QueueTypes
  <1>4. PICK s : Trail(q, H, v, s) /\ (s[Len(q)].failed \/ Matches(c, s[Len(q)]))
    BY <1>2 DEF ViewOK
  <1>5. PICK w : w = HandleEvent(s[Len(q)], ev, h)
    OBVIOUS
  <1>6. ~s[Len(q)].failed => EventStep(s[Len(q)], ev, w)
    BY <1>4, <1>5 DEF Advances
  <1>7. w.failed \/ Matches(c, w)'
    <2>1. CASE s[Len(q)].failed
      BY <1>5, <2>1 DEF HandleEvent
    <2>2. CASE ~s[Len(q)].failed
      BY <1>4, <1>5, <2>2 DEF Advances
    <2> QED
      BY <2>1, <2>2
  <1>8. \E t : Trail(queue'[c], h, v, t) /\ t[Len(queue'[c])] = w
    <2>1. CASE Joins(c, ev)
      <3>1. q # << >> /\ h = H /\ queue'[c] = Joined(q, ev)
        BY <1>1, <1>2, <2>1 DEF Joins
      <3>2. Tries(ev) => ~Starts(q[Len(q)], ev.type, "OpenTry", ev.id)
        <4>1. SUFFICES ASSUME Tries(ev), NEW other \in ToSet(q[Len(q)]), other.type = ev.type,
                              other.step = "OpenTry", other.id = ev.id
                       PROVE  FALSE
          BY DEF Starts
        <4>2. Len(q) \in DOMAIN q
          BY <1>3, <3>1
        <4>3. other \in EventsOf(queue[c])
          BY <1>2, <4>1, <4>2 DEF EventsOf
        <4>4. CASE ev.type = "Connection"
          BY <4>1, <4>3, <4>4 DEF TriesAreOver, TryIsDue, Tries
        <4>5. CASE ev.type = "Channel"
          BY <4>1, <4>3, <4>5 DEF TriesAreOver, TryIsDue, Tries
        <4> QED
          BY <4>1, <4>4, <4>5 DEF Tries
      <3>3. PICK more : more = queue'[c]
        OBVIOUS
      <3>4. more = Joined(q, ev)
        BY <3>1, <3>3
      <3>5. w = HandleEvent(s[Len(q)], ev, H)
        BY <1>5, <3>1
      <3>6. \E t : Trail(more, H, v, t) /\ t[Len(more)] = w
        BY ONLY <1>3, <1>4, <1>6, <3>1, <3>2, <3>4, <3>5, TrailOfEvent, ev \in Event
      <3> QED
        BY <3>1, <3>3, <3>6
    <2>2. CASE Follow(c, ev)
      <3>1. h = H + 1 /\ queue'[c] = Append(q, <<ev>>)
        BY <1>1, <1>2, <2>2 DEF Follow
      <3>2. <<ev>> \in Seq(Event)
        OBVIOUS
      <3>3. w = HandleEvent(s[Len(q)], ev, H + 1)
        BY <1>5, <3>1
      <3>4. PICK S : S = Seq(Event)
        OBVIOUS
      <3>5. q \in Seq(S) /\ <<ev>> \in S
        BY <1>3, <3>2, <3>4
      <3>6. \E t : /\ Trail(Append(q, <<ev>>), H + 1, v, t)
                   /\ t[Len(Append(q, <<ev>>))] = w
        BY <1>3, <1>4, <1>6, <3>3, <3>5, TrailOfBlock
      <3> QED
        BY <3>1, <3>6
    <2> QED
      BY <1>1, <2>1, <2>2
  <1>9. ~view'[c].failed /\ view'[c] = v
    BY <1>1, <1>2 DEF ViewOK
  <1> QED
    BY <1>1, <1>7, <1>8, <1>9 DEF ViewOK

\* What stays of an index whose chain has no event.
LEMMA OthersRest ==
    ASSUME NEW d \in Chains, ViewOK(d), queue'[d] = queue[d], height'[d] = height[d],
           view'[d] = view[d], \A v : Matches(d, v) => Matches(d, v)'
    PROVE  ViewOK(d)'
  <1>1. ~view[d].failed
    BY DEF ViewOK
  <1>2. PICK s : /\ Trail(queue[d], height[d], view[d], s)
                 /\ s[Len(queue[d])].failed \/ Matches(d, s[Len(queue[d])])
    BY DEF ViewOK
  <1>3. PICK v : v = s[Len(queue[d])]
    OBVIOUS
  <1>4. v.failed \/ Matches(d, v)'
    BY <1>2, <1>3
  <1> QED
    BY <1>1, <1>2, <1>3, <1>4 DEF ViewOK

\* An index matches a chain that rests.
LEMMA MatchesStay ==
    ASSUME NEW c, NEW v, Matches(c, v),
           UNCHANGED <<client, connection, channel, packets, escrow, minted>>
    PROVE  Matches(c, v)'
  BY DEF Matches, ClientMatches, ConnectionMatches, RowsMatch, TracesMatch, OwnMatch, RowMatches,
         Out, Done, In

\* The index of c handles a block.
LEMMA HandleKeepsView ==
    ASSUME QueueTypes, NEW c \in Chains, HandleEvents(c), \A d \in Chains : ViewOK(d),
           view = [d \in Chains |-> view[d]]
    PROVE  QueueTypes' /\ \A d \in Chains : ViewOK(d)'
  <1>1. /\ queue[c] # << >> /\ ~Handled(c).failed
        /\ view' = [view EXCEPT ![c] = Handled(c)]
        /\ queue' = [queue EXCEPT ![c] = Tail(queue[c])]
        /\ UNCHANGED <<client, connection, channel, packets, escrow, minted, height>>
    BY DEF HandleEvents, chainVars
  <1>2. height \in [Chains -> Nat] /\ queue \in [Chains -> Seq(Seq(Event))]
    BY DEF QueueTypes
  <1>3. PICK q, H, rest : q = queue[c] /\ H = height[c] /\ rest = Tail(queue[c])
    OBVIOUS
  <1>4. q \in Seq(Seq(Event)) /\ H \in Nat /\ rest \in Seq(Seq(Event)) /\ q # << >>
    BY <1>1, <1>2, <1>3
  <1>5. QueueTypes'
    BY <1>1, <1>2, <1>3, <1>4 DEF QueueTypes
  <1>6. PICK s : Trail(q, H, view[c], s) /\ (s[Len(q)].failed \/ Matches(c, s[Len(q)]))
    BY <1>3 DEF ViewOK
  <1>7. s[1] = Handled(c)
    <2>1. s[0] = view[c]
      BY <1>6 DEF Trail
    <2>2. 1 \in 1..Len(q) /\ 1 - 1 = 0 /\ q[1] = Head(q)
      BY <1>4
    <2>3. s[1] = HandleBlock(s[1 - 1], q[1], H - Len(q) + 1)
      BY <1>6, <2>2 DEF Trail
    <2> QED
      BY <1>3, <2>1, <2>2, <2>3 DEF Handled
  <1>8. PICK t : Trail(rest, H, s[1], t) /\ t[Len(rest)] = s[Len(q)]
    <2>1. \E t : Trail(Tail(q), H, s[1], t) /\ t[Len(Tail(q))] = s[Len(q)]
      BY <1>4, <1>6, TrailOfRest
    <2> QED
      BY <1>3, <2>1
  <1>9. view'[c] = s[1] /\ queue'[c] = rest /\ height'[c] = H
    BY <1>1, <1>2, <1>3, <1>7
  <1>10. PICK v : v = t[Len(rest)]
    OBVIOUS
  <1>11. v.failed \/ Matches(c, v)'
    BY <1>1, <1>6, <1>8, <1>10, MatchesStay
  <1>12. ViewOK(c)'
    <2>1. ~view'[c].failed
      BY <1>1, <1>7, <1>9
    <2> QED
      BY <1>8, <1>9, <1>10, <1>11, <2>1 DEF ViewOK
  <1>13. ASSUME NEW d \in Chains, d # c PROVE ViewOK(d)'
    <2>1. queue'[d] = queue[d] /\ height'[d] = height[d] /\ view'[d] = view[d]
      BY <1>1, <1>2, <1>13
    <2>2. \A v2 : Matches(d, v2) => Matches(d, v2)'
      BY <1>1, MatchesStay
    <2> QED
      BY <2>1, <2>2, OthersRest
  <1> QED
    BY <1>5, <1>12, <1>13

-----------------------------------------------------------------------------
(* What a step leaves alone *)

\* Only end e changes.
Frame(e) ==
    /\ client' = client /\ connection' = connection
    /\ \A g \in Ends : g # e =>
          /\ channel'[g] = channel[g] /\ escrow'[g] = escrow[g] /\ minted'[g] = minted[g]
          /\ Out(g)' = Out(g) /\ Done(g)' = Done(g) /\ In(g)' = In(g)

\* A step at one end leaves the rows of the others right.
LEMMA RowRests ==
    ASSUME NEW e, Frame(e), NEW g \in Ends, g # e, NEW row, RowMatches(g, row)
    PROVE  RowMatches(g, row)'
  <1>1. /\ channel'[g] = channel[g] /\ escrow'[g] = escrow[g] /\ minted'[g] = minted[g]
        /\ Out(g)' = Out(g) /\ Done(g)' = Done(g) /\ In(g)' = In(g)
    BY DEF Frame
  <1> QED
    BY <1>1 DEF RowMatches

\* An index whose chain has no part in the step
LEMMA OthersMatch ==
    ASSUME NEW e, Frame(e), NEW c \in Chains, e \notin EndsOf(c),
           NEW v, Matches(c, v), OwnMatch(c, v)'
    PROVE  Matches(c, v)'
  <1>1. IsView(v) /\ ~v.failed /\ ClientMatches(c, v) /\ ConnectionMatches(c, v)
        /\ RowsMatch(c, v) /\ TracesMatch(v)
    BY DEF Matches
  <1>2. client' = client /\ connection' = connection
    BY DEF Frame
  <1>3. ClientMatches(c, v)' /\ ConnectionMatches(c, v)' /\ TracesMatch(v)'
    BY <1>1, <1>2 DEF ClientMatches, ConnectionMatches, TracesMatch
  <1>4. \A g \in EndsOf(c) : g \in Ends /\ g # e
    BY EndsAre
  <1>5. \A g \in EndsOf(c) : channel'[g] = channel[g] /\ minted'[g] = minted[g]
    BY <1>4 DEF Frame
  <1>6. \A g \in DOMAIN v.channels : g \in EndsOf(c)
    BY <1>1 DEF RowsMatch
  <1>7. \A g \in DOMAIN v.channels : RowMatches(g, v.channels[g])'
    BY <1>1, <1>4, <1>6, RowRests DEF RowsMatch
  <1>8. RowsMatch(c, v)'
    BY <1>1, <1>5, <1>6, <1>7 DEF RowsMatch
  <1> QED
    BY <1>1, <1>3, <1>8 DEF Matches

\* The index of the chain, whose row of end e is written
LEMMA RowsMatchNext ==
    ASSUME NEW e, Frame(e), NEW c \in Chains, e \in EndsOf(c), NEW v, Matches(c, v),
           e \in DOMAIN v.channels, channel'[e].state # "none",
           NEW w, DOMAIN w.channels = DOMAIN v.channels, v.denoms \subseteq w.denoms,
           \A g \in DOMAIN v.channels : g # e => w.channels[g] = v.channels[g],
           RowMatches(e, w.channels[e])', DOMAIN minted'[e] \subseteq w.denoms
    PROVE  RowsMatch(c, w)'
  <1>1. RowsMatch(c, v)
    BY DEF Matches
  <1>2. \A g \in EndsOf(c) : g \in Ends
    BY EndsAre
  <1>3. \A g \in EndsOf(c) : g # e => channel'[g] = channel[g] /\ minted'[g] = minted[g]
    BY <1>2 DEF Frame
  <1>4. \A g : g \in DOMAIN w.channels <=> g \in EndsOf(c) /\ channel'[g].state # "none"
    BY <1>1, <1>3 DEF RowsMatch
  <1>5. ASSUME NEW g \in DOMAIN w.channels
        PROVE  RowMatches(g, w.channels[g])' /\ DOMAIN minted'[g] \subseteq w.denoms
    <2>1. CASE g = e
      BY <2>1
    <2>2. CASE g # e
      <3>1. g \in Ends /\ RowMatches(g, v.channels[g]) /\ DOMAIN minted[g] \subseteq v.denoms
        BY <1>1, <1>2 DEF RowsMatch
      <3>2. RowMatches(g, v.channels[g])'
        BY <2>2, <3>1, RowRests
      <3>3. w.channels[g] = v.channels[g] /\ minted'[g] = minted[g]
        BY <1>3, <1>4, <2>2
      <3>4. PICK row : row = v.channels[g]
        OBVIOUS
      <3>5. RowMatches(g, row)'
        BY <3>2, <3>4
      <3> QED
        BY <3>1, <3>3, <3>4, <3>5
    <2> QED
      BY <2>1, <2>2
  <1> QED
    BY <1>4, <1>5 DEF RowsMatch

\* A step at a channel leaves the clients and the connections right.
LEMMA TablesStay ==
    ASSUME NEW e, Frame(e), NEW c, NEW v, Matches(c, v), NEW w,
           w.clients = v.clients, w.connections = v.connections
    PROVE  ClientMatches(c, w)' /\ ConnectionMatches(c, w)'
  BY DEF Frame, Matches, ClientMatches, ConnectionMatches

\* A packet's event
LEMMA PacketMatches ==
    ASSUME NEW e, Frame(e), NEW c \in Chains, e \in EndsOf(c), NEW v, Matches(c, v),
           e \in DOMAIN v.channels, channel'[e].state # "none",
           NEW w, NEW r, Follows(v, w, e, r), RowMatches(e, r)',
           DOMAIN minted'[e] \subseteq w.denoms, OwnMatch(c, w)', NEW ev
    PROVE  EventStep(v, ev, w) /\ Matches(c, w)'
  <1>1. /\ IsView(w) /\ ~w.failed /\ w.clients = v.clients /\ w.connections = v.connections
        /\ v.denoms \subseteq w.denoms
        /\ DOMAIN w.channels = DOMAIN v.channels /\ w.channels[e] = r
        /\ \A g \in DOMAIN v.channels : g # e => w.channels[g] = v.channels[g]
    BY DEF Follows
  <1>2. RowsMatch(c, w)'
    <2>1. RowMatches(e, w.channels[e])'
      BY <1>1
    <2> QED
      BY <1>1, <2>1, RowsMatchNext
  <1>3. ClientMatches(c, w)' /\ ConnectionMatches(c, w)'
    BY <1>1, TablesStay
  <1>4. TracesMatch(w)
    <2>1. TracesMatch(v)
      BY DEF Matches
    <2>2. CASE EnableTxMsgTrace
      BY <1>1, <2>1, <2>2 DEF TracesMatch, Follows
    <2>3. CASE ~EnableTxMsgTrace
      BY <2>1, <2>3 DEF TracesMatch, Follows
    <2> QED
      BY <2>2, <2>3
  <1>5. TracesMatch(w)'
    BY <1>4 DEF TracesMatch
  <1>6. EventStep(v, ev, w)
    BY <1>1 DEF EventStep, Ids
  <1> QED
    BY <1>1, <1>2, <1>3, <1>5, <1>6 DEF Matches

\* A channel's event, which bonds no tokens
LEMMA ChannelMatches ==
    ASSUME NEW e, Frame(e), NEW c \in Chains, e \in EndsOf(c), NEW v, Matches(c, v),
           e \in DOMAIN v.channels, channel'[e].state # "none",
           NEW w, NEW r, RowSet(v, w, e, r), RowMatches(e, r)',
           r.onThis = v.channels[e].onThis, r.onCounterparty = v.channels[e].onCounterparty,
           minted' = minted, packets' = packets, NEW ev
    PROVE  EventStep(v, ev, w) /\ Matches(c, w)'
  <1>1. /\ IsView(w) /\ ~w.failed /\ w.clients = v.clients /\ w.connections = v.connections
        /\ v.denoms \subseteq w.denoms /\ w.traces = v.traces
        /\ DOMAIN w.channels = DOMAIN v.channels /\ w.channels[e] = r
        /\ \A g \in DOMAIN v.channels : g # e => w.channels[g] = v.channels[g]
    BY DEF RowSet, Matches
  <1>2. RowsMatch(c, w)'
    <2>1. RowMatches(e, w.channels[e])'
      BY <1>1
    <2>2. DOMAIN minted'[e] \subseteq w.denoms
      BY <1>1 DEF Matches, RowsMatch
    <2> QED
      BY <1>1, <2>1, <2>2, RowsMatchNext
  <1>3. ClientMatches(c, w)' /\ ConnectionMatches(c, w)'
    BY <1>1, TablesStay
  <1>4. TracesMatch(w)
    BY <1>1 DEF Matches, TracesMatch
  <1>5. TracesMatch(w)'
    BY <1>4 DEF TracesMatch
  <1>6. EventStep(v, ev, w)
    BY <1>1 DEF EventStep, Ids
  <1>7. OwnMatch(c, w)'
    BY <1>1 DEF Matches, OwnMatch
  <1> QED
    BY <1>1, <1>2, <1>3, <1>5, <1>6, <1>7 DEF Matches

\* An event the index stops at
LEMMA StopsStep ==
    ASSUME NEW v, NEW w, Stops(v, w), NEW ev, Lookalike(ev)
    PROVE  EventStep(v, ev, w) /\ w.failed
  BY DEF Stops, EventStep

-----------------------------------------------------------------------------
(* The counts of a packet *)

\* A packet more is one more sent by its source.
LEMMA SendCounts ==
    ASSUME packets \in Seq(Packet), NEW p \in Packet, p.state = "sent",
           packets' = Append(packets, p), NEW g
    PROVE  /\ Out(g)' = Out(g) + (IF p.src = g THEN 1 ELSE 0)
           /\ Done(g)' = Done(g) /\ In(g)' = In(g) /\ Out(g) \in Nat
  <1>1. Out(g) \in Nat /\ Done(g) \in Nat /\ In(g) \in Nat
    BY WhichIsFinite DEF Out, Done, In
  <1>2. Matching(p, "src", g, PacketStates) = (IF p.src = g THEN 1 ELSE 0)
    BY DEF Matching, PacketStates
  <1>3. Matching(p, "src", g, Over) = 0 /\ Matching(p, "dst", g, Reached) = 0
    BY DEF Matching, Over, Reached
  <1>4. Out(g)' = Out(g) + Matching(p, "src", g, PacketStates)
    BY CountOfMore DEF Out
  <1>5. Done(g)' = Done(g) + Matching(p, "src", g, Over)
    BY CountOfMore DEF Done
  <1>6. In(g)' = In(g) + Matching(p, "dst", g, Reached)
    BY CountOfMore DEF In
  <1> QED
    BY <1>1, <1>2, <1>3, <1>4, <1>5, <1>6

\* A packet that changes its state is counted in its new state and not in its old one.
LEMMA ChangeCounts ==
    ASSUME packets \in Seq(Packet), NEW i \in DOMAIN packets, NEW state \in PacketStates,
           StateChange(packets, packets', i, state), NEW g
    PROVE  /\ Out(g)' = Out(g)
           /\ Done(g)' = Done(g) + (IF packets[i].src = g /\ state \in Over THEN 1 ELSE 0)
                                 - (IF packets[i].src = g /\ packets[i].state \in Over THEN 1 ELSE 0)
           /\ In(g)' = In(g) + (IF packets[i].dst = g /\ state \in Reached THEN 1 ELSE 0)
                             - (IF packets[i].dst = g /\ packets[i].state \in Reached THEN 1 ELSE 0)
           /\ Out(g) \in Nat /\ Done(g) \in Nat /\ In(g) \in Nat
  <1>1. Out(g) \in Nat /\ Done(g) \in Nat /\ In(g) \in Nat
    BY WhichIsFinite DEF Out, Done, In
  <1>2. /\ DOMAIN packets' = DOMAIN packets
        /\ \A j \in DOMAIN packets : j # i => packets'[j] = packets[j]
        /\ packets'[i].state = state /\ packets'[i].src = packets[i].src
        /\ packets'[i].dst = packets[i].dst
    BY StateChangeIs
  <1>3. packets[i].state \in PacketStates
    <2>1. packets[i] \in Packet
      OBVIOUS
    <2> QED
      BY <2>1 DEF Packet
  <1>4. PICK after : after = packets'
    OBVIOUS
  <1>5. /\ Matching(after[i], "src", g, PacketStates) = Matching(packets[i], "src", g, PacketStates)
        /\ Matching(after[i], "src", g, PacketStates) \in Nat
    BY <1>2, <1>3, <1>4 DEF Matching
  <1>6. /\ Matching(after[i], "src", g, Over) = (IF packets[i].src = g /\ state \in Over THEN 1 ELSE 0)
        /\ Matching(packets[i], "src", g, Over) =
              (IF packets[i].src = g /\ packets[i].state \in Over THEN 1 ELSE 0)
    BY <1>2, <1>4 DEF Matching
  <1>7. /\ Matching(after[i], "dst", g, Reached) = (IF packets[i].dst = g /\ state \in Reached THEN 1 ELSE 0)
        /\ Matching(packets[i], "dst", g, Reached) =
              (IF packets[i].dst = g /\ packets[i].state \in Reached THEN 1 ELSE 0)
    BY <1>2, <1>4 DEF Matching
  <1>8. \A end, states : Count(after, end, g, states) = Count(packets, end, g, states)
            + Matching(after[i], end, g, states) - Matching(packets[i], end, g, states)
    <2>1. DOMAIN after = DOMAIN packets /\ \A j \in DOMAIN packets : j # i => after[j] = packets[j]
      BY <1>2, <1>4
    <2> QED
      BY <2>1, CountOfChange
  <1>9. Out(g)' = Out(g)
    <2>1. Out(g)' = Count(after, "src", g, PacketStates)
      BY <1>4 DEF Out
    <2> QED
      BY <1>1, <1>5, <1>8, <2>1 DEF Out
  <1>10. Done(g)' = Done(g) + (IF packets[i].src = g /\ state \in Over THEN 1 ELSE 0)
                            - (IF packets[i].src = g /\ packets[i].state \in Over THEN 1 ELSE 0)
    <2>1. Done(g)' = Count(after, "src", g, Over)
      BY <1>4 DEF Done
    <2> QED
      BY <1>6, <1>8, <2>1 DEF Done
  <1>11. In(g)' = In(g) + (IF packets[i].dst = g /\ state \in Reached THEN 1 ELSE 0)
                        - (IF packets[i].dst = g /\ packets[i].state \in Reached THEN 1 ELSE 0)
    <2>1. In(g)' = Count(after, "dst", g, Reached)
      BY <1>4 DEF In
    <2> QED
      BY <1>7, <1>8, <2>1 DEF In
  <1> QED
    BY <1>1, <1>9, <1>10, <1>11

-----------------------------------------------------------------------------
(* The bonded tokens and the accounts *)

\* What enters the escrow account is added under its name at the counterparty.
LEMMA MirrorsMore ==
    ASSUME NEW B, NEW e \in Ends, NEW A, Mirrors(B, e, A), NEW d \in Paths, NEW n \in Nat \ {0},
           NEW account, \A x \in Paths : Amount(x, account) = Amount(x, A) + (IF x = d THEN n ELSE 0)
    PROVE  Mirrors(AddToken(B, <<Counterparty(e)>> \o d, n), e, account)
  <1>1. PICK k, y : k = Counterparty(e) /\ y = <<k>> \o d
    OBVIOUS
  <1>2. k \in Ends
    BY <1>1, EndsAre
  <1>3. \A x \in Paths : <<k>> \o x = y => x = d
    BY <1>1, <1>2, PathIs
  <1>4. PICK C : C = AddToken(B, y, n)
    OBVIOUS
  <1>5. /\ IsBag(B) /\ \A x \in DOMAIN B : \E z \in Paths : x = <<k>> \o z
        /\ \A x \in Paths : Amount(<<k>> \o x, B) = Amount(x, A)
    BY <1>1 DEF Mirrors
  <1>6. IsBag(C) /\ DOMAIN C = DOMAIN B \cup {y}
    BY <1>4, <1>5, PlusIs DEF AddToken
  <1>7. \A x : Amount(x, C) = Amount(x, B) + (IF x = y THEN n ELSE 0)
    BY <1>4, <1>5, PlusAmount DEF AddToken
  <1>8. \A x \in DOMAIN C : \E z \in Paths : x = <<k>> \o z
    BY <1>1, <1>5, <1>6
  <1>9. ASSUME NEW x \in Paths PROVE Amount(<<k>> \o x, C) = Amount(x, account)
    <2>1. Amount(<<k>> \o x, C) = Amount(<<k>> \o x, B) + (IF <<k>> \o x = y THEN n ELSE 0)
      BY <1>7
    <2>2. <<k>> \o x = y <=> x = d
      BY <1>1, <1>3
    <2> QED
      BY <1>5, <2>1, <2>2
  <1> QED
    BY <1>1, <1>4, <1>6, <1>8, <1>9 DEF Mirrors

\* What leaves the escrow account is there under its name at the counterparty.
LEMMA MirrorsLess ==
    ASSUME NEW B, NEW e \in Ends, NEW A, Mirrors(B, e, A), NEW d \in Paths, NEW n \in Nat \ {0},
           n <= Amount(d, A),
           NEW account, \A x \in Paths : Amount(x, account) = Amount(x, A) - (IF x = d THEN n ELSE 0)
    PROVE  /\ <<Counterparty(e)>> \o d \in DOMAIN B
           /\ Mirrors(SubtractToken(B, <<Counterparty(e)>> \o d, n), e, account)
  <1>1. PICK k, y : k = Counterparty(e) /\ y = <<k>> \o d
    OBVIOUS
  <1>2. k \in Ends
    BY <1>1, EndsAre
  <1>3. \A x \in Paths : <<k>> \o x = y => x = d
    BY <1>1, <1>2, PathIs
  <1>4. PICK C : C = SubtractToken(B, y, n)
    OBVIOUS
  <1>5. /\ IsBag(B) /\ \A x \in DOMAIN B : \E z \in Paths : x = <<k>> \o z
        /\ \A x \in Paths : Amount(<<k>> \o x, B) = Amount(x, A)
    BY <1>1 DEF Mirrors
  <1>a. n <= Amount(y, B) /\ Amount(y, B) \in Nat
    BY <1>1, <1>5, AmountIsNat
  <1>b. y \in DOMAIN B
    BY <1>5, <1>a, AmountIsNat
  <1>6. /\ IsBag(C) /\ DOMAIN C \subseteq DOMAIN B
        /\ \A x : Amount(x, C) = Amount(x, B) - (IF x = y THEN n ELSE 0)
    BY <1>4, <1>5, <1>a, SubtractIs
  <1>8. \A x \in DOMAIN C : \E z \in Paths : x = <<k>> \o z
    BY <1>5, <1>6
  <1>9. ASSUME NEW x \in Paths PROVE Amount(<<k>> \o x, C) = Amount(x, account)
    <2>1. Amount(<<k>> \o x, C) = Amount(<<k>> \o x, B) - (IF <<k>> \o x = y THEN n ELSE 0)
      BY <1>6
    <2>2. <<k>> \o x = y <=> x = d
      BY <1>1, <1>3
    <2> QED
      BY <1>5, <2>1, <2>2
  <1> QED
    BY <1>1, <1>4, <1>6, <1>8, <1>9, <1>b DEF Mirrors

\* Vouchers that are taken from a row are those that are burnt.
LEMMA SubtractIsMinus ==
    ASSUME NEW B, IsBag(B), NEW d, NEW n \in Nat \ {0}, n <= Amount(d, B)
    PROVE  d \in DOMAIN B /\ SubtractToken(B, d, n) = B (-) Tokens(d, n)
  <1>1. PICK C, D : C = SubtractToken(B, d, n) /\ D = B (-) Tokens(d, n)
    OBVIOUS
  <1>2. IsBag(C) /\ \A x : Amount(x, C) = Amount(x, B) - (IF x = d THEN n ELSE 0)
    BY <1>1, SubtractIs
  <1>3. IsBag(D) /\ \A x : Amount(x, D) = Amount(x, B) - (IF x = d THEN n ELSE 0)
    BY <1>1, MinusIs
  <1>4. C = D
    BY <1>2, <1>3, SameBag
  <1>5. d \in DOMAIN B
    BY AmountIsNat
  <1> QED
    BY <1>1, <1>4, <1>5

-----------------------------------------------------------------------------
(* Rows that follow their end *)

\* Writing the tokens that are there changes nothing.
LEMMA BondedSame ==
    ASSUME NEW r, IsRow(r)
    PROVE  Bonded(r, r.onThis, r.onCounterparty) = r
  BY DEF Bonded, IsRow

\* An end goes on: it has sent, got, or settled a packet, at height h.
GoesOn(e, h) ==
    /\ channel'[e].state = channel[e].state /\ channel'[e].opened = channel[e].opened
    /\ channel'[e].active = h

\* The row of a channel is right after a transfer.
LEMMA SentMatches ==
    ASSUME NEW e, NEW row, IsRow(row), RowMatches(e, row), NEW seq, NEW h,
           NEW s, s = Sent(row, seq, h), NEW these, NEW those, NEW r, r = Bonded(s, these, those),
           GoesOn(e, h), Out(e) \in Nat, seq = Out(e) + 1, Out(e)' = Out(e) + 1,
           Done(e)' = Done(e), In(e)' = In(e), these = minted'[e], Mirrors(those, e, escrow'[e])
    PROVE  RowMatches(e, r)' /\ IsRow(r)
  <1>1. /\ IsRow(s)
        /\ s.connection = row.connection /\ s.cpChannel = row.cpChannel
        /\ s.cpChain = row.cpChain /\ s.status = row.status /\ s.createdAt = row.createdAt
        /\ s.lastActivity = h /\ s.lastOut = seq /\ s.relayIn = row.relayIn
        /\ s.relayOutSuccess = row.relayOutSuccess
    BY SentIs
  <1>2. s.relayOut = row.relayOut + 1
    BY SentCounts
  <1>3. s.rate = (IF row.relayOut + 1 > 0 THEN <<row.relayOutSuccess, row.relayOut + 1>> ELSE <<0, 1>>)
    BY SentCounts
  <1>4. IsRow(r)
    BY <1>1, BondedIs
  <1>5. /\ r.connection = s.connection /\ r.cpChannel = s.cpChannel
        /\ r.cpChain = s.cpChain /\ r.status = s.status /\ r.createdAt = s.createdAt
        /\ r.lastActivity = s.lastActivity /\ r.lastOut = s.lastOut
        /\ r.relayIn = s.relayIn /\ r.relayOut = s.relayOut
        /\ r.relayOutSuccess = s.relayOutSuccess /\ r.rate = s.rate
        /\ r.onThis = these /\ r.onCounterparty = those
    BY <1>1, BondedIs
  <1>6. r.relayOut = Out(e)' /\ r.lastOut = Out(e)' /\ r.relayOutSuccess = Done(e)' /\ r.relayIn = In(e)'
    BY <1>1, <1>2, <1>5 DEF RowMatches
  <1>7. r.rate = (IF r.relayOut > 0 THEN <<r.relayOutSuccess, r.relayOut>> ELSE <<0, 1>>)
    BY <1>1, <1>2, <1>3, <1>5
  <1>8. /\ r.status = StatusOf(channel'[e].state) /\ r.cpChain = Other(ChainOf(e))
        /\ r.createdAt = channel'[e].opened /\ r.lastActivity = channel'[e].active
        /\ r.status # "NOT_ESTABLISHED" =>
              r.cpChannel = Counterparty(e) /\ r.connection = ConnectionId(ChainOf(e))
    BY <1>1, <1>5 DEF RowMatches, GoesOn
  <1> QED
    BY <1>4, <1>5, <1>6, <1>7, <1>8 DEF RowMatches

\* The row of a channel is right after a receipt.
LEMMA GotMatches ==
    ASSUME NEW e, NEW row, IsRow(row), RowMatches(e, row), NEW seq, NEW h,
           NEW s, s = Got(row, seq, h), NEW these, NEW those, NEW r, r = Bonded(s, these, those),
           GoesOn(e, h), In(e) \in Nat, In(e)' = In(e) + 1, Out(e)' = Out(e),
           Done(e)' = Done(e), these = minted'[e], Mirrors(those, e, escrow'[e])
    PROVE  RowMatches(e, r)' /\ IsRow(r)
  <1>1. /\ IsRow(s)
        /\ s.connection = row.connection /\ s.cpChannel = row.cpChannel
        /\ s.cpChain = row.cpChain /\ s.status = row.status /\ s.createdAt = row.createdAt
        /\ s.lastActivity = h /\ s.lastOut = row.lastOut /\ s.relayOut = row.relayOut
        /\ s.relayOutSuccess = row.relayOutSuccess /\ s.rate = row.rate
    BY GotIs
  <1>2. s.relayIn = row.relayIn + 1
    BY GotCounts
  <1>4. IsRow(r)
    BY <1>1, BondedIs
  <1>5. /\ r.connection = s.connection /\ r.cpChannel = s.cpChannel
        /\ r.cpChain = s.cpChain /\ r.status = s.status /\ r.createdAt = s.createdAt
        /\ r.lastActivity = s.lastActivity /\ r.lastOut = s.lastOut
        /\ r.relayIn = s.relayIn /\ r.relayOut = s.relayOut
        /\ r.relayOutSuccess = s.relayOutSuccess /\ r.rate = s.rate
        /\ r.onThis = these /\ r.onCounterparty = those
    BY <1>1, BondedIs
  <1>6. r.relayOut = Out(e)' /\ r.lastOut = Out(e)' /\ r.relayOutSuccess = Done(e)' /\ r.relayIn = In(e)'
    BY <1>1, <1>2, <1>5 DEF RowMatches
  <1>7. r.rate = (IF r.relayOut > 0 THEN <<r.relayOutSuccess, r.relayOut>> ELSE <<0, 1>>)
    BY <1>1, <1>5 DEF RowMatches
  <1>8. /\ r.status = StatusOf(channel'[e].state) /\ r.cpChain = Other(ChainOf(e))
        /\ r.createdAt = channel'[e].opened /\ r.lastActivity = channel'[e].active
        /\ r.status # "NOT_ESTABLISHED" =>
              r.cpChannel = Counterparty(e) /\ r.connection = ConnectionId(ChainOf(e))
    BY <1>1, <1>5 DEF RowMatches, GoesOn
  <1> QED
    BY <1>4, <1>5, <1>6, <1>7, <1>8 DEF RowMatches

\* The row of a channel is right after a packet is settled.
LEMMA SettledMatches ==
    ASSUME NEW e, NEW row, IsRow(row), RowMatches(e, row), NEW h,
           NEW s, s = Settled(row, h), NEW these, NEW those, NEW r, r = Bonded(s, these, those),
           GoesOn(e, h), Done(e) \in Nat, Done(e)' = Done(e) + 1, Out(e)' = Out(e),
           In(e)' = In(e), these = minted'[e], Mirrors(those, e, escrow'[e])
    PROVE  RowMatches(e, r)' /\ IsRow(r)
  <1>1. /\ IsRow(s)
        /\ s.connection = row.connection /\ s.cpChannel = row.cpChannel
        /\ s.cpChain = row.cpChain /\ s.status = row.status /\ s.createdAt = row.createdAt
        /\ s.lastActivity = h /\ s.lastOut = row.lastOut /\ s.relayIn = row.relayIn
        /\ s.relayOut = row.relayOut
    BY SettledIs
  <1>2. s.relayOutSuccess = row.relayOutSuccess + 1
    BY SettledCounts
  <1>3. s.rate = (IF row.relayOut > 0 THEN <<row.relayOutSuccess + 1, row.relayOut>> ELSE <<0, 1>>)
    BY SettledCounts
  <1>4. IsRow(r)
    BY <1>1, BondedIs
  <1>5. /\ r.connection = s.connection /\ r.cpChannel = s.cpChannel
        /\ r.cpChain = s.cpChain /\ r.status = s.status /\ r.createdAt = s.createdAt
        /\ r.lastActivity = s.lastActivity /\ r.lastOut = s.lastOut
        /\ r.relayIn = s.relayIn /\ r.relayOut = s.relayOut
        /\ r.relayOutSuccess = s.relayOutSuccess /\ r.rate = s.rate
        /\ r.onThis = these /\ r.onCounterparty = those
    BY <1>1, BondedIs
  <1>6. r.relayOut = Out(e)' /\ r.lastOut = Out(e)' /\ r.relayOutSuccess = Done(e)' /\ r.relayIn = In(e)'
    BY <1>1, <1>2, <1>5 DEF RowMatches
  <1>7. r.rate = (IF r.relayOut > 0 THEN <<r.relayOutSuccess, r.relayOut>> ELSE <<0, 1>>)
    BY <1>1, <1>2, <1>3, <1>5
  <1>8. /\ r.status = StatusOf(channel'[e].state) /\ r.cpChain = Other(ChainOf(e))
        /\ r.createdAt = channel'[e].opened /\ r.lastActivity = channel'[e].active
        /\ r.status # "NOT_ESTABLISHED" =>
              r.cpChannel = Counterparty(e) /\ r.connection = ConnectionId(ChainOf(e))
    BY <1>1, <1>5 DEF RowMatches, GoesOn
  <1> QED
    BY <1>4, <1>5, <1>6, <1>7, <1>8 DEF RowMatches

-----------------------------------------------------------------------------
(* A packet's event at an end *)

\* What the event of a packet does to its end.
LEMMA EmitPacketIs ==
    ASSUME EndTypes, NEW e \in Ends, NEW h, channel' = [channel EXCEPT ![e].active = h]
    PROVE  /\ GoesOn(e, h) /\ \A g \in Ends : g # e => channel'[g] = channel[g]
           /\ h \in Nat => channel' \in [Ends -> [state : ChannelStates, opened : Nat, active : Nat]]
  <1>1. channel \in [Ends -> [state : ChannelStates, opened : Nat, active : Nat]]
    BY DEF EndTypes
  <1>2. PICK x : x = [channel[e] EXCEPT !.active = h]
    OBVIOUS
  <1>3. channel' = [channel EXCEPT ![e] = x]
    BY <1>2
  <1>4. channel[e] \in [state : ChannelStates, opened : Nat, active : Nat]
    BY <1>1
  <1>5. x.state = channel[e].state /\ x.opened = channel[e].opened /\ x.active = h
        /\ (h \in Nat => x \in [state : ChannelStates, opened : Nat, active : Nat])
    BY <1>2, <1>4
  <1>6. channel'[e] = x /\ \A g \in Ends : g # e => channel'[g] = channel[g]
    BY <1>1, <1>3
  <1>7. h \in Nat => channel' \in [Ends -> [state : ChannelStates, opened : Nat, active : Nat]]
    BY <1>1, <1>3, <1>5
  <1> QED
    BY <1>5, <1>6, <1>7 DEF GoesOn

\* The row of an open or closed end
LEMMA RowIsThere ==
    ASSUME NEW c \in Chains, NEW e \in EndsOf(c), channel[e].state # "none", NEW v, Matches(c, v)
    PROVE  /\ e \in DOMAIN v.channels /\ IsView(v) /\ ~v.failed /\ IsRow(v.channels[e])
           /\ RowMatches(e, v.channels[e]) /\ DOMAIN minted[e] \subseteq v.denoms
  BY DEF Matches, RowsMatch, IsView

\* The vouchers that leave are there, and only a lookalike is taken for a voucher.
LEMMA SourceIs ==
    ASSUME NEW p, p.denom \in Paths
    PROVE  /\ ReturnsThrough(p.denom, p.src) => receiverChainIsTokenSource(p)
           /\ receiverChainIsTokenSource(p) /\ ~ReturnsThrough(p.denom, p.src) =>
                 <<p.src, Head(p.denom)>> \in Extensions
  BY DEF ReturnsThrough, receiverChainIsTokenSource

\* A packet is sent: what the index of its source does.
LEMMA TransferAdvances ==
    ASSUME EndTypes, MoneyOK, NEW p \in Packet, NEW e \in Ends, p.src = e, p.dst = Counterparty(e),
           p.state = "sent", p.seq = Out(e) + 1, p.amount <= Amount(p.denom, held[ChainOf(e)]),
           channel[e].state = "OPEN", packets' = Append(packets, p), Leaves(e, p.denom, p.amount),
           NEW h, GoesOn(e, h), Frame(e)
    PROVE  Advances(ChainOf(e), PacketEvent("Transfer", p, TRUE), h)
  <1>1. SUFFICES ASSUME NEW v, NEW w, Matches(ChainOf(e), v),
                        w = HandleEvent(v, PacketEvent("Transfer", p, TRUE), h)
                 PROVE  /\ EventStep(v, PacketEvent("Transfer", p, TRUE), w)
                        /\ ~w.failed => Matches(ChainOf(e), w)'
    BY DEF Advances
  <1>2. PICK c, ev : c = ChainOf(e) /\ ev = PacketEvent("Transfer", p, TRUE)
    OBVIOUS
  <1>3. c \in Chains /\ e \in EndsOf(c)
    BY <1>2, EndsAre
  <1>4. /\ e \in DOMAIN v.channels /\ IsView(v) /\ ~v.failed /\ IsRow(v.channels[e])
        /\ RowMatches(e, v.channels[e]) /\ DOMAIN minted[e] \subseteq v.denoms
    BY <1>1, <1>2, <1>3, RowIsThere
  <1>5. ev.type = "Transfer" /\ ev.packet = p
    BY <1>2 DEF PacketEvent
  <1>6. w = MsgIBCTransferTransfer(v, p, h)
    BY <1>1, <1>2, <1>4, <1>5 DEF HandleEvent
  <1>7. PICK row, d, n, s : row = v.channels[e] /\ d = p.denom /\ n = p.amount /\ s = Sent(row, p.seq, h)
    OBVIOUS
  <1>8. d \in Paths /\ n \in Nat \ {0}
    BY <1>7 DEF Packet
  <1>9. IF receiverChainIsTokenSource(p)
        THEN IF d \in DOMAIN row.onThis
             THEN Follows(v, w, e, Bonded(s, SubtractToken(row.onThis, d, n), row.onCounterparty))
             ELSE Stops(v, w)
        ELSE Follows(v, w, e, Bonded(s, row.onThis, AddToken(row.onCounterparty, BondedDenom(p), n)))
    <2>1. p.src \in DOMAIN v.channels /\ row = v.channels[p.src]
      BY <1>4, <1>7
    <2> QED
      BY <1>4, <1>6, <1>7, <2>1, TransferIs
  <1>10. row.onThis = minted[e] /\ Mirrors(row.onCounterparty, e, escrow[e])
    BY <1>4, <1>7 DEF RowMatches
  <1>11. /\ IsBag(minted[e]) /\ DOMAIN minted[e] \subseteq v.denoms
         /\ minted = [g \in Ends |-> minted[g]] /\ escrow = [g \in Ends |-> escrow[g]]
    BY <1>4 DEF MoneyOK, MoneyTypes, IsPurse
  <1>12. packets \in Seq(Packet)
    BY DEF MoneyOK, MoneyTypes
  <1>13. /\ Out(e)' = Out(e) + 1 /\ Done(e)' = Done(e) /\ In(e)' = In(e) /\ Out(e) \in Nat
    BY <1>12, SendCounts
  <1>14. ASSUME receiverChainIsTokenSource(p) <=> ReturnsThrough(d, e),
                v.denoms \subseteq w.denoms, ReturnsThrough(d, e) => d \in v.denoms
         PROVE  OwnMatch(c, w)'
    <2>1. OwnMatch(c, v)
      BY <1>1, <1>2 DEF Matches
    <2>2. /\ DOMAIN packets' = DOMAIN packets \cup {Len(packets) + 1}
          /\ packets'[Len(packets) + 1] = p
          /\ \A i \in DOMAIN packets : packets'[i] = packets[i]
      BY <1>12
    <2>3. ASSUME NEW i \in DOMAIN packets', packets'[i].src \in EndsOf(c)
          PROVE  /\ receiverChainIsTokenSource(packets'[i])
                        <=> ReturnsThrough(packets'[i].denom, packets'[i].src)
                 /\ ReturnsThrough(packets'[i].denom, packets'[i].src) =>
                        packets'[i].denom \in w.denoms
      <3>1. CASE i \in DOMAIN packets
        BY <1>14, <2>1, <2>2, <2>3, <3>1 DEF OwnMatch
      <3>2. CASE i \notin DOMAIN packets
        <4>1. packets'[i] = p
          BY <2>2, <2>3, <3>2
        <4> QED
          BY <1>7, <1>14, <4>1
      <3> QED
        BY <3>1, <3>2
    <2> QED
      BY <2>3 DEF OwnMatch
  <1>15. channel'[e].state # "none"
    BY DEF GoesOn
  <1>16. ASSUME NEW these, NEW those, NEW r, r = Bonded(s, these, those), these = minted'[e],
                Mirrors(those, e, escrow'[e])
         PROVE  RowMatches(e, r)'
    <2>1. PICK seq : seq = p.seq
      OBVIOUS
    <2>2. s = Sent(row, seq, h) /\ seq = Out(e) + 1 /\ IsRow(row) /\ RowMatches(e, row)
      BY <1>4, <1>7, <2>1
    <2> QED
      BY <1>13, <1>16, <2>2, SentMatches
  <1>17. CASE receiverChainIsTokenSource(p) /\ d \in DOMAIN row.onThis
    <2>1. ReturnsThrough(d, e)
      BY <1>10, <1>17 DEF MoneyOK, VouchersAreMarked
    <2>3. minted' = [minted EXCEPT ![e] = minted[e] (-) Tokens(d, n)] /\ escrow' = escrow
      BY <1>7, <2>1 DEF Leaves
    <2>4. n <= Amount(d, minted[e])
      <3>1. Amount(d, held[ChainOf(e)]) <= Amount(d, minted[e])
        BY <1>8, <2>1, VoucherIsThere
      <3>2. Amount(d, held[ChainOf(e)]) \in Nat /\ Amount(d, minted[e]) \in Nat
        BY <1>3, <1>2, AmountsAreNat DEF MoneyOK
      <3>3. n <= Amount(d, held[ChainOf(e)])
        BY <1>7
      <3> QED
        BY <1>8, <3>1, <3>2, <3>3
    <2>5. SubtractToken(row.onThis, d, n) = minted'[e]
      <3>1. SubtractToken(minted[e], d, n) = minted[e] (-) Tokens(d, n)
        BY <1>8, <1>11, <2>4, SubtractIsMinus
      <3>2. minted'[e] = minted[e] (-) Tokens(d, n)
        BY <1>11, <2>3
      <3> QED
        BY <1>10, <3>1, <3>2
    <2>6. PICK r : r = Bonded(s, SubtractToken(row.onThis, d, n), row.onCounterparty)
      OBVIOUS
    <2>7. RowMatches(e, r)'
      BY <1>10, <1>16, <2>3, <2>5, <2>6
    <2>8. Follows(v, w, e, r)
      BY <1>9, <1>17, <2>6
    <2>9. DOMAIN minted'[e] \subseteq w.denoms
      <3>1. DOMAIN (minted[e] (-) Tokens(d, n)) \subseteq DOMAIN minted[e]
        BY <1>8, <1>11, <2>4, MinusIs
      <3>2. minted'[e] = minted[e] (-) Tokens(d, n)
        BY <1>11, <2>3
      <3> QED
        BY <1>11, <2>8, <3>1, <3>2 DEF Follows
    <2>10. OwnMatch(c, w)'
      BY <1>10, <1>11, <1>14, <1>17, <2>1, <2>8 DEF Follows
    <2> QED
      BY <1>1, <1>2, <1>3, <1>4, <1>15, <2>7, <2>8, <2>9, <2>10, PacketMatches
  <1>18. CASE receiverChainIsTokenSource(p) /\ d \notin DOMAIN row.onThis
    <2>1. ~ReturnsThrough(d, e)
      <3>1. SUFFICES ASSUME ReturnsThrough(d, e) PROVE FALSE
        OBVIOUS
      <3>2. Amount(d, held[ChainOf(e)]) <= Amount(d, minted[e])
        BY <1>8, <3>1, VoucherIsThere
      <3>3. Amount(d, minted[e]) = 0
        BY <1>10, <1>18 DEF Amount
      <3>4. Amount(d, held[ChainOf(e)]) \in Nat /\ n <= Amount(d, held[ChainOf(e)])
        BY <1>2, <1>3, <1>7, AmountsAreNat DEF MoneyOK
      <3> QED
        BY <1>8, <3>2, <3>3, <3>4
    <2>2. <<p.src, Head(p.denom)>> \in Extensions
      BY <1>7, <1>8, <1>18, <2>1, SourceIs
    <2>3. Lookalike(ev)
      BY <1>5, <2>2 DEF Lookalike
    <2>4. Stops(v, w)
      BY <1>9, <1>18
    <2> QED
      BY <1>2, <2>3, <2>4, StopsStep
  <1>19. CASE ~receiverChainIsTokenSource(p)
    <2>1. ~ReturnsThrough(d, e)
      BY <1>7, <1>8, <1>19, SourceIs
    <2>3. escrow' = [escrow EXCEPT ![e] = escrow[e] (+) Tokens(d, n)] /\ minted' = minted
      BY <1>7, <2>1 DEF Leaves
    <2>4. escrow'[e] = escrow[e] (+) Tokens(d, n)
      BY <1>11, <2>3
    <2>5. \A x \in Paths : Amount(x, escrow'[e]) = Amount(x, escrow[e]) + (IF x = d THEN n ELSE 0)
      BY <1>8, <2>4, PlusAmount DEF MoneyOK, MoneyTypes, IsPurse
    <2>6. BondedDenom(p) = <<Counterparty(e)>> \o d
      BY <1>7 DEF BondedDenom
    <2>7. Mirrors(AddToken(row.onCounterparty, BondedDenom(p), n), e, escrow'[e])
      BY <1>8, <1>10, <2>5, <2>6, MirrorsMore
    <2>8. PICK r : r = Bonded(s, row.onThis, AddToken(row.onCounterparty, BondedDenom(p), n))
      OBVIOUS
    <2>9. RowMatches(e, r)'
      BY <1>10, <1>16, <2>3, <2>7, <2>8
    <2>10. Follows(v, w, e, r)
      BY <1>9, <1>19, <2>8
    <2>11. DOMAIN minted'[e] \subseteq w.denoms
      BY <1>11, <2>3, <2>10 DEF Follows
    <2>12. OwnMatch(c, w)'
      BY <1>14, <1>19, <2>1, <2>10 DEF Follows
    <2> QED
      BY <1>1, <1>2, <1>3, <1>4, <1>15, <2>9, <2>10, <2>11, <2>12, PacketMatches
  <1> QED
    BY <1>17, <1>18, <1>19

\* A packet's state says nothing of where its token came from.
LEMMA OwnRests ==
    ASSUME packets \in Seq(Packet), NEW i \in DOMAIN packets, NEW state \in PacketStates,
           StateChange(packets, packets', i, state), NEW c, NEW v, OwnMatch(c, v),
           NEW w, v.denoms \subseteq w.denoms
    PROVE  OwnMatch(c, w)'
  <1>1. /\ DOMAIN packets' = DOMAIN packets
        /\ \A j \in DOMAIN packets : j # i => packets'[j] = packets[j]
        /\ packets'[i].src = packets[i].src /\ packets'[i].denom = packets[i].denom
    BY StateChangeIs
  <1>2. ASSUME NEW j \in DOMAIN packets
        PROVE  packets'[j].src = packets[j].src /\ packets'[j].denom = packets[j].denom
    BY <1>1
  <1>3. ASSUME NEW j \in DOMAIN packets', packets'[j].src \in EndsOf(c)
        PROVE  /\ receiverChainIsTokenSource(packets'[j])
                      <=> ReturnsThrough(packets'[j].denom, packets'[j].src)
               /\ ReturnsThrough(packets'[j].denom, packets'[j].src) => packets'[j].denom \in w.denoms
    <2>1. PICK x, y : x = packets'[j] /\ y = packets[j]
      OBVIOUS
    <2>2. j \in DOMAIN packets /\ x.src = y.src /\ x.denom = y.denom
      BY <1>1, <1>2, <1>3, <2>1
    <2>3. /\ receiverChainIsTokenSource(y) <=> ReturnsThrough(y.denom, y.src)
          /\ ReturnsThrough(y.denom, y.src) => y.denom \in v.denoms
      BY <1>3, <2>1, <2>2 DEF OwnMatch
    <2>4. receiverChainIsTokenSource(x) <=> receiverChainIsTokenSource(y)
      BY <2>2 DEF receiverChainIsTokenSource
    <2> QED
      BY <2>1, <2>2, <2>3, <2>4
  <1> QED
    BY <1>3 DEF OwnMatch

\* A packet of the chains
LEMMA PacketIs ==
    ASSUME MoneyOK, NEW i \in DOMAIN packets, NEW p, p = packets[i]
    PROVE  /\ packets \in Seq(Packet) /\ p \in Packet /\ p.denom \in Paths /\ p.amount \in Nat \ {0}
           /\ p.src \in Ends /\ p.dst \in Ends /\ p.dst = Counterparty(p.src)
           /\ p.src = Counterparty(p.dst) /\ p.src # p.dst /\ p.state \in PacketStates
  <1>1. packets \in Seq(Packet) /\ p.dst = Counterparty(p.src)
    BY DEF MoneyOK, MoneyTypes
  <1>2. p \in Packet
    BY <1>1
  <1>3. /\ p.denom \in Paths /\ p.amount \in Nat \ {0} /\ p.src \in Ends /\ p.dst \in Ends
        /\ p.state \in PacketStates
    BY <1>2 DEF Packet
  <1>4. p.src = Counterparty(p.dst) /\ p.src # p.dst
    BY <1>1, <1>3, EndsAre
  <1> QED
    BY <1>1, <1>2, <1>3, <1>4

\* The bags of an end whose tokens are unlocked, or minted
LEMMA UnlockedIs ==
    ASSUME MoneyOK, NEW i \in DOMAIN packets, packets[i].state \in {"sent", "failed"},
           NEW e \in Ends, NEW d \in Paths, Carries(packets[i], e, d), NEW n, n = packets[i].amount,
           Unlocks(e, d, n), NEW B, Mirrors(B, e, escrow[e])
    PROVE  /\ <<Counterparty(e)>> \o d \in DOMAIN B
           /\ Mirrors(SubtractToken(B, <<Counterparty(e)>> \o d, n), e, escrow'[e])
           /\ minted' = minted
  <1>1. n \in Nat \ {0}
    BY PacketIs
  <1>2. n <= Amount(d, escrow[e])
    BY EscrowIsThere
  <1>3. escrow' = [escrow EXCEPT ![e] = escrow[e] (-) Tokens(d, n)] /\ minted' = minted
    BY DEF Unlocks
  <1>4. escrow = [g \in Ends |-> escrow[g]] /\ IsBag(escrow[e])
    BY DEF MoneyOK, MoneyTypes, IsPurse
  <1>5. escrow'[e] = escrow[e] (-) Tokens(d, n)
    BY <1>3, <1>4
  <1>6. \A x \in Paths : Amount(x, escrow'[e]) = Amount(x, escrow[e]) - (IF x = d THEN n ELSE 0)
    BY <1>1, <1>2, <1>4, <1>5, MinusIs
  <1> QED
    BY <1>1, <1>2, <1>3, <1>6, MirrorsLess

\* What is minted is what AddToken adds.
LEMMA MintedIs ==
    ASSUME MoneyOK, NEW e \in Ends, NEW d, NEW n \in Nat \ {0}, Mints(e, d, n)
    PROVE  /\ minted'[e] = AddToken(minted[e], d, n) /\ escrow' = escrow
           /\ DOMAIN minted'[e] = DOMAIN minted[e] \cup {d}
  <1>1. minted' = [minted EXCEPT ![e] = minted[e] (+) Tokens(d, n)] /\ escrow' = escrow
    BY DEF Mints
  <1>2. minted = [g \in Ends |-> minted[g]] /\ IsBag(minted[e])
    BY DEF MoneyOK, MoneyTypes, IsPurse
  <1>3. minted'[e] = minted[e] (+) Tokens(d, n)
    BY <1>1, <1>2
  <1>4. DOMAIN (minted[e] (+) Tokens(d, n)) = DOMAIN minted[e] \cup {d}
    BY <1>2, PlusIs
  <1> QED
    BY <1>1, <1>3, <1>4 DEF AddToken

-----------------------------------------------------------------------------

\* A packet is received: what the index of its destination does.
LEMMA RecvAdvances ==
    ASSUME MoneyOK, NEW i \in DOMAIN packets, NEW p, p = packets[i],
           NEW e, e = p.dst, p.state = "sent", channel[e].state # "none",
           StateChange(packets, packets', i, "received"),
           IF ReturnsThrough(p.denom, p.src) THEN Unlocks(e, Tail(p.denom), p.amount)
           ELSE Mints(e, BondedDenom(p), p.amount),
           NEW h, GoesOn(e, h), Frame(e)
    PROVE  Advances(ChainOf(e), PacketEvent("RecvPacket", p, TRUE), h)
  <1>1. SUFFICES ASSUME NEW v, NEW w, Matches(ChainOf(e), v),
                        w = HandleEvent(v, PacketEvent("RecvPacket", p, TRUE), h)
                 PROVE  /\ EventStep(v, PacketEvent("RecvPacket", p, TRUE), w)
                        /\ ~w.failed => Matches(ChainOf(e), w)'
    BY DEF Advances
  <1>2. PICK c, ev : c = ChainOf(e) /\ ev = PacketEvent("RecvPacket", p, TRUE)
    OBVIOUS
  <1>p. /\ packets \in Seq(Packet) /\ p \in Packet /\ p.denom \in Paths /\ p.amount \in Nat \ {0}
        /\ p.src \in Ends /\ e \in Ends /\ p.src = Counterparty(e) /\ p.src # e
    BY PacketIs
  <1>3. c \in Chains /\ e \in EndsOf(c)
    BY <1>2, <1>p, EndsAre
  <1>4. /\ e \in DOMAIN v.channels /\ IsView(v) /\ ~v.failed /\ IsRow(v.channels[e])
        /\ RowMatches(e, v.channels[e]) /\ DOMAIN minted[e] \subseteq v.denoms
    BY <1>1, <1>2, <1>3, RowIsThere
  <1>5. ev.type = "RecvPacket" /\ ev.packet = p /\ ev.success = TRUE
    BY <1>2 DEF PacketEvent
  <1>6. w = MsgIBCRecvPacket(v, p, TRUE, h)
    BY <1>1, <1>2, <1>4, <1>5 DEF HandleEvent
  <1>7. PICK row, d, n, s : row = v.channels[e] /\ d = p.denom /\ n = p.amount /\ s = Got(row, p.seq, h)
    OBVIOUS
  <1>8. d \in Paths /\ n \in Nat \ {0}
    BY <1>7, <1>p
  <1>9. IF receiverChainIsTokenSource(p)
        THEN IF d \in DOMAIN row.onCounterparty
             THEN Follows(v, w, e, Bonded(s, row.onThis, SubtractToken(row.onCounterparty, d, n)))
             ELSE Stops(v, w)
        ELSE /\ Follows(v, w, e, Bonded(s, AddToken(row.onThis, BondedDenom(p), n), row.onCounterparty))
             /\ BondedDenom(p) \in w.denoms
    <2>1. p.dst \in DOMAIN v.channels /\ row = v.channels[p.dst]
      BY <1>4, <1>7
    <2>2. PICK success : success = TRUE
      OBVIOUS
    <2>3. w = MsgIBCRecvPacket(v, p, success, h) /\ success
      BY <1>6, <2>2
    <2> QED
      BY <1>4, <1>7, <2>1, <2>3, RecvIs
  <1>10. row.onThis = minted[e] /\ Mirrors(row.onCounterparty, e, escrow[e])
    BY <1>4, <1>7 DEF RowMatches
  <1>13. /\ In(e)' = In(e) + 1 /\ Out(e)' = Out(e) /\ Done(e)' = Done(e) /\ In(e) \in Nat
    <2>1. "received" \in PacketStates /\ "received" \in Reached /\ "sent" \notin Reached
          /\ packets[i].src # e /\ packets[i].dst = e
      BY <1>p DEF PacketStates, Reached
    <2> QED
      BY <1>p, <2>1, ChangeCounts
  <1>14. ASSUME v.denoms \subseteq w.denoms PROVE OwnMatch(c, w)'
    <2>1. OwnMatch(c, v)
      BY <1>1, <1>2 DEF Matches
    <2>2. "received" \in PacketStates
      BY DEF PacketStates
    <2> QED
      BY <1>p, <1>14, <2>1, <2>2, OwnRests
  <1>15. channel'[e].state # "none"
    BY DEF GoesOn
  <1>16. ASSUME NEW these, NEW those, NEW r, r = Bonded(s, these, those), these = minted'[e],
                Mirrors(those, e, escrow'[e])
         PROVE  RowMatches(e, r)'
    <2>1. PICK seq : seq = p.seq
      OBVIOUS
    <2>2. s = Got(row, seq, h) /\ IsRow(row) /\ RowMatches(e, row)
      BY <1>4, <1>7, <2>1
    <2> QED
      BY <1>13, <1>16, <2>2, GotMatches
  <1>r. ReturnsThrough(d, p.src) =>
            /\ Carries(p, e, Tail(d)) /\ Tail(d) \in Paths /\ d = <<Counterparty(e)>> \o Tail(d)
    BY <1>7, <1>p, CarriesSome, EndsAre
  <1>17. CASE receiverChainIsTokenSource(p) /\ d \in DOMAIN row.onCounterparty
    <2>1. ReturnsThrough(d, p.src)
      <3>1. PICK x \in Paths : d = <<Counterparty(e)>> \o x
        BY <1>10, <1>17 DEF Mirrors
      <3> QED
        BY <1>p, <3>1, PathIs
    <2>2. Unlocks(e, Tail(d), n)
      BY <1>7, <2>1
    <2>3. /\ Mirrors(SubtractToken(row.onCounterparty, d, n), e, escrow'[e]) /\ minted' = minted
      <3>1. Carries(packets[i], e, Tail(d)) /\ Tail(d) \in Paths /\ d = <<Counterparty(e)>> \o Tail(d)
        BY <1>r, <2>1
      <3>2. PICK x, B : x = Tail(d) /\ B = row.onCounterparty
        OBVIOUS
      <3>3. Mirrors(SubtractToken(B, <<Counterparty(e)>> \o x, n), e, escrow'[e]) /\ minted' = minted
        BY <1>7, <1>10, <1>p, <2>2, <3>1, <3>2, UnlockedIs
      <3> QED
        BY <3>1, <3>2, <3>3
    <2>4. PICK r : r = Bonded(s, row.onThis, SubtractToken(row.onCounterparty, d, n))
      OBVIOUS
    <2>5. RowMatches(e, r)'
      BY <1>10, <1>16, <2>3, <2>4
    <2>6. Follows(v, w, e, r)
      BY <1>9, <1>17, <2>4
    <2>7. DOMAIN minted'[e] \subseteq w.denoms /\ v.denoms \subseteq w.denoms
      BY <1>4, <2>3, <2>6 DEF Follows
    <2> QED
      BY <1>1, <1>2, <1>3, <1>4, <1>14, <1>15, <2>5, <2>6, <2>7, PacketMatches
  <1>18. CASE receiverChainIsTokenSource(p) /\ d \notin DOMAIN row.onCounterparty
    <2>1. ~ReturnsThrough(d, p.src)
      <3>1. SUFFICES ASSUME ReturnsThrough(d, p.src) PROVE FALSE
        OBVIOUS
      <3>2. Unlocks(e, Tail(d), n)
        BY <1>7, <3>1
      <3>3. Carries(packets[i], e, Tail(d)) /\ Tail(d) \in Paths /\ d = <<Counterparty(e)>> \o Tail(d)
        BY <1>r, <3>1
      <3>4. PICK x, B : x = Tail(d) /\ B = row.onCounterparty
        OBVIOUS
      <3>5. <<Counterparty(e)>> \o x \in DOMAIN B
        BY <1>7, <1>10, <1>p, <3>2, <3>3, <3>4, UnlockedIs
      <3> QED
        BY <1>18, <3>3, <3>4, <3>5
    <2>2. <<p.src, Head(p.denom)>> \in Extensions
      BY <1>7, <1>8, <1>18, <2>1, SourceIs
    <2>3. Lookalike(ev)
      BY <1>5, <2>2 DEF Lookalike
    <2>4. Stops(v, w)
      BY <1>9, <1>18
    <2> QED
      BY <1>2, <2>3, <2>4, StopsStep
  <1>19. CASE ~receiverChainIsTokenSource(p)
    <2>1. ~ReturnsThrough(d, p.src)
      BY <1>7, <1>8, <1>19, SourceIs
    <2>2. PICK y : y = BondedDenom(p)
      OBVIOUS
    <2>3. Mints(e, y, n)
      BY <1>7, <2>1, <2>2
    <2>4. /\ minted'[e] = AddToken(minted[e], y, n) /\ escrow' = escrow
          /\ DOMAIN minted'[e] = DOMAIN minted[e] \cup {y}
      BY <1>8, <1>p, <2>3, MintedIs
    <2>5. PICK r : r = Bonded(s, AddToken(row.onThis, y, n), row.onCounterparty)
      OBVIOUS
    <2>6. RowMatches(e, r)'
      BY <1>10, <1>16, <2>4, <2>5
    <2>7. Follows(v, w, e, r) /\ y \in w.denoms
      BY <1>9, <1>19, <2>2, <2>5
    <2>8. DOMAIN minted'[e] \subseteq w.denoms /\ v.denoms \subseteq w.denoms
      BY <1>4, <2>4, <2>7 DEF Follows
    <2> QED
      BY <1>1, <1>2, <1>3, <1>4, <1>14, <1>15, <2>6, <2>7, <2>8, PacketMatches
  <1> QED
    BY <1>17, <1>18, <1>19

\* A packet that fails at its destination is counted.
LEMMA RecvFailsAdvances ==
    ASSUME MoneyOK, NEW i \in DOMAIN packets, NEW p, p = packets[i],
           NEW e, e = p.dst, p.state = "sent", channel[e].state # "none",
           StateChange(packets, packets', i, "failed"), UNCHANGED <<escrow, minted>>,
           NEW h, GoesOn(e, h), Frame(e)
    PROVE  Advances(ChainOf(e), PacketEvent("RecvPacket", p, FALSE), h)
  <1>1. SUFFICES ASSUME NEW v, NEW w, Matches(ChainOf(e), v),
                        w = HandleEvent(v, PacketEvent("RecvPacket", p, FALSE), h)
                 PROVE  /\ EventStep(v, PacketEvent("RecvPacket", p, FALSE), w)
                        /\ ~w.failed => Matches(ChainOf(e), w)'
    BY DEF Advances
  <1>2. PICK c, ev : c = ChainOf(e) /\ ev = PacketEvent("RecvPacket", p, FALSE)
    OBVIOUS
  <1>p. /\ packets \in Seq(Packet) /\ p.src # e /\ e \in Ends
    BY PacketIs
  <1>3. c \in Chains /\ e \in EndsOf(c)
    BY <1>2, <1>p, EndsAre
  <1>4. /\ e \in DOMAIN v.channels /\ IsView(v) /\ ~v.failed /\ IsRow(v.channels[e])
        /\ RowMatches(e, v.channels[e]) /\ DOMAIN minted[e] \subseteq v.denoms
    BY <1>1, <1>2, <1>3, RowIsThere
  <1>5. ev.type = "RecvPacket" /\ ev.packet = p /\ ev.success = FALSE
    BY <1>2 DEF PacketEvent
  <1>6. w = MsgIBCRecvPacket(v, p, FALSE, h)
    BY <1>1, <1>2, <1>4, <1>5 DEF HandleEvent
  <1>7. PICK row, seq, s : row = v.channels[e] /\ seq = p.seq /\ s = Got(row, seq, h)
    OBVIOUS
  <1>9. Follows(v, w, e, s)
    <2>1. p.dst \in DOMAIN v.channels /\ row = v.channels[p.dst]
      BY <1>4, <1>7
    <2>2. PICK success : success = FALSE
      OBVIOUS
    <2>3. w = MsgIBCRecvPacket(v, p, success, h) /\ ~success
      BY <1>6, <2>2
    <2>4. Follows(v, w, p.dst, Got(row, p.seq, h))
      BY <1>4, <2>1, <2>3, RecvIs
    <2> QED
      BY <1>7, <2>4
  <1>10. row.onThis = minted[e] /\ Mirrors(row.onCounterparty, e, escrow[e])
    BY <1>4, <1>7 DEF RowMatches
  <1>11. IsRow(s) /\ s.onThis = row.onThis /\ s.onCounterparty = row.onCounterparty
    BY <1>4, <1>7, GotIs
  <1>12. s = Bonded(s, s.onThis, s.onCounterparty)
    BY <1>11, BondedSame
  <1>13. /\ In(e)' = In(e) + 1 /\ Out(e)' = Out(e) /\ Done(e)' = Done(e) /\ In(e) \in Nat
    <2>1. "failed" \in PacketStates /\ "failed" \in Reached /\ "sent" \notin Reached
          /\ packets[i].src # e /\ packets[i].dst = e
      BY <1>p DEF PacketStates, Reached
    <2> QED
      BY <1>p, <2>1, ChangeCounts
  <1>14. OwnMatch(c, w)'
    <2>1. OwnMatch(c, v)
      BY <1>1, <1>2 DEF Matches
    <2>2. "failed" \in PacketStates
      BY DEF PacketStates
    <2>3. v.denoms \subseteq w.denoms
      BY <1>9 DEF Follows
    <2> QED
      BY <1>p, <2>1, <2>2, <2>3, OwnRests
  <1>15. channel'[e].state # "none"
    BY DEF GoesOn
  <1>16. RowMatches(e, s)'
    <2>1. PICK these, those : these = s.onThis /\ those = s.onCounterparty
      OBVIOUS
    <2>2. these = minted'[e] /\ Mirrors(those, e, escrow'[e]) /\ s = Bonded(s, these, those)
      BY <1>10, <1>11, <1>12, <2>1
    <2> QED
      BY <1>4, <1>7, <1>13, <2>2, GotMatches
  <1>17. DOMAIN minted'[e] \subseteq w.denoms
    BY <1>4, <1>9 DEF Follows
  <1> QED
    BY <1>1, <1>2, <1>3, <1>4, <1>9, <1>14, <1>15, <1>16, <1>17, PacketMatches

\* The tokens a packet brought out come back.
Refunds(p) ==
    IF ReturnsThrough(p.denom, p.src) THEN Mints(p.src, p.denom, p.amount)
    ELSE Unlocks(p.src, p.denom, p.amount)

\* A packet is settled: what the index of its source does.
LEMMA SettleAdvances ==
    ASSUME MoneyOK, NEW i \in DOMAIN packets, NEW p, p = packets[i],
           NEW e, e = p.src, NEW state \in Over, p.state \notin Over, channel[e].state # "none",
           p.state \in Reached <=> state \in Reached,
           StateChange(packets, packets', i, state), NEW refunded \in BOOLEAN,
           refunded => p.state \in {"sent", "failed"} /\ Refunds(p),
           ~refunded => UNCHANGED <<escrow, minted>>,
           NEW h, GoesOn(e, h), Frame(e), NEW ev,
           \A v : ~v.failed => HandleEvent(v, ev, h) = Settle(v, p, refunded, h)
    PROVE  Advances(ChainOf(e), ev, h)
  <1>1. SUFFICES ASSUME NEW v, NEW w, Matches(ChainOf(e), v), w = HandleEvent(v, ev, h)
                 PROVE  EventStep(v, ev, w) /\ (~w.failed => Matches(ChainOf(e), w)')
    BY DEF Advances
  <1>2. PICK c : c = ChainOf(e)
    OBVIOUS
  <1>p. /\ packets \in Seq(Packet) /\ p \in Packet /\ p.denom \in Paths /\ p.amount \in Nat \ {0}
        /\ e \in Ends /\ p.dst = Counterparty(e) /\ p.dst # e
    BY PacketIs
  <1>3. c \in Chains /\ e \in EndsOf(c)
    BY <1>2, <1>p, EndsAre
  <1>4. /\ e \in DOMAIN v.channels /\ IsView(v) /\ ~v.failed /\ IsRow(v.channels[e])
        /\ RowMatches(e, v.channels[e]) /\ DOMAIN minted[e] \subseteq v.denoms
    BY <1>1, <1>2, <1>3, RowIsThere
  <1>6. w = Settle(v, p, refunded, h)
    BY <1>1, <1>4
  <1>7. PICK row, d, n, s : row = v.channels[e] /\ d = p.denom /\ n = p.amount /\ s = Settled(row, h)
    OBVIOUS
  <1>8. d \in Paths /\ n \in Nat \ {0}
    BY <1>7, <1>p
  <1>9. IF ~refunded THEN Follows(v, w, e, s)
        ELSE IF receiverChainIsTokenSource(p)
        THEN Follows(v, w, e, Bonded(s, AddToken(row.onThis, d, n), row.onCounterparty))
        ELSE IF BondedDenom(p) \in DOMAIN row.onCounterparty
        THEN Follows(v, w, e, Bonded(s, row.onThis, SubtractToken(row.onCounterparty, BondedDenom(p), n)))
        ELSE Stops(v, w)
    <2>1. p.src \in DOMAIN v.channels /\ row = v.channels[p.src]
      BY <1>4, <1>7
    <2> QED
      BY <1>4, <1>6, <1>7, <2>1, SettleIs
  <1>10. row.onThis = minted[e] /\ Mirrors(row.onCounterparty, e, escrow[e])
    BY <1>4, <1>7 DEF RowMatches
  <1>s. state \in PacketStates
    BY DEF Over, PacketStates
  <1>13. /\ Done(e)' = Done(e) + 1 /\ Out(e)' = Out(e) /\ In(e)' = In(e) /\ Done(e) \in Nat
    <2>1. packets[i].src = e /\ packets[i].dst # e
      BY <1>p
    <2> QED
      BY <1>p, <1>s, <2>1, ChangeCounts
  <1>14. ASSUME v.denoms \subseteq w.denoms PROVE OwnMatch(c, w)'
    <2>1. OwnMatch(c, v)
      BY <1>1, <1>2 DEF Matches
    <2> QED
      BY <1>p, <1>s, <1>14, <2>1, OwnRests
  <1>o. /\ receiverChainIsTokenSource(p) <=> ReturnsThrough(d, e)
        /\ ReturnsThrough(d, e) => d \in v.denoms
    <2>1. OwnMatch(c, v)
      BY <1>1, <1>2 DEF Matches
    <2> QED
      BY <1>3, <1>7, <2>1 DEF OwnMatch
  <1>15. channel'[e].state # "none"
    BY DEF GoesOn
  <1>16. ASSUME NEW these, NEW those, NEW r, r = Bonded(s, these, those), these = minted'[e],
                Mirrors(those, e, escrow'[e])
         PROVE  RowMatches(e, r)'
    BY <1>4, <1>7, <1>13, <1>16, SettledMatches
  <1>17. CASE ~refunded
    <2>1. IsRow(s) /\ s.onThis = row.onThis /\ s.onCounterparty = row.onCounterparty
      BY <1>4, <1>7, SettledIs
    <2>2. s = Bonded(s, s.onThis, s.onCounterparty)
      BY <2>1, BondedSame
    <2>3. PICK these, those : these = s.onThis /\ those = s.onCounterparty
      OBVIOUS
    <2>4. these = minted'[e] /\ Mirrors(those, e, escrow'[e]) /\ s = Bonded(s, these, those)
      BY <1>10, <1>17, <2>1, <2>2, <2>3
    <2>5. RowMatches(e, s)'
      BY <1>16, <2>4
    <2>6. Follows(v, w, e, s)
      BY <1>9, <1>17
    <2>7. DOMAIN minted'[e] \subseteq w.denoms /\ v.denoms \subseteq w.denoms
      BY <1>4, <1>17, <2>6 DEF Follows
    <2> QED
      BY <1>1, <1>2, <1>3, <1>4, <1>14, <1>15, <2>5, <2>6, <2>7, PacketMatches
  <1>18. CASE refunded /\ receiverChainIsTokenSource(p)
    <2>1. ReturnsThrough(d, e) /\ d \in v.denoms
      BY <1>18, <1>o
    <2>2. Mints(e, d, n)
      BY <1>7, <1>18, <2>1 DEF Refunds
    <2>4. /\ minted'[e] = AddToken(minted[e], d, n) /\ escrow' = escrow
          /\ DOMAIN minted'[e] = DOMAIN minted[e] \cup {d}
      BY <1>8, <1>p, <2>2, MintedIs
    <2>5. PICK r : r = Bonded(s, AddToken(row.onThis, d, n), row.onCounterparty)
      OBVIOUS
    <2>6. RowMatches(e, r)'
      BY <1>10, <1>16, <2>4, <2>5
    <2>7. Follows(v, w, e, r)
      BY <1>9, <1>18, <2>5
    <2>8. DOMAIN minted'[e] \subseteq w.denoms /\ v.denoms \subseteq w.denoms
      BY <1>4, <2>1, <2>4, <2>7 DEF Follows
    <2> QED
      BY <1>1, <1>2, <1>3, <1>4, <1>14, <1>15, <2>6, <2>7, <2>8, PacketMatches
  <1>19. CASE refunded /\ ~receiverChainIsTokenSource(p)
    <2>1. ~ReturnsThrough(d, e)
      BY <1>19, <1>o
    <2>2. Unlocks(e, d, n)
      BY <1>7, <1>19, <2>1 DEF Refunds
    <2>3. Carries(packets[i], e, d)
      BY <1>7, <1>p, <2>1, CarriesSome
    <2>4. PICK y, B : y = BondedDenom(p) /\ B = row.onCounterparty
      OBVIOUS
    <2>5. y = <<Counterparty(e)>> \o d
      BY <1>7, <1>p, <2>4 DEF BondedDenom
    <2>6. y \in DOMAIN B /\ Mirrors(SubtractToken(B, y, n), e, escrow'[e]) /\ minted' = minted
      <3>1. /\ <<Counterparty(e)>> \o d \in DOMAIN B
            /\ Mirrors(SubtractToken(B, <<Counterparty(e)>> \o d, n), e, escrow'[e])
            /\ minted' = minted
        BY <1>7, <1>8, <1>10, <1>19, <1>p, <2>2, <2>3, <2>4, UnlockedIs
      <3> QED
        BY <2>5, <3>1
    <2>7. PICK r : r = Bonded(s, row.onThis, SubtractToken(B, y, n))
      OBVIOUS
    <2>8. RowMatches(e, r)'
      BY <1>10, <1>16, <2>6, <2>7
    <2>9. Follows(v, w, e, r)
      BY <1>9, <1>19, <2>4, <2>6, <2>7
    <2>10. DOMAIN minted'[e] \subseteq w.denoms /\ v.denoms \subseteq w.denoms
      BY <1>4, <2>6, <2>9 DEF Follows
    <2> QED
      BY <1>1, <1>2, <1>3, <1>4, <1>14, <1>15, <2>8, <2>9, <2>10, PacketMatches
  <1> QED
    BY <1>17, <1>18, <1>19

-----------------------------------------------------------------------------
(* The inductive invariant *)

IInv ==
    /\ ChainOK /\ view = [c \in Chains |-> view[c]]
    /\ \A c \in Chains : ViewOK(c)

\* Ends that have started, or opened, do not go back.
GoesForward ==
    /\ \A d \in Chains : connection[d] \in {"TRYOPEN", "OPEN"} => connection'[d] \in {"TRYOPEN", "OPEN"}
    /\ \A g \in Ends : channel[g].state \notin {"none", "INIT"} =>
          channel'[g].state \notin {"none", "INIT"}

\* An OpenTry leaves the end in a state in which there may be one.
TryHappens(c, ev) ==
    /\ ev.type = "Connection" /\ ev.step = "OpenTry" =>
          ev.id = ConnectionId(c) /\ connection'[c] \in {"TRYOPEN", "OPEN"}
    /\ ev.type = "Channel" /\ ev.step = "OpenTry" =>
          ev.id \in Ends /\ channel'[ev.id].state \notin {"none", "INIT"}

\* An event of chain c that its index will match keeps the invariant.
LEMMA EmitKeeps ==
    ASSUME IInv, NEW c \in Chains, NEW ev \in Event, NEW h \in Heights(c), Emit(c, ev, h),
           EndTypes', NewEndsAreEmpty', MoneyOK', Advances(c, ev, h), TryIsDue(c, ev),
           GoesForward, TryHappens(c, ev),
           \A d \in Chains : d # c => \A v : Matches(d, v) => Matches(d, v)'
    PROVE  IInv'
  <1>1. /\ EndTypes /\ QueueTypes /\ TriesAreOver /\ \A d \in Chains : ViewOK(d)
        /\ view = [d \in Chains |-> view[d]]
    BY DEF IInv, ChainOK
  <1>2. /\ QueueTypes' /\ (Joins(c, ev) \/ Follow(c, ev))
        /\ \A d \in Chains : d # c => queue'[d] = queue[d] /\ height'[d] = height[d]
        /\ view' = view
    BY <1>1, EmitIs
  <1>3. EventsOf(queue'[c]) = EventsOf(queue[c]) \cup {ev}
    <2>1. queue[c] \in Seq(Seq(Event))
      BY <1>1 DEF QueueTypes
    <2>2. PICK more : more = queue'[c]
      OBVIOUS
    <2>3. \/ queue[c] # << >> /\ more = Joined(queue[c], ev)
          \/ more = Append(queue[c], <<ev>>)
      BY <1>2, <2>2 DEF Joins, Follow
    <2>4. EventsOf(more) = EventsOf(queue[c]) \cup {ev}
      BY <2>1, <2>3, EventsJoin
    <2> QED
      BY <2>2, <2>4
  <1>4. TriesAreOver'
    <2>1. SUFFICES ASSUME NEW d \in Chains, NEW x \in EventsOf(queue'[d])
                   PROVE  /\ x.type = "Connection" /\ x.step = "OpenTry" =>
                                connection'[d] \in {"TRYOPEN", "OPEN"}
                          /\ x.type = "Channel" /\ x.step = "OpenTry" =>
                                x.id \in Ends /\ channel'[x.id].state \notin {"none", "INIT"}
      BY DEF TriesAreOver, EventsOf
    <2>2. x \in EventsOf(queue[d]) \/ (d = c /\ x = ev)
      BY <1>2, <1>3
    <2>3. CASE x \in EventsOf(queue[d])
      BY <1>1, <2>3 DEF TriesAreOver, GoesForward
    <2>4. CASE d = c /\ x = ev
      BY <2>4 DEF TryHappens
    <2> QED
      BY <2>2, <2>3, <2>4
  <1>5. ViewOK(c)'
    BY <1>1, EmitAdvances DEF TryHappens, Tries
  <1>6. \A d \in Chains : d # c => ViewOK(d)'
    BY <1>1, <1>2, OthersRest
  <1>7. view' = [d \in Chains |-> view'[d]]
    BY <1>1, <1>2
  <1> QED
    BY <1>2, <1>4, <1>5, <1>6, <1>7 DEF IInv, ChainOK

\* A packet's event is an event, and of no handshake.
LEMMA PacketEvents ==
    ASSUME NEW type \in PacketType, NEW p \in Packet, NEW success \in BOOLEAN
    PROVE  /\ PacketEvent(type, p, success) \in Event
           /\ PacketEvent(type, p, success).type \notin {"Connection", "Channel"}
  BY DEF Event, PacketEvent, PacketType

\* No packet of a new end, before and after
PacketsElsewhere(e) ==
    \A g \in Ends : g # e /\ channel[g].state \notin {"OPEN", "CLOSED"} =>
        \A i \in DOMAIN packets' :
            packets'[i].src # g /\ (packets'[i].dst = g => packets'[i].state \notin Reached)

\* A packet's event keeps the invariant if the accounts are kept and its index follows.
LEMMA PacketKeeps ==
    ASSUME IInv, NEW e \in Ends, NEW type \in PacketType, NEW p \in Packet, NEW success \in BOOLEAN,
           NEW h \in Heights(ChainOf(e)), channel' = [channel EXCEPT ![e].active = h],
           Emit(ChainOf(e), PacketEvent(type, p, success), h),
           channel[e].state \in {"OPEN", "CLOSED"}, Frame(e), MoneyOK', PacketsElsewhere(e),
           Advances(ChainOf(e), PacketEvent(type, p, success), h),
           \A d \in Chains : d # ChainOf(e) => \A v : OwnMatch(d, v) => OwnMatch(d, v)'
    PROVE  IInv'
  <1>1. EndTypes /\ QueueTypes /\ NewEndsAreEmpty
    BY DEF IInv, ChainOK
  <1>2. ChainOf(e) \in Chains
    BY EndsAre
  <1>3. PICK ev : ev = PacketEvent(type, p, success)
    OBVIOUS
  <1>4. ev \in Event /\ ev.type \notin {"Connection", "Channel"}
    BY <1>3, PacketEvents
  <1>5. h \in Nat /\ scope' = scope
    BY <1>1, <1>2, <1>3, <1>4, EmitIs
  <1>6. /\ GoesOn(e, h) /\ \A g \in Ends : g # e => channel'[g] = channel[g]
        /\ channel' \in [Ends -> [state : ChannelStates, opened : Nat, active : Nat]]
    BY <1>1, <1>5, EmitPacketIs
  <1>7. client' = client /\ connection' = connection
        /\ \A g \in Ends : g # e => escrow'[g] = escrow[g] /\ minted'[g] = minted[g]
    BY DEF Frame
  <1>8. EndTypes'
    BY <1>1, <1>5, <1>6, <1>7 DEF EndTypes
  <1>9. \A g \in Ends : channel'[g].state = channel[g].state
    BY <1>6 DEF GoesOn
  <1>10. NewEndsAreEmpty'
    <2>1. SUFFICES ASSUME NEW g \in Ends, channel'[g].state \notin {"OPEN", "CLOSED"}
                   PROVE  /\ channel'[g].opened = 0 /\ channel'[g].active = 0
                          /\ escrow'[g] = EmptyBag /\ minted'[g] = EmptyBag
                          /\ \A i \in DOMAIN packets' : packets'[i].src # g
                                /\ (packets'[i].dst = g => packets'[i].state \notin Reached)
      BY DEF NewEndsAreEmpty
    <2>2. g # e /\ channel[g].state \notin {"OPEN", "CLOSED"} /\ channel'[g] = channel[g]
      BY <1>6, <1>9, <2>1
    <2>3. /\ channel[g].opened = 0 /\ channel[g].active = 0
          /\ escrow[g] = EmptyBag /\ minted[g] = EmptyBag
      BY <1>1, <2>2 DEF NewEndsAreEmpty
    <2> QED
      BY <1>7, <2>2, <2>3 DEF PacketsElsewhere
  <1>11. TryIsDue(ChainOf(e), ev) /\ TryHappens(ChainOf(e), ev) /\ GoesForward
    BY <1>4, <1>7, <1>9 DEF TryIsDue, TryHappens, GoesForward
  <1>12. \A d \in Chains : d # ChainOf(e) => \A v : Matches(d, v) => Matches(d, v)'
    <2>1. SUFFICES ASSUME NEW d \in Chains, d # ChainOf(e), NEW v, Matches(d, v)
                   PROVE  Matches(d, v)'
      OBVIOUS
    <2>2. e \notin EndsOf(d)
      BY <2>1, EndsAre
    <2>3. OwnMatch(d, v)'
      BY <2>1 DEF Matches
    <2> QED
      BY <2>1, <2>2, <2>3, OthersMatch
  <1> QED
    BY <1>2, <1>3, <1>4, <1>8, <1>10, <1>11, <1>12, EmitKeeps

-----------------------------------------------------------------------------
(* A packet is sent *)

\* The end of a packet that exists was opened.
LEMMA PacketEndsOpened ==
    ASSUME NewEndsAreEmpty, MoneyOK, NEW i \in DOMAIN packets
    PROVE  /\ channel[packets[i].src].state \in {"OPEN", "CLOSED"}
           /\ packets[i].state \in Reached => channel[packets[i].dst].state \in {"OPEN", "CLOSED"}
  <1>1. packets[i].src \in Ends /\ packets[i].dst \in Ends
    BY PacketIs
  <1> QED
    BY <1>1 DEF NewEndsAreEmpty

\* What is known of a packet that is sent
Sends(e, denom, amount, p, h) ==
    /\ p.src = e /\ p.dst = Counterparty(e) /\ p.denom = denom /\ p.amount = amount
    /\ p.state = "sent" /\ p.seq = Out(e) + 1
    /\ amount <= Amount(denom, held[ChainOf(e)]) /\ channel[e].state = "OPEN"
    /\ packets' = Append(packets, p) /\ Leaves(e, denom, amount)
    /\ channel' = [channel EXCEPT ![e].active = h]
    /\ Emit(ChainOf(e), PacketEvent("Transfer", p, TRUE), h)
    /\ client' = client /\ connection' = connection

\* SendTransfer sends a packet of that kind.
LEMMA SentPacketIs ==
    ASSUME IInv, NEW e \in Ends, NEW amount \in scope.amounts,
           NEW denom \in BagToSet(held[ChainOf(e)]), SendTransfer(e, denom, amount)
    PROVE  \E p \in Packet, h \in Heights(ChainOf(e)) : Sends(e, denom, amount, p, h)
  <1>1. EndTypes /\ MoneyTypes /\ packets \in Seq(Packet)
    BY DEF IInv, ChainOK, MoneyOK, MoneyTypes
  <1>2. ChainOf(e) \in Chains /\ Counterparty(e) \in Ends
    BY EndsAre
  <1>3. denom \in Paths /\ IsBag(held[ChainOf(e)])
    BY <1>1, <1>2 DEF MoneyTypes, IsPurse, BagToSet
  <1>4. amount \in Nat \ {0}
    BY <1>1, IBCAssumption DEF EndTypes
  <1>5. PICK seq : seq = Cardinality({i \in DOMAIN packets : packets[i].src = e}) + 1
    OBVIOUS
  <1>6. Out(e) = Cardinality({i \in DOMAIN packets : packets[i].src = e}) /\ Out(e) \in Nat
    <2>0. \A i \in DOMAIN packets : packets[i] \in Packet
      BY <1>1
    <2>1. \A i \in DOMAIN packets : packets[i].state \in PacketStates
      BY <2>0 DEF Packet
    <2>2. Which(packets, "src", e, PacketStates) = {i \in DOMAIN packets : packets[i].src = e}
      BY <2>1 DEF Which
    <2>3. Count(packets, "src", e, PacketStates) \in Nat
      BY <1>1, WhichIsFinite
    <2> QED
      BY <2>2, <2>3 DEF Out, Count
  <1>7. PICK p : p = [src |-> e, dst |-> Counterparty(e), denom |-> denom, amount |-> amount,
                      seq |-> seq, state |-> "sent"]
    OBVIOUS
  <1>8. p \in Packet
    BY <1>2, <1>3, <1>4, <1>5, <1>6, <1>7 DEF Packet, PacketStates
  <1>9. /\ channel[e].state = "OPEN" /\ Tokens(denom, amount) \sqsubseteq held[ChainOf(e)]
        /\ packets' = Append(packets, p)
        /\ held' = [held EXCEPT ![ChainOf(e)] = @ (-) Tokens(denom, amount)]
        /\ IF ReturnsThrough(denom, e)
           THEN minted' = [minted EXCEPT ![e] = @ (-) Tokens(denom, amount)] /\ UNCHANGED escrow
           ELSE escrow' = [escrow EXCEPT ![e] = @ (+) Tokens(denom, amount)] /\ UNCHANGED minted
        /\ EmitPacket(e, "Transfer", p, TRUE)
    BY <1>5, <1>7 DEF SendTransfer
  <1>10. amount <= Amount(denom, held[ChainOf(e)])
    BY <1>9 DEF \sqsubseteq, Tokens, Amount
  <1>11. Leaves(e, denom, amount)
    BY <1>9 DEF Leaves
  <1>12. PICK h \in Heights(ChainOf(e)) :
            /\ channel' = [channel EXCEPT ![e].active = h]
            /\ Emit(ChainOf(e), PacketEvent("Transfer", p, TRUE), h)
            /\ client' = client /\ connection' = connection
    BY <1>9 DEF EmitPacket
  <1>13. /\ p.src = e /\ p.dst = Counterparty(e) /\ p.denom = denom /\ p.amount = amount
         /\ p.state = "sent" /\ p.seq = Out(e) + 1
    BY <1>5, <1>6, <1>7
  <1>14. channel[e].state = "OPEN" /\ packets' = Append(packets, p)
    BY <1>9
  <1>15. Sends(e, denom, amount, p, h)
    BY <1>10, <1>11, <1>12, <1>13, <1>14 DEF Sends
  <1> QED
    BY <1>8, <1>15

\* SendTransfer keeps the invariant.
LEMMA SendKeeps ==
    ASSUME IInv, NEW e \in Ends, NEW amount \in scope.amounts,
           NEW denom \in BagToSet(held[ChainOf(e)]), SendTransfer(e, denom, amount)
    PROVE  IInv'
  <1>0. PICK p \in Packet, h \in Heights(ChainOf(e)) : Sends(e, denom, amount, p, h)
    BY SentPacketIs
  <1>1. /\ p.src = e /\ p.dst = Counterparty(e) /\ p.denom = denom /\ p.amount = amount
        /\ p.state = "sent" /\ p.seq = Out(e) + 1
        /\ amount <= Amount(denom, held[ChainOf(e)]) /\ channel[e].state = "OPEN"
        /\ packets' = Append(packets, p) /\ Leaves(e, denom, amount)
        /\ channel' = [channel EXCEPT ![e].active = h]
        /\ Emit(ChainOf(e), PacketEvent("Transfer", p, TRUE), h)
        /\ client' = client /\ connection' = connection
    BY <1>0 DEF Sends
  <1>2. /\ EndTypes /\ NewEndsAreEmpty /\ MoneyOK /\ packets \in Seq(Packet)
        /\ denom \in Paths /\ amount \in Nat \ {0}
    BY <1>1 DEF IInv, ChainOK, MoneyOK, MoneyTypes, Packet
  <1>3. MoneyOK'
    BY <1>1, <1>2, SendKeepsMoney
  <1>4. /\ \A g \in Ends : g # e => channel'[g] = channel[g]
        /\ GoesOn(e, h)
    BY <1>1, <1>2, EmitPacketIs
  <1>5. \A g \in Ends : g # e => escrow'[g] = escrow[g] /\ minted'[g] = minted[g]
    <2>1. IF ReturnsThrough(denom, e) THEN Only(minted, e) /\ UNCHANGED escrow
          ELSE Only(escrow, e) /\ UNCHANGED minted
      BY <1>1, <1>2, LeavesIs
    <2>2. DOMAIN escrow = Ends /\ DOMAIN minted = Ends
      BY <1>2 DEF MoneyOK, MoneyTypes
    <2> QED
      BY <2>1, <2>2 DEF Only
  <1>6. \A g \in Ends : g # e => Out(g)' = Out(g) /\ Done(g)' = Done(g) /\ In(g)' = In(g)
    <2>1. SUFFICES ASSUME NEW g \in Ends, g # e
                   PROVE  Out(g)' = Out(g) /\ Done(g)' = Done(g) /\ In(g)' = In(g)
      OBVIOUS
    <2>2. /\ Out(g)' = Out(g) + (IF p.src = g THEN 1 ELSE 0)
          /\ Done(g)' = Done(g) /\ In(g)' = In(g) /\ Out(g) \in Nat
      BY <1>1, <1>2, SendCounts
    <2>3. Out(g)' = Out(g)
      BY <1>1, <2>1, <2>2
    <2> QED
      BY <2>2, <2>3
  <1>7. Frame(e)
    BY <1>1, <1>4, <1>5, <1>6 DEF Frame
  <1>8. PICK more, n : more = packets' /\ n = Len(packets) + 1
    OBVIOUS
  <1>9. /\ DOMAIN more = DOMAIN packets \cup {n} /\ more[n] = p
        /\ \A i \in DOMAIN packets : more[i] = packets[i]
    BY <1>1, <1>2, <1>8
  <1>10. PacketsElsewhere(e)
    <2>1. SUFFICES ASSUME NEW g \in Ends, g # e, channel[g].state \notin {"OPEN", "CLOSED"},
                          NEW i \in DOMAIN more
                   PROVE  more[i].src # g /\ (more[i].dst = g => more[i].state \notin Reached)
      BY <1>8 DEF PacketsElsewhere
    <2>2. CASE i \in DOMAIN packets
      BY <1>2, <1>9, <2>1, <2>2 DEF NewEndsAreEmpty
    <2>3. CASE i = n
      BY <1>1, <1>9, <2>1, <2>3 DEF Reached
    <2> QED
      BY <1>9, <2>2, <2>3
  <1>11. Advances(ChainOf(e), PacketEvent("Transfer", p, TRUE), h)
    BY <1>1, <1>2, <1>4, <1>7, TransferAdvances
  <1>12. \A d \in Chains : d # ChainOf(e) => \A v : OwnMatch(d, v) => OwnMatch(d, v)'
    <2>1. SUFFICES ASSUME NEW d \in Chains, d # ChainOf(e), NEW v, OwnMatch(d, v),
                          NEW i \in DOMAIN more, more[i].src \in EndsOf(d)
                   PROVE  /\ receiverChainIsTokenSource(more[i])
                                 <=> ReturnsThrough(more[i].denom, more[i].src)
                          /\ ReturnsThrough(more[i].denom, more[i].src) =>
                                 more[i].denom \in v.denoms
      BY <1>8 DEF OwnMatch
    <2>2. i \in DOMAIN packets /\ more[i] = packets[i]
      BY <1>1, <1>9, <2>1, EndsAre
    <2> QED
      BY <2>1, <2>2 DEF OwnMatch
  <1>13. channel[e].state \in {"OPEN", "CLOSED"} /\ "Transfer" \in PacketType
    BY <1>1 DEF PacketType
  <1> QED
    BY <1>1, <1>3, <1>7, <1>10, <1>11, <1>12, <1>13, PacketKeeps

-----------------------------------------------------------------------------
(* A packet is received, or settled *)

\* The end at which a packet's state changes: its destination, which got it, or its
\* source, which is done with it.
ChangesAt(e, p, state) ==
    \/ e = p.dst /\ p.state \notin Over /\ state \notin Over
    \/ e = p.src /\ (p.state \in Reached <=> state \in Reached)

\* A packet that changes at one end leaves the counts of the others.
LEMMA ChangeFrame ==
    ASSUME MoneyOK, NEW i \in DOMAIN packets, NEW state \in PacketStates,
           StateChange(packets, packets', i, state), NEW e \in Ends,
           ChangesAt(e, packets[i], state), NEW g \in Ends, g # e
    PROVE  Out(g)' = Out(g) /\ Done(g)' = Done(g) /\ In(g)' = In(g)
  <1>1. packets \in Seq(Packet)
    BY PacketIs
  <1>2. /\ Out(g)' = Out(g)
        /\ Done(g)' = Done(g) + (IF packets[i].src = g /\ state \in Over THEN 1 ELSE 0)
                              - (IF packets[i].src = g /\ packets[i].state \in Over THEN 1 ELSE 0)
        /\ In(g)' = In(g) + (IF packets[i].dst = g /\ state \in Reached THEN 1 ELSE 0)
                          - (IF packets[i].dst = g /\ packets[i].state \in Reached THEN 1 ELSE 0)
        /\ Out(g) \in Nat /\ Done(g) \in Nat /\ In(g) \in Nat
    BY <1>1, ChangeCounts
  <1>3. CASE e = packets[i].dst /\ packets[i].state \notin Over /\ state \notin Over
    <2>1. Done(g)' = Done(g)
      BY <1>2, <1>3
    <2>2. In(g)' = In(g)
      BY <1>2, <1>3
    <2> QED
      BY <1>2, <2>1, <2>2
  <1>4. CASE e = packets[i].src /\ (packets[i].state \in Reached <=> state \in Reached)
    <2>1. Done(g)' = Done(g)
      BY <1>2, <1>4
    <2>2. In(g)' = In(g)
      BY <1>2, <1>4
    <2> QED
      BY <1>2, <2>1, <2>2
  <1> QED
    BY <1>3, <1>4 DEF ChangesAt

\* A packet that changes at one end leaves the ends that have not opened empty.
LEMMA ChangeElsewhere ==
    ASSUME MoneyOK, NewEndsAreEmpty, NEW i \in DOMAIN packets, NEW state \in PacketStates,
           StateChange(packets, packets', i, state), NEW e \in Ends,
           ChangesAt(e, packets[i], state)
    PROVE  PacketsElsewhere(e)
  <1>1. PICK after : after = packets'
    OBVIOUS
  <1>2. packets \in Seq(Packet)
    BY PacketIs
  <1>3. /\ DOMAIN after = DOMAIN packets
        /\ \A j \in DOMAIN packets : j # i => after[j] = packets[j]
        /\ after[i].state = state /\ after[i].src = packets[i].src /\ after[i].dst = packets[i].dst
    BY <1>1, <1>2, StateChangeIs
  <1>4. SUFFICES ASSUME NEW g \in Ends, g # e, channel[g].state \notin {"OPEN", "CLOSED"},
                        NEW j \in DOMAIN after
                 PROVE  after[j].src # g /\ (after[j].dst = g => after[j].state \notin Reached)
    BY <1>1 DEF PacketsElsewhere
  <1>5. packets[j].src # g /\ (packets[j].dst = g => packets[j].state \notin Reached)
    BY <1>3, <1>4 DEF NewEndsAreEmpty
  <1> QED
    BY <1>3, <1>4, <1>5 DEF ChangesAt

\* A packet that changes at one end keeps the invariant, given what happens to the money and
\* to the index of that end.
LEMMA ChangeKeeps ==
    ASSUME IInv, NEW i \in DOMAIN packets, NEW p, p = packets[i], NEW state \in PacketStates,
           StateChange(packets, packets', i, state), NEW e \in Ends, ChangesAt(e, p, state),
           MoneyOK', \A g \in Ends : g # e => escrow'[g] = escrow[g] /\ minted'[g] = minted[g],
           channel[e].state \in {"OPEN", "CLOSED"},
           NEW type \in PacketType, NEW success \in BOOLEAN, EmitPacket(e, type, p, success),
           \A h : GoesOn(e, h) /\ Frame(e) => Advances(ChainOf(e), PacketEvent(type, p, success), h)
    PROVE  IInv'
  <1>1. EndTypes /\ NewEndsAreEmpty /\ MoneyOK
    BY DEF IInv, ChainOK
  <1>2. packets \in Seq(Packet) /\ p \in Packet
    BY <1>1, PacketIs
  <1>3. PICK h \in Heights(ChainOf(e)) :
            /\ channel' = [channel EXCEPT ![e].active = h]
            /\ Emit(ChainOf(e), PacketEvent(type, p, success), h)
            /\ client' = client /\ connection' = connection
    BY DEF EmitPacket
  <1>4. /\ \A g \in Ends : g # e => channel'[g] = channel[g]
        /\ GoesOn(e, h)
    BY <1>1, <1>3, EmitPacketIs
  <1>5. \A g \in Ends : g # e => Out(g)' = Out(g) /\ Done(g)' = Done(g) /\ In(g)' = In(g)
    BY <1>1, ChangeFrame
  <1>6. Frame(e)
    BY <1>3, <1>4, <1>5 DEF Frame
  <1>7. PacketsElsewhere(e)
    BY <1>1, ChangeElsewhere
  <1>8. \A d \in Chains : d # ChainOf(e) => \A v : OwnMatch(d, v) => OwnMatch(d, v)'
    BY <1>2, OwnRests
  <1>9. Advances(ChainOf(e), PacketEvent(type, p, success), h)
    BY <1>4, <1>6
  <1> QED
    BY <1>2, <1>3, <1>6, <1>7, <1>8, <1>9, PacketKeeps

-----------------------------------------------------------------------------

\* The other ends keep their accounts.
LEMMA MoneyElsewhere ==
    ASSUME MoneyTypes, NEW e \in Ends, NEW d, NEW n, Unlocks(e, d, n) \/ Mints(e, d, n)
    PROVE  \A g \in Ends : g # e => escrow'[g] = escrow[g] /\ minted'[g] = minted[g]
  <1>1. escrow = [g \in Ends |-> escrow[g]] /\ minted = [g \in Ends |-> minted[g]]
    BY DEF MoneyTypes
  <1>2. CASE Unlocks(e, d, n)
    <2>1. PICK x : x = escrow[e] (-) Tokens(d, n)
      OBVIOUS
    <2>2. escrow' = [escrow EXCEPT ![e] = x] /\ minted' = minted
      BY <1>2, <2>1 DEF Unlocks
    <2> QED
      BY <1>1, <2>2
  <1>3. CASE Mints(e, d, n)
    <2>1. PICK x : x = minted[e] (+) Tokens(d, n)
      OBVIOUS
    <2>2. minted' = [minted EXCEPT ![e] = x] /\ escrow' = escrow
      BY <1>3, <2>1 DEF Mints
    <2> QED
      BY <1>1, <2>2
  <1> QED
    BY <1>2, <1>3

\* RecvPacket keeps the invariant.
LEMMA RecvPacketKeeps ==
    ASSUME IInv, NEW i \in DOMAIN packets, RecvPacket(i)
    PROVE  IInv'
  <1>1. MoneyOK /\ MoneyTypes
    BY DEF IInv, ChainOK, MoneyOK
  <1>2. PICK p, e : p = packets[i] /\ e = p.dst
    OBVIOUS
  <1>3. /\ p \in Packet /\ p.denom \in Paths /\ p.amount \in Nat \ {0} /\ e \in Ends
        /\ e = Counterparty(p.src) /\ p.src = Counterparty(e) /\ p.src \in Ends
    BY <1>1, <1>2, PacketIs
  <1>4. /\ p.state = "sent" /\ channel[e].state = "OPEN"
        /\ StateChange(packets, packets', i, "received")
        /\ EmitPacket(e, "RecvPacket", p, TRUE)
    BY <1>2 DEF RecvPacket, StateChange
  <1>5. IF ReturnsThrough(p.denom, p.src) THEN Unlocks(e, Tail(p.denom), p.amount)
        ELSE Mints(e, BondedDenom(p), p.amount)
    BY <1>2 DEF RecvPacket, Unlocks, Mints
  <1>6. /\ "received" \in PacketStates /\ "received" \notin InFlightStates
        /\ "sent" \in InFlightStates /\ "RecvPacket" \in PacketType
        /\ "sent" \notin Over /\ "received" \notin Over
    BY DEF PacketStates, InFlightStates, PacketType, Over
  <1>7. MoneyOK'
    <2>1. CASE ReturnsThrough(p.denom, p.src)
      <3>1. Carries(p, e, Tail(p.denom)) /\ Tail(p.denom) \in Paths
        BY <1>3, <2>1, CarriesSome
      <3>2. Unlocks(e, Tail(p.denom), p.amount)
        BY <1>5, <2>1
      <3> QED
        BY <1>1, <1>2, <1>3, <1>4, <1>6, <3>1, <3>2, UnlockKeepsMoney
    <2>2. CASE ~ReturnsThrough(p.denom, p.src)
      <3>1. Carries(p, p.src, p.denom)
        BY <1>3, <2>2, CarriesSome
      <3>2. Mints(Counterparty(p.src), <<Counterparty(p.src)>> \o p.denom, p.amount)
        BY <1>2, <1>3, <1>5, <2>2 DEF BondedDenom
      <3> QED
        BY <1>1, <1>2, <1>3, <1>4, <1>6, <3>1, <3>2, MintKeepsMoney
    <2> QED
      BY <2>1, <2>2
  <1>8. \A g \in Ends : g # e => escrow'[g] = escrow[g] /\ minted'[g] = minted[g]
    BY <1>1, <1>3, <1>5, MoneyElsewhere
  <1>9. ASSUME NEW h, GoesOn(e, h), Frame(e)
        PROVE  Advances(ChainOf(e), PacketEvent("RecvPacket", p, TRUE), h)
    BY <1>1, <1>2, <1>4, <1>5, <1>9, RecvAdvances
  <1>10. ChangesAt(e, p, "received")
    BY <1>2, <1>4, <1>6 DEF ChangesAt
  <1> QED
    BY <1>2, <1>3, <1>4, <1>6, <1>7, <1>8, <1>9, <1>10, ChangeKeeps

\* RecvPacketFails keeps the invariant.
LEMMA RecvPacketFailsKeeps ==
    ASSUME IInv, NEW i \in DOMAIN packets, RecvPacketFails(i)
    PROVE  IInv'
  <1>1. MoneyOK
    BY DEF IInv, ChainOK
  <1>2. PICK p, e : p = packets[i] /\ e = p.dst
    OBVIOUS
  <1>3. p \in Packet /\ e \in Ends
    BY <1>1, <1>2, PacketIs
  <1>4. /\ p.state = "sent" /\ channel[e].state = "OPEN"
        /\ StateChange(packets, packets', i, "failed") /\ UNCHANGED <<held, escrow, minted>>
        /\ EmitPacket(e, "RecvPacket", p, FALSE)
    BY <1>2 DEF RecvPacketFails, StateChange
  <1>6. /\ "failed" \in PacketStates /\ "failed" \in InFlightStates
        /\ "sent" \in InFlightStates /\ "RecvPacket" \in PacketType
        /\ "sent" \notin Over /\ "failed" \notin Over
    BY DEF PacketStates, InFlightStates, PacketType, Over
  <1>7. MoneyOK'
    BY <1>1, <1>2, <1>4, <1>6, RestKeepsMoney
  <1>9. ASSUME NEW h, GoesOn(e, h), Frame(e)
        PROVE  Advances(ChainOf(e), PacketEvent("RecvPacket", p, FALSE), h)
    BY <1>1, <1>2, <1>4, <1>9, RecvFailsAdvances
  <1>10. ChangesAt(e, p, "failed")
    BY <1>2, <1>4, <1>6 DEF ChangesAt
  <1> QED
    BY <1>2, <1>3, <1>4, <1>6, <1>7, <1>9, <1>10, ChangeKeeps

\* Refund gives back what is there to be given back.
LEMMA RefundIs ==
    ASSUME MoneyOK, NEW i \in DOMAIN packets, NEW p, p = packets[i], p.state \in {"sent", "failed"},
           NEW state \in {"returned", "timedOut"}, Refund(i, state)
    PROVE  /\ StateChange(packets, packets', i, state) /\ Refunds(p) /\ MoneyOK'
           /\ \A g \in Ends : g # p.src => escrow'[g] = escrow[g] /\ minted'[g] = minted[g]
  <1>1. /\ p \in Packet /\ p.denom \in Paths /\ p.src \in Ends /\ MoneyTypes
        /\ Counterparty(Counterparty(p.src)) = p.src /\ Counterparty(p.src) \in Ends
    BY PacketIs, EndsAre DEF MoneyOK
  <1>2. StateChange(packets, packets', i, state) /\ Refunds(p)
    BY DEF Refund, StateChange, Refunds, Mints, Unlocks
  <1>3. /\ state \in PacketStates /\ state \notin InFlightStates /\ p.state \in InFlightStates
    BY DEF PacketStates, InFlightStates
  <1>4. MoneyOK'
    <2>1. CASE ReturnsThrough(p.denom, p.src)
      <3>1. /\ Carries(p, Counterparty(p.src), Tail(p.denom)) /\ Tail(p.denom) \in Paths
            /\ p.denom = <<p.src>> \o Tail(p.denom)
        BY <1>1, <2>1, CarriesSome
      <3>2. PICK e, d : e = Counterparty(p.src) /\ d = Tail(p.denom)
        OBVIOUS
      <3>3. Mints(Counterparty(e), <<Counterparty(e)>> \o d, p.amount)
        BY <1>1, <1>2, <2>1, <3>1, <3>2 DEF Refunds
      <3> QED
        BY <1>1, <1>2, <1>3, <3>1, <3>2, <3>3, MintKeepsMoney
    <2>2. CASE ~ReturnsThrough(p.denom, p.src)
      <3>1. Carries(p, p.src, p.denom)
        BY <1>1, <2>2, CarriesSome
      <3>2. Unlocks(p.src, p.denom, p.amount)
        BY <1>2, <2>2 DEF Refunds
      <3> QED
        BY <1>1, <1>2, <1>3, <3>1, <3>2, UnlockKeepsMoney
    <2> QED
      BY <2>1, <2>2
  <1>5. \A g \in Ends : g # p.src => escrow'[g] = escrow[g] /\ minted'[g] = minted[g]
    BY <1>1, <1>2, MoneyElsewhere DEF Refunds
  <1> QED
    BY <1>2, <1>4, <1>5

\* The packet's event settles it.
LEMMA SettleEvents ==
    ASSUME NEW v, ~v.failed, NEW p, NEW success \in BOOLEAN, NEW h
    PROVE  /\ HandleEvent(v, PacketEvent("Acknowledgement", p, success), h) = Settle(v, p, ~success, h)
           /\ HandleEvent(v, PacketEvent("Timeout", p, success), h) = Settle(v, p, TRUE, h)
           /\ HandleEvent(v, PacketEvent("TimeoutOnClose", p, success), h) = Settle(v, p, TRUE, h)
  <1>1. PICK ev : ev = PacketEvent("Acknowledgement", p, success)
    OBVIOUS
  <1>2. ev.type = "Acknowledgement" /\ ev.packet = p /\ ev.success = success
    BY <1>1 DEF PacketEvent
  <1>3. HandleEvent(v, ev, h) = Settle(v, p, ~success, h)
    BY <1>2 DEF HandleEvent, MsgIBCAcknowledgement
  <1>4. PICK late : late = PacketEvent("Timeout", p, success)
    OBVIOUS
  <1>5. late.type = "Timeout" /\ late.packet = p
    BY <1>4 DEF PacketEvent
  <1>6. HandleEvent(v, late, h) = Settle(v, p, TRUE, h)
    BY <1>5 DEF HandleEvent, MsgIBCTimeout
  <1>7. PICK shut : shut = PacketEvent("TimeoutOnClose", p, success)
    OBVIOUS
  <1>8. shut.type = "TimeoutOnClose" /\ shut.packet = p
    BY <1>7 DEF PacketEvent
  <1>9. HandleEvent(v, shut, h) = Settle(v, p, TRUE, h)
    BY <1>8 DEF HandleEvent, MsgIBCTimeoutOnClose
  <1> QED
    BY <1>1, <1>3, <1>4, <1>6, <1>7, <1>9

\* A packet is settled, with or without a refund.
LEMMA SettleKeeps ==
    ASSUME IInv, NEW i \in DOMAIN packets, NEW p, p = packets[i], NEW state \in Over,
           p.state \notin Over, p.state \in Reached <=> state \in Reached,
           StateChange(packets, packets', i, state), NEW refunded \in BOOLEAN,
           refunded => p.state \in {"sent", "failed"} /\ Refunds(p),
           ~refunded => UNCHANGED <<escrow, minted>>, MoneyOK',
           \A g \in Ends : g # p.src => escrow'[g] = escrow[g] /\ minted'[g] = minted[g],
           NEW type \in PacketType, NEW success \in BOOLEAN, EmitPacket(p.src, type, p, success),
           \A v, h : ~v.failed =>
              HandleEvent(v, PacketEvent(type, p, success), h) = Settle(v, p, refunded, h)
    PROVE  IInv'
  <1>1. MoneyOK /\ NewEndsAreEmpty
    BY DEF IInv, ChainOK
  <1>2. PICK e : e = p.src
    OBVIOUS
  <1>3. e \in Ends /\ channel[e].state \in {"OPEN", "CLOSED"} /\ state \in PacketStates
    BY <1>1, <1>2, PacketIs, PacketEndsOpened DEF Over, PacketStates
  <1>4. ASSUME NEW h, GoesOn(e, h), Frame(e)
        PROVE  Advances(ChainOf(e), PacketEvent(type, p, success), h)
    <2>1. PICK ev : ev = PacketEvent(type, p, success)
      OBVIOUS
    <2>2. \A v : ~v.failed => HandleEvent(v, ev, h) = Settle(v, p, refunded, h)
      BY <2>1
    <2>3. channel[e].state # "none"
      BY <1>3
    <2>4. Advances(ChainOf(e), ev, h)
      BY <1>1, <1>2, <1>4, <2>2, <2>3, SettleAdvances
    <2> QED
      BY <2>1, <2>4
  <1>5. ChangesAt(e, p, state)
    BY <1>2 DEF ChangesAt
  <1> QED
    BY <1>2, <1>3, <1>4, <1>5, ChangeKeeps

\* Acknowledgement keeps the invariant.
LEMMA AcknowledgementKeeps ==
    ASSUME IInv, NEW i \in DOMAIN packets, Acknowledgement(i)
    PROVE  IInv'
  <1>1. MoneyOK
    BY DEF IInv, ChainOK
  <1>2. PICK p : p = packets[i]
    OBVIOUS
  <1>3. EmitPacket(p.src, "Acknowledgement", p, p.state = "received")
    BY <1>2 DEF Acknowledgement
  <1>4. "Acknowledgement" \in PacketType
    BY DEF PacketType
  <1>5. CASE /\ p.state = "received" /\ packets' = [packets EXCEPT ![i].state = "acknowledged"]
             /\ UNCHANGED <<held, escrow, minted>>
    <2>1. StateChange(packets, packets', i, "acknowledged")
      BY <1>5 DEF StateChange
    <2>2. /\ "acknowledged" \in Over /\ "acknowledged" \in Reached /\ "received" \in Reached
          /\ "received" \notin Over /\ "received" \notin InFlightStates
          /\ "acknowledged" \notin InFlightStates /\ "acknowledged" \in PacketStates
      BY DEF Over, Reached, InFlightStates, PacketStates
    <2>3. MoneyOK'
      BY <1>1, <1>2, <1>5, <2>1, <2>2, RestKeepsMoney
    <2>4. EmitPacket(p.src, "Acknowledgement", p, TRUE)
      BY <1>3, <1>5
    <2>5. \A v, h : ~v.failed =>
             HandleEvent(v, PacketEvent("Acknowledgement", p, TRUE), h) = Settle(v, p, FALSE, h)
      BY SettleEvents
    <2> QED
      BY <1>2, <1>4, <1>5, <2>1, <2>2, <2>3, <2>4, <2>5, SettleKeeps
  <1>6. CASE p.state = "failed" /\ Refund(i, "returned")
    <2>1. /\ StateChange(packets, packets', i, "returned") /\ Refunds(p) /\ MoneyOK'
          /\ \A g \in Ends : g # p.src => escrow'[g] = escrow[g] /\ minted'[g] = minted[g]
      BY <1>1, <1>2, <1>6, RefundIs
    <2>2. /\ "returned" \in Over /\ "returned" \in Reached /\ "failed" \in Reached
          /\ "failed" \notin Over
      BY DEF Over, Reached
    <2>4. EmitPacket(p.src, "Acknowledgement", p, FALSE)
      BY <1>3, <1>6
    <2>5. \A v, h : ~v.failed =>
             HandleEvent(v, PacketEvent("Acknowledgement", p, FALSE), h) = Settle(v, p, TRUE, h)
      BY SettleEvents
    <2> QED
      BY <1>2, <1>4, <1>6, <2>1, <2>2, <2>4, <2>5, SettleKeeps
  <1> QED
    BY <1>2, <1>5, <1>6 DEF Acknowledgement

\* Timeout keeps the invariant.
LEMMA TimeoutKeeps ==
    ASSUME IInv, NEW i \in DOMAIN packets, Timeout(i)
    PROVE  IInv'
  <1>1. MoneyOK
    BY DEF IInv, ChainOK
  <1>2. PICK p : p = packets[i]
    OBVIOUS
  <1>3. /\ p.state = "sent" /\ Refund(i, "timedOut")
        /\ \/ EmitPacket(p.src, "Timeout", p, FALSE)
           \/ EmitPacket(p.src, "TimeoutOnClose", p, FALSE)
    BY <1>2 DEF Timeout
  <1>4. "Timeout" \in PacketType /\ "TimeoutOnClose" \in PacketType
    BY DEF PacketType
  <1>5. /\ StateChange(packets, packets', i, "timedOut") /\ Refunds(p) /\ MoneyOK'
        /\ \A g \in Ends : g # p.src => escrow'[g] = escrow[g] /\ minted'[g] = minted[g]
    BY <1>1, <1>2, <1>3, RefundIs
  <1>6. "timedOut" \in Over /\ "timedOut" \notin Reached /\ "sent" \notin Reached /\ "sent" \notin Over
    BY DEF Over, Reached
  <1>7. \A v, h : ~v.failed =>
           /\ HandleEvent(v, PacketEvent("Timeout", p, FALSE), h) = Settle(v, p, TRUE, h)
           /\ HandleEvent(v, PacketEvent("TimeoutOnClose", p, FALSE), h) = Settle(v, p, TRUE, h)
    BY SettleEvents
  <1> QED
    BY <1>2, <1>3, <1>4, <1>5, <1>6, <1>7, SettleKeeps

-----------------------------------------------------------------------------
(* The handshakes *)

\* The accounts are right when no money moves.
LEMMA MoneyRests ==
    ASSUME MoneyOK, UNCHANGED <<packets, held, escrow, minted>>
    PROVE  MoneyOK'
  BY DEF MoneyOK, MoneyTypes, VouchersAreMarked, EscrowBacksVouchers, VouchersAreHeld

\* An index matches a chain of which it sees nothing new.
LEMMA UnseenMatches ==
    ASSUME NEW d \in Chains, d \in client' <=> d \in client, connection'[d] = connection[d],
           \A g \in EndsOf(d) : channel'[g] = channel[g],
           UNCHANGED <<packets, escrow, minted>>, NEW v, Matches(d, v)
    PROVE  Matches(d, v)'
  <1>1. /\ IsView(v) /\ ~v.failed /\ ClientMatches(d, v) /\ ConnectionMatches(d, v)
        /\ RowsMatch(d, v) /\ TracesMatch(v) /\ OwnMatch(d, v)
    BY DEF Matches
  <1>2. ClientMatches(d, v)' /\ ConnectionMatches(d, v)'
    BY <1>1 DEF ClientMatches, ConnectionMatches
  <1>3. \A g : g \in DOMAIN v.channels <=> g \in EndsOf(d) /\ channel[g].state # "none"
    BY <1>1 DEF RowsMatch
  <1>4. \A g : g \in DOMAIN v.channels <=> g \in EndsOf(d) /\ channel'[g].state # "none"
    BY <1>3
  <1>5. \A g : Out(g)' = Out(g) /\ Done(g)' = Done(g) /\ In(g)' = In(g)
    BY DEF Out, Done, In
  <1>6. \A g \in DOMAIN v.channels : RowMatches(g, v.channels[g])'
    BY <1>1, <1>3, <1>5 DEF RowsMatch, RowMatches
  <1>7. RowsMatch(d, v)'
    BY <1>1, <1>4, <1>6 DEF RowsMatch
  <1>8. TracesMatch(v)' /\ OwnMatch(d, v)'
    BY <1>1 DEF TracesMatch, OwnMatch
  <1> QED
    BY <1>1, <1>2, <1>7, <1>8 DEF Matches

\* Rows, traces and denominations are those of an index that matched.
LEMMA TablesMatch ==
    ASSUME NEW c \in Chains, UNCHANGED <<channel, packets, escrow, minted>>, NEW v, Matches(c, v),
           NEW w, IsView(w), w.channels = v.channels, w.denoms = v.denoms, w.traces = v.traces,
           w.failed = v.failed, ClientMatches(c, w)', ConnectionMatches(c, w)'
    PROVE  Matches(c, w)'
  <1>1. ~v.failed /\ RowsMatch(c, v) /\ TracesMatch(v) /\ OwnMatch(c, v)
    BY DEF Matches
  <1>2. \A g : Out(g)' = Out(g) /\ Done(g)' = Done(g) /\ In(g)' = In(g)
    BY DEF Out, Done, In
  <1>3. \A g, row : RowMatches(g, row) => RowMatches(g, row)'
    BY <1>2 DEF RowMatches
  <1>4. RowsMatch(c, w)'
    BY <1>1, <1>3 DEF RowsMatch
  <1>5. TracesMatch(w)' /\ OwnMatch(c, w)'
    BY <1>1 DEF TracesMatch, OwnMatch
  <1> QED
    BY <1>1, <1>4, <1>5 DEF Matches

-----------------------------------------------------------------------------

\* A new client is inserted by every index that matches.
LEMMA CreateClientAdvances ==
    ASSUME NEW c \in Chains, CreateClient(c), NEW h
    PROVE  Advances(c, CreateClientEvent(c), h)
  <1>1. PICK ev : ev = CreateClientEvent(c)
    OBVIOUS
  <1>2. ev.type = "CreateClient" /\ ev.client = ClientId(c) /\ ev.chain = Other(c)
    BY <1>1 DEF CreateClientEvent
  <1>3. SUFFICES ASSUME NEW v, NEW w, Matches(c, v), w = HandleEvent(v, ev, h)
                 PROVE  EventStep(v, ev, w) /\ Matches(c, w)'
    BY <1>1 DEF Advances
  <1>4. /\ IsView(v) /\ ~v.failed /\ ClientMatches(c, v) /\ ConnectionMatches(c, v)
    BY <1>3 DEF Matches
  <1>5. /\ c \notin client /\ client' = client \cup {c}
        /\ UNCHANGED <<connection, channel, packets, held, escrow, minted>>
    BY DEF CreateClient
  <1>6. w = InsertClient(v, ev)
    BY <1>2, <1>3, <1>4 DEF HandleEvent
  <1>7. ev.client \notin DOMAIN v.clients
    BY <1>4, <1>5 DEF ClientMatches
  <1>8. /\ IsView(w) /\ w.connections = v.connections /\ w.channels = v.channels
        /\ w.denoms = v.denoms /\ w.traces = v.traces /\ w.failed = v.failed
        /\ w.clients = With(v.clients, ev.client, ev.chain)
    BY <1>4, <1>6, <1>7, ClientIs
  <1>9. DOMAIN w.clients = DOMAIN v.clients \cup {ev.client} /\ w.clients[ev.client] = ev.chain
    <2>1. PICK t, id, row : t = v.clients /\ id = ev.client /\ row = ev.chain
      OBVIOUS
    <2>2. DOMAIN With(t, id, row) = DOMAIN t \cup {id} /\ With(t, id, row)[id] = row
      BY DEF With
    <2> QED
      BY <1>8, <2>1, <2>2
  <1>10. ClientMatches(c, w)'
    BY <1>2, <1>4, <1>5, <1>9 DEF ClientMatches
  <1>11. ConnectionMatches(c, w)'
    BY <1>4, <1>5, <1>8 DEF ConnectionMatches
  <1>12. Matches(c, w)'
    BY <1>3, <1>5, <1>8, <1>10, <1>11, TablesMatch
  <1>13. EventStep(v, ev, w)
    BY <1>4, <1>8 DEF EventStep, Ids
  <1> QED
    BY <1>12, <1>13

\* CreateClient keeps the invariant.
LEMMA CreateClientKeeps ==
    ASSUME IInv, NEW c \in Chains, CreateClient(c)
    PROVE  IInv'
  <1>1. EndTypes /\ NewEndsAreEmpty /\ MoneyOK
    BY DEF IInv, ChainOK
  <1>2. /\ client' = client \cup {c}
        /\ UNCHANGED <<connection, channel, packets, held, escrow, minted>>
    BY DEF CreateClient
  <1>3. PICK h \in Heights(c) : Emit(c, CreateClientEvent(c), h)
    BY DEF CreateClient
  <1>4. scope' = scope
    BY <1>3 DEF Emit
  <1>5. EndTypes'
    BY <1>1, <1>2, <1>4 DEF EndTypes
  <1>6. NewEndsAreEmpty'
    BY <1>1, <1>2 DEF NewEndsAreEmpty
  <1>7. MoneyOK'
    BY <1>1, <1>2, MoneyRests
  <1>8. CreateClientEvent(c) \in Event /\ CreateClientEvent(c).type = "CreateClient"
    BY DEF Event, CreateClientEvent
  <1>9. /\ TryIsDue(c, CreateClientEvent(c)) /\ TryHappens(c, CreateClientEvent(c)) /\ GoesForward
    BY <1>2, <1>8 DEF TryIsDue, TryHappens, GoesForward
  <1>10. \A d \in Chains : d # c => \A v : Matches(d, v) => Matches(d, v)'
    BY <1>2, UnseenMatches
  <1>11. Advances(c, CreateClientEvent(c), h)
    BY CreateClientAdvances
  <1> QED
    BY <1>3, <1>5, <1>6, <1>7, <1>8, <1>9, <1>10, <1>11, EmitKeeps

-----------------------------------------------------------------------------

\* What a handshake step needs of its own end.
LEMMA HandshakeIs ==
    ASSUME NEW own, NEW other, NEW s \in Handshake(own, other)
    PROVE  \/ s[1] = "OpenInit" /\ s[2] = "INIT" /\ own = "none"
           \/ s[1] = "OpenTry" /\ s[2] = "TRYOPEN" /\ own \in {"none", "INIT"}
           \/ s[1] \in {"OpenAck", "OpenConfirm"} /\ s[2] = "OPEN" /\ own \in {"INIT", "TRYOPEN"}
  <1>1. \/ s = <<"OpenInit", "INIT">> \/ s = <<"OpenTry", "TRYOPEN">>
        \/ s = <<"OpenAck", "OPEN">> \/ s = <<"OpenConfirm", "OPEN">>
    BY DEF Handshake
  <1>2. CASE s = <<"OpenInit", "INIT">>
    <2>1. own = "none"
      BY <1>2 DEF Handshake
    <2> QED
      BY <1>2, <2>1
  <1>3. CASE s = <<"OpenTry", "TRYOPEN">>
    <2>1. own \in {"none", "INIT"}
      BY <1>3 DEF Handshake
    <2> QED
      BY <1>3, <2>1
  <1>4. CASE s = <<"OpenAck", "OPEN">>
    <2>1. own \in {"INIT", "TRYOPEN"}
      BY <1>4 DEF Handshake
    <2> QED
      BY <1>4, <2>1
  <1>5. CASE s = <<"OpenConfirm", "OPEN">>
    <2>1. own = "TRYOPEN"
      BY <1>5 DEF Handshake
    <2> QED
      BY <1>5, <2>1
  <1> QED
    BY <1>1, <1>2, <1>3, <1>4, <1>5

\* A step of a connection advances every index that matches.
LEMMA ConnectionAdvances ==
    ASSUME NEW c \in Chains, EndTypes, c \in client,
           UNCHANGED <<client, channel, packets, escrow, minted>>,
           NEW s \in Handshake(connection[c], connection[Other(c)]),
           connection' = [connection EXCEPT ![c] = s[2]], NEW h
    PROVE  Advances(c, ConnectionEvent(c, s[1]), h)
  <1>1. PICK ev : ev = ConnectionEvent(c, s[1])
    OBVIOUS
  <1>2. ev.type = "Connection" /\ ev.step = s[1] /\ ev.client = ClientId(c) /\ ev.id = ConnectionId(c)
    BY <1>1 DEF ConnectionEvent
  <1>3. SUFFICES ASSUME NEW v, NEW w, Matches(c, v), w = HandleEvent(v, ev, h)
                 PROVE  EventStep(v, ev, w) /\ (~w.failed => Matches(c, w)')
    BY <1>1 DEF Advances
  <1>4. /\ IsView(v) /\ ~v.failed /\ ClientMatches(c, v) /\ ConnectionMatches(c, v)
    BY <1>3 DEF Matches
  <1>5. ev.client \in DOMAIN v.clients /\ v.clients[ev.client] = Other(c)
    BY <1>2, <1>4 DEF ClientMatches
  <1>6. connection'[c] = s[2]
    BY DEF EndTypes
  <1>7. ev.id \in DOMAIN v.connections <=> connection[c] # "none"
    BY <1>2, <1>4 DEF ConnectionMatches
  <1>8. ASSUME \/ w = InsertConnection(v, ev) /\ ev.id \notin DOMAIN v.connections
               \/ w = UpdateConnection(v, ev) /\ ev.id \in DOMAIN v.connections,
               s[2] # "none", ev.id \in DOMAIN v.connections \/ ev.step \in {"OpenInit", "OpenTry"}
        PROVE  EventStep(v, ev, w) /\ Matches(c, w)'
    <2>1. /\ IsView(w) /\ w.clients = v.clients /\ w.channels = v.channels
          /\ w.denoms = v.denoms /\ w.traces = v.traces /\ w.failed = v.failed
          /\ DOMAIN w.connections = DOMAIN v.connections \cup {ev.id}
          /\ w.connections[ev.id].cpChain = v.clients[ev.client]
      BY <1>4, <1>5, <1>8, ConnectionIs
    <2>2. ClientMatches(c, w)'
      BY <1>4, <2>1 DEF ClientMatches
    <2>3. ConnectionMatches(c, w)'
      BY <1>2, <1>4, <1>5, <1>6, <1>8, <2>1 DEF ConnectionMatches
    <2>4. Matches(c, w)'
      BY <1>3, <2>1, <2>2, <2>3, TablesMatch
    <2>5. EventStep(v, ev, w)
      BY <1>2, <1>4, <1>8, <2>1 DEF EventStep, Ids
    <2> QED
      BY <2>4, <2>5
  <1>9. CASE s[1] = "OpenInit" /\ s[2] = "INIT" /\ connection[c] = "none"
    <2>1. w = InsertConnection(v, ev)
      BY <1>2, <1>3, <1>4, <1>9 DEF HandleEvent
    <2> QED
      BY <1>2, <1>7, <1>8, <1>9, <2>1
  <1>10. CASE s[1] = "OpenTry" /\ s[2] = "TRYOPEN" /\ connection[c] \in {"none", "INIT"}
    <2>1. w = InsertConnection(v, ev)
      BY <1>2, <1>3, <1>4, <1>10 DEF HandleEvent
    <2>2. CASE connection[c] = "none"
      BY <1>2, <1>7, <1>8, <1>10, <2>1, <2>2
    <2>3. CASE connection[c] = "INIT"
      <3>1. ev.id \in DOMAIN v.connections
        BY <1>7, <2>3
      <3>2. w = Stop(v) /\ w.failed
        BY <1>4, <2>1, <3>1, StopIs DEF InsertConnection
      <3> QED
        BY <1>2, <1>10, <3>1, <3>2 DEF EventStep, Tries, Ids
    <2> QED
      BY <1>10, <2>2, <2>3
  <1>11. CASE s[1] \in {"OpenAck", "OpenConfirm"} /\ s[2] = "OPEN"
              /\ connection[c] \in {"INIT", "TRYOPEN"}
    <2>1. w = UpdateConnection(v, ev)
      BY <1>2, <1>3, <1>4, <1>11 DEF HandleEvent
    <2> QED
      BY <1>2, <1>7, <1>8, <1>11, <2>1
  <1> QED
    BY <1>9, <1>10, <1>11, HandshakeIs

\* ConnectionHandshake keeps the invariant.
LEMMA ConnectionKeeps ==
    ASSUME IInv, NEW c \in Chains, ConnectionHandshake(c)
    PROVE  IInv'
  <1>1. EndTypes /\ NewEndsAreEmpty /\ MoneyOK /\ connection \in [Chains -> ConnectionStates]
    BY DEF IInv, ChainOK, EndTypes
  <1>2. c \in client /\ UNCHANGED <<client, channel, packets, held, escrow, minted>>
    BY DEF ConnectionHandshake
  <1>3. PICK s \in Handshake(connection[c], connection[Other(c)]), h \in Heights(c) :
            /\ connection' = [connection EXCEPT ![c] = s[2]]
            /\ Emit(c, ConnectionEvent(c, s[1]), h)
    BY DEF ConnectionHandshake
  <1>4. scope' = scope
    BY <1>3 DEF Emit
  <1>5. \/ s[1] = "OpenInit" /\ s[2] = "INIT" /\ connection[c] = "none"
        \/ s[1] = "OpenTry" /\ s[2] = "TRYOPEN" /\ connection[c] \in {"none", "INIT"}
        \/ s[1] \in {"OpenAck", "OpenConfirm"} /\ s[2] = "OPEN" /\ connection[c] \in {"INIT", "TRYOPEN"}
    BY HandshakeIs
  <1>6. connection'[c] = s[2] /\ \A d \in Chains : d # c => connection'[d] = connection[d]
    BY <1>1, <1>3
  <1>7. EndTypes'
    <2>1. s[2] \in ConnectionStates
      BY <1>5 DEF ConnectionStates
    <2> QED
      BY <1>1, <1>2, <1>3, <1>4, <2>1 DEF EndTypes
  <1>8. NewEndsAreEmpty'
    BY <1>1, <1>2 DEF NewEndsAreEmpty
  <1>9. MoneyOK'
    BY <1>1, <1>2, MoneyRests
  <1>10. PICK ev : ev = ConnectionEvent(c, s[1])
    OBVIOUS
  <1>11. /\ ev.type = "Connection" /\ ev.step = s[1] /\ ev.id = ConnectionId(c) /\ ev \in Event
    <2>1. s[1] \in ChannelStep
      BY <1>5 DEF ChannelStep
    <2> QED
      BY <1>10, <2>1 DEF ConnectionEvent, Event
  <1>12. TryIsDue(c, ev) /\ TryHappens(c, ev) /\ GoesForward
    BY <1>2, <1>5, <1>6, <1>11 DEF TryIsDue, TryHappens, GoesForward
  <1>13. \A d \in Chains : d # c => \A v : Matches(d, v) => Matches(d, v)'
    BY <1>2, <1>6, UnseenMatches
  <1>14. Advances(c, ev, h)
    BY <1>1, <1>2, <1>3, <1>10, ConnectionAdvances
  <1> QED
    BY <1>3, <1>7, <1>8, <1>9, <1>10, <1>11, <1>12, <1>13, <1>14, EmitKeeps

\* An empty escrow account is no tokens at the counterparty.
LEMMA EmptyMirrors ==
    ASSUME NEW e
    PROVE  Mirrors(EmptyBag, e, EmptyBag) /\ IsBag(EmptyBag) /\ DOMAIN EmptyBag = {}
  <1>1. DOMAIN EmptyBag = {} /\ IsBag(EmptyBag)
    BY DEF EmptyBag, SetToBag, IsBag
  <1> QED
    BY <1>1 DEF Mirrors, Amount

\* An end of which no packet is known counts nothing.
LEMMA NewCounts ==
    ASSUME NewEndsAreEmpty, NEW e \in Ends, channel[e].state \notin {"OPEN", "CLOSED"}
    PROVE  /\ Out(e) = 0 /\ Done(e) = 0 /\ In(e) = 0 /\ channel[e].opened = 0
           /\ channel[e].active = 0 /\ escrow[e] = EmptyBag /\ minted[e] = EmptyBag
  <1>1. /\ channel[e].opened = 0 /\ channel[e].active = 0
        /\ escrow[e] = EmptyBag /\ minted[e] = EmptyBag
        /\ \A i \in DOMAIN packets :
              packets[i].src # e /\ (packets[i].dst = e => packets[i].state \notin Reached)
    BY DEF NewEndsAreEmpty
  <1>2. \A i \in DOMAIN packets : packets[i]["src"] = packets[i].src /\ packets[i]["dst"] = packets[i].dst
    OBVIOUS
  <1>3. Out(e) = 0
    <2>1. \A i \in DOMAIN packets : ~(packets[i]["src"] = e /\ packets[i].state \in PacketStates)
      BY <1>1, <1>2
    <2> QED
      BY <2>1, CountOfNone DEF Out
  <1>4. Done(e) = 0
    <2>1. \A i \in DOMAIN packets : ~(packets[i]["src"] = e /\ packets[i].state \in Over)
      BY <1>1, <1>2
    <2> QED
      BY <2>1, CountOfNone DEF Done
  <1>5. In(e) = 0
    <2>1. \A i \in DOMAIN packets : ~(packets[i]["dst"] = e /\ packets[i].state \in Reached)
      BY <1>1, <1>2
    <2> QED
      BY <2>1, CountOfNone DEF In
  <1> QED
    BY <1>1, <1>3, <1>4, <1>5

\* A channel's step leaves the other ends.
LEMMA ChannelFrame ==
    ASSUME NEW e \in Ends, UNCHANGED <<client, connection, packets, escrow, minted>>,
           \A g \in Ends : g # e => channel'[g] = channel[g]
    PROVE  Frame(e) /\ \A g : Out(g)' = Out(g) /\ Done(g)' = Done(g) /\ In(g)' = In(g)
  BY DEF Frame, Out, Done, In

\* The row of a channel that starts
LEMMA StartMatches ==
    ASSUME NewEndsAreEmpty, NEW e \in Ends, channel[e].state \notin {"OPEN", "CLOSED"},
           UNCHANGED <<client, connection, packets, escrow, minted>>,
           \A g \in Ends : g # e => channel'[g] = channel[g],
           channel'[e].state \in {"INIT", "TRYOPEN"}, channel'[e].opened = channel[e].opened,
           channel'[e].active = channel[e].active, NEW ev, NEW r, r = NewChannel(ev, Other(ChainOf(e)))
    PROVE  RowMatches(e, r)' /\ IsRow(r)
  <1>1. /\ IsRow(r) /\ r.cpChain = Other(ChainOf(e)) /\ r.status = "NOT_ESTABLISHED"
        /\ r.createdAt = 0 /\ r.lastActivity = 0 /\ r.lastOut = 0 /\ r.relayIn = 0
        /\ r.relayOut = 0 /\ r.relayOutSuccess = 0 /\ r.rate = <<0, 1>>
        /\ r.onThis = EmptyBag /\ r.onCounterparty = EmptyBag
    BY NewChannelIs
  <1>2. /\ Out(e) = 0 /\ Done(e) = 0 /\ In(e) = 0 /\ channel[e].opened = 0
        /\ channel[e].active = 0 /\ escrow[e] = EmptyBag /\ minted[e] = EmptyBag
    BY NewCounts
  <1>3. Out(e)' = 0 /\ Done(e)' = 0 /\ In(e)' = 0
    BY <1>2, ChannelFrame
  <1>4. StatusOf(channel'[e].state) = "NOT_ESTABLISHED"
    BY DEF StatusOf
  <1>5. Mirrors(r.onCounterparty, e, escrow'[e])
    BY <1>1, <1>2, EmptyMirrors
  <1>6. r.rate = (IF r.relayOut > 0 THEN <<r.relayOutSuccess, r.relayOut>> ELSE <<0, 1>>)
    BY <1>1
  <1>7. RowMatches(e, r)'
    BY <1>1, <1>2, <1>3, <1>4, <1>5, <1>6 DEF RowMatches
  <1> QED
    BY <1>1, <1>7

\* The index inserts the channel.
LEMMA InsertMatches ==
    ASSUME NewEndsAreEmpty, NEW e \in Ends, channel[e].state = "none",
           connection[ChainOf(e)] # "none",
           UNCHANGED <<client, connection, packets, escrow, minted>>,
           \A g \in Ends : g # e => channel'[g] = channel[g],
           channel'[e].state \in {"INIT", "TRYOPEN"}, channel'[e].opened = channel[e].opened,
           channel'[e].active = channel[e].active,
           NEW ev, ev.type = "Channel", ev.id = e, ev.connection = ConnectionId(ChainOf(e)),
           ev.step \in {"OpenInit", "OpenTry"},
           NEW v, Matches(ChainOf(e), v), NEW w, w = InsertChannel(v, ev)
    PROVE  EventStep(v, ev, w) /\ Matches(ChainOf(e), w)'
  <1>1. PICK c : c = ChainOf(e)
    OBVIOUS
  <1>2. /\ IsView(v) /\ ~v.failed /\ ClientMatches(c, v) /\ ConnectionMatches(c, v)
        /\ RowsMatch(c, v) /\ TracesMatch(v) /\ OwnMatch(c, v) /\ c \in Chains /\ e \in EndsOf(c)
    BY <1>1, EndsAre DEF Matches
  <1>3. /\ ev.connection \in DOMAIN v.connections
        /\ v.connections[ev.connection].cpChain = Other(c)
    BY <1>1, <1>2 DEF ConnectionMatches
  <1>4. \A g : g \in DOMAIN v.channels <=> g \in EndsOf(c) /\ channel[g].state # "none"
    BY <1>2 DEF RowsMatch
  <1>5. ev.id \notin DOMAIN v.channels
    BY <1>4
  <1>6. PICK r : r = NewChannel(ev, Other(c))
    OBVIOUS
  <1>7. /\ IsView(w) /\ w.clients = v.clients /\ w.connections = v.connections
        /\ w.denoms = v.denoms /\ w.traces = v.traces /\ w.failed = v.failed
        /\ DOMAIN w.channels = DOMAIN v.channels \cup {e}
        /\ w.channels[e] = r
        /\ \A i \in DOMAIN v.channels : i # e => w.channels[i] = v.channels[i]
    BY <1>2, <1>3, <1>5, <1>6, ChannelIs
  <1>8. RowMatches(e, r)'
    BY <1>1, <1>6, StartMatches
  <1>9. Frame(e)
    BY ChannelFrame
  <1>10. \A g \in DOMAIN v.channels : g \in Ends /\ g # e
    BY <1>2, <1>4, <1>5, EndsAre
  <1>11. \A g \in DOMAIN w.channels : RowMatches(g, w.channels[g])'
    <2>1. \A g \in DOMAIN v.channels : RowMatches(g, w.channels[g])'
      BY <1>2, <1>7, <1>9, <1>10, RowRests DEF RowsMatch
    <2> QED
      BY <1>7, <1>8, <2>1
  <1>12. \A g : g \in DOMAIN w.channels <=> g \in EndsOf(c) /\ channel'[g].state # "none"
    <2>1. \A g \in EndsOf(c) : g \in Ends
      BY <1>2, EndsAre
    <2> QED
      BY <1>2, <1>4, <1>7, <2>1
  <1>13. \A g \in DOMAIN w.channels : DOMAIN minted'[g] \subseteq w.denoms
    <2>1. minted[e] = EmptyBag
      BY NewCounts
    <2>2. DOMAIN minted'[e] = {}
      BY <2>1, EmptyMirrors
    <2> QED
      BY <1>2, <1>7, <2>2 DEF RowsMatch
  <1>14. RowsMatch(c, w)'
    BY <1>11, <1>12, <1>13 DEF RowsMatch
  <1>15. ClientMatches(c, w)' /\ ConnectionMatches(c, w)'
    BY <1>1, <1>2, <1>7, <1>9, TablesStay
  <1>16. TracesMatch(w)'
    <2>1. \A g \in DOMAIN v.traces : /\ EnableTxMsgTrace /\ g \in DOMAIN v.channels
             /\ v.traces[g] = <<v.channels[g].onThis, v.channels[g].onCounterparty>>
      BY <1>2 DEF TracesMatch
    <2>2. \A g \in DOMAIN v.traces : w.channels[g] = v.channels[g] /\ g \in DOMAIN w.channels
      BY <1>7, <1>10, <2>1
    <2>3. \A g \in DOMAIN w.traces : /\ EnableTxMsgTrace /\ g \in DOMAIN w.channels
             /\ w.traces[g] = <<w.channels[g].onThis, w.channels[g].onCounterparty>>
      BY <1>7, <2>1, <2>2
    <2> QED
      BY <2>3 DEF TracesMatch
  <1>17. OwnMatch(c, w)'
    BY <1>2, <1>7 DEF OwnMatch
  <1>18. Matches(c, w)'
    BY <1>2, <1>7, <1>14, <1>15, <1>16, <1>17 DEF Matches
  <1>19. EventStep(v, ev, w)
    BY <1>2, <1>7 DEF EventStep, Ids
  <1> QED
    BY <1>1, <1>18, <1>19

\* The index opens the channel.
LEMMA OpenMatches ==
    ASSUME NEW e \in Ends, channel[e].state \in {"INIT", "TRYOPEN"},
           connection[ChainOf(e)] # "none",
           UNCHANGED <<client, connection, packets, escrow, minted>>,
           \A g \in Ends : g # e => channel'[g] = channel[g],
           NEW h, channel'[e].state = "OPEN", channel'[e].opened = h,
           channel'[e].active = channel[e].active,
           NEW ev, ev.id = e, ev.connection = ConnectionId(ChainOf(e)), ev.cpId = Counterparty(e),
           NEW v, Matches(ChainOf(e), v), NEW w, w = OpenChannel(v, ev, h)
    PROVE  EventStep(v, ev, w) /\ Matches(ChainOf(e), w)'
  <1>1. PICK c, row : c = ChainOf(e) /\ row = v.channels[e]
    OBVIOUS
  <1>2. c \in Chains /\ e \in EndsOf(c) /\ ConnectionMatches(c, v)
    BY <1>1, EndsAre DEF Matches
  <1>3. /\ e \in DOMAIN v.channels /\ IsView(v) /\ IsRow(row) /\ RowMatches(e, row)
    BY <1>1, <1>2, RowIsThere
  <1>4. /\ ev.connection \in DOMAIN v.connections
        /\ v.connections[ev.connection].cpChain = Other(c)
    BY <1>1, <1>2 DEF ConnectionMatches
  <1>5. PICK r : r = Opened(row, ev, Other(c), h)
    OBVIOUS
  <1>6. RowSet(v, w, e, r)
    BY <1>1, <1>3, <1>4, <1>5, OpenIs
  <1>7. /\ IsRow(r)
        /\ r.connection = ev.connection /\ r.cpChannel = ev.cpId
        /\ r.cpChain = Other(c) /\ r.status = "OPENED" /\ r.createdAt = h
        /\ r.lastActivity = row.lastActivity /\ r.lastOut = row.lastOut
        /\ r.relayIn = row.relayIn /\ r.relayOut = row.relayOut
        /\ r.relayOutSuccess = row.relayOutSuccess /\ r.rate = row.rate
        /\ r.onThis = row.onThis /\ r.onCounterparty = row.onCounterparty
    BY <1>3, <1>5, OpenedIs
  <1>8. Frame(e) /\ Out(e)' = Out(e) /\ Done(e)' = Done(e) /\ In(e)' = In(e)
    BY ChannelFrame
  <1>9. RowMatches(e, r)'
    <2>1. StatusOf(channel'[e].state) = "OPENED"
      BY DEF StatusOf
    <2>2. /\ row.lastActivity = channel[e].active
          /\ row.relayOut = Out(e) /\ row.lastOut = Out(e)
          /\ row.relayOutSuccess = Done(e) /\ row.relayIn = In(e)
          /\ row.rate = (IF row.relayOut > 0 THEN <<row.relayOutSuccess, row.relayOut>> ELSE <<0, 1>>)
          /\ row.onThis = minted[e] /\ Mirrors(row.onCounterparty, e, escrow[e])
      BY <1>3 DEF RowMatches
    <2>3. r.rate = (IF r.relayOut > 0 THEN <<r.relayOutSuccess, r.relayOut>> ELSE <<0, 1>>)
      BY <1>7, <2>2
    <2>4. Mirrors(r.onCounterparty, e, escrow'[e])
      BY <1>7, <2>2
    <2> QED
      BY <1>1, <1>7, <1>8, <2>1, <2>2, <2>3, <2>4 DEF RowMatches
  <1> QED
    BY <1>1, <1>2, <1>3, <1>6, <1>7, <1>8, <1>9, ChannelMatches

\* The index closes the channel.
LEMMA CloseMatches ==
    ASSUME NEW e \in Ends, channel[e].state = "OPEN",
           UNCHANGED <<client, connection, packets, escrow, minted>>,
           \A g \in Ends : g # e => channel'[g] = channel[g],
           NEW h, channel'[e].state = "CLOSED", channel'[e].opened = channel[e].opened,
           channel'[e].active = h, NEW ev, ev.id = e,
           NEW v, Matches(ChainOf(e), v), NEW w, w = CloseChannelRow(v, ev, h)
    PROVE  EventStep(v, ev, w) /\ Matches(ChainOf(e), w)'
  <1>1. PICK c, row : c = ChainOf(e) /\ row = v.channels[e]
    OBVIOUS
  <1>2. c \in Chains /\ e \in EndsOf(c)
    BY <1>1, EndsAre
  <1>3. /\ e \in DOMAIN v.channels /\ IsView(v) /\ IsRow(row) /\ RowMatches(e, row)
    BY <1>1, <1>2, RowIsThere
  <1>5. PICK r : r = Closed(row, h)
    OBVIOUS
  <1>6. RowSet(v, w, e, r)
    BY <1>1, <1>3, <1>5, CloseIs
  <1>7. /\ IsRow(r)
        /\ r.connection = row.connection /\ r.cpChannel = row.cpChannel
        /\ r.cpChain = row.cpChain /\ r.status = "CLOSED" /\ r.createdAt = row.createdAt
        /\ r.lastActivity = h /\ r.lastOut = row.lastOut
        /\ r.relayIn = row.relayIn /\ r.relayOut = row.relayOut
        /\ r.relayOutSuccess = row.relayOutSuccess
        /\ r.rate = row.rate /\ r.onThis = row.onThis
        /\ r.onCounterparty = row.onCounterparty
    BY <1>3, <1>5, ClosedIs
  <1>8. Frame(e) /\ Out(e)' = Out(e) /\ Done(e)' = Done(e) /\ In(e)' = In(e)
    BY ChannelFrame
  <1>9. RowMatches(e, r)'
    <2>1. StatusOf(channel'[e].state) = "CLOSED" /\ StatusOf(channel[e].state) = "OPENED"
      BY DEF StatusOf
    <2>2. /\ row.cpChain = Other(ChainOf(e)) /\ row.createdAt = channel[e].opened
          /\ row.status = StatusOf(channel[e].state)
          /\ row.relayOut = Out(e) /\ row.lastOut = Out(e)
          /\ row.relayOutSuccess = Done(e) /\ row.relayIn = In(e)
          /\ row.rate = (IF row.relayOut > 0 THEN <<row.relayOutSuccess, row.relayOut>> ELSE <<0, 1>>)
          /\ row.onThis = minted[e] /\ Mirrors(row.onCounterparty, e, escrow[e])
      BY <1>3 DEF RowMatches
    <2>3. row.cpChannel = Counterparty(e) /\ row.connection = ConnectionId(ChainOf(e))
      BY <1>3, <2>1 DEF RowMatches
    <2>4. r.rate = (IF r.relayOut > 0 THEN <<r.relayOutSuccess, r.relayOut>> ELSE <<0, 1>>)
      BY <1>7, <2>2
    <2>5. Mirrors(r.onCounterparty, e, escrow'[e])
      BY <1>7, <2>2
    <2> QED
      BY <1>7, <1>8, <2>1, <2>2, <2>3, <2>4, <2>5 DEF RowMatches
  <1> QED
    BY <1>1, <1>2, <1>3, <1>6, <1>7, <1>8, <1>9, ChannelMatches

\* What a channel's event keeps, if its index follows.
LEMMA ChannelKeeps ==
    ASSUME IInv, NEW e \in Ends, NEW step \in ChannelStep, NEW h \in Heights(ChainOf(e)),
           Emit(ChainOf(e), ChannelEvent(e, step), h),
           UNCHANGED <<client, connection, packets, held, escrow, minted>>,
           NEW x \in [state : ChannelStates, opened : Nat, active : Nat],
           channel' = [channel EXCEPT ![e] = x],
           step = "OpenTry" => channel[e].state \in {"none", "INIT"} /\ x.state = "TRYOPEN",
           x.state # "none", x.state = "INIT" => channel[e].state = "none",
           \/ x.state \in {"OPEN", "CLOSED"}
           \/ /\ channel[e].state \in {"none", "INIT"} /\ x.opened = channel[e].opened
              /\ x.active = channel[e].active,
           Advances(ChainOf(e), ChannelEvent(e, step), h)
    PROVE  IInv'
  <1>1. EndTypes /\ NewEndsAreEmpty /\ MoneyOK
    BY DEF IInv, ChainOK
  <1>2. channel'[e] = x /\ \A g \in Ends : g # e => channel'[g] = channel[g]
    BY <1>1 DEF EndTypes
  <1>3. EndTypes'
    <2>1. scope' = scope
      BY DEF Emit
    <2> QED
      BY <1>1, <2>1 DEF EndTypes
  <1>4. MoneyOK'
    BY <1>1, MoneyRests
  <1>5. NewEndsAreEmpty'
    <2>1. SUFFICES ASSUME NEW g \in Ends, channel'[g].state \notin {"OPEN", "CLOSED"}
                   PROVE  /\ channel'[g].opened = 0 /\ channel'[g].active = 0
                          /\ escrow[g] = EmptyBag /\ minted[g] = EmptyBag
                          /\ \A i \in DOMAIN packets : packets[i].src # g
                                /\ (packets[i].dst = g => packets[i].state \notin Reached)
      BY DEF NewEndsAreEmpty
    <2>2. /\ channel[g].state \notin {"OPEN", "CLOSED"} /\ channel'[g].opened = channel[g].opened
          /\ channel'[g].active = channel[g].active
      BY <1>2, <2>1
    <2> QED
      BY <1>1, <2>2 DEF NewEndsAreEmpty
  <1>6. PICK ev : ev = ChannelEvent(e, step)
    OBVIOUS
  <1>7. ev.type = "Channel" /\ ev.step = step /\ ev.id = e /\ ev \in Event
    <2>1. ev \in Event
      BY <1>6 DEF Event
    <2> QED
      BY <1>6, <2>1 DEF ChannelEvent
  <1>8. TryIsDue(ChainOf(e), ev) /\ TryHappens(ChainOf(e), ev) /\ GoesForward
    BY <1>2, <1>7 DEF TryIsDue, TryHappens, GoesForward
  <1>9. \A d \in Chains : d # ChainOf(e) => \A v : Matches(d, v) => Matches(d, v)'
    <2>1. SUFFICES ASSUME NEW d \in Chains, d # ChainOf(e), NEW v, Matches(d, v)
                   PROVE  Matches(d, v)'
      OBVIOUS
    <2>2. \A g \in EndsOf(d) : channel'[g] = channel[g]
      BY <1>2, <2>1, EndsAre
    <2> QED
      BY <2>1, <2>2, UnseenMatches
  <1>10. ChainOf(e) \in Chains
    BY EndsAre
  <1> QED
    BY <1>3, <1>4, <1>5, <1>6, <1>7, <1>8, <1>9, <1>10, EmitKeeps

\* ChannelHandshake keeps the invariant.
LEMMA ChannelHandshakeKeeps ==
    ASSUME IInv, NEW e \in Ends, ChannelHandshake(e)
    PROVE  IInv'
  <1>1. EndTypes /\ NewEndsAreEmpty
    BY DEF IInv, ChainOK
  <1>2. UNCHANGED <<client, connection, packets, held, escrow, minted>>
    BY DEF ChannelHandshake
  <1>3. PICK s \in Handshake(channel[e].state, channel[Counterparty(e)].state), h \in Heights(ChainOf(e)) :
            /\ IF s[1] = "OpenInit" THEN connection[ChainOf(e)] # "none" ELSE connection[ChainOf(e)] = "OPEN"
            /\ channel' = [channel EXCEPT ![e] = Moved(@, s[2], h)]
            /\ Emit(ChainOf(e), ChannelEvent(e, s[1]), h)
    BY DEF ChannelHandshake
  <1>4. \/ s[1] = "OpenInit" /\ s[2] = "INIT" /\ channel[e].state = "none"
        \/ s[1] = "OpenTry" /\ s[2] = "TRYOPEN" /\ channel[e].state \in {"none", "INIT"}
        \/ s[1] \in {"OpenAck", "OpenConfirm"} /\ s[2] = "OPEN" /\ channel[e].state \in {"INIT", "TRYOPEN"}
    BY HandshakeIs
  <1>5. h \in Nat /\ ChainOf(e) \in Chains
    <2>1. ChainOf(e) \in Chains /\ QueueTypes
      BY EndsAre DEF IInv, ChainOK
    <2>2. h \in {height[ChainOf(e)], height[ChainOf(e)] + 1} /\ height[ChainOf(e)] \in Nat
      BY <2>1 DEF Heights, QueueTypes
    <2> QED
      BY <2>1, <2>2
  <1>6. PICK y : y = channel[e]
    OBVIOUS
  <1>7. y \in [state : ChannelStates, opened : Nat, active : Nat]
    BY <1>1, <1>6 DEF EndTypes
  <1>8. PICK x : x = Moved(y, s[2], h)
    OBVIOUS
  <1>9. /\ x \in [state : ChannelStates, opened : Nat, active : Nat]
        /\ x.state = s[2] /\ x.opened = (IF s[2] = "OPEN" THEN h ELSE y.opened) /\ x.active = y.active
    <2>1. s[2] \in ChannelStates
      BY <1>4 DEF ChannelStates
    <2> QED
      BY <1>5, <1>7, <1>8, <2>1 DEF Moved
  <1>10. channel' = [channel EXCEPT ![e] = x]
    BY <1>3, <1>6, <1>8
  <1>11. channel'[e] = x /\ \A g \in Ends : g # e => channel'[g] = channel[g]
    BY <1>1, <1>10 DEF EndTypes
  <1>12. PICK ev : ev = ChannelEvent(e, s[1])
    OBVIOUS
  <1>13. /\ ev.type = "Channel" /\ ev.step = s[1] /\ ev.id = e /\ ev.connection = ConnectionId(ChainOf(e))
         /\ s[1] # "OpenInit" => ev.cpId = Counterparty(e)
    BY <1>12 DEF ChannelEvent
  <1>14. Advances(ChainOf(e), ev, h)
    <2>1. SUFFICES ASSUME NEW v, NEW w, Matches(ChainOf(e), v), w = HandleEvent(v, ev, h)
                   PROVE  EventStep(v, ev, w) /\ (~w.failed => Matches(ChainOf(e), w)')
      BY DEF Advances
    <2>2. /\ IsView(v) /\ ~v.failed /\ RowsMatch(ChainOf(e), v) /\ e \in EndsOf(ChainOf(e))
          /\ ConnectionMatches(ChainOf(e), v)
      BY <2>1, EndsAre DEF Matches
    <2>3. connection[ChainOf(e)] # "none"
      BY <1>3
    <2>4. CASE s[1] \in {"OpenInit", "OpenTry"} /\ s[2] \in {"INIT", "TRYOPEN"} /\ channel[e].state = "none"
      <3>1. w = InsertChannel(v, ev)
        BY <1>13, <2>1, <2>2, <2>4 DEF HandleEvent
      <3>2. /\ channel'[e].state \in {"INIT", "TRYOPEN"} /\ channel'[e].opened = channel[e].opened
            /\ channel'[e].active = channel[e].active
        BY <1>6, <1>9, <1>11, <2>4
      <3> QED
        BY <1>1, <1>2, <1>11, <1>13, <2>1, <2>3, <2>4, <3>1, <3>2, InsertMatches
    <2>5. CASE s[1] = "OpenTry" /\ channel[e].state = "INIT"
      <3>1. w = InsertChannel(v, ev)
        BY <1>13, <2>1, <2>2, <2>5 DEF HandleEvent
      <3>2. ev.id \in DOMAIN v.channels
        BY <1>13, <2>2, <2>5 DEF RowsMatch
      <3>3. w = Stop(v) /\ w.failed
        BY <2>2, <3>1, <3>2, StopIs DEF InsertChannel
      <3> QED
        BY <1>13, <2>5, <3>2, <3>3 DEF EventStep, Tries, Ids
    <2>6. CASE s[1] \in {"OpenAck", "OpenConfirm"} /\ s[2] = "OPEN" /\ channel[e].state \in {"INIT", "TRYOPEN"}
      <3>1. w = OpenChannel(v, ev, h)
        BY <1>13, <2>1, <2>2, <2>6 DEF HandleEvent
      <3>2. /\ channel'[e].state = "OPEN" /\ channel'[e].opened = h
            /\ channel'[e].active = channel[e].active
        BY <1>6, <1>9, <1>11, <2>6
      <3>3. ev.cpId = Counterparty(e)
        BY <1>13, <2>6
      <3> QED
        BY <1>2, <1>11, <1>13, <2>1, <2>3, <2>6, <3>1, <3>2, <3>3, OpenMatches
    <2> QED
      BY <1>4, <2>4, <2>5, <2>6
  <1>15. s[1] \in ChannelStep
    BY <1>4 DEF ChannelStep
  <1>16. s[1] = "OpenTry" => channel[e].state \in {"none", "INIT"} /\ x.state = "TRYOPEN"
    BY <1>4, <1>9
  <1>17. /\ x.state # "none" /\ (x.state = "INIT" => channel[e].state = "none")
         /\ \/ x.state \in {"OPEN", "CLOSED"}
            \/ /\ channel[e].state \in {"none", "INIT"} /\ x.opened = channel[e].opened
               /\ x.active = channel[e].active
    BY <1>4, <1>6, <1>9
  <1> QED
    BY <1>2, <1>3, <1>9, <1>10, <1>12, <1>14, <1>15, <1>16, <1>17, ChannelKeeps

\* CloseChannel keeps the invariant.
LEMMA CloseChannelKeeps ==
    ASSUME IInv, NEW e \in Ends, CloseChannel(e)
    PROVE  IInv'
  <1>1. EndTypes /\ NewEndsAreEmpty
    BY DEF IInv, ChainOK
  <1>2. /\ UNCHANGED <<client, connection, packets, held, escrow, minted>>
        /\ channel[e].state = "OPEN"
    BY DEF CloseChannel
  <1>3. PICK step \in {"CloseInit", "CloseConfirm"}, h \in Heights(ChainOf(e)) :
            /\ channel' = [channel EXCEPT ![e] = [@ EXCEPT !.state = "CLOSED", !.active = h]]
            /\ Emit(ChainOf(e), ChannelEvent(e, step), h)
    BY DEF CloseChannel
  <1>5. h \in Nat
    <2>1. ChainOf(e) \in Chains /\ QueueTypes
      BY EndsAre DEF IInv, ChainOK
    <2>2. h \in {height[ChainOf(e)], height[ChainOf(e)] + 1} /\ height[ChainOf(e)] \in Nat
      BY <2>1 DEF Heights, QueueTypes
    <2> QED
      BY <2>1, <2>2
  <1>6. PICK y : y = channel[e]
    OBVIOUS
  <1>7. y \in [state : ChannelStates, opened : Nat, active : Nat]
    BY <1>1, <1>6 DEF EndTypes
  <1>8. PICK x : x = [y EXCEPT !.state = "CLOSED", !.active = h]
    OBVIOUS
  <1>9. /\ x \in [state : ChannelStates, opened : Nat, active : Nat]
        /\ x.state = "CLOSED" /\ x.opened = y.opened /\ x.active = h
    BY <1>5, <1>7, <1>8 DEF ChannelStates
  <1>10. channel' = [channel EXCEPT ![e] = x]
    BY <1>3, <1>6, <1>8
  <1>11. channel'[e] = x /\ \A g \in Ends : g # e => channel'[g] = channel[g]
    BY <1>1, <1>10 DEF EndTypes
  <1>12. PICK ev : ev = ChannelEvent(e, step)
    OBVIOUS
  <1>13. ev.type = "Channel" /\ ev.step = step /\ ev.id = e
    BY <1>12 DEF ChannelEvent
  <1>14. Advances(ChainOf(e), ev, h)
    <2>1. SUFFICES ASSUME NEW v, NEW w, Matches(ChainOf(e), v), w = HandleEvent(v, ev, h)
                   PROVE  EventStep(v, ev, w) /\ Matches(ChainOf(e), w)'
      BY DEF Advances
    <2>2. ~v.failed
      BY <2>1 DEF Matches
    <2>3. w = CloseChannelRow(v, ev, h)
      BY <1>13, <2>1, <2>2 DEF HandleEvent
    <2>4. /\ channel'[e].state = "CLOSED" /\ channel'[e].opened = channel[e].opened
          /\ channel'[e].active = h
      BY <1>6, <1>9, <1>11
    <2> QED
      BY <1>2, <1>11, <1>13, <2>1, <2>3, <2>4, CloseMatches
  <1>15. step \in ChannelStep /\ step # "OpenTry"
    BY DEF ChannelStep
  <1> QED
    BY <1>2, <1>3, <1>9, <1>10, <1>12, <1>14, <1>15, ChannelKeeps

-----------------------------------------------------------------------------
(* The initial states *)

\* The accounts are right before the first packet.
LEMMA InitMoney ==
    ASSUME Init
    PROVE  MoneyOK
  <1>1. /\ packets = << >> /\ held = [c \in Chains |-> Tokens(<<c>>, Supply)]
        /\ escrow = [e \in Ends |-> EmptyBag] /\ minted = [e \in Ends |-> EmptyBag]
    BY DEF Init
  <1>2. IsPurse(EmptyBag) /\ DOMAIN EmptyBag = {}
    BY EmptyMirrors DEF IsPurse
  <1>3. \A e \in Ends : escrow[e] = EmptyBag /\ minted[e] = EmptyBag
    BY <1>1
  <1>4. \A c \in Chains : IsPurse(held[c]) /\ \A d : Len(d) > 1 => Amount(d, held[c]) = 0
    <2>1. SUFFICES ASSUME NEW c \in Chains
                   PROVE  IsPurse(held[c]) /\ \A d : Len(d) > 1 => Amount(d, held[c]) = 0
      OBVIOUS
    <2>2. <<c>> \in Paths /\ Len(<<c>>) = 1
      BY DEF Paths
    <2>3. PICK x : x = <<c>>
      OBVIOUS
    <2>4. held[c] = [d \in {x} |-> Supply]
      BY <1>1, <2>3 DEF Tokens
    <2>5. IsPurse(held[c])
      BY <2>2, <2>3, <2>4, IBCAssumption DEF IsPurse, IsBag
    <2>6. ASSUME NEW d, Len(d) > 1 PROVE d # x
      <3>1. Len(x) = 1 /\ ~(1 > 1)
        BY <2>2, <2>3
      <3>2. ASSUME d = x PROVE FALSE
        BY <2>6, <3>1, <3>2
      <3> QED
        BY <3>2
    <2>7. \A d : Len(d) > 1 => Amount(d, held[c]) = 0
      BY <2>4, <2>6 DEF Amount
    <2> QED
      BY <2>5, <2>7
  <1>5. MoneyTypes
    <2>1. packets \in Seq(Packet) /\ DOMAIN packets = {}
      BY <1>1
    <2>2. held = [c \in Chains |-> held[c]] /\ escrow = [e \in Ends |-> escrow[e]]
          /\ minted = [e \in Ends |-> minted[e]]
      BY <1>1
    <2> QED
      BY <1>2, <1>3, <1>4, <2>1, <2>2 DEF MoneyTypes
  <1>6. VouchersAreMarked
    BY <1>2, <1>3 DEF VouchersAreMarked
  <1>7. \A x : Amount(x, EmptyBag) = 0
    BY <1>2 DEF Amount
  <1>8. EscrowBacksVouchers
    <2>1. SUFFICES ASSUME NEW e \in Ends, NEW d \in Paths
                   PROVE  Amount(d, escrow[e]) =
                             Amount(<<Counterparty(e)>> \o d, minted[Counterparty(e)])
                             + InFlight(packets, e, d)
      BY DEF EscrowBacksVouchers
    <2>2. InFlight(packets, e, d) = 0
      BY <1>1, SumOfNone DEF InFlight
    <2>3. Counterparty(e) \in Ends
      BY EndsAre
    <2> QED
      BY <1>3, <1>7, <2>2, <2>3
  <1>9. VouchersAreHeld
    <2>1. SUFFICES ASSUME NEW e \in Ends, NEW d \in Paths, ReturnsThrough(d, e)
                   PROVE  Amount(d, held[ChainOf(e)]) + InEscrow(escrow, ChainOf(e), d)
                             = Amount(d, minted[e])
      BY DEF VouchersAreHeld
    <2>2. PICK c : c = ChainOf(e)
      OBVIOUS
    <2>3. c \in Chains /\ Len(d) > 1
      BY <2>1, <2>2, EndsAre DEF ReturnsThrough
    <2>4. InEscrow(escrow, c, d) = 0
      <3>1. PICK N, s : N = EndCount(c) /\ s = [i \in 1..N |-> Amount(d, escrow[EndSeq(c)[i]])]
        OBVIOUS
      <3>2. N \in Nat /\ \A i \in 1..N : EndSeq(c)[i] \in EndsOf(c)
        BY <2>3, <3>1, EndsAreFinite
      <3>3. \A i \in 1..N : EndSeq(c)[i] \in Ends
        BY <2>3, <3>2, EndsAre
      <3>4. \A i \in 1..N : s[i] = 0
        BY <1>3, <1>7, <3>1, <3>3
      <3>5. s \in [1..N -> Int]
        BY <3>1, <3>4
      <3> QED
        BY <3>1, <3>2, <3>4, <3>5, SumOfZeros DEF InEscrow
    <2> QED
      BY <1>3, <1>4, <1>7, <2>2, <2>3, <2>4
  <1> QED
    BY <1>5, <1>6, <1>8, <1>9 DEF MoneyOK

\* No packets are counted before the first.
LEMMA InitCounts ==
    ASSUME packets = << >>, NEW e
    PROVE  Out(e) = 0 /\ Done(e) = 0 /\ In(e) = 0
  BY CountOfNone DEF Out, Done, In

\* An index that has followed nothing
LEMMA EmptyMatches ==
    ASSUME NEW c \in Chains, client = {}, connection = [d \in Chains |-> "none"],
           \A e \in Ends : channel[e].state = "none", packets = << >>
    PROVE  Matches(c, EmptyView)
  <1>1. /\ EmptyView.clients = << >> /\ EmptyView.connections = << >> /\ EmptyView.channels = << >>
        /\ EmptyView.traces = << >> /\ EmptyView.failed = FALSE
    BY DEF EmptyView
  <1>2. DOMAIN << >> = {} /\ IsTable(<< >>)
    BY DEF IsTable
  <1>3. IsView(EmptyView)
    BY <1>1, <1>2 DEF IsView, EmptyView
  <1>4. ClientMatches(c, EmptyView) /\ ConnectionMatches(c, EmptyView)
    BY <1>1, <1>2 DEF ClientMatches, ConnectionMatches
  <1>5. RowsMatch(c, EmptyView) /\ TracesMatch(EmptyView) /\ OwnMatch(c, EmptyView)
    <2>1. \A e \in EndsOf(c) : e \in Ends
      BY EndsAre
    <2>2. DOMAIN packets = {}
      OBVIOUS
    <2> QED
      BY <1>1, <1>2, <2>1, <2>2 DEF RowsMatch, TracesMatch, OwnMatch
  <1> QED
    BY <1>1, <1>3, <1>4, <1>5 DEF Matches

\* The row of a channel that was open at the beginning
LEMMA OpenRowMatches ==
    ASSUME packets = << >>, NEW e \in Ends, channel[e] = [state |-> "OPEN", opened |-> 1, active |-> 0],
           escrow[e] = EmptyBag, minted[e] = EmptyBag, NEW step, NEW last, last # "OpenInit",
           NEW r, r = Opened(NewChannel(ChannelEvent(e, step), Other(ChainOf(e))),
                             ChannelEvent(e, last), Other(ChainOf(e)), 1)
    PROVE  RowMatches(e, r) /\ IsRow(r)
  <1>1. PICK ev, chain, row : ev = ChannelEvent(e, last) /\ chain = Other(ChainOf(e))
            /\ row = NewChannel(ChannelEvent(e, step), Other(ChainOf(e)))
    OBVIOUS
  <1>2. ev.cpId = Counterparty(e) /\ ev.connection = ConnectionId(ChainOf(e))
    BY <1>1 DEF ChannelEvent
  <1>3. /\ IsRow(row) /\ row.lastActivity = 0 /\ row.lastOut = 0 /\ row.relayIn = 0
        /\ row.relayOut = 0 /\ row.relayOutSuccess = 0 /\ row.rate = <<0, 1>>
        /\ row.onThis = EmptyBag /\ row.onCounterparty = EmptyBag
    BY <1>1, NewChannelIs
  <1>4. r = Opened(row, ev, chain, 1)
    BY <1>1
  <1>5. /\ IsRow(r)
        /\ r.connection = ev.connection /\ r.cpChannel = ev.cpId
        /\ r.cpChain = chain /\ r.status = "OPENED" /\ r.createdAt = 1
        /\ r.lastActivity = row.lastActivity /\ r.lastOut = row.lastOut
        /\ r.relayIn = row.relayIn /\ r.relayOut = row.relayOut
        /\ r.relayOutSuccess = row.relayOutSuccess /\ r.rate = row.rate
        /\ r.onThis = row.onThis /\ r.onCounterparty = row.onCounterparty
    BY <1>3, <1>4, OpenedIs
  <1>6. Out(e) = 0 /\ Done(e) = 0 /\ In(e) = 0
    BY InitCounts
  <1>7. StatusOf(channel[e].state) = "OPENED" /\ channel[e].opened = 1 /\ channel[e].active = 0
    BY DEF StatusOf
  <1>8. Mirrors(r.onCounterparty, e, escrow[e])
    BY <1>3, <1>5, EmptyMirrors
  <1>9. r.rate = (IF r.relayOut > 0 THEN <<r.relayOutSuccess, r.relayOut>> ELSE <<0, 1>>)
    BY <1>3, <1>5
  <1> QED
    BY <1>1, <1>2, <1>3, <1>5, <1>6, <1>7, <1>8, <1>9 DEF RowMatches

\* An index that has followed the handshakes of established channels matches its chain.
LEMMA EstablishedMatches ==
    ASSUME Init, scope.established, NEW c \in Chains
    PROVE  Matches(c, Established(c))
  <1>1. /\ scope \in Scopes /\ client = Chains /\ connection = [d \in Chains |-> "OPEN"]
        /\ channel = [e \in Ends |-> IF \E p \in scope.pairs : p[ChainOf(e)] = e
                                     THEN [state |-> "OPEN", opened |-> 1, active |-> 0]
                                     ELSE [state |-> "none", opened |-> 0, active |-> 0]]
        /\ packets = << >>
        /\ escrow = [e \in Ends |-> EmptyBag] /\ minted = [e \in Ends |-> EmptyBag]
    BY DEF Init
  <1>2. PICK first, last :
            /\ <<first, last>> = (IF c = CHOOSE d \in Chains : TRUE
                                  THEN <<"OpenInit", "OpenAck">> ELSE <<"OpenTry", "OpenConfirm">>)
            /\ last # "OpenInit"
    OBVIOUS
  <1>3. PICK v0, v1, v2 :
            /\ v0 = InsertClient(EmptyView, CreateClientEvent(c))
            /\ v1 = InsertConnection(v0, ConnectionEvent(c, first))
            /\ v2 = UpdateConnection(v1, ConnectionEvent(c, last))
    OBVIOUS
  <1>4. PICK rows : rows = [e \in {p[c] : p \in scope.pairs} |->
                Opened(NewChannel(ChannelEvent(e, first), Other(c)), ChannelEvent(e, last), Other(c), 1)]
    OBVIOUS
  <1>5. Established(c) = [v2 EXCEPT !.channels = rows]
    <2>1. PICK steps : steps = (IF c = CHOOSE d \in Chains : TRUE
                                  THEN <<"OpenInit", "OpenAck">> ELSE <<"OpenTry", "OpenConfirm">>)
      OBVIOUS
    <2>2. first = steps[1] /\ last = steps[2]
      BY <1>2, <2>1
    <2>3. Established(c) = [v2 EXCEPT !.channels = [e \in {p[c] : p \in scope.pairs} |->
                UpdateStatus(UpdateFactualColumns(NewChannel(ChannelEvent(e, first), Other(c)),
                                                  ChannelEvent(e, last), Other(c), 1), "OPENED")]]
      BY <1>3, <2>1, <2>2 DEF Established
    <2> QED
      BY <1>4, <2>3 DEF Opened
  <1>6. /\ IsView(v0) /\ v0.connections = << >> /\ v0.denoms = {} /\ v0.traces = << >> /\ v0.failed = FALSE
        /\ DOMAIN v0.clients = {ClientId(c)} /\ v0.clients[ClientId(c)] = Other(c)
    <2>1. PICK ev : ev = CreateClientEvent(c)
      OBVIOUS
    <2>2. ev.client = ClientId(c) /\ ev.chain = Other(c)
      BY <2>1 DEF CreateClientEvent
    <2>3. /\ EmptyView.clients = << >> /\ EmptyView.connections = << >> /\ EmptyView.channels = << >>
          /\ EmptyView.traces = << >> /\ EmptyView.failed = FALSE /\ EmptyView.denoms = {}
      BY DEF EmptyView
    <2>4. DOMAIN << >> = {} /\ IsTable(<< >>)
      BY DEF IsTable
    <2>5. IsView(EmptyView)
      BY <2>3, <2>4 DEF IsView, EmptyView
    <2>6. ev.client \notin DOMAIN EmptyView.clients
      BY <2>3, <2>4
    <2>7. /\ IsView(v0) /\ v0.connections = << >> /\ v0.denoms = {} /\ v0.traces = << >>
          /\ v0.failed = FALSE /\ v0.clients = With(<< >>, ev.client, ev.chain)
      BY <1>3, <2>1, <2>3, <2>5, <2>6, ClientIs
    <2>8. DOMAIN v0.clients = {ev.client} /\ v0.clients[ev.client] = ev.chain
      BY <2>4, <2>7 DEF With
    <2> QED
      BY <2>2, <2>7, <2>8
  <1>7. /\ IsView(v1) /\ v1.clients = v0.clients /\ v1.denoms = {} /\ v1.traces = << >>
        /\ v1.failed = FALSE /\ DOMAIN v1.connections = {ConnectionId(c)}
    <2>1. PICK ev : ev = ConnectionEvent(c, first)
      OBVIOUS
    <2>2. ev.client = ClientId(c) /\ ev.id = ConnectionId(c)
      BY <2>1 DEF ConnectionEvent
    <2>3. DOMAIN v0.connections = {} /\ ev.client \in DOMAIN v0.clients /\ v1 = InsertConnection(v0, ev)
      BY <1>3, <1>6, <2>1, <2>2
    <2>4. /\ IsView(v1) /\ v1.clients = v0.clients
          /\ v1.denoms = v0.denoms /\ v1.traces = v0.traces /\ v1.failed = v0.failed
          /\ DOMAIN v1.connections = DOMAIN v0.connections \cup {ev.id}
      BY <1>6, <2>3, ConnectionIs
    <2> QED
      BY <1>6, <2>2, <2>3, <2>4
  <1>8. /\ IsView(v2) /\ v2.clients = v0.clients /\ v2.denoms = {} /\ v2.traces = << >>
        /\ v2.failed = FALSE /\ DOMAIN v2.connections = {ConnectionId(c)}
        /\ v2.connections[ConnectionId(c)].cpChain = Other(c)
    <2>1. PICK ev : ev = ConnectionEvent(c, last)
      OBVIOUS
    <2>2. ev.client = ClientId(c) /\ ev.id = ConnectionId(c)
      BY <2>1 DEF ConnectionEvent
    <2>3. ev.id \in DOMAIN v1.connections /\ ev.client \in DOMAIN v1.clients /\ v2 = UpdateConnection(v1, ev)
      BY <1>3, <1>6, <1>7, <2>1, <2>2
    <2>4. /\ IsView(v2) /\ v2.clients = v1.clients
          /\ v2.denoms = v1.denoms /\ v2.traces = v1.traces /\ v2.failed = v1.failed
          /\ DOMAIN v2.connections = DOMAIN v1.connections \cup {ev.id}
          /\ v2.connections[ev.id].cpChain = v1.clients[ev.client]
      BY <1>7, <2>3, ConnectionIs
    <2> QED
      BY <1>6, <1>7, <2>2, <2>4
  <1>9. PICK v : v = Established(c)
    OBVIOUS
  <1>10. \A e \in DOMAIN rows : /\ e \in EndsOf(c) /\ e \in Ends /\ ChainOf(e) = c
            /\ channel[e] = [state |-> "OPEN", opened |-> 1, active |-> 0]
    <2>1. SUFFICES ASSUME NEW p \in scope.pairs
                   PROVE  /\ p[c] \in EndsOf(c) /\ p[c] \in Ends /\ ChainOf(p[c]) = c
                          /\ channel[p[c]] = [state |-> "OPEN", opened |-> 1, active |-> 0]
      BY <1>4
    <2>2. p \in Pairs
      BY <1>1, IBCAssumption
    <2>3. p[c] \in EndsOf(c) /\ p[c] \in Ends /\ ChainOf(p[c]) = c
      BY <2>2, EndIs
    <2> QED
      BY <1>1, <2>3
  <1>11. \A e \in DOMAIN rows : RowMatches(e, rows[e]) /\ IsRow(rows[e])
    <2>1. SUFFICES ASSUME NEW e \in DOMAIN rows
                   PROVE  RowMatches(e, rows[e]) /\ IsRow(rows[e])
      OBVIOUS
    <2>2. rows[e] = Opened(NewChannel(ChannelEvent(e, first), Other(c)), ChannelEvent(e, last), Other(c), 1)
      BY <1>4
    <2>3. escrow[e] = EmptyBag /\ minted[e] = EmptyBag
      BY <1>1, <1>10
    <2>4. PICK r : r = rows[e]
      OBVIOUS
    <2>5. /\ e \in Ends /\ channel[e] = [state |-> "OPEN", opened |-> 1, active |-> 0]
          /\ r = Opened(NewChannel(ChannelEvent(e, first), Other(ChainOf(e))),
                        ChannelEvent(e, last), Other(ChainOf(e)), 1)
      BY <1>10, <2>2, <2>4
    <2>6. RowMatches(e, r) /\ IsRow(r)
      BY <1>1, <1>2, <2>3, <2>5, OpenRowMatches
    <2> QED
      BY <2>4, <2>6
  <1>12. /\ v.clients = v2.clients /\ v.connections = v2.connections /\ v.channels = rows
         /\ v.denoms = {} /\ v.traces = << >> /\ v.failed = FALSE /\ IsView(v)
    <2>1. v = [v2 EXCEPT !.channels = rows]
      BY <1>5, <1>9
    <2>2. v2 = [clients |-> v2.clients, connections |-> v2.connections, channels |-> v2.channels,
                denoms |-> v2.denoms, traces |-> v2.traces, failed |-> v2.failed]
          /\ IsTable(v2.clients) /\ IsTable(v2.connections) /\ IsTable(v2.traces)
      BY <1>8 DEF IsView
    <2>3. v = [clients |-> v2.clients, connections |-> v2.connections, channels |-> rows,
               denoms |-> v2.denoms, traces |-> v2.traces, failed |-> v2.failed]
      BY <2>1, <2>2
    <2>4. /\ v.clients = v2.clients /\ v.connections = v2.connections /\ v.channels = rows
          /\ v.denoms = v2.denoms /\ v.traces = v2.traces /\ v.failed = v2.failed
      BY <2>3
    <2>5. IsTable(rows)
      BY <1>4 DEF IsTable
    <2>6. IsView(v)
      BY <1>11, <2>2, <2>3, <2>4, <2>5 DEF IsView
    <2> QED
      BY <1>8, <2>4, <2>6
  <1>13. ClientMatches(c, v) /\ ConnectionMatches(c, v)
    BY <1>1, <1>6, <1>8, <1>12 DEF ClientMatches, ConnectionMatches
  <1>14. RowsMatch(c, v)
    <2>1. ASSUME NEW e \in EndsOf(c), channel[e].state # "none"
          PROVE  e \in DOMAIN rows
      <3>1. e \in Ends /\ ChainOf(e) = c
        BY EndsAre
      <3>2. \E p \in scope.pairs : p[c] = e
        BY <1>1, <2>1, <3>1
      <3> QED
        BY <1>4, <3>2
    <2>2. \A e : e \in DOMAIN rows <=> e \in EndsOf(c) /\ channel[e].state # "none"
      BY <1>10, <2>1
    <2>3. \A e \in DOMAIN rows : DOMAIN minted[e] = {}
      BY <1>1, <1>10, EmptyMirrors
    <2> QED
      BY <1>11, <1>12, <2>2, <2>3 DEF RowsMatch
  <1>15. TracesMatch(v) /\ OwnMatch(c, v)
    <2>1. DOMAIN packets = {} /\ DOMAIN v.traces = {}
      BY <1>1, <1>12
    <2> QED
      BY <2>1 DEF TracesMatch, OwnMatch
  <1> QED
    BY <1>9, <1>12, <1>13, <1>14, <1>15 DEF Matches

-----------------------------------------------------------------------------
(* The invariant *)

\* The first indexes match their chains.
LEMMA InitView ==
    ASSUME Init, NEW c \in Chains
    PROVE  ViewOK(c)
  <1>1. queue[c] = << >> /\ Len(queue[c]) = 0
    BY DEF Init
  <1>2. Matches(c, view[c])
    <2>1. CASE scope.established
      <3>1. view[c] = Established(c)
        BY <2>1 DEF Init
      <3> QED
        BY <2>1, <3>1, EstablishedMatches
    <2>2. CASE ~scope.established
      <3>1. view[c] = EmptyView /\ client = {} /\ connection = [d \in Chains |-> "none"] /\ packets = << >>
        BY <2>2 DEF Init
      <3>2. \A e \in Ends : channel[e].state = "none"
        BY <2>2 DEF Init
      <3> QED
        BY <3>1, <3>2, EmptyMatches
    <2> QED
      BY <2>1, <2>2
  <1>3. ~view[c].failed
    BY <1>2 DEF Matches
  <1>4. PICK s : s = [k \in 0..0 |-> view[c]]
    OBVIOUS
  <1>5. s[0] = view[c] /\ s = [k \in 0..0 |-> s[k]]
    BY <1>4
  <1>6. Trail(queue[c], height[c], view[c], s)
    <2>1. \A k \in 1..Len(queue[c]) : FALSE
      BY <1>1
    <2> QED
      BY <1>1, <1>5, <2>1 DEF Trail
  <1>7. Matches(c, s[Len(queue[c])])
    BY <1>1, <1>2, <1>5
  <1> QED
    BY <1>3, <1>6, <1>7 DEF ViewOK

\* The initial states satisfy the invariant.
LEMMA InitIInv == Init => IInv
  <1> SUFFICES ASSUME Init PROVE IInv
    OBVIOUS
  <1>1. /\ scope \in Scopes /\ client \in {Chains, {}}
        /\ connection = [c \in Chains |-> IF scope.established THEN "OPEN" ELSE "none"]
        /\ channel = [e \in Ends |->
              IF scope.established /\ \E p \in scope.pairs : p[ChainOf(e)] = e
              THEN [state |-> "OPEN", opened |-> 1, active |-> 0]
              ELSE [state |-> "none", opened |-> 0, active |-> 0]]
        /\ packets = << >> /\ escrow = [e \in Ends |-> EmptyBag] /\ minted = [e \in Ends |-> EmptyBag]
        /\ height = [c \in Chains |-> IF scope.established THEN 1 ELSE 0]
        /\ queue = [c \in Chains |-> << >>]
    BY DEF Init
  <1>2. EndTypes
    <2>1. connection \in [Chains -> ConnectionStates]
      BY <1>1 DEF ConnectionStates
    <2>2. channel \in [Ends -> [state : ChannelStates, opened : Nat, active : Nat]]
      BY <1>1 DEF ChannelStates
    <2> QED
      BY <1>1, <2>1, <2>2 DEF EndTypes
  <1>3. QueueTypes
    BY <1>1 DEF QueueTypes
  <1>4. NewEndsAreEmpty
    <2>1. SUFFICES ASSUME NEW e \in Ends, channel[e].state \notin {"OPEN", "CLOSED"}
                   PROVE  /\ channel[e].opened = 0 /\ channel[e].active = 0
                          /\ escrow[e] = EmptyBag /\ minted[e] = EmptyBag
      BY <1>1 DEF NewEndsAreEmpty
    <2>2. channel[e] = [state |-> "none", opened |-> 0, active |-> 0]
      BY <1>1, <2>1
    <2> QED
      BY <1>1, <2>2
  <1>5. TriesAreOver
    <2>1. \A c \in Chains : EventsOf(queue[c]) = {}
      BY <1>1 DEF EventsOf
    <2> QED
      BY <2>1 DEF TriesAreOver
  <1>6. view = [c \in Chains |-> view[c]]
    BY DEF Init
  <1> QED
    BY <1>2, <1>3, <1>4, <1>5, <1>6, InitMoney, InitView DEF IInv, ChainOK

\* HandleEvents keeps the invariant: what is left is a trail of fewer blocks.
LEMMA HandleKeeps ==
    ASSUME IInv, NEW c \in Chains, HandleEvents(c)
    PROVE  IInv'
  <1>1. /\ EndTypes /\ QueueTypes /\ NewEndsAreEmpty /\ TriesAreOver /\ MoneyOK
        /\ view = [d \in Chains |-> view[d]] /\ \A d \in Chains : ViewOK(d)
    BY DEF IInv, ChainOK
  <1>2. /\ view' = [view EXCEPT ![c] = Handled(c)] /\ queue[c] # << >>
        /\ queue' = [queue EXCEPT ![c] = Tail(queue[c])]
        /\ UNCHANGED <<scope, client, connection, channel, packets, held, escrow, minted, height>>
    BY DEF HandleEvents, chainVars
  <1>3. EndTypes' /\ NewEndsAreEmpty'
    BY <1>1, <1>2 DEF EndTypes, NewEndsAreEmpty
  <1>4. MoneyOK'
    BY <1>1, <1>2, MoneyRests
  <1>5. QueueTypes' /\ \A d \in Chains : ViewOK(d)'
    BY <1>1, HandleKeepsView
  <1>6. TriesAreOver'
    <2>1. queue \in [Chains -> Seq(Seq(Event))]
      BY <1>1 DEF QueueTypes
    <2>2. PICK q, rest : q = queue[c] /\ rest = Tail(queue[c])
      OBVIOUS
    <2>3. \A k \in DOMAIN rest : k + 1 \in DOMAIN q /\ rest[k] = q[k + 1]
      BY <1>2, <2>1, <2>2
    <2>4. EventsOf(rest) \subseteq EventsOf(q)
      BY <2>3 DEF EventsOf
    <2>5. \A d \in Chains : EventsOf(queue'[d]) \subseteq EventsOf(queue[d])
      BY <1>2, <2>1, <2>2, <2>4
    <2>6. SUFFICES ASSUME NEW d \in Chains, NEW x \in EventsOf(queue'[d])
                   PROVE  /\ x.type = "Connection" /\ x.step = "OpenTry" =>
                                connection[d] \in {"TRYOPEN", "OPEN"}
                          /\ x.type = "Channel" /\ x.step = "OpenTry" =>
                                x.id \in Ends /\ channel[x.id].state \notin {"none", "INIT"}
      BY <1>2 DEF TriesAreOver, EventsOf
    <2>7. x \in EventsOf(queue[d])
      BY <2>5
    <2> QED
      BY <1>1, <2>7 DEF TriesAreOver
  <1>7. view' = [d \in Chains |-> view'[d]]
    BY <1>1, <1>2
  <1> QED
    BY <1>3, <1>4, <1>5, <1>6, <1>7 DEF IInv, ChainOK

\* A stutter keeps the invariant.
LEMMA StutterKeeps ==
    ASSUME IInv, UNCHANGED vars
    PROVE  IInv'
  <1>1. /\ EndTypes /\ QueueTypes /\ NewEndsAreEmpty /\ TriesAreOver /\ MoneyOK
        /\ view = [d \in Chains |-> view[d]] /\ \A d \in Chains : ViewOK(d)
    BY DEF IInv, ChainOK
  <1>2. UNCHANGED <<scope, client, connection, channel, packets, held, escrow, minted, height, queue, view>>
    BY DEF vars, chainVars
  <1>3. EndTypes' /\ NewEndsAreEmpty' /\ QueueTypes' /\ TriesAreOver'
    BY <1>1, <1>2 DEF EndTypes, NewEndsAreEmpty, QueueTypes, TriesAreOver, EventsOf
  <1>4. MoneyOK'
    BY <1>1, <1>2, MoneyRests
  <1>5. \A d \in Chains : ViewOK(d)'
    BY <1>1, <1>2, MatchesStay, OthersRest
  <1> QED
    BY <1>1, <1>2, <1>3, <1>4, <1>5 DEF IInv, ChainOK

\* Every step of a chain or of an index keeps the invariant.
LEMMA NextIInv == IInv /\ [Next]_vars => IInv'
  <1> SUFFICES ASSUME IInv, [Next]_vars PROVE IInv'
    OBVIOUS
  <1>1. ASSUME NEW c \in Chains, HandleEvents(c) PROVE IInv'
    BY <1>1, HandleKeeps
  <1>2. ASSUME NEW c \in Chains, CreateClient(c) PROVE IInv'
    BY <1>2, CreateClientKeeps
  <1>3. ASSUME NEW c \in Chains, ConnectionHandshake(c) PROVE IInv'
    BY <1>3, ConnectionKeeps
  <1>4. ASSUME NEW e \in Ends, ChannelHandshake(e) PROVE IInv'
    BY <1>4, ChannelHandshakeKeeps
  <1>5. ASSUME NEW e \in Ends, CloseChannel(e) PROVE IInv'
    BY <1>5, CloseChannelKeeps
  <1>6. ASSUME NEW e \in Ends, NEW amount \in scope.amounts,
               NEW denom \in BagToSet(held[ChainOf(e)]), SendTransfer(e, denom, amount)
        PROVE  IInv'
    BY <1>6, SendKeeps
  <1>7. ASSUME NEW i \in DOMAIN packets, RecvPacket(i) PROVE IInv'
    BY <1>7, RecvPacketKeeps
  <1>8. ASSUME NEW i \in DOMAIN packets, RecvPacketFails(i) PROVE IInv'
    BY <1>8, RecvPacketFailsKeeps
  <1>9. ASSUME NEW i \in DOMAIN packets, Acknowledgement(i) PROVE IInv'
    BY <1>9, AcknowledgementKeeps
  <1>10. ASSUME NEW i \in DOMAIN packets, Timeout(i) PROVE IInv'
    BY <1>10, TimeoutKeeps
  <1>11. CASE UNCHANGED vars
    BY <1>11, StutterKeeps
  <1> QED
    BY <1>1, <1>2, <1>3, <1>4, <1>5, <1>6, <1>7, <1>8, <1>9, <1>10, <1>11 DEF Next

\* The tables an index will have, once it has handled every block, match its chain; or one
\* of the blocks stops it.
THEOREM Invariance == Spec => []IInv
  BY InitIInv, NextIInv, PTL DEF Spec

-----------------------------------------------------------------------------
(* The properties *)

\* An index that has caught up matches its chain.
LEMMA CaughtUpMatches ==
    ASSUME IInv, NEW c \in Chains, CaughtUp(c)
    PROVE  Matches(c, view[c])
  <1>1. ViewOK(c) /\ Len(queue[c]) = 0
    BY DEF IInv, CaughtUp
  <1>2. PICK s : /\ Trail(queue[c], height[c], view[c], s)
                 /\ s[Len(queue[c])].failed \/ Matches(c, s[Len(queue[c])])
    BY <1>1 DEF ViewOK
  <1>3. s[0] = view[c] /\ ~view[c].failed
    BY <1>1, <1>2 DEF Trail, ViewOK
  <1> QED
    BY <1>1, <1>2, <1>3

\* The row of a channel of an index that has caught up is right.
LEMMA RowIsRight ==
    ASSUME IInv, NEW c \in Chains, CaughtUp(c), NEW e \in DOMAIN Rows(c)
    PROVE  /\ RowMatches(e, FindBy(view[c], e)) /\ DOMAIN minted[e] \subseteq view[c].denoms
           /\ e \in EndsOf(c) /\ e \in Ends /\ ChainOf(e) = c /\ channel[e].state # "none"
  <1>1. RowsMatch(c, view[c])
    BY CaughtUpMatches DEF Matches
  <1>2. /\ RowMatches(e, FindBy(view[c], e)) /\ DOMAIN minted[e] \subseteq view[c].denoms
        /\ e \in EndsOf(c) /\ channel[e].state # "none"
    BY <1>1 DEF RowsMatch, Rows, FindBy
  <1> QED
    BY <1>2, EndsAre

\* The invariant implies the counts of packets.
LEMMA RelayCountsAreRight == IInv => RelayCountsMatch
  <1> SUFFICES ASSUME IInv, NEW c \in Chains, CaughtUp(c), NEW e \in DOMAIN Rows(c)
               PROVE  LET row == FindBy(view[c], e)
                          count(end, states) ==
                              Cardinality({i \in DOMAIN packets :
                                             packets[i][end] = e /\ packets[i].state \in states})
                          settled == {"acknowledged", "returned", "timedOut"}
                          pending == {"sent", "received", "failed"}
                      IN  /\ row.relayOut = count("src", settled \cup pending)
                          /\ row.relayOutSuccess = count("src", settled)
                          /\ row.relayIn = count("dst", {"received", "failed", "acknowledged", "returned"})
                          /\ row.lastOut = row.relayOut
                          /\ row.rate = IF row.relayOut = 0 THEN <<0, 1>>
                                        ELSE <<row.relayOutSuccess, row.relayOut>>
    BY DEF RelayCountsMatch
  <1>1. PICK row : row = FindBy(view[c], e)
    OBVIOUS
  <1>2. RowMatches(e, row)
    BY <1>1, RowIsRight
  <1>3. packets \in Seq(Packet)
    BY DEF IInv, ChainOK, MoneyOK, MoneyTypes
  <1>4. /\ row.relayOut = Out(e) /\ row.lastOut = Out(e) /\ row.relayOutSuccess = Done(e)
        /\ row.relayIn = In(e)
        /\ row.rate = (IF row.relayOut > 0 THEN <<row.relayOutSuccess, row.relayOut>> ELSE <<0, 1>>)
    BY <1>2 DEF RowMatches
  <1>5. row.relayOut \in Nat
    BY <1>3, <1>4, WhichIsFinite DEF Out
  <1>6. row.rate = IF row.relayOut = 0 THEN <<0, 1>> ELSE <<row.relayOutSuccess, row.relayOut>>
    BY <1>4, <1>5
  <1>7. {"acknowledged", "returned", "timedOut"} \cup {"sent", "received", "failed"} = PacketStates
    BY DEF PacketStates
  <1>8. Out(e) = Cardinality({i \in DOMAIN packets :
            packets[i]["src"] = e /\ packets[i].state \in
                {"acknowledged", "returned", "timedOut"} \cup {"sent", "received", "failed"}})
    BY <1>7 DEF Out, Count, Which
  <1>9. Done(e) = Cardinality({i \in DOMAIN packets :
            packets[i]["src"] = e /\ packets[i].state \in {"acknowledged", "returned", "timedOut"}})
    BY DEF Done, Count, Which, Over
  <1>10. In(e) = Cardinality({i \in DOMAIN packets :
            packets[i]["dst"] = e /\
            packets[i].state \in {"received", "failed", "acknowledged", "returned"}})
    BY DEF In, Count, Which, Reached
  <1> QED
    BY <1>1, <1>4, <1>6, <1>8, <1>9, <1>10

\* The invariant implies the bonded tokens.
LEMMA BondedTokensAreRight == IInv => BondedTokensMatchChain
  <1> SUFFICES ASSUME IInv, NEW c \in Chains, CaughtUp(c), NEW e \in DOMAIN Rows(c)
               PROVE  /\ FindBy(view[c], e).onThis = minted[e]
                      /\ DOMAIN FindBy(view[c], e).onCounterparty =
                            {<<Counterparty(e)>> \o d : d \in DOMAIN escrow[e]}
                      /\ \A d \in DOMAIN escrow[e] :
                            FindBy(view[c], e).onCounterparty[<<Counterparty(e)>> \o d] = escrow[e][d]
                      /\ DOMAIN minted[e] \subseteq ListAllDenoms(view[c])
                      /\ e \in DOMAIN view[c].traces => view[c].traces[e] =
                            <<FindBy(view[c], e).onThis, FindBy(view[c], e).onCounterparty>>
    BY DEF BondedTokensMatchChain
  <1>1. PICK row, B : row = FindBy(view[c], e) /\ B = row.onCounterparty
    OBVIOUS
  <1>2. RowMatches(e, row) /\ DOMAIN minted[e] \subseteq view[c].denoms /\ e \in Ends
    BY <1>1, RowIsRight
  <1>3. row.onThis = minted[e] /\ Mirrors(B, e, escrow[e])
    BY <1>1, <1>2 DEF RowMatches
  <1>4. IsBag(escrow[e]) /\ DOMAIN escrow[e] \subseteq Paths
    BY <1>2 DEF IInv, ChainOK, MoneyOK, MoneyTypes, IsPurse
  <1>5. PICK k : k = Counterparty(e)
    OBVIOUS
  <1>6. /\ IsBag(B) /\ \A x \in DOMAIN B : \E d \in Paths : x = <<k>> \o d
        /\ \A d \in Paths : Amount(<<k>> \o d, B) = Amount(d, escrow[e])
    BY <1>3, <1>5 DEF Mirrors
  <1>7. \A x : x \in DOMAIN B <=> Amount(x, B) > 0
    BY <1>6, AmountIsNat
  <1>8. \A d : d \in DOMAIN escrow[e] <=> Amount(d, escrow[e]) > 0
    BY <1>4, AmountIsNat
  <1>9. ASSUME NEW d \in DOMAIN escrow[e]
        PROVE  <<k>> \o d \in DOMAIN B /\ B[<<k>> \o d] = escrow[e][d]
    <2>1. PICK x : x = <<k>> \o d
      OBVIOUS
    <2>2. Amount(x, B) = Amount(d, escrow[e])
      BY <1>4, <1>6, <2>1
    <2>3. x \in DOMAIN B
      BY <1>7, <1>8, <2>2
    <2>4. B[x] = escrow[e][d]
      BY <2>2, <2>3 DEF Amount
    <2> QED
      BY <2>1, <2>3, <2>4
  <1>10. ASSUME NEW x \in DOMAIN B
         PROVE  \E d \in DOMAIN escrow[e] : x = <<k>> \o d
    <2>1. PICK d \in Paths : x = <<k>> \o d
      BY <1>6
    <2>2. Amount(x, B) = Amount(d, escrow[e])
      BY <1>6, <2>1
    <2>3. d \in DOMAIN escrow[e]
      BY <1>7, <1>8, <2>2
    <2> QED
      BY <2>1, <2>3
  <1>11. DOMAIN B = {<<k>> \o d : d \in DOMAIN escrow[e]}
    BY <1>9, <1>10
  <1>12. e \in DOMAIN view[c].traces => view[c].traces[e] = <<row.onThis, row.onCounterparty>>
    <2>1. TracesMatch(view[c])
      BY CaughtUpMatches DEF Matches
    <2> QED
      BY <1>1, <2>1 DEF TracesMatch, FindBy
  <1> QED
    BY <1>1, <1>2, <1>3, <1>5, <1>9, <1>11, <1>12 DEF ListAllDenoms

\* The invariant implies that only a look-alike or an identifier used twice stops an index.
LEMMA StopsAreExcused == IInv => StopsOnlyAtLookalikes
  <1> SUFFICES ASSUME IInv, NEW c \in Chains, ~CaughtUp(c), Handled(c).failed
               PROVE  \E ev \in ToSet(Head(queue[c])) : Lookalike(ev) \/ ReusesIdentifier(c, ev)
    BY DEF StopsOnlyAtLookalikes
  <1>1. /\ QueueTypes /\ ViewOK(c) /\ queue[c] # << >>
    BY DEF IInv, ChainOK, CaughtUp
  <1>2. PICK q, H : q = queue[c] /\ H = height[c]
    OBVIOUS
  <1>3. q \in Seq(Seq(Event)) /\ q # << >>
    BY <1>1, <1>2 DEF QueueTypes
  <1>4. PICK s : Trail(q, H, view[c], s)
    BY <1>1, <1>2 DEF ViewOK
  <1>5. 1 \in 1..Len(q) /\ 1 - 1 = 0 /\ q[1] = Head(q)
    BY <1>3
  <1>6. s[0] = view[c] /\ ~view[c].failed
    BY <1>1, <1>4 DEF Trail, ViewOK
  <1>7. /\ s[1] = HandleBlock(s[1 - 1], q[1], H - Len(q) + 1)
        /\ ~s[1 - 1].failed => BlockStep(s[1 - 1], q[1], s[1])
    BY <1>4, <1>5 DEF Trail
  <1>8. s[1] = Handled(c)
    BY <1>2, <1>5, <1>6, <1>7 DEF Handled
  <1>9. BlockStep(view[c], Head(q), Handled(c))
    BY <1>5, <1>6, <1>7, <1>8
  <1>10. PICK ev \in ToSet(Head(q)) : Excuse(view[c], Head(q), ev)
    BY <1>9 DEF BlockStep
  <1>11. CASE Lookalike(ev)
    BY <1>2, <1>11
  <1>12. CASE Tries(ev) /\ (ev.id \in Ids(view[c], ev.type) \/ Starts(Head(q), ev.type, "OpenInit", ev.id))
    <2>1. ReusesIdentifier(c, ev)
      BY <1>2, <1>12 DEF ReusesIdentifier, Tries, Ids, Starts, Rows
    <2> QED
      BY <1>2, <2>1
  <1> QED
    BY <1>10, <1>11, <1>12 DEF Excuse

-----------------------------------------------------------------------------
(* The list of channels *)

\* A list of a set, the greatest key first
Sorted(found, key, f) ==
    /\ f \in [1..Cardinality(found) -> found]
    /\ \A e \in found : \E i \in DOMAIN f : f[i] = e
    /\ \A i, j \in DOMAIN f : i < j => key[f[i]] >= key[f[j]]

\* A finite set can be listed so.
LEMMA SortedExists ==
    ASSUME NEW found, IsFiniteSet(found), NEW key, \A e \in found : key[e] \in Nat
    PROVE  \E f : Sorted(found, key, f)
  <1> DEFINE N == Cardinality(found)
             S == {n \in 0..N : \A T \in SUBSET found :
                        Cardinality(T) = n => \E f : Sorted(T, key, f)}
  <1>1. N \in Nat
    BY FS_CardinalityType
  <1>2. 0 \in S
    <2>1. ASSUME NEW T \in SUBSET found, Cardinality(T) = 0 PROVE \E f : Sorted(T, key, f)
      <3>1. T = {}
        BY <2>1, FS_EmptySet, FS_Subset
      <3>2. Sorted(T, key, [i \in 1..0 |-> 0])
        BY <2>1, <3>1 DEF Sorted
      <3> QED
        BY <3>2
    <2> QED
      BY <1>1, <2>1
  <1>3. ASSUME NEW n \in 1..N, n - 1 \in S PROVE n \in S
    <2>1. ASSUME NEW T \in SUBSET found, Cardinality(T) = n PROVE \E f : Sorted(T, key, f)
      <3>1. IsFiniteSet(T) /\ T # {}
        BY <2>1, FS_EmptySet, FS_Subset
      <3>2. PICK x \in T : \A e \in T : key[x] <= key[e]
        <4> DEFINE K == {key[e] : e \in T}
        <4>1. K \subseteq Nat /\ K # {}
          BY <3>1
        <4>2. PICK k \in K : \A m \in K : k <= m
          <5> HIDE DEF K
          <5> QED
            BY <4>1, LeastNumber
        <4> QED
          BY <4>2
      <3>3. PICK U : U = T \ {x}
        OBVIOUS
      <3>4. U \in SUBSET found /\ Cardinality(U) = n - 1
        <4>1. Cardinality(T \ {x}) = IF x \in T THEN Cardinality(T) - 1 ELSE Cardinality(T)
          BY <3>1, FS_RemoveElement
        <4> QED
          BY <2>1, <3>2, <3>3, <4>1
      <3>5. PICK g : Sorted(U, key, g)
        BY <1>3, <3>4
      <3>6. /\ g \in [1..(n - 1) -> U] /\ \A e \in U : \E i \in 1..(n - 1) : g[i] = e
            /\ \A i, j \in 1..(n - 1) : i < j => key[g[i]] >= key[g[j]]
        <4>1. DOMAIN g = 1..(n - 1)
          BY <3>4, <3>5 DEF Sorted
        <4> QED
          BY <3>4, <3>5, <4>1 DEF Sorted
      <3> DEFINE f == [i \in 1..n |-> IF i = n THEN x ELSE g[i]]
      <3>7. f \in [1..n -> T]
        BY <3>2, <3>3, <3>6
      <3>8. ASSUME NEW e \in T PROVE \E i \in 1..n : f[i] = e
        <4>1. CASE e = x
          BY <4>1
        <4>2. CASE e # x
          <5>1. PICK i \in 1..(n - 1) : g[i] = e
            BY <3>3, <3>6, <4>2
          <5>2. i \in 1..n /\ i # n
            OBVIOUS
          <5> QED
            BY <5>1, <5>2
        <4> QED
          BY <4>1, <4>2
      <3>9. ASSUME NEW i \in 1..n, NEW j \in 1..n, i < j PROVE key[f[i]] >= key[f[j]]
        <4>1. i \in 1..(n - 1) /\ f[i] = g[i] /\ g[i] \in T
          BY <3>3, <3>6, <3>9
        <4>2. CASE j = n
          <5>1. key[x] <= key[g[i]] /\ key[x] \in Nat /\ key[g[i]] \in Nat
            BY <3>2, <4>1
          <5> QED
            BY <4>1, <4>2, <5>1
        <4>3. CASE j # n
          BY <3>6, <3>9, <4>1, <4>3
        <4> QED
          BY <4>2, <4>3
      <3> HIDE DEF f
      <3>10. Sorted(T, key, f)
        <4>1. DOMAIN f = 1..n
          BY <3>7
        <4> QED
          BY <2>1, <3>7, <3>8, <3>9, <4>1 DEF Sorted
      <3> QED
        BY <3>10
    <2> QED
      BY <2>1
  <1>4. \A n \in 0..N : n \in S
    <2> HIDE DEF S, N
    <2> QED
      BY <1>1, <1>2, <1>3, UpTo
  <1> QED
    BY <1>1, <1>4

Found(v, statuses) == {e \in DOMAIN v.channels : v.channels[e].status \in statuses}

Lists(l, v, found) ==
    /\ l \in [1..Cardinality(found) -> found]
    /\ \A e \in found : \E i \in DOMAIN l : l[i] = e
    /\ \A i, j \in DOMAIN l : i < j =>
          v.channels[l[i]].lastActivity >= v.channels[l[j]].lastActivity

\* What List returns.
LEMMA ListIs ==
    ASSUME NEW v, NEW statuses, IsFiniteSet(Found(v, statuses)),
           \A e \in Found(v, statuses) : v.channels[e].lastActivity \in Nat
    PROVE  Lists(List(v, statuses), v, Found(v, statuses))
  <1>0. PICK found : found = Found(v, statuses)
    OBVIOUS
  <1> DEFINE key == [e \in found |-> v.channels[e].lastActivity]
             P(l) == /\ \A e \in found : \E i \in DOMAIN l : l[i] = e
                     /\ \A i, j \in DOMAIN l : i < j =>
                          v.channels[l[i]].lastActivity >= v.channels[l[j]].lastActivity
             D == [1..Cardinality(found) -> found]
  <1>1. PICK f : Sorted(found, key, f)
    <2>1. \A e \in found : key[e] \in Nat
      BY <1>0
    <2>2. IsFiniteSet(found)
      BY <1>0
    <2> HIDE DEF key
    <2> QED
      BY <2>1, <2>2, SortedExists
  <1>2. f \in D /\ P(f)
    <2>1. \A i \in DOMAIN f : f[i] \in found
      BY <1>1 DEF Sorted
    <2> QED
      BY <1>1, <2>1 DEF Sorted
  <1>3. List(v, statuses) = CHOOSE l \in D : P(l)
    BY <1>0 DEF List, Found
  <1>4. (CHOOSE l \in D : P(l)) \in D /\ P(CHOOSE l \in D : P(l))
    <2> HIDE DEF D, P
    <2> QED
      BY <1>2
  <1>5. PICK l : l = List(v, statuses)
    OBVIOUS
  <1>6. l \in D /\ P(l)
    <2> HIDE DEF D, P
    <2> QED
      BY <1>3, <1>4, <1>5
  <1> QED
    BY <1>0, <1>5, <1>6 DEF Lists

OneGroup(l, d) == [x \in (IF l = << >> THEN {} ELSE {d}) |-> l]

\* Rows of one chain are grouped under it, in the order of the list.
LEMMA GroupsAre ==
    ASSUME NEW v, NEW statuses, NEW d, List(v, statuses) \in Seq(DOMAIN v.channels),
           \A i \in DOMAIN List(v, statuses) : v.channels[List(v, statuses)[i]].cpChain = d
    PROVE  ListChannelsGroupByChainId(v, statuses) = OneGroup(List(v, statuses), d)
  <1>0. PICK l : l = List(v, statuses)
    OBVIOUS
  <1> DEFINE N == Len(l)
             Step(g, n) ==
                LET chain == v.channels[l[n]].cpChain
                    group == IF chain \in DOMAIN g THEN g[chain] ELSE << >>
                IN  With(g, chain, Append(group, l[n]))
             Is(f) == f = [n \in 0..N |-> IF n = 0 THEN << >> ELSE Step(f[n - 1], n)]
             G(n) == [x \in (IF n = 0 THEN {} ELSE {d}) |-> SubSeq(l, 1, n)]
  <1>1. N \in Nat /\ DOMAIN l = 1..N /\ l \in Seq(DOMAIN v.channels)
    BY <1>0
  <1>2. \A n \in 1..N : Step(G(n - 1), n) = G(n)
    <2> SUFFICES ASSUME NEW n \in 1..N PROVE Step(G(n - 1), n) = G(n)
      OBVIOUS
    <2>1. v.channels[l[n]].cpChain = d
      BY <1>0, <1>1
    <2>2. SubSeq(l, 1, n) = Append(SubSeq(l, 1, n - 1), l[n]) /\ SubSeq(l, 1, 0) = << >>
      BY <1>1
    <2>3. (IF d \in DOMAIN G(n - 1) THEN G(n - 1)[d] ELSE << >>) = SubSeq(l, 1, n - 1)
      <3>1. CASE n = 1
        BY <2>2, <3>1
      <3>2. CASE n # 1
        BY <3>2
      <3> QED
        BY <3>1, <3>2
    <2>4. Step(G(n - 1), n) = With(G(n - 1), d, SubSeq(l, 1, n))
      BY <2>1, <2>2, <2>3
    <2>5. DOMAIN G(n - 1) \cup {d} = {d}
      OBVIOUS
    <2>6. With(G(n - 1), d, SubSeq(l, 1, n)) = [x \in {d} |-> SubSeq(l, 1, n)]
      BY <2>5 DEF With
    <2> QED
      BY <2>4, <2>6
  <1>3. PICK f : f = [n \in 0..N |-> G(n)]
    OBVIOUS
  <1>4. << >> = G(0)
    OBVIOUS
  <1>5. Is(f)
    <2>1. ASSUME NEW n \in 0..N PROVE f[n] = IF n = 0 THEN << >> ELSE Step(f[n - 1], n)
      <3>1. CASE n = 0
        BY <1>3, <1>4, <3>1
      <3>2. CASE n # 0
        <4>1. n \in 1..N /\ n - 1 \in 0..N
          BY <1>1, <3>2
        <4>2. f[n] = G(n) /\ f[n - 1] = G(n - 1)
          BY <1>3, <4>1
        <4> HIDE DEF G, Step
        <4> QED
          BY <1>2, <3>2, <4>1, <4>2
      <3> QED
        BY <3>1, <3>2
    <2> HIDE DEF G, Step
    <2>2. f = [n \in 0..N |-> f[n]]
      BY <1>3
    <2> QED
      BY <2>1, <2>2
  <1> DEFINE groups == CHOOSE g : Is(g)
  <1>6. Is(groups)
    BY <1>5
  <1>7. ListChannelsGroupByChainId(v, statuses) = groups[N]
    BY <1>0 DEF ListChannelsGroupByChainId
  <1> HIDE DEF groups
  <1> DEFINE T == {n \in 0..N : groups[n] = G(n)}
  <1>8. 0 \in T
    BY <1>1, <1>4, <1>6
  <1>9. ASSUME NEW n \in 1..N, n - 1 \in T PROVE n \in T
    <2>1. n \in 0..N /\ n # 0
      OBVIOUS
    <2>2. groups[n] = Step(groups[n - 1], n)
      <3> HIDE DEF Step, G
      <3> QED
        BY <1>6, <2>1
    <2> HIDE DEF Step, G
    <2> QED
      BY <1>2, <1>9, <2>1, <2>2
  <1>10. \A n \in 0..N : n \in T
    <2> HIDE DEF T, N
    <2> QED
      BY <1>1, <1>8, <1>9, UpTo
  <1>11. groups[N] = G(N)
    <2> HIDE DEF G, N
    <2>1. N \in 0..N
      BY <1>1
    <2>2. N \in T
      BY <1>10, <2>1
    <2> QED
      BY <2>2
  <1>12. G(N) = [x \in (IF l = << >> THEN {} ELSE {d}) |-> l]
    <2>1. SubSeq(l, 1, N) = l /\ (l = << >> <=> N = 0)
      BY <1>1
    <2> QED
      BY <2>1
  <1> QED
    BY <1>0, <1>7, <1>11, <1>12 DEF OneGroup

\* An index that has caught up lists every open channel, newest activity first.
LEMMA ChannelRowsAreRight == IInv => ChannelRowsMatchChain
  <1> SUFFICES ASSUME IInv, NEW c \in Chains, CaughtUp(c)
               PROVE  LET open == {e \in EndsOf(c) : channel[e].state = "OPEN"}
                          listed == List(view[c], {"OPENED"})
                      IN  /\ DOMAIN Rows(c) = {e \in EndsOf(c) : channel[e].state # "none"}
                          /\ \A e \in DOMAIN Rows(c) : LET row == FindBy(view[c], e) IN
                              /\ row.status = CASE channel[e].state = "OPEN" -> "OPENED"
                                                [] channel[e].state = "CLOSED" -> "CLOSED"
                                                [] OTHER -> "NOT_ESTABLISHED"
                              /\ row.cpChain = Other(c) /\ row.createdAt = channel[e].opened
                              /\ row.lastActivity = channel[e].active
                              /\ row.status # "NOT_ESTABLISHED" =>
                                      row.cpChannel = Counterparty(e) /\ row.connection = ConnectionId(c)
                          /\ ToSet(listed) = open /\ Len(listed) = Cardinality(open)
                          /\ \A i, j \in DOMAIN listed :
                                  i < j => channel[listed[i]].active >= channel[listed[j]].active
                          /\ ListChannelsGroupByChainId(view[c], {"OPENED"}) =
                                  [d \in (IF open = {} THEN {} ELSE {Other(c)}) |-> listed]
    BY DEF ChannelRowsMatchChain
  <1> DEFINE open == {e \in EndsOf(c) : channel[e].state = "OPEN"}
  <1>1. PICK v : v = view[c]
    OBVIOUS
  <1>2. RowsMatch(c, v) /\ Rows(c) = v.channels
    BY <1>1, CaughtUpMatches DEF Matches, Rows
  <1>3. DOMAIN Rows(c) = {e \in EndsOf(c) : channel[e].state # "none"}
    BY <1>2 DEF RowsMatch
  <1>4. ASSUME NEW e \in DOMAIN v.channels
        PROVE  /\ RowMatches(e, v.channels[e]) /\ ChainOf(e) = c /\ e \in EndsOf(c)
               /\ channel[e].active \in Nat
    <2>1. /\ RowMatches(e, FindBy(view[c], e)) /\ e \in Ends /\ ChainOf(e) = c /\ e \in EndsOf(c)
      BY <1>2, RowIsRight
    <2>2. channel[e].active \in Nat
      BY <2>1 DEF IInv, ChainOK, EndTypes
    <2> QED
      BY <1>1, <2>1, <2>2 DEF FindBy
  <1>5. ASSUME NEW e \in DOMAIN Rows(c), NEW row, row = FindBy(view[c], e)
        PROVE  /\ row.status = CASE channel[e].state = "OPEN" -> "OPENED"
                                  [] channel[e].state = "CLOSED" -> "CLOSED"
                                  [] OTHER -> "NOT_ESTABLISHED"
               /\ row.cpChain = Other(c) /\ row.createdAt = channel[e].opened
               /\ row.lastActivity = channel[e].active
               /\ row.status # "NOT_ESTABLISHED" =>
                       row.cpChannel = Counterparty(e) /\ row.connection = ConnectionId(c)
    <2>1. e \in DOMAIN v.channels /\ row = v.channels[e]
      BY <1>1, <1>2, <1>5 DEF FindBy
    <2> QED
      BY <1>4, <2>1 DEF RowMatches, StatusOf
  <1>6. open = {e \in DOMAIN v.channels : v.channels[e].status \in {"OPENED"}}
    <2>1. \A e \in DOMAIN v.channels :
              v.channels[e].status = StatusOf(channel[e].state) /\ e \in EndsOf(c)
      BY <1>4 DEF RowMatches
    <2>2. \A e \in open : e \in DOMAIN v.channels
      BY <1>2 DEF RowsMatch
    <2>3. \A state : StatusOf(state) = "OPENED" <=> state = "OPEN"
      BY DEF StatusOf
    <2> QED
      BY <2>1, <2>2, <2>3
  <1>7. IsFiniteSet(open) /\ Cardinality(open) \in Nat
    <2>1. IsFiniteSet(EndsOf(c)) /\ open \in SUBSET EndsOf(c)
      BY EndsAreFinite
    <2> HIDE DEF open
    <2> QED
      BY <2>1, FS_Subset, FS_CardinalityType
  <1>8. open \subseteq DOMAIN v.channels
    BY <1>6
  <1> HIDE DEF open
  <1>9. \A e \in open : /\ v.channels[e].lastActivity = channel[e].active
                       /\ v.channels[e].lastActivity \in Nat /\ v.channels[e].cpChain = Other(c)
    BY <1>4, <1>8 DEF RowMatches
  <1>10. PICK opened, found, listed :
            opened = {"OPENED"} /\ found = open /\ listed = List(v, opened)
    OBVIOUS
  <1>11. Lists(List(v, opened), v, found)
    <2>1. found = Found(v, opened)
      BY <1>6, <1>10 DEF Found
    <2>2. IsFiniteSet(Found(v, opened))
      BY <1>7, <1>10, <2>1
    <2>3. \A e \in Found(v, opened) : v.channels[e].lastActivity \in Nat
      BY <1>9, <1>10, <2>1
    <2> QED
      BY <2>1, <2>2, <2>3, ListIs
  <1>12. /\ listed \in [1..Cardinality(open) -> open]
         /\ \A e \in open : \E i \in DOMAIN listed : listed[i] = e
         /\ \A i, j \in DOMAIN listed : i < j =>
               v.channels[listed[i]].lastActivity >= v.channels[listed[j]].lastActivity
    BY <1>10, <1>11 DEF Lists
  <1>13. listed \in Seq(open) /\ Len(listed) = Cardinality(open)
         /\ DOMAIN listed = 1..Cardinality(open) /\ \A i \in DOMAIN listed : listed[i] \in open
    <2>1. PICK n \in Nat : n = Cardinality(open)
      BY <1>7
    <2>2. listed \in [1..n -> open]
      BY <1>12, <2>1
    <2>3. listed \in Seq(open)
      BY <2>2, SeqDef
    <2>4. Len(listed) = n
      BY <2>2, <2>3, LenProperties
    <2> QED
      BY <2>1, <2>2, <2>3, <2>4
  <1>14. ToSet(listed) = open
    BY <1>12, <1>13 DEF ToSet
  <1>15. \A i, j \in DOMAIN listed : i < j => channel[listed[i]].active >= channel[listed[j]].active
    BY <1>9, <1>12, <1>13
  <1>16. listed = << >> <=> open = {}
    <2>1. listed = << >> <=> Cardinality(open) = 0
      BY <1>7, <1>13
    <2> QED
      BY <1>7, <2>1, FS_EmptySet
  <1>17. ListChannelsGroupByChainId(v, {"OPENED"}) =
            [d \in (IF open = {} THEN {} ELSE {Other(c)}) |-> listed]
    <2>1. \A i \in DOMAIN listed : v.channels[listed[i]].cpChain = Other(c)
      BY <1>9, <1>13
    <2>2. PICK d : d = Other(c)
      OBVIOUS
    <2>3. List(v, opened) \in Seq(DOMAIN v.channels)
      <3>1. listed \in Seq(DOMAIN v.channels)
        BY <1>8, <1>13, SeqMonotonic
      <3> QED
        BY <1>10, <3>1
    <2>4. \A i \in DOMAIN List(v, opened) : v.channels[List(v, opened)[i]].cpChain = d
      BY <1>10, <2>1, <2>2
    <2>5. ListChannelsGroupByChainId(v, opened) = OneGroup(List(v, opened), d)
      BY <2>3, <2>4, GroupsAre
    <2> QED
      BY <1>10, <1>16, <2>2, <2>5 DEF OneGroup
  <1> QED
    BY <1>1, <1>3, <1>5, <1>10, <1>13, <1>14, <1>15, <1>17 DEF open

-----------------------------------------------------------------------------
(* The properties of the runs *)

\* On an index that has caught up the counts of a channel are those of its packets, whatever
\* the order of transfers, receipts, acknowledgements and timeouts (HandleEvents of ibc_channel).
THEOREM RelayCounts == Spec => []RelayCountsMatch
  BY Invariance, RelayCountsAreRight, PTL

\* On an index that has caught up the bonded tokens of a channel are the vouchers and the
\* escrow of its end, refunds and tokens on their way back included, and a trace shows them
\* (updateBondedTokensWhenMsgIBCTransfer, updateBondedTokensWhenMsgIBCRecvPacket and
\* revertUpdateBondedTokensWhenMsgIBCTransfer).
THEOREM BondedTokens == Spec => []BondedTokensMatchChain
  BY Invariance, BondedTokensAreRight, PTL

\* On an index that has caught up the rows of the channels show their states, and the list of
\* those that are open, grouped or not, is complete and sorted (List, ListChannelsGroupByChainId).
THEOREM ChannelRows == Spec => []ChannelRowsMatchChain
  BY Invariance, ChannelRowsAreRight, PTL

\* An index stops only on a token whose first channel starts like the one it is sent over, or
\* on an identifier that a crossing OpenTry uses again: the chain's accounts are such that no
\* subtraction of the index finds too little (SubtractOnThisChain, SubtractOnCounterpartyChain).
THEOREM OnlyLookalikesStop == Spec => []StopsOnlyAtLookalikes
  BY Invariance, StopsAreExcused, PTL

=============================================================================
