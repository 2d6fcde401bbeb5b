-------------------------------- MODULE Coins --------------------------------
(***************************************************************************)
(* Sets of coins (usecase/coin): sequences of a denom and an amount, one   *)
(* per denom, kept in the order of the denoms and without zero amounts,    *)
(* which addition merges and a lookup searches by halves.  A denom is a    *)
(* number, in the order of the names.  Decimal coins (dec_coin.go) are the *)
(* same with their amounts in units of the smallest decimal.  A loop is a  *)
(* function of the number of its turns.                                    *)
(***************************************************************************)
EXTENDS Integers, Sequences

Coin(denom, amount) == [denom |-> denom, amount |-> amount]

\* The coin with its amount negated (Coin.Neg).
Neg(coin) == [coin EXCEPT !.amount = -@]

NewEmptyCoins == <<>>

-----------------------------------------------------------------------------

\* Which of the two sets a turn takes the next coin of: the one with the smaller denom,
\* both if they have the same, or what remains of one when the other is exhausted.
TakesA(coins, coinsB, at) ==
    /\ at.indexA <= Len(coins)
    /\ at.indexB <= Len(coinsB) => coins[at.indexA].denom <= coinsB[at.indexB].denom

TakesB(coins, coinsB, at) ==
    /\ at.indexB <= Len(coinsB)
    /\ at.indexA <= Len(coins) => coinsB[at.indexB].denom <= coins[at.indexA].denom

\* The coin of a turn: a denom of both sets is added.
Taken(coins, coinsB, at) ==
    IF TakesA(coins, coinsB, at) /\ TakesB(coins, coinsB, at)
    THEN Coin(coins[at.indexA].denom, coins[at.indexA].amount + coinsB[at.indexB].amount)
    ELSE IF TakesA(coins, coinsB, at) THEN coins[at.indexA] ELSE coinsB[at.indexB]

removeZeroCoin(sum, coin) == IF coin.amount = 0 THEN sum ELSE Append(sum, coin)

\* One turn of the loop; when nothing remains it changes nothing.
Turn(coins, coinsB, at) ==
    [indexA |-> at.indexA + (IF TakesA(coins, coinsB, at) THEN 1 ELSE 0),
     indexB |-> at.indexB + (IF TakesB(coins, coinsB, at) THEN 1 ELSE 0),
     sum    |-> IF TakesA(coins, coinsB, at) \/ TakesB(coins, coinsB, at)
                THEN removeZeroCoin(at.sum, Taken(coins, coinsB, at))
                ELSE at.sum]

\* The two sets merged.
safeAdd(coins, coinsB) ==
    LET turns == Len(coins) + Len(coinsB)
        at[n \in 0..turns] ==
            IF n = 0 THEN [indexA |-> 1, indexB |-> 1, sum |-> NewEmptyCoins]
            ELSE Turn(coins, coinsB, at[n - 1])
    IN  at[turns].sum

Add(coins, coinsB) == safeAdd(coins, coinsB)

-----------------------------------------------------------------------------

midIdx(slice) == slice.lo + (slice.hi - slice.lo + 1) \div 2

\* The slice in which the search for a denom goes on: that of one coin, or with the denom
\* in its middle, is the last.
Half(coins, denom, slice) ==
    IF slice.hi <= slice.lo \/ coins[midIdx(slice)].denom = denom THEN slice
    ELSE IF denom < coins[midIdx(slice)].denom THEN [slice EXCEPT !.hi = midIdx(slice) - 1]
    ELSE [slice EXCEPT !.lo = midIdx(slice) + 1]

\* Binary search: the set is sorted.
AmountOf(coins, denom) ==
    LET slice[n \in 0..Len(coins)] ==
            IF n = 0 THEN [lo |-> 1, hi |-> Len(coins)]
            ELSE Half(coins, denom, slice[n - 1])
        last == slice[Len(coins)]
    IN  IF last.lo <= last.hi /\ coins[midIdx(last)].denom = denom
        THEN coins[midIdx(last)].amount
        ELSE 0
=============================================================================
