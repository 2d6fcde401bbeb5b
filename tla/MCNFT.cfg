CONSTANTS
    Denoms = {d1}
    TokenIds = {t1, t2}
    Accounts = {a, b}
    Drops = {x, y}
    Nil = Nil
    Dash = Dash
    MaxMessages = 4
    MaxHeight = 1
SPECIFICATION Spec
INVARIANTS ListTotalsMatch MessageTotalsCountInsertions TokensAreDated
SYMMETRY NFTSymmetry
