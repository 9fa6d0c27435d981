SPECIFICATION Spec
CONSTANTS
    foreign = foreign
    Users = {u1, u2, u3, foreign}
    Others = {foreign}
    Times = {1, 2, 3}
    Limits <- MCLimits
    DefaultLimit = 2
    MaxLimit = 3
SYMMETRY Symmetry
INVARIANTS TypeOK NoneSkipped NoneTwice TotalsAgree OnePageIsAll EachOnce NoGaps ListingIInv
