CONSTANTS
    anna = anna
    ben = ben
    cleo = cleo
    x = x
    y = y
    b1 = b1
    b2 = b2
    k1 = k1
    k2 = k2
    none = none
    Personas = {anna, ben, cleo}
    Items = {x, y}
    Owner <- MCOwner
    Bundles = {b1, b2}
    Share <- MCShare
    Accept <- MCAccept
    Commands = {k1, k2}
    NoBundle = none
SPECIFICATION Spec
INVARIANTS TypeOK SharedAlongRules PurgedForGood
