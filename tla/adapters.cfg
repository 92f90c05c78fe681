SPECIFICATION Spec
CONSTANTS
    Keys = {k1}
    Claimants = {w1, w2, w3}
    Adapters = {"redis", "dynamodb", "mongo", "postgres"}
SYMMETRY Symmetry
PROPERTIES ImplementsClaimStore
