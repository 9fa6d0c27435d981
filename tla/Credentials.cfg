SPECIFICATION Spec
CONSTANTS
    Replicas = {r1, r2}
    Verifiers = {v1}
    Accounts = {a1}
    Roles = {"ADMIN", "USER"}
    Drifts <- MCDrifts
    AccessTTL = 1
    MaxSkew = 1
    Began = 59
    MaxTime = 61
    MaxKeys = 3
    MaxTokens = 1
SYMMETRY Symmetry
INVARIANTS CredentialsIInv DemotionTakesHold SharedKeyServesAll CodesInWindow
CHECK_DEADLOCK FALSE
