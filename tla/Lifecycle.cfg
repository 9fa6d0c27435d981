SPECIFICATION Spec
CONSTANTS
    ip1 = ip1
    ip2 = ip2
    r3 = r3
    Clients = {ip1, ip2}
    Limit = 2
    WindowSecs = 3
    Requests = {r1, r2, r3}
    Origin <- MCOrigin
INVARIANTS ServerIInv GaugeIsExact RequestsHavePools BlockedOnlyAfterLimit
PROPERTIES AtMostTwiceTheLimit LetInAgain LimiterNeverHolds StartSettles StopSettles
