SPECIFICATION Spec
CONSTANTS
    alice = alice
    bob = bob
    acme = acme
    e1 = e1
    E1 = E1
    e2 = e2
    p1 = p1
    s1 = s1
    google = google
    sub = sub
    Nil = Nil
    Workers = {w1, w2}
    Users = {alice}
    Tenants = {acme}
    Emails = {e1}
    Passwords = {p1}
    Secrets = {s1, s2}
    Tokens = {t1, t2, t3}
    Providers = {google}
    Subjects = {sub}
    Clean <- MCClean
    InitialUsers <- AliceOnly
    Ops = {"Login", "VerifyMFAChallenge", "RefreshToken", "SetupMFA", "ConfirmMFASetup", "RequestPasswordReset", "ConfirmPasswordReset", "SCIMUpdateUser"}
    MayFail = {"UPDATE"}
SYMMETRY Symmetry
PROPERTIES MFAStepUp OwnColumnsOnly
