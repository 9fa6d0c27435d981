SPECIFICATION Spec
CONSTANTS
    alice = alice
    bob = bob
    acme = acme
    e1 = e1
    E1 = E1
    e2 = e2
    p1 = p1
    s1 = s1
    google = google
    sub = sub
    Nil = Nil
    Workers = {w1, w2}
    Users = {alice, bob}
    Tenants = {acme}
    Emails = {e1, e2}
    Passwords = {p1}
    Secrets = {s1}
    Tokens = {t1, t2}
    Providers = {google}
    Subjects = {sub}
    Clean <- MCClean
    InitialUsers <- EnrollingAlice
    Ops = {"Login", "ConfirmMFASetup", "SCIMUpdateUser"}
    MayFail = {}
SYMMETRY Symmetry
PROPERTY MFAStaysOn
