SPECIFICATION LiveSpec
CONSTANTS
    b1 = b1 b2 = b2 t1 = t1 t2 = t2 t3 = t3 ann = ann bob = bob u = u v = v
   
    s1 = s1
    s2 = s2
    x1 = x1
    x2 = x2
    k1 = k1
    c1 = c1
    c2 = c2
    c3 = c3
    c4 = c4
    c5 = c5
    c6 = c6
    r1 = r1
    r2 = r2
    None = None
    Browsers = {b1, b2}
    Tabs = {t1, t2, t3}
    Patient = t1
    HomeOf <- MCHomeOf
    People = {ann, bob}
    Subjects = {u, v}
    Mail <- MCMail
    Sessions = {s1, s2}
    Transactions = {x1, x2}
    Tokens = {c1, c2, c3, c4, c5, c6}
    Secrets = {k1}
    Calls = {r1, r2}
    Settings <- MCSettings
INVARIANTS
    SignInsAreSingleUse
    SubjectsKeepTheirUser
    WritesAreAsShown
PROPERTIES
    WriteEventuallyAccepted
CHECK_DEADLOCK FALSE
