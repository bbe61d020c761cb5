\* One vendor, two types, two certificates, two reviewers who are
\* administrators, two exceptions, two days.
CONSTANTS
    v1 = v1
    t1 = t1
    t2 = t2
    gl = gl
    wc = wc
    ann = ann
    bob = bob
    portal = portal
    none = none
    e1 = e1
    e2 = e2
    Vendors = {v1}
    Types = {t1, t2}
    Rules = {gl, wc}
    Staff = {ann, bob}
    Admins = {ann, bob}
    Outside = portal
    None = none
    Exceptions = {e1, e2}
    Documents <- MCDocuments
    Profiles <- MCProfiles
    Days = {0, 1}
    MaxCertificates = 2
    MaxVersions = 2
    MaxUploads = 1
    MaxRows = 4
SPECIFICATION Spec
SYMMETRY Symmetry
INVARIANTS
    VerdictReproducible
    StatusIsEarned
    ViewsAgree
    EventsTellTheOutcome
