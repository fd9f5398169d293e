\* Two turns, two renewals, a ChatGPT sign-in and sign-outs; or two tabs, three requests of
\* theirs and two sign-ins to Polza.
SPECIFICATION AccessSpec
CONSTANTS
    Turns = {t1, t2}
    Attempts = {a1, a2}
    Flows = {f1}
    Earlier = Earlier
    NoCred = NoCred
    NoStore = NoStore
    NoAttempt = NoAttempt
    Tabs = {b1, b2}
    Logins = {l1, l2}
    Hosts = {polza, provider, local}
    Polza = polza
    Default = provider
    Local = local
    Environments <- SomeEnvironments
    Forms <- SomeForms
    Clicks = 3
    NoLogin = NoLogin
SYMMETRY AccessSymmetry
INVARIANTS
    RenewalsAreExclusive
    FileIsNotStranded
    SignedOutStaysOut
    KeysGoHome
    CanceledSignInsSaveNothing
\* Every turn may be over, and the user done.
CHECK_DEADLOCK FALSE
