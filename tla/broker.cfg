\* One call beside two requests that compete for one login.  Liveness: no symmetry.
CONSTANTS
    Browsers = {b1}
    Handlers = {h1, h2}
    Logins = {l1}
    Tokens = {t1}
    Subjects = {u1}
    Groups = {access}
    AccessGroup = access
    AdminGroup = access
    GmGroup = None
    LoginLife = 1
    SessionTtl = 1
    IdTokenLives = {}
    MaxTime = 1
    Calls = {c1}
    None = None
SPECIFICATION BrokerSpec
INVARIANTS ServedWasLive
PROPERTIES RequestsEnd
