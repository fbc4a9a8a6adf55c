\* Two concurrent requests, two logins, two tokens, two people, one browser.
CONSTANTS
    b1 = b1  h1 = h1  h2 = h2  l1 = l1  l2 = l2  t1 = t1  t2 = t2
    u1 = u1  u2 = u2  access = access
    Browsers = {b1}
    Handlers = {h1, h2}
    Logins = {l1, l2}
    Tokens = {t1, t2}
    Subjects = {u1, u2}
    Groups = {access}
    AccessGroup = access
    LoginLife = 1
    SessionTtl = 2
    IdTokenLives = {1, 3}
    MaxTime = 2
    None = None
SPECIFICATION Spec
SYMMETRY Symmetric
INVARIANTS OneSessionPerLogin SessionsEndInTime CookiesNameSessions LiveSessionsAreAdmitted
PROPERTIES ImplementsLoginService
