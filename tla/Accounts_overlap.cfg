SPECIFICATION Spec
CONSTANTS
    a1 = a1
    a2 = a2
    e1 = e1
    e2 = e2
    t1 = t1
    t2 = t2
    r1 = r1
    r2 = r2
    Request <- TwoRequests
    Traffic <- AdministratorAside
    AccountId <- TwoAccounts
    Email <- TwoEmails
    Token <- TwoTokens
    Validity = 1
    Forever = 9
    Horizon = 1
    Moves = 1
    NoAccount = NoAccount
    NoToken = NoToken
    NoSession = NoSession
INVARIANTS
    AccountsTypeOK
    TokenNamesOneAccount
    UserHasAccount
PROPERTIES
    ResetFollowsMail
SYMMETRY AccountsSymmetry
