SPECIFICATION SiteSpec
CONSTANTS
    Scenes = {"update", "recharge"}
    Admins = {a1}
    NoAdmin = NoAdmin
    Frames = {f1, f2}
    MaxSteps = 4
    MaxOutages = 1
    Accounts = {c1, c2}
    NoAccount = NoAccount
    NewAccounts = {c2}
    Paying = {c1}
    AdminAccounts = {c2}
    Terms = {"", "x"}
    UserPages = 1
    MaxUserActs = 2
    NoKey = NoKey
    DeviceKeys = {d1}
    MaxEdits = 4
    MaxBuild = 1
    MaxPanelActs = 1
    MaxUnanswered = 2
    ApiKeyRows = {k1, k2}
    NoRow = NoRow
    Calls = {r1}
    Searches = {"", "x"}
    AccessPages = 2
    MaxAccessActs = 3
    Snapshots <- SomeSnapshots
    Ranges = {d7, d30}
    FirstRange = d7
    NoRange = NoRange
    MaxOpsActs = 1
    MaxTicks = 1
    c1 = c1  c2 = c2  x1 = x1
    Customers = {c1, c2}
    NoCustomer = NoCustomer
    Trades = {x1, x2}
    NoTrade = NoTrade
    Handlers = {h1, h2}
    PayerOf <- Payers
    InviterOf <- Inviters
    CreditsOf <- Amounts
    RebateOf <- Shares
    MaxTroubles = 1
INVARIANTS CreditsExact
PROPERTIES PageRenewed PaymentsCredited
CHECK_DEADLOCK FALSE
