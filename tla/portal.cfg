SPECIFICATION SiteSpec
CONSTANTS
    k1 = k1  k2 = k2  k3 = k3  n1 = n1  n2 = n2
    Users = {u1, u2}
    NoUser = NoUser
    Tabs = {t1, t2}
    MaxBalance = 1
    MaxCalls = 2
    MaxMoves = 2
    MaxEvents = 1
    AccountKeys = {k1, k2, k3}
    Existing <- OldKeys
    NoRow = NoRow
    PageSize = 1
    MaxActs = 2
    Orders = {o1, o2}
    NoOrder = NoOrder
    HistoryPages = 1
    MaxSyncs = 2
    MaxBillingActs = 2
    Keys = {k1, k2}
    NoKey = NoKey
    MaxRequests = 2
    MaxLists = 2
    MaxImages = 1
    News = {n1, n2}
    NoNews = NoNews
    Popups = {n1}
    Rewarding = {n2}
    Ledger <- AccountCalls
    Periods = {1, 2}
    Sizes = {1, 2}
    FirstSize = 2
    LastDay = 2
    MaxUsageActs = 2
    NoLog = NoLog
    NoQuery = NoQuery
    MaxChallenges = 2
INVARIANTS PortalTypeOK SessionSound NoControlStuck SecretOfSelected
PROPERTIES NewsForShownUser EventuallyFresh DisabledLeaves PaidSettles NothingUnreadHidden
CHECK_DEADLOCK FALSE
