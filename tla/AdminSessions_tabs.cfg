\* Two tabs of one browser.
SPECIFICATION Spec
CONSTANTS
    t1 = t1
    t2 = t2
    b1 = b1
    Admins = {a1, a2}
    FirstAdmin = a1
    Browsers = {b1}
    Tabs = {t1, t2}
    BrowserOf <- MCBrowserOf
    PagesOf <- MCPagesOf
    Grants <- MCGrants
    None = None
INVARIANTS
    StorageFollowsLogins
    ShownWasAllowed
PROPERTIES
    EntriesTellTheTruth
CHECK_DEADLOCK FALSE
