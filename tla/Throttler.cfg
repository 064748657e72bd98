\* Three concurrent requests through the guard, and a close.
SPECIFICATION Spec
CONSTANTS
    r1 = r1  r2 = r2  r3 = r3  alice = alice  bob = bob  list = list
    show = show  short = short  long = long  getList = getList
    getShow = getShow  None = None
    Requests = {r1, r2, r3}
    Callers = {alice, bob}
    Routes = {list, show}
    Names = {short, long}
    Methods = {getList, getShow}
    Keys <- AllKeys
    Configs <- GuardConfigs
    Ttls = {1, 2, 3}
    MaxDelay = 3
    LastHit = 2
    MaxTime = 5
    MaxHits = 4
INVARIANTS
    LimitHolds
    
PROPERTIES
    ProcessEnds
