SPECIFICATION FairSpec
CONSTANTS
    shop = shop  admin = admin
    log = log  db = db  feed = feed  key = key
    r1 = r1
    Apps = {shop, admin}
    Services = {log, db, feed, key}
    Global = {db, feed, key}
    Requests = {r1}
    Declares <- MCDeclares
    Rejecting <- MCRejecting
    GuardOf <- MCGuardOf
INVARIANT StoppedBeforeTheServer
INVARIANT ClosedIsQuiet
PROPERTY RunsReachAll
PROPERTY CloseSettles
