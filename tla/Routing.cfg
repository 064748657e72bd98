\* One application that is configured, started and asked in any order.
SPECIFICATION Spec
CONSTANTS
    todo = todo  live = live  rpc = rpc  plain = plain  unnamed = unnamed
    grpc = grpc  r1 = r1  r2 = r2  items = items  item = item  api = api
    Slash = Slash  None = None
    Controllers = {todo, live, rpc, plain, unnamed}
    Describe <- MCDescribe
    Transports = {grpc}
    Setups <- MCSetups
    BasePaths <- MCBasePaths
    Requests = {r1, r2}
    Payloads <- MCPayloads
    Keys = {"k", "l"}
    Files <- MCFiles
INVARIANTS
    
    PathsAreJoined
    MiddlewaresComeFirst
    ArgumentsInPlace
