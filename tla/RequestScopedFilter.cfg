\* A controller's filter that is not a singleton answers without being asked.
SPECIFICATION SSESpec
CONSTANTS
    MaxMiddlewares = 1
    domain = domain  Nullish = Nullish
    Forbidden = Forbidden  Internal = Internal  None = None
    Thrown = {domain, Nullish}
    Setups <- ScopedFilterRoutes
    Streaming = {}
    CloseAts = {0}
    MaxEvents = 0
INVARIANTS
    FilterWasAsked
