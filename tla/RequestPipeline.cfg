\* One request through any middlewares, guards and filters, and streams.
SPECIFICATION SSESpec
CONSTANTS
    MaxMiddlewares = 2
    domain = domain  Nullish = Nullish
    Forbidden = Forbidden  Internal = Internal  None = None
    Thrown = {domain, Nullish}
    Setups <- Routes
    Streaming <- StreamRoutes
    CloseAts = {0, 1, 2}
    MaxEvents = 2
INVARIANTS
    OncePerRequest
    MethodIsGuarded
    AnswerIsTheLast
    FiltersInOrder
    EventsInOrder
PROPERTIES
    Answered
    CloseEndsTheStream
