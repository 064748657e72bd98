\* Bootstrap of every small application, cyclic dependency graphs included, of
\* every order of a list of token and value providers, and two requests that
\* get a controller of scoped and shared dependencies.
SPECIFICATION Spec
CONSTANTS
    A = A  B = B  C = C  K = K  L = L  T = T  V = V  M = M  N = N
    Boot = Boot  r1 = r1  r2 = r2  Value = Value  None = None
    Services = {A, B, C, L}
    Controllers = {K}
    Tokens = {T, V}
    Modules = {M, N}
    Requests = {r1, r2}
    Apps <- AllApps
    StackLimit = 7
INVARIANTS
    TypeOK
    PureSingletons
    EveryProviderRegistered
    RequestIsolation
    CacheIsolation
    
    ClassesAreShared
PROPERTIES
    BootSettles
    RequestsSettle
