\* A class that is provided under a token is built twice.
SPECIFICATION Spec
CONSTANTS
    A = A  B = B  C = C  K = K  L = L  T = T  V = V  M = M  N = N
    Boot = Boot  r1 = r1  r2 = r2  Value = Value  None = None
    Services = {A, B, C, L}
    Controllers = {K}
    Tokens = {T, V}
    Modules = {M, N}
    Requests = {r1, r2}
    Apps <- TokenOnlyApps
    StackLimit = 7
INVARIANTS
    GlobalIsShared
