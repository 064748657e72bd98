------------------------- MODULE MCThrottlerStorage -------------------------
(* The storage on its own: two keys, windows of up to three ticks.         *)
EXTENDS ThrottlerStorage

CONSTANTS k1, k2

=============================================================================
