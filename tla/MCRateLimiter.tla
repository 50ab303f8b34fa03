--------------------------- MODULE MCRateLimiter ---------------------------
(***************************************************************************)
(* RateLimiter for TLC: a tick is half a second, both buckets let through  *)
(* two requests at once and one a tick, and the first caller's domain is   *)
(* configured while the second caller's is not.                            *)
(***************************************************************************)
EXTENDS RateLimiter

CONSTANTS c1, c2, l1, global, domain

Shared    == [c \in Callers |-> l1]
TwoRoutes == [c \in Callers |-> IF c = c1 THEN <<global, domain>> ELSE <<global>>]
OneDomain == [c \in Callers |-> domain]
Slow      == [b \in Buckets |-> 1]

=============================================================================
