--------------------------- MODULE MCQuotaBreaker ---------------------------
(***************************************************************************)
(* Two workers, two logical calls and two windows under a budget of three  *)
(* attempts: one for a new call, two for retries.                          *)
(***************************************************************************)
EXTENDS QuotaBreaker, TLC

Symmetry == Permutations(Workers) \cup Permutations(Logical)

=============================================================================
