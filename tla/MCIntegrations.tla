--------------------------- MODULE MCIntegrations ---------------------------
(* Model-checking instance of Integrations: two programs, goroutines or
   helpers of every kind; a retry count of none, one and fewer than none. *)
EXTENDS Integrations
MCCounts == {-1, 0, 1}
=============================================================================
