--------------------------- MODULE MCEscalationFeed ---------------------------
(* EscalationFeed on a small instance: three incidents on pages of two.     *)
EXTENDS EscalationFeed
===============================================================================
