----------------------------- MODULE MCAuthSession -----------------------------
(* AuthSession on small instances.  Tokens, sessions and requests are       *)
(* interchangeable: the correct module chooses none of them by name.        *)
EXTENDS AuthSession, TLC

Symmetric == Permutations(Tokens) \union Permutations(Calls)
===============================================================================
