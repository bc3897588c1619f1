------------------------------ MODULE MCAdminUsers ------------------------------
(* AdminUsers on small instances; no action names a user or a request.      *)
EXTENDS AdminUsers, TLC

Symmetric == Permutations(Users) \union Permutations(Requests)
===============================================================================
