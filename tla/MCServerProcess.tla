---------------------------- MODULE MCServerProcess ----------------------------
(* ServerProcess on a small instance: a process and the one that replaces it. *)
EXTENDS ServerProcess
===============================================================================
