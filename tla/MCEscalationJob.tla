---------------------------- MODULE MCEscalationJob ----------------------------
(* EscalationJob on small instances: two levels one unit apart where the    *)
(* order of levels matters, one level that CRITICAL reaches sooner than     *)
(* HIGH where the sweep and its timing do.                                  *)
EXTENDS EscalationJob, TLC

SingleTier == [HIGH |-> <<2>>, CRITICAL |-> <<1>>]

QuickTiers == [HIGH |-> <<1, 2>>, CRITICAL |-> <<1, 2>>]

Symmetric == Permutations(Runs)
===============================================================================
