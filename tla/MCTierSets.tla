------------------------------ MODULE MCTierSets ------------------------------
(* TierSets on a small instance; PUTs are interchangeable, and so are       *)
(* seedings.                                                                *)
EXTENDS TierSets, TLC

T(s, l, minutes) == [severity |-> s, level |-> l, thresholdMinutes |-> minutes]

\* Two severities; nobody asks for a level that is not seeded.
ThreeInputs == {T("HIGH", 1, 1), T("HIGH", 2, 2), T("CRITICAL", 1, 1)}

Key(s, l) == [severity |-> s, level |-> l]

TwoKeys == <<Key("HIGH", 1), Key("HIGH", 2)>>

\* Minutes that increase with the level, and minutes that do not.
TwoEnvironments == {<<1, 2>>, <<2, 1>>}

Symmetric == Permutations(Requests) \union Permutations(Seedings)
===============================================================================
