---------------------------- MODULE MCAsyncEngine ----------------------------
(* Small instances of AsyncEngine for TLC.                                *)
EXTENDS AsyncEngine, TLC

CONSTANTS h1, h2, h3

\* Hosts are interchangeable.
Symmetry == Permutations(Hosts)

OneTimeout == [p \in Ports |-> 1]
LongTimeout == [p \in Ports |-> 2]

AllTargets == Targets
NoTargets == {}
FirstPort == {t \in Targets : port(t) = 1}
OtherPorts == {t \in Targets : port(t) # 1}
=============================================================================
