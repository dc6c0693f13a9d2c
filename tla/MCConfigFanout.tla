-------------------------- MODULE MCConfigFanout --------------------------
(* Instances of ConfigFanout and PmcEvidence for TLC. *)
EXTENDS PmcEvidence

\* c2, like a profile without node_pmc, switches the PMC observer off.
CONSTANT c2
SomeEnabled == [c \in Configs |-> IF c = c2 THEN Observers \ {Pmc} ELSE Observers]

=============================================================================
