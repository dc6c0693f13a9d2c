------------------------- MODULE MCContainerMonitor -------------------------
(* An instance of ContainerMonitor for TLC. *)
EXTENDS ContainerMonitor

CONSTANTS c1, c2

\* The observer is switched on by a config with a list as long as the array, whose codes
\* take two more words than the old one's.
GrowingList ==
    << [enabled |-> FALSE, ignore |-> <<143>>],
       [enabled |-> TRUE,  ignore |-> <<1, 2, 3, 143>>] >>

ThreeExits == {<<0, 0>>, <<0, 9>>, <<143, 0>>}

TwoLimits == [c \in Cgroups |-> IF c = c1 THEN 1 ELSE 2]

=============================================================================
