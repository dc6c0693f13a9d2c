-------------------------- MODULE MCNetworkMonitor --------------------------
(* An instance of NetworkMonitor for TLC. *)
EXTENDS NetworkMonitor

\* A profile with both RTT thresholds, one with the ratio alone, and none at all.
ThreeCfgs ==
    { [enabled |-> TRUE,  ratio |-> 2, abs_us |-> 5, samples |-> 2],
      [enabled |-> TRUE,  ratio |-> 3, abs_us |-> 0, samples |-> 3],
      [enabled |-> FALSE, ratio |-> 0, abs_us |-> 0, samples |-> 0] }

=============================================================================
