-------------------------- MODULE MCStorageMonitor --------------------------
(* An instance of StorageMonitor for TLC. *)
EXTENDS StorageMonitor, TLC

CONSTANTS r1, r2, r3, k1, k2

\* All requests are for the same blocks.
SameKey == [r \in Requests |-> k1]

\* One request is for other blocks, next to those of the other two.
TwoKeys == [r \in Requests |-> IF r = r3 THEN k2 ELSE k1]

\* The elements of the map are alike, and so are requests with one key.
Alike == Permutations(Slots) \cup Permutations({r1, r2})

=============================================================================
