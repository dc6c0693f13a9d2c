-------------------------- MODULE SequenceTracking --------------------------
(***************************************************************************)
(* The controller's gap and regression accounting over the batch sequence  *)
(* numbers of one agent (tapio-controller/src/lib.rs).  Sequence numbers   *)
(* and counters are u64 and every addition saturates; MaxU64 is the width, *)
(* small when TLC is to reach it.                                          *)
(***************************************************************************)
EXTENDS Integers

CONSTANT MaxU64

ASSUME WidthAssumption == MaxU64 \in Nat \ {0}

U64 == 0..MaxU64

\* last_seen: Option<u64>.
NotSeen == -1

Tracking == [last_seen : U64 \cup {NotSeen}, gaps_total : U64, regressions_total : U64]

\* SequenceTracking::default().
Untracked == [last_seen |-> NotSeen, gaps_total |-> 0, regressions_total |-> 0]

saturating_add(a, b) == IF a + b > MaxU64 THEN MaxU64 ELSE a + b

\* Mutant: the gap is measured from the last sequence seen.
update_tracking_off_by_one(t, sequence) ==
    IF t.last_seen = NotSeen \/ sequence = saturating_add(t.last_seen, 1)
      THEN [t EXCEPT !.last_seen = sequence]
    ELSE IF sequence > t.last_seen
      THEN [t EXCEPT !.last_seen = sequence,
                     !.gaps_total = saturating_add(@, sequence - t.last_seen)]
    ELSE [t EXCEPT !.regressions_total = saturating_add(@, 1)]

\* Mutant: a gap of one batch is taken for progress.
update_tracking_tolerant(t, sequence) ==
    IF t.last_seen = NotSeen \/ sequence \in {t.last_seen + 1, t.last_seen + 2}
      THEN [t EXCEPT !.last_seen = sequence]
    ELSE IF sequence > t.last_seen
      THEN [t EXCEPT !.last_seen = sequence,
                     !.gaps_total = saturating_add(@, sequence - (t.last_seen + 1))]
    ELSE [t EXCEPT !.regressions_total = saturating_add(@, 1)]

\* Mutant: a straggler becomes the last sequence seen.
update_tracking_moves_back(t, sequence) ==
    IF t.last_seen # NotSeen /\ sequence <= t.last_seen
      THEN [t EXCEPT !.last_seen = sequence, !.regressions_total = saturating_add(@, 1)]
      ELSE [t EXCEPT !.last_seen = sequence]

\* Mutant: a straggler closes a gap.
update_tracking_heals(t, sequence) ==
    IF t.last_seen = NotSeen \/ sequence = saturating_add(t.last_seen, 1)
      THEN [t EXCEPT !.last_seen = sequence]
    ELSE IF sequence > t.last_seen
      THEN [t EXCEPT !.last_seen = sequence,
                     !.gaps_total = saturating_add(@, sequence - (t.last_seen + 1))]
    ELSE [t EXCEPT !.gaps_total = IF @ > 0 THEN @ - 1 ELSE @]

\* The tracking record after a batch with this sequence number was accepted.
update_sequence_tracking(t, sequence) ==
    LET expected == saturating_add(t.last_seen, 1) IN
    IF t.last_seen = NotSeen \/ sequence = expected
      THEN [t EXCEPT !.last_seen = sequence]
    ELSE IF sequence > expected
      THEN [t EXCEPT !.last_seen = sequence,
                     !.gaps_total = saturating_add(@, sequence - expected)]
    ELSE [t EXCEPT !.regressions_total = saturating_add(@, 1)]

=============================================================================
