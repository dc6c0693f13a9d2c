----------------------------- MODULE BatchSplit -----------------------------
(***************************************************************************)
(* How the controller sink cuts a buffer into requests                     *)
(* (tapio-agent/src/sink/controller.rs).  An event is represented by the   *)
(* length of its JSON; lengths are usize and their sums saturate, and an   *)
(* event that does not serialise counts as usize::MAX (MaxU64).            *)
(***************************************************************************)
EXTENDS SequenceTracking, Sequences

\* The length of a batch with one more event, after a comma unless it is the first.
LenWith(len, batch, event) ==
    saturating_add(saturating_add(len, IF batch = <<>> THEN 0 ELSE 1), event)

\* The variables of split_events_by_size before its loop.
split_start(empty_batch_len) ==
    [batches |-> <<>>, current |-> <<>>, current_len |-> empty_batch_len]

\* Mutant: the length is not reset when a batch is closed.
split_step_no_reset(acc, event, empty_batch_len, max_batch_events, max_request_bytes) ==
    LET len == LenWith(acc.current_len, acc.current, event)
        full == /\ acc.current # <<>>
                /\ Len(acc.current) >= max_batch_events \/ len > max_request_bytes
    IN [batches |-> IF full THEN Append(acc.batches, acc.current) ELSE acc.batches,
        current |-> IF full THEN <<event>> ELSE Append(acc.current, event),
        current_len |-> len]

\* One turn of the loop: close the current batch if the event does not fit, then push the
\* event.
split_step(acc, event, empty_batch_len, max_batch_events, max_request_bytes) ==
    LET len == LenWith(acc.current_len, acc.current, event)
        full == /\ acc.current # <<>>
                /\ Len(acc.current) >= max_batch_events \/ len > max_request_bytes
    IN [batches |-> IF full THEN Append(acc.batches, acc.current) ELSE acc.batches,
        current |-> IF full THEN <<event>> ELSE Append(acc.current, event),
        current_len |-> IF full THEN LenWith(empty_batch_len, <<>>, event) ELSE len]

\* After the loop the current batch is pushed too.
split_result(acc) ==
    IF acc.current = <<>> THEN acc.batches ELSE Append(acc.batches, acc.current)

=============================================================================
