-------------------------- MODULE EvidenceDelivery --------------------------
(***************************************************************************)
(* The way of an event from an observer to the controller: the bounded     *)
(* queue and worker thread of ControllerSink                               *)
(* (tapio-agent/src/sink/controller.rs), the HTTP posts with their         *)
(* retries, and the controller's registry.  Events are numbered in the     *)
(* order they are sent; a flush request travels through the same queue as  *)
(* the negative of its number.  A post may fail before or after the        *)
(* controller has taken the batch, and one that timed out may still be     *)
(* served later.                                                           *)
(***************************************************************************)
EXTENDS ControllerRegistry, Sequences, FiniteSets

CONSTANTS
    Agent,          \* the agent whose sink this is
    NoBatch,        \* the worker is not posting
    QueueCap,       \* DEFAULT_QUEUE_CAPACITY
    MAX_RETRIES,
    MaxEvents,      \* bound: events the observers send
    MaxFlushes,     \* bound: flush calls
    MaxFaults       \* bound: timed-out posts and lost or truncated answers

ASSUME DeliveryAssumption ==
    /\ Agent \in Agents
    /\ QueueCap \in Nat \ {0} /\ MAX_RETRIES \in Nat
    /\ MaxEvents \in Nat /\ MaxFlushes \in Nat /\ MaxFaults \in Nat

ASSUME NoBatchAssumption == NoBatch \notin [sequence : Nat, events : Seq(Nat), attempt : Nat]

VARIABLES
    emitted,          \* events sent so far
    queue,            \* the channel between send, flush and the worker
    buffer,           \* Worker.buffer
    outbox,           \* events flush_buffer has taken and not yet put into a request
    sending,          \* the batch being posted: sequence, events, attempt
    sequence,         \* Worker.sequence
    worker,           \* where the worker is
    ack,              \* the flush call to answer after this flush, or 0
    last_error,       \* a batch of this flush has failed
    closed,           \* the sink is dropped
    flush,            \* flush[k]: what the k-th flush call is doing or has returned
    mark,             \* mark[k]: the events sent before flush k was queued
    wire,             \* batches in the controller's sockets that nobody waits for
    faults,           \* how many posts went wrong in a way that may repeat a batch
    sink_drops_total, \* the counter, labels queue_full and send_failed together
    delivered,        \* history: events some controller process has accepted
    dropped           \* history: events counted as dropped

workerVars == <<buffer, outbox, sending, sequence, worker, ack, last_error>>
flushVars  == <<flush, mark>>
dropVars   == <<sink_drops_total, dropped>>
sinkVars   == <<emitted, queue, workerVars, closed, flushVars, wire, faults, dropVars, delivered>>
allVars    == <<vars, sinkVars>>

Flushes == 1..MaxFlushes

ElementsOf(s) == {s[i] : i \in DOMAIN s}

DeliveryInit ==
    /\ Init
    /\ emitted = 0 /\ queue = <<>> /\ buffer = <<>> /\ outbox = <<>>
    /\ sending = NoBatch /\ sequence = 1
    /\ worker = "recv" /\ ack = 0 /\ last_error = FALSE
    /\ closed = FALSE
    /\ flush = [k \in Flushes |-> "none"] /\ mark = [k \in Flushes |-> 0]
    /\ wire = {} /\ faults = 0
    /\ sink_drops_total = 0 /\ delivered = {} /\ dropped = {}

-----------------------------------------------------------------------------
(* The callers: observers that send and flush, and main, which drops the   *)
(* sink once they have all returned.                                       *)

\* send: try_enqueue_controller_event never blocks; a full queue drops the event.
send ==
    /\ ~closed /\ emitted < MaxEvents
    /\ emitted' = emitted + 1
    /\ \/ /\ Len(queue) < QueueCap
          /\ queue' = Append(queue, emitted + 1)
          /\ UNCHANGED dropVars
       \/ /\ Len(queue) = QueueCap
          /\ dropped' = dropped \cup {emitted + 1}
          /\ sink_drops_total' = sink_drops_total + 1
          /\ UNCHANGED queue
    /\ UNCHANGED <<vars, workerVars, closed, flushVars, wire, faults, delivered>>

\* flush puts its request into the queue, or finds it full until the deadline.
flush_enqueue(k) ==
    /\ ~closed /\ flush[k] = "none"
    /\ \/ /\ Len(queue) < QueueCap
          /\ queue' = Append(queue, -k)
          /\ flush' = [flush EXCEPT ![k] = "waiting"]
          /\ mark' = [mark EXCEPT ![k] = emitted]
       \/ /\ Len(queue) = QueueCap
          /\ flush' = [flush EXCEPT ![k] = "err"]
          /\ UNCHANGED <<queue, mark>>
    /\ UNCHANGED <<vars, emitted, workerVars, closed, wire, faults, dropVars, delivered>>

\* flush gives up waiting; the worker will answer a channel nobody reads.
flush_deadline(k) ==
    /\ flush[k] = "waiting"
    /\ flush' = [flush EXCEPT ![k] = "err"]
    /\ UNCHANGED <<vars, emitted, queue, workerVars, closed, mark, wire, faults, dropVars,
                   delivered>>

\* Drop: the sender is taken, then the worker joined.
drop_sink ==
    /\ ~closed
    /\ \A k \in Flushes : flush[k] # "waiting"
    /\ closed' = TRUE
    /\ UNCHANGED <<vars, emitted, queue, workerVars, flushVars, wire, faults, dropVars,
                   delivered>>

-----------------------------------------------------------------------------
(* The worker.                                                             *)

callerFrame == <<vars, emitted, closed, flushVars, wire, faults, dropVars, delivered>>

\* flush_buffer takes the whole buffer; k is the flush call to answer, if any.
flush_buffer(events, k) ==
    /\ outbox' = events /\ buffer' = <<>>
    /\ ack' = k /\ last_error' = FALSE
    /\ worker' = "flush"
    /\ UNCHANGED <<sending, sequence>>

\* Worker::run receives an event; a buffer of max_batch_events is flushed at once.
recv_event ==
    /\ worker = "recv" /\ queue # <<>> /\ Head(queue) > 0
    /\ queue' = Tail(queue)
    /\ \/ /\ Len(buffer) + 1 >= max_batch_events
          /\ flush_buffer(Append(buffer, Head(queue)), 0)
       \/ /\ Len(buffer) + 1 < max_batch_events
          /\ buffer' = Append(buffer, Head(queue))
          /\ UNCHANGED <<outbox, sending, sequence, worker, ack, last_error>>
    /\ UNCHANGED callerFrame

\* Mutant: the flush call is answered before the buffer is sent.
recv_flush_early ==
    /\ worker = "recv" /\ queue # <<>> /\ Head(queue) < 0
    /\ queue' = Tail(queue)
    /\ flush_buffer(buffer, 0)
    /\ flush' = [flush EXCEPT ![-Head(queue)] = IF @ = "waiting" THEN "ok" ELSE @]
    /\ UNCHANGED <<vars, emitted, closed, mark, wire, faults, dropVars, delivered>>

\* It receives a flush request.
recv_flush ==
    /\ worker = "recv" /\ queue # <<>> /\ Head(queue) < 0
    /\ queue' = Tail(queue)
    /\ flush_buffer(buffer, -Head(queue))
    /\ UNCHANGED callerFrame

\* Mutant: the timer sends full batches only.
recv_timeout_full_only ==
    /\ worker = "recv" /\ queue = <<>> /\ ~closed /\ Len(buffer) >= max_batch_events
    /\ flush_buffer(buffer, 0)
    /\ UNCHANGED <<queue, callerFrame>>

\* The send interval elapses with nothing in the queue.
recv_timeout ==
    /\ worker = "recv" /\ queue = <<>> /\ ~closed /\ buffer # <<>>
    /\ flush_buffer(buffer, 0)
    /\ UNCHANGED <<queue, callerFrame>>

\* Mutant: with an empty buffer the worker keeps waiting.
recv_disconnected_waits ==
    /\ worker = "recv" /\ queue = <<>> /\ closed /\ buffer # <<>>
    /\ outbox' = buffer /\ buffer' = <<>>
    /\ ack' = 0 /\ last_error' = FALSE
    /\ worker' = "last_flush"
    /\ UNCHANGED <<queue, sending, sequence, callerFrame>>

\* The queue is empty and the sink dropped: flush_buffer_once, without retries.
recv_disconnected ==
    /\ worker = "recv" /\ queue = <<>> /\ closed
    /\ outbox' = buffer /\ buffer' = <<>>
    /\ ack' = 0 /\ last_error' = FALSE
    /\ worker' = "last_flush"
    /\ UNCHANGED <<queue, sending, sequence, callerFrame>>

\* Mutant: the sequence is not advanced.
send_event_batch_same_sequence ==
    /\ worker \in {"flush", "last_flush"} /\ sending = NoBatch /\ outbox # <<>>
    /\ \E n \in 1..Len(outbox) :
          /\ n <= max_batch_events
          /\ sending' = [sequence |-> sequence, events |-> SubSeq(outbox, 1, n), attempt |-> 0]
          /\ outbox' = SubSeq(outbox, n + 1, Len(outbox))
    /\ UNCHANGED <<queue, buffer, sequence, worker, ack, last_error, callerFrame>>

\* The next batch of split_events_by_size: the event sizes decide how long a prefix.
send_event_batch ==
    /\ worker \in {"flush", "last_flush"} /\ sending = NoBatch /\ outbox # <<>>
    /\ \E n \in 1..Len(outbox) :
          /\ n <= max_batch_events
          /\ sending' = [sequence |-> sequence, events |-> SubSeq(outbox, 1, n), attempt |-> 0]
          /\ outbox' = SubSeq(outbox, n + 1, Len(outbox))
    /\ sequence' = saturating_add(sequence, 1)
    /\ UNCHANGED <<queue, buffer, worker, ack, last_error, callerFrame>>

\* flush_buffer returns; the flush call is answered if it still waits, and the last
\* flush ends the worker.
flush_returns ==
    /\ worker \in {"flush", "last_flush"} /\ sending = NoBatch /\ outbox = <<>>
    /\ worker' = IF worker = "flush" THEN "recv" ELSE "stopped"
    /\ flush' = [k \in Flushes |->
                   IF k = ack /\ flush[k] = "waiting"
                     THEN IF last_error THEN "err" ELSE "ok" ELSE flush[k]]
    /\ ack' = 0
    /\ UNCHANGED <<vars, emitted, queue, buffer, outbox, sending, sequence, last_error, closed,
                   mark, wire, faults, dropVars, delivered>>

-----------------------------------------------------------------------------
(* One attempt to post the batch, with the controller's share in it.       *)

\* The controller takes a batch.
events_handler(s, events) ==
    /\ accept_event_batch(Agent, s, Len(events))
    /\ delivered' = delivered \cup ElementsOf(events)

\* Mutant: giving up does not count the batch.
attempt_failed_silent ==
    LET max_retries == IF worker = "flush" THEN MAX_RETRIES ELSE 0 IN
    \/ /\ sending.attempt < max_retries
       /\ sending' = [sending EXCEPT !.attempt = @ + 1]
       /\ UNCHANGED <<last_error, dropVars>>
    \/ /\ sending.attempt = max_retries
       /\ sending' = NoBatch /\ last_error' = TRUE
       /\ UNCHANGED dropVars

\* The attempt failed: try again, or count the batch as dropped.
attempt_failed ==
    LET max_retries == IF worker = "flush" THEN MAX_RETRIES ELSE 0 IN
    \/ /\ sending.attempt < max_retries
       /\ sending' = [sending EXCEPT !.attempt = @ + 1]
       /\ UNCHANGED <<last_error, dropVars>>
    \/ /\ sending.attempt = max_retries
       /\ sending' = NoBatch /\ last_error' = TRUE
       /\ dropped' = dropped \cup ElementsOf(sending.events)
       /\ sink_drops_total' = sink_drops_total + Len(sending.events)

postFrame == <<emitted, queue, buffer, outbox, sequence, worker, ack, closed, flushVars>>

\* The batch is accepted and answered.
post_ok ==
    /\ sending # NoBatch
    /\ events_handler(sending.sequence, sending.events)
    /\ sending' = NoBatch
    /\ UNCHANGED <<last_error, wire, faults, dropVars, postFrame>>

\* It is accepted, but the answer is cut off after its status line: an error that is
\* neither retried nor counted.
post_truncated ==
    /\ sending # NoBatch
    /\ faults < MaxFaults /\ faults' = faults + 1
    /\ events_handler(sending.sequence, sending.events)
    /\ sending' = NoBatch /\ last_error' = TRUE
    /\ UNCHANGED <<wire, dropVars, postFrame>>

\* It is accepted, but no answer comes back.
post_unanswered ==
    /\ sending # NoBatch
    /\ faults < MaxFaults /\ faults' = faults + 1
    /\ events_handler(sending.sequence, sending.events)
    /\ attempt_failed
    /\ UNCHANGED <<wire, postFrame>>

\* The read times out before the controller has seen it.
post_times_out ==
    /\ sending # NoBatch
    /\ faults < MaxFaults /\ faults' = faults + 1
    /\ wire' = wire \cup {[id |-> faults, sequence |-> sending.sequence,
                           events |-> sending.events]}
    /\ attempt_failed
    /\ UNCHANGED <<vars, delivered, postFrame>>

\* The connection is refused, or the answer is not a 2xx (413 for too large a body).
post_refused ==
    /\ sending # NoBatch
    /\ attempt_failed
    /\ UNCHANGED <<vars, wire, faults, delivered, postFrame>>

\* The controller gets round to a batch whose sender has given up on it.
serve_batch_late(r) ==
    /\ r \in wire
    /\ events_handler(r.sequence, r.events)
    /\ wire' = wire \ {r}
    /\ UNCHANGED <<emitted, queue, workerVars, closed, flushVars, faults, dropVars>>

\* A hello of the registration task, at any time.
hello == register_agent(Agent) /\ UNCHANGED sinkVars

\* The controller dies and is replaced; what waited in its sockets is gone.
controller_restart ==
    /\ restart
    /\ wire' = {}
    /\ UNCHANGED <<emitted, queue, workerVars, closed, flushVars, faults, dropVars, delivered>>

-----------------------------------------------------------------------------

WorkerStep ==
    \/ recv_event \/ recv_flush \/ recv_timeout \/ recv_disconnected
    \/ send_event_batch \/ flush_returns

PostStep ==
    \/ post_ok \/ post_truncated \/ post_unanswered \/ post_times_out \/ post_refused

DeliveryNext ==
    \/ send \/ drop_sink
    \/ \E k \in Flushes : flush_enqueue(k) \/ flush_deadline(k)
    \/ WorkerStep
    \/ PostStep
    \/ \E r \in wire : serve_batch_late(r)
    \/ hello \/ controller_restart

DeliverySpec == DeliveryInit /\ [][DeliveryNext]_allVars

\* The worker thread runs, timers end, and a post returns: reads and writes have a
\* timeout and the kernel bounds the connect.  Nothing is assumed of the callers or of
\* the controller.
DeliveryFairness == WF_allVars(WorkerStep) /\ WF_allVars(PostStep)

DeliveryFairSpec == DeliverySpec /\ DeliveryFairness

-----------------------------------------------------------------------------
(* Properties.                                                             *)

Events == 1..MaxEvents

\* The events that are still inside the sink.
Held == Events \cap (ElementsOf(queue) \cup ElementsOf(buffer) \cup ElementsOf(outbox)
                      \cup IF sending = NoBatch THEN {} ELSE ElementsOf(sending.events))

\* No evidence is lost silently (docs/architecture.md:97): whatever queue, posts and
\* controller do, every event sent is still in the sink, has reached a controller, or
\* is counted as dropped; the drop counter counts events and not attempts, and none that
\* may still be sent; and the worker does not end with an event in its hands.
NoSilentLoss ==
    /\ 1..emitted \subseteq Held \cup delivered \cup dropped
    /\ sink_drops_total = Cardinality(dropped) /\ Held \cap dropped = {}
    /\ worker = "stopped" => Held = {}

\* A flush that returns Ok has decided the fate of everything sent before it, although
\* deadlines of other flush calls, retries and full batches interleave with it.
FlushOkDecides ==
    \A k \in Flushes : flush[k] = "ok" => 1..mark[k] \subseteq delivered \cup dropped

\* The controller counts a regression only when a batch was really repeated or
\* overtaken (scripts/smoke-agent-controller.sh:409): without a lost answer or a
\* timed-out post the sequences arrive in order, across retries, hellos and restarts.
RegressionMeansRepeat ==
    sequences[Agent].regressions_total > 0 => faults > 0

\* Every event sent comes to a decision: none stays in the buffer for want of others.
EveryEventDecided ==
    \A e \in Events : emitted >= e ~> e \in delivered \cup dropped

\* Dropping the sink returns: the worker ends.
DropReturns == closed ~> worker = "stopped"

=============================================================================
