---------------------------- MODULE ObserverLoop ----------------------------
(***************************************************************************)
(* What the ring-buffer observers have in common: kernel programs that     *)
(* reserve a record in a bounded ring buffer or count the loss             *)
(* (ebpf/headers/metrics.h), and the loop of observer/network.rs and       *)
(* observer/container.rs, which wakes every 10 ms, reads the loss counter  *)
(* at every LOST_EVENTS_CHECK_INTERVAL-th tick and drains at most          *)
(* MAX_DRAIN_PER_TICK records while the kernel may go on adding more.      *)
(* What a record holds and what is done with it is the observer's.         *)
(***************************************************************************)
EXTENDS Integers, Sequences

CONSTANTS
    RingCap,                      \* records the ring buffer holds
    MAX_DRAIN_PER_TICK,
    LOST_EVENTS_CHECK_INTERVAL,
    MaxLost                       \* bound: losses counted

ASSUME LoopAssumption ==
    /\ RingCap \in Nat \ {0} /\ MAX_DRAIN_PER_TICK \in Nat \ {0}
    /\ LOST_EVENTS_CHECK_INTERVAL \in Nat \ {0} /\ MaxLost \in Nat

VARIABLES
    ring,        \* the records in the ring buffer, oldest first
    lost,        \* METRIC_LOST_EVENTS, summed over the CPUs
    lost_total,  \* what the agent has added to lost_events_total (prev_lost)
    loop,        \* where the loop is
    tick_count,  \* modulo LOST_EVENTS_CHECK_INTERVAL
    drained,     \* records taken in this tick
    shutdown     \* the shutdown watch channel

loopVars == <<ring, lost, lost_total, loop, tick_count, drained, shutdown>>

LoopInit ==
    /\ ring = <<>> /\ lost = 0 /\ lost_total = 0
    /\ loop = "sleeping" /\ tick_count = 0 /\ drained = 0
    /\ shutdown = FALSE

\* The programs are attached until run returns and drops them.
Attached == loop # "stopped"

\* A program emits records, one bpf_ringbuf_reserve after the other: those that do not
\* fit are counted.
bpf_ringbuf_submit(records) ==
    LET room == RingCap - Len(ring)
        fit  == IF Len(records) <= room THEN Len(records) ELSE room IN
    /\ ring' = ring \o SubSeq(records, 1, fit)
    /\ lost' = lost + (Len(records) - fit)
    /\ lost' <= MaxLost
    /\ UNCHANGED <<lost_total, loop, tick_count, drained, shutdown>>

\* Mutant: the counter is read at the first tick only.
wake_once ==
    /\ loop = "sleeping"
    /\ tick_count' = IF tick_count + 1 < LOST_EVENTS_CHECK_INTERVAL THEN tick_count + 1
                     ELSE tick_count
    /\ lost_total' = IF tick_count = 0 THEN lost ELSE lost_total
    /\ loop' = "draining" /\ drained' = 0
    /\ UNCHANGED <<ring, lost, shutdown>>

\* The 10 ms sleep ends.
wake ==
    /\ loop = "sleeping"
    /\ tick_count' = (tick_count + 1) % LOST_EVENTS_CHECK_INTERVAL
    /\ lost_total' = IF tick_count' = 0 /\ lost > lost_total THEN lost ELSE lost_total
    /\ loop' = "draining" /\ drained' = 0
    /\ UNCHANGED <<ring, lost, shutdown>>

\* The loop takes one more record.
take_record ==
    /\ loop = "draining" /\ ring # <<>> /\ drained < MAX_DRAIN_PER_TICK
    /\ ring' = Tail(ring) /\ drained' = drained + 1
    /\ UNCHANGED <<lost, lost_total, loop, tick_count, shutdown>>

\* Mutant: the drain ends only with the ring buffer empty.
drain_end_uncapped ==
    /\ loop = "draining" /\ ring = <<>>
    /\ loop' = "sleeping" /\ drained' = 0
    /\ UNCHANGED <<ring, lost, lost_total, tick_count, shutdown>>

\* The drain ends with the ring buffer empty or at the cap.
drain_end ==
    /\ loop = "draining" /\ (ring = <<>> \/ drained = MAX_DRAIN_PER_TICK)
    /\ loop' = "sleeping" /\ drained' = 0
    /\ UNCHANGED <<ring, lost, lost_total, tick_count, shutdown>>

\* SIGINT.
signal_shutdown ==
    /\ ~shutdown /\ shutdown' = TRUE
    /\ UNCHANGED <<ring, lost, lost_total, loop, tick_count, drained>>

\* The select sees the shutdown: the loop ends without another drain.
stop ==
    /\ loop = "sleeping" /\ shutdown
    /\ loop' = "stopped"
    /\ UNCHANGED <<ring, lost, lost_total, tick_count, drained, shutdown>>

\* The steps of the loop that touch nothing of the observer's own.
LoopStep == wake \/ drain_end \/ stop \/ signal_shutdown

LoopTypeOK ==
    /\ Len(ring) <= RingCap
    /\ lost \in 0..MaxLost /\ lost_total \in 0..lost
    /\ loop \in {"sleeping", "draining", "stopped"}
    /\ tick_count \in 0..(LOST_EVENTS_CHECK_INTERVAL - 1)
    /\ drained \in 0..MAX_DRAIN_PER_TICK
    /\ shutdown \in BOOLEAN

\* Losses reach the metric: once the kernel has counted some, the agent comes to count
\* them too, unless it is being shut down.
LossReported == (lost > lost_total) ~> (lost_total = lost \/ shutdown)

\* The drain cap is what lets the loop see a shutdown: it ends although the kernel may
\* refill the ring buffer as fast as it is drained.
ShutdownObserved == shutdown ~> loop = "stopped"

=============================================================================
