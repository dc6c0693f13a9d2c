--------------------------- MODULE NetworkMonitor ---------------------------
(***************************************************************************)
(* The network observer: the three tracepoint programs of                  *)
(* ebpf/network_monitor.c, the RTT baseline they learn per connection key, *)
(* and the classification in user space (observer/network.rs).  The kernel *)
(* changes the state of a socket under its lock, so the program that sees  *)
(* a transition is one step.  A key (addresses and ports) is used by one   *)
(* connection after another; its baseline stays until the LRU map evicts   *)
(* it.  RTTs and baselines are u32 microseconds, counts are u8.            *)
(***************************************************************************)
EXTENDS ObserverLoop

CONSTANTS
    Keys,              \* struct conn_key
    NoBaseline,        \* no entry in baseline_rtt
    Rtts,              \* values of srtt_us >> 3; 0 when there is none
    Cfgs,              \* tapio_config: enabled, ratio, abs_us, samples
    U32, U8,           \* 2^32 and UINT8_MAX
    Floor,             \* 100000: a learnt baseline above it is not kept
    MaxCfgChanges,     \* bound: config changes
    MaxEvictions       \* bound: entries the LRU map evicts

ASSUME NetworkAssumption ==
    /\ Rtts \subseteq Nat
    /\ \A c \in Cfgs : /\ c.enabled \in BOOLEAN
                       /\ c.ratio \in Nat /\ c.abs_us \in Nat /\ c.samples \in Nat
    /\ U32 \in Nat \ {0} /\ U8 \in Nat \ {0} /\ Floor \in Nat
    /\ MaxCfgChanges \in Nat /\ MaxEvictions \in Nat
    \* No RTT a TCP socket measures comes near the width of the arithmetic.
    /\ \A r \in Rtts : /\ 10 * r < U32 /\ (U8 + 1) * r < U32
                       /\ \A c \in Cfgs : c.ratio * r < U32

\* The transitions of a TCP socket; those from ESTABLISHED to CLOSE are taken as one.
Transitions ==
    {<<"CLOSE", "SYN_SENT">>, <<"SYN_SENT", "ESTABLISHED">>, <<"SYN_SENT", "CLOSE">>,
     <<"CLOSE", "LISTEN">>, <<"LISTEN", "SYN_RECV">>, <<"LISTEN", "CLOSE">>,
     <<"SYN_RECV", "ESTABLISHED">>, <<"SYN_RECV", "CLOSE">>, <<"ESTABLISHED", "CLOSE">>}

VARIABLES
    cfg, changes,
    tcp,           \* tcp[k]: the state of the socket that has key k
    baseline_rtt,  \* baseline_rtt[k]: baseline_us, sample_count, state
    stale,         \* keys last updated over STALE_THRESHOLD_NS ago
    evictions,
    learnt,        \* history: the RTTs that went into key k's baseline
    facts,         \* history: <<fact, key>> of what happened to connections
    emitted        \* <<event type, key>> of the occurrences handed to the sink

netVars == <<cfg, changes, tcp, baseline_rtt, stale, evictions, learnt, facts>>
vars == <<netVars, emitted, loopVars>>

Init ==
    /\ LoopInit
    /\ cfg \in Cfgs /\ changes = 0
    /\ tcp = [k \in Keys |-> "CLOSE"]
    /\ baseline_rtt = [k \in Keys |-> NoBaseline]
    /\ stale = {} /\ evictions = 0
    /\ learnt = [k \in Keys |-> {}]
    /\ facts = {} /\ emitted = {}

-----------------------------------------------------------------------------
(* Environment.                                                            *)

\* A config apply changes the carrier (ConfigFanout).
change_config ==
    /\ changes < MaxCfgChanges /\ changes' = changes + 1
    /\ cfg' \in Cfgs \ {cfg}
    /\ UNCHANGED <<tcp, baseline_rtt, stale, evictions, learnt, facts, emitted, loopVars>>

\* An hour passes.
hour_passes ==
    /\ stale' = {k \in Keys : baseline_rtt[k] # NoBaseline}
    /\ UNCHANGED <<cfg, changes, tcp, baseline_rtt, evictions, learnt, facts, emitted, loopVars>>

\* The LRU map makes room.
evict(k) ==
    /\ baseline_rtt[k] # NoBaseline
    /\ evictions < MaxEvictions /\ evictions' = evictions + 1
    /\ baseline_rtt' = [baseline_rtt EXCEPT ![k] = NoBaseline]
    /\ learnt' = [learnt EXCEPT ![k] = {}]
    /\ stale' = stale \ {k}
    /\ UNCHANGED <<cfg, changes, tcp, facts, emitted, loopVars>>

-----------------------------------------------------------------------------
(* The RTT baseline.                                                       *)

u32(n) == n % U32

\* The baseline with its next learning sample, before it is judged.
learn(b, rtt) ==
    LET n == IF b.sample_count < U8 THEN b.sample_count + 1 ELSE b.sample_count IN
    [b EXCEPT !.sample_count = n,
              !.baseline_us = u32(b.baseline_us * (n - 1) + rtt) \div n]

LearningSamples == IF cfg.samples > U8 THEN U8 ELSE cfg.samples

LearningDone(b) == LearningSamples > 0 /\ b.sample_count >= LearningSamples

\* Mutant: a baseline that is not kept leaves its sample count behind.
baseline_learning_keeps_count(k, rtt) ==
    LET b == learn(baseline_rtt[k], rtt)
        restart == LearningDone(b) /\ b.baseline_us > Floor IN
    /\ baseline_rtt[k].state = "LEARNING"
    /\ baseline_rtt' = [baseline_rtt EXCEPT ![k] =
           IF restart THEN [b EXCEPT !.baseline_us = 0]
           ELSE IF LearningDone(b) THEN [b EXCEPT !.state = "STABLE"] ELSE b]
    /\ learnt' = [learnt EXCEPT ![k] = IF restart THEN {} ELSE @ \cup {rtt}]
    /\ UNCHANGED stale

\* A sample while LEARNING: with enough samples the baseline becomes stable, or is
\* learnt again from nothing when it is above the floor.
baseline_learning(k, rtt) ==
    LET b == learn(baseline_rtt[k], rtt)
        restart == LearningDone(b) /\ b.baseline_us > Floor IN
    /\ baseline_rtt[k].state = "LEARNING"
    /\ baseline_rtt' = [baseline_rtt EXCEPT ![k] =
           IF restart THEN [baseline_us |-> 0, sample_count |-> 0, state |-> "LEARNING"]
           ELSE IF LearningDone(b) THEN [b EXCEPT !.state = "STABLE"] ELSE b]
    /\ learnt' = [learnt EXCEPT ![k] = IF restart THEN {} ELSE @ \cup {rtt}]
    /\ UNCHANGED stale

\* A sample while STABLE: it refreshes a stale baseline by a tenth.
baseline_stable(k, rtt) ==
    /\ baseline_rtt[k].state = "STABLE"
    /\ IF k \in stale
       THEN /\ baseline_rtt' = [baseline_rtt EXCEPT ![k].baseline_us = u32(@ * 9 + rtt) \div 10]
            /\ learnt' = [learnt EXCEPT ![k] = @ \cup {rtt}]
            /\ stale' = stale \ {k}
       ELSE UNCHANGED <<baseline_rtt, learnt, stale>>

\* The first sample of a key.
baseline_insert(k, rtt) ==
    /\ baseline_rtt[k] = NoBaseline
    /\ baseline_rtt' = [baseline_rtt EXCEPT ![k] =
           [baseline_us |-> rtt, sample_count |-> 1, state |-> "LEARNING"]]
    /\ learnt' = [learnt EXCEPT ![k] = {rtt}]
    /\ UNCHANGED stale

track_rtt(k, rtt) ==
    \/ baseline_insert(k, rtt)
    \/ baseline_rtt[k] # NoBaseline /\ (baseline_learning(k, rtt) \/ baseline_stable(k, rtt))

\* Mutant: a zero absolute threshold is compared like any other.
SpikeZeroArmed(k, rtt) ==
    /\ baseline_rtt[k] # NoBaseline /\ baseline_rtt[k].state = "STABLE"
    /\ \/ cfg.ratio > 0 /\ rtt > u32(baseline_rtt'[k].baseline_us * cfg.ratio)
       \/ rtt > cfg.abs_us

\* A spike against the baseline the sample has just refreshed; it was stable before.
Spike(k, rtt) ==
    /\ baseline_rtt[k] # NoBaseline /\ baseline_rtt[k].state = "STABLE"
    /\ \/ cfg.ratio > 0 /\ rtt > u32(baseline_rtt'[k].baseline_us * cfg.ratio)
       \/ cfg.abs_us > 0 /\ rtt > cfg.abs_us

-----------------------------------------------------------------------------
(* The programs.  A transition is the kernel's; the program records it.    *)

Record(type, k, old, new, rtt) ==
    [type |-> type, key |-> k, old |-> old, new |-> new, rtt |-> rtt]

\* The transitions worth a record.
Important(old, new) == old # new /\ (new \in {"CLOSE", "LISTEN"} \/ old \in {"SYN_SENT", "SYN_RECV"})

trace_inet_sock_set_state(k, new, rtt) ==
    LET old     == tcp[k]
        tracked == cfg.enabled /\ new = "ESTABLISHED" /\ rtt > 0 IN
    /\ tcp' = [tcp EXCEPT ![k] = new]
    /\ IF tracked THEN track_rtt(k, rtt) ELSE UNCHANGED <<baseline_rtt, stale, learnt>>
    /\ IF cfg.enabled
       THEN bpf_ringbuf_submit(
                (IF tracked /\ Spike(k, rtt) THEN <<Record("RTT_SPIKE", k, old, new, rtt)>> ELSE <<>>)
                \o (IF Important(old, new) THEN <<Record("STATE_CHANGE", k, old, new, 0)>> ELSE <<>>))
       ELSE UNCHANGED loopVars
    /\ UNCHANGED <<cfg, changes, evictions, emitted>>

\* What the kernel does with a socket, and what the connection went through.
set_state(k) ==
    /\ Attached
    /\ \E new \in {t[2] : t \in {u \in Transitions : u[1] = tcp[k]}} :
          /\ \E rtt \in IF new = "ESTABLISHED" THEN Rtts ELSE {0} :
                trace_inet_sock_set_state(k, new, rtt)
          /\ facts' = facts \cup IF tcp[k] = "SYN_SENT" /\ new = "CLOSE"
                                THEN {<<"failed connect", k>>} ELSE {}

\* tcp_receive_reset and tcp_retransmit_skb record what they see, and no more.
trace_tcp(k, type) ==
    /\ IF cfg.enabled THEN bpf_ringbuf_submit(<<Record(type, k, tcp[k], tcp[k], 0)>>)
       ELSE UNCHANGED loopVars
    /\ facts' = facts \cup {<<type, k>>}
    /\ UNCHANGED <<cfg, changes, tcp, baseline_rtt, stale, evictions, learnt, emitted>>

trace_tcp_receive_reset(k) ==
    tcp[k] \in {"SYN_SENT", "ESTABLISHED"} /\ Attached /\ trace_tcp(k, "RST_RECEIVED")

trace_tcp_retransmit_skb(k) ==
    tcp[k] \in {"SYN_SENT", "ESTABLISHED"} /\ Attached /\ trace_tcp(k, "RETRANSMIT")

-----------------------------------------------------------------------------
(* User space.                                                             *)

\* Mutant: any connection that closes has timed out.
classify_any_close(e) ==
    CASE e.type = "RST_RECEIVED" -> {<<"connection_refused", e.key>>}
      [] e.type = "RETRANSMIT"   -> {<<"retransmit_spike", e.key>>}
      [] e.type = "RTT_SPIKE"    -> {<<"rtt_degradation", e.key>>}
      [] e.type = "STATE_CHANGE" /\ e.new = "CLOSE" -> {<<"connection_timeout", e.key>>}
      [] OTHER -> {}

\* The occurrence a record amounts to, if any.
classify(e) ==
    CASE e.type = "RST_RECEIVED" -> {<<"connection_refused", e.key>>}
      [] e.type = "RETRANSMIT"   -> {<<"retransmit_spike", e.key>>}
      [] e.type = "RTT_SPIKE"    -> {<<"rtt_degradation", e.key>>}
      [] e.type = "STATE_CHANGE" /\ e.old = "SYN_SENT" /\ e.new = "CLOSE" ->
             {<<"connection_timeout", e.key>>}
      [] OTHER -> {}

\* The loop takes a record and hands what it amounts to to the sink.
drain ==
    /\ take_record
    /\ emitted' = emitted \cup classify(Head(ring))
    /\ UNCHANGED netVars

-----------------------------------------------------------------------------

KernelStep ==
    \/ change_config \/ hour_passes
    \/ \E k \in Keys :
          \/ evict(k) \/ set_state(k)
          \/ trace_tcp_receive_reset(k) \/ trace_tcp_retransmit_skb(k)

Next ==
    \/ KernelStep
    \/ drain
    \/ LoopStep /\ UNCHANGED <<netVars, emitted>>

Spec == Init /\ [][Next]_vars

-----------------------------------------------------------------------------
(* Properties.                                                             *)

\* The integer mean never leaves the samples it is made of, through learning, the
\* restart above the floor, and the refresh of a stale baseline: it neither overflows
\* nor starts below them.
BaselineBetweenSamples ==
    \A k \in Keys :
        baseline_rtt[k] # NoBaseline /\ baseline_rtt[k].sample_count > 0 =>
            \E low, high \in learnt[k] :
                low <= baseline_rtt[k].baseline_us /\ baseline_rtt[k].baseline_us <= high

\* An RTT spike is evidence: it exceeds the absolute threshold, or the multiple of some
\* RTT that really was sampled on that key, and zero thresholds are inert
\* (docs/agent-kernel-config-abi.md:74).
SpikeIsJustified ==
    [][\A i \in DOMAIN ring' :
          i > Len(ring) /\ ring'[i].type = "RTT_SPIKE" =>
              LET r == ring'[i].rtt
                  k == ring'[i].key IN
              \/ cfg.abs_us > 0 /\ r > cfg.abs_us
              \/ /\ cfg.ratio > 0
                 /\ \E sample \in learnt'[k] : r > sample * cfg.ratio]_vars

\* An occurrence names something that happened to a connection of its key: a timeout
\* one whose connect failed, a refusal one that was reset.
OccurrencesAreFacts ==
    \A k \in Keys :
        /\ <<"connection_timeout", k>> \in emitted => <<"failed connect", k>> \in facts
        /\ <<"connection_refused", k>> \in emitted => <<"RST_RECEIVED", k>> \in facts
        /\ <<"retransmit_spike", k>> \in emitted => <<"RETRANSMIT", k>> \in facts

=============================================================================
