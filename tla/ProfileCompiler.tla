--------------------------- MODULE ProfileCompiler ---------------------------
(***************************************************************************)
(* From the operator's Evidence Profile to the verdicts on a node: the     *)
(* controller validates and compiles the document (tapio-profile), serves  *)
(* the result (tapio-controller, tapio-wire), and the agent turns it into  *)
(* the words of the kernel's config map and the PMC thresholds             *)
(* (tapio-agent/src/config.rs), by which records are judged.               *)
(*                                                                         *)
(* Milliseconds become microseconds in a u32 and nanoseconds in a u64.  A  *)
(* float is a whole number of Fine-th parts of the unit it is compiled to  *)
(* (permille or thousandths), or NotFinite.                                *)
(***************************************************************************)
EXTENDS Integers, Sequences

CONSTANTS
    Absent,           \* Option::None
    NotFinite,        \* a NaN or an infinity
    TwoTo32, TwoTo64, \* 2^32 and 2^64
    NsPerMs,          \* 1_000_000
    Fine              \* resolution of a float, per compiled unit

MAX_RATIO == 100
MAX_RTT_ABS_MS == 600000
MAX_WARNING_MS == 60000
MAX_CRITICAL_MS == 600000
MAX_IGNORE_EXIT_CODES == 16
MAX_EXIT_CODE == 255
MAX_STALL == 1000 * Fine    \* 100 %
MAX_IPC == 16000 * Fine     \* 16.0
UsPerMs == 1000

\* What the comments at MAX_RTT_ABS_MS, MAX_WARNING_MS and MAX_CRITICAL_MS work out.
ASSUME ProfileAssumption ==
    /\ TwoTo32 \in Nat /\ MAX_RTT_ABS_MS * UsPerMs < TwoTo32
    /\ TwoTo64 \in Nat /\ NsPerMs \in Nat \ {0} /\ MAX_CRITICAL_MS * NsPerMs < TwoTo64
    /\ Fine \in Nat \ {0} /\ Fine % 2 = 0
    /\ Absent \notin Int \cup {NotFinite} \cup BOOLEAN \cup Seq(Int) /\ NotFinite \notin Int

\* The one builtin base (rtt_min_baseline_samples and conn_refused_*, which no document
\* can override, are left out).
production_default ==
    [network   |-> [enabled |-> TRUE, ratio |-> 2, abs_ms |-> 500],
     storage   |-> [enabled |-> TRUE, warning_ms |-> 50, critical_ms |-> 200],
     container |-> [enabled |-> TRUE, ignore_exit_codes |-> <<>>],
     node_pmc  |-> [enabled |-> TRUE, warning |-> 200 * Fine, critical |-> 400 * Fine,
                    ipc |-> 1000 * Fine]]

-----------------------------------------------------------------------------
(* The document.                                                           *)

Option(S) == S \cup {Absent}
Or(value, base) == IF value = Absent THEN base ELSE value

\* ProfileOverrides as deserialized: what is missing, or null, is Absent.
ProfileOverrides ==
    [network   : [enabled : Option(BOOLEAN), ratio : Option(Nat), abs_ms : Option(Nat)],
     storage   : [enabled : Option(BOOLEAN), warning_ms : Option(Nat), critical_ms : Option(Nat)],
     container : [enabled : Option(BOOLEAN), ignore_exit_codes : Option(Seq(Int))],
     node_pmc  : [enabled : Option(BOOLEAN), warning : Option(Int \cup {NotFinite}),
                  critical : Option(Int \cup {NotFinite}), ipc : Option(Int \cup {NotFinite})]]

NoOverrides ==
    [network   |-> [enabled |-> Absent, ratio |-> Absent, abs_ms |-> Absent],
     storage   |-> [enabled |-> Absent, warning_ms |-> Absent, critical_ms |-> Absent],
     container |-> [enabled |-> Absent, ignore_exit_codes |-> Absent],
     node_pmc  |-> [enabled |-> Absent, warning |-> Absent, critical |-> Absent, ipc |-> Absent]]

\* EvidenceProfile; of a base name only its kind matters.
EvidenceProfile ==
    [api_version : BOOLEAN, kind : BOOLEAN,
     base : {"production-default", "unknown", "malformed", "missing"},
     overrides : ProfileOverrides]

-----------------------------------------------------------------------------
(* validate.                                                               *)

Ok == [error |-> "none", path |-> "none"]
Err(error, path) == [error |-> error, path |-> path]

\* Mutant: a later error takes the place of an earlier one.
ThenLast(result, next) == IF next = Ok THEN result ELSE next

\* `?` after a check: an error is the result, and only without one the next check counts.
Then(result, next) == IF result = Ok THEN next ELSE result

InRange(path, value, min, max) ==
    IF value = Absent \/ (min <= value /\ value <= max) THEN Ok ELSE Err("OutOfRange", path)

validate_finite_range(path, value, max) ==
    IF value = NotFinite THEN Err("NotFinite", path) ELSE InRange(path, value, 0, max)

\* The thresholds are compared as resolved, so that an override of one of them is held
\* against the base's other.
ThresholdOrder(path, warning, critical, base_warning, base_critical) ==
    IF /\ NotFinite \notin {warning, critical}
       /\ Or(critical, base_critical) < Or(warning, base_warning)
      THEN Err("ThresholdOrder", path) ELSE Ok

validate_envelope(p) ==
    IF ~p.api_version THEN Err("UnsupportedApiVersion", "apiVersion")
    ELSE IF ~p.kind THEN Err("UnsupportedKind", "kind") ELSE Ok

\* The base is given, valid_profile_name, and one of the builtins.
CheckBase(p) ==
    CASE p.base = "missing"   -> Err("MissingBase", "base")
      [] p.base = "malformed" -> Err("InvalidProfileName", "base")
      [] p.base = "unknown"   -> Err("UnknownBase", "base")
      [] OTHER                -> Ok

apply_network(o) ==
    Then(InRange("network.ratio", o.ratio, 1, MAX_RATIO),
         InRange("network.abs_ms", o.abs_ms, 1, MAX_RTT_ABS_MS))

apply_storage(o, base) ==
    Then(InRange("storage.warning_ms", o.warning_ms, 1, MAX_WARNING_MS),
    Then(InRange("storage.critical_ms", o.critical_ms, 1, MAX_CRITICAL_MS),
         ThresholdOrder("storage.slow_io", o.warning_ms, o.critical_ms,
                        base.warning_ms, base.critical_ms)))

\* The codes of a container block: none, if it does not list any.
Codes(o) == Or(o.ignore_exit_codes, <<>>)

apply_container(o) ==
    LET codes == Codes(o)
        path == "container.ignore_exit_codes"
    IN IF Len(codes) > MAX_IGNORE_EXIT_CODES THEN Err("TooManyIgnoreExitCodes", path)
       ELSE IF \E i \in DOMAIN codes : codes[i] \notin 0..MAX_EXIT_CODE
         THEN Err("OutOfRange", path) ELSE Ok

apply_node_pmc(o, base) ==
    Then(validate_finite_range("node_pmc.warning", o.warning, MAX_STALL),
    Then(validate_finite_range("node_pmc.critical", o.critical, MAX_STALL),
    Then(ThresholdOrder("node_pmc.stall_pct", o.warning, o.critical,
                        base.warning, base.critical),
         validate_finite_range("node_pmc.ipc", o.ipc, MAX_IPC))))

validate(p) ==
    Then(validate_envelope(p),
    Then(CheckBase(p),
    Then(apply_network(p.overrides.network),
    Then(apply_storage(p.overrides.storage, production_default.storage),
    Then(apply_container(p.overrides.container),
         apply_node_pmc(p.overrides.node_pmc, production_default.node_pmc))))))

\* The loop over the codes: one listed twice keeps its first place.
check_code(checked, code) ==
    IF \E i \in DOMAIN checked : checked[i] = code THEN checked ELSE Append(checked, code)

\* ValidatedProfile: the base with the overrides, and the checked codes, applied.
Resolved(p, checked) ==
    LET o == p.overrides
        b == production_default
    IN [network   |-> [enabled |-> Or(o.network.enabled, b.network.enabled),
                       ratio   |-> Or(o.network.ratio, b.network.ratio),
                       abs_ms  |-> Or(o.network.abs_ms, b.network.abs_ms)],
        storage   |-> [enabled     |-> Or(o.storage.enabled, b.storage.enabled),
                       warning_ms  |-> Or(o.storage.warning_ms, b.storage.warning_ms),
                       critical_ms |-> Or(o.storage.critical_ms, b.storage.critical_ms)],
        container |-> [enabled |-> Or(o.container.enabled, b.container.enabled),
                       ignore_exit_codes |-> checked],
        node_pmc  |-> [enabled  |-> Or(o.node_pmc.enabled, b.node_pmc.enabled),
                       warning  |-> Or(o.node_pmc.warning, b.node_pmc.warning),
                       critical |-> Or(o.node_pmc.critical, b.node_pmc.critical),
                       ipc      |-> Or(o.node_pmc.ipc, b.node_pmc.ipc)]]

-----------------------------------------------------------------------------
(* compile.                                                                *)

\* (x * scale).round() as u32: to the nearest, halves upwards.
Round(x) == (x + Fine \div 2) \div Fine

compile(r) ==
    [network   |-> [enabled |-> r.network.enabled, rtt_spike_ratio |-> r.network.ratio,
                    rtt_spike_abs_us |-> (r.network.abs_ms * UsPerMs) % TwoTo32],
     storage   |-> [enabled |-> r.storage.enabled,
                    slow_io_warning_ns |-> (r.storage.warning_ms * NsPerMs) % TwoTo64,
                    slow_io_critical_ns |-> (r.storage.critical_ms * NsPerMs) % TwoTo64],
     container |-> r.container,
     node_pmc  |-> [enabled |-> r.node_pmc.enabled,
                    stall_warning_permille |-> Round(r.node_pmc.warning),
                    stall_critical_permille |-> Round(r.node_pmc.critical),
                    ipc_degradation_milli |-> Round(r.node_pmc.ipc)]]

\* The config of ConfigResponse::default_v1, written out once more in tapio-wire.
default_v1 ==
    [network   |-> [enabled |-> TRUE, rtt_spike_ratio |-> 2, rtt_spike_abs_us |-> 500000],
     storage   |-> [enabled |-> TRUE, slow_io_warning_ns |-> 50 * NsPerMs,
                    slow_io_critical_ns |-> 200 * NsPerMs],
     container |-> [enabled |-> TRUE, ignore_exit_codes |-> <<>>],
     node_pmc  |-> [enabled |-> TRUE, stall_warning_permille |-> 200,
                    stall_critical_permille |-> 400, ipc_degradation_milli |-> 1000]]

\* config_response_from_compiled: generation 1, and the hash of the compiled config (here
\* the config itself).
ConfigResponse(compiled) ==
    [version |-> 1, config_hash |-> compiled, config |-> compiled,
     batching |-> [send_interval_ms |-> 1000, max_batch_events |-> 256]]

\* ConfigResponse::validate, as the agent calls it before it applies anything.
ResponseValid(resp) ==
    /\ resp.config.storage.slow_io_warning_ns # 0
    /\ resp.config.storage.slow_io_critical_ns # 0
    /\ resp.batching.send_interval_ms # 0 /\ resp.batching.max_batch_events # 0

-----------------------------------------------------------------------------
(* The agent.                                                              *)

Observers == {"network", "storage", "container", "node_pmc"}

AtMost(n, limit) == IF n <= limit THEN n ELSE limit

\* Mutant: the count is the length of the array.
tapio_config_full_count(config, generation) ==
    [generation |-> generation,
     flags |-> {o \in Observers : config[o].enabled},
     slow_io_threshold_ns |-> config.storage.slow_io_warning_ns,
     io_latency_critical_ns |-> config.storage.slow_io_critical_ns,
     rtt_spike_multiplier |-> config.network.rtt_spike_ratio,
     rtt_spike_abs_us |-> config.network.rtt_spike_abs_us,
     ignore_exit_count |-> MAX_IGNORE_EXIT_CODES,
     ignore_exit_codes |-> [i \in 1..MAX_IGNORE_EXIT_CODES |->
         IF i <= Len(config.container.ignore_exit_codes)
           THEN config.container.ignore_exit_codes[i] ELSE 0]]

\* tapio_config_from_compiled: the kernel's words; unused slots of the array are zero.
tapio_config_from_compiled(config, generation) ==
    LET codes == config.container.ignore_exit_codes
    IN [generation |-> generation,
        flags |-> {o \in Observers : config[o].enabled},
        slow_io_threshold_ns |-> config.storage.slow_io_warning_ns,
        io_latency_critical_ns |-> config.storage.slow_io_critical_ns,
        rtt_spike_multiplier |-> config.network.rtt_spike_ratio,
        rtt_spike_abs_us |-> config.network.rtt_spike_abs_us,
        ignore_exit_count |-> AtMost(Len(codes), MAX_IGNORE_EXIT_CODES),
        ignore_exit_codes |->
            [i \in 1..MAX_IGNORE_EXIT_CODES |-> IF i <= Len(codes) THEN codes[i] ELSE 0]]

\* Thresholds::tapio_config: the TOML thresholds t of an agent without a controller.  They
\* are taken as they are, only clamped to the u32 of the network words.
tapio_config(t) ==
    [generation |-> 1, flags |-> Observers,
     slow_io_threshold_ns |-> t.io_latency_warning_ns,
     io_latency_critical_ns |-> t.io_latency_critical_ns,
     rtt_spike_multiplier |-> AtMost(t.rtt_spike_ratio, TwoTo32 - 1),
     rtt_spike_abs_us |-> AtMost(t.rtt_spike_abs_us, TwoTo32 - 1),
     ignore_exit_count |-> 0,
     ignore_exit_codes |-> [i \in 1..MAX_IGNORE_EXIT_CODES |-> 0]]

\* Thresholds::default.
DefaultThresholds ==
    [io_latency_warning_ns |-> 50 * NsPerMs, io_latency_critical_ns |-> 200 * NsPerMs,
     rtt_spike_ratio |-> 2, rtt_spike_abs_us |-> 500000,
     stall_pct |-> [warning |-> 200 * Fine, critical |-> 400 * Fine, ipc |-> 1000 * Fine]]

\* pmc_thresholds_from_compiled: back to floats.
pmc_thresholds_from_compiled(config) ==
    [warning  |-> config.node_pmc.stall_warning_permille * Fine,
     critical |-> config.node_pmc.stall_critical_permille * Fine,
     ipc      |-> config.node_pmc.ipc_degradation_milli * Fine]

-----------------------------------------------------------------------------
(* The verdicts: the kernel programs' by its words, and node_pmc's.        *)

\* trace_block_rq_complete, for a request without an error.
StorageVerdict(k, latency_ns) ==
    IF "storage" \notin k.flags THEN "none"
    ELSE IF k.io_latency_critical_ns > 0 /\ latency_ns >= k.io_latency_critical_ns THEN "critical"
    ELSE IF k.slow_io_threshold_ns > 0 /\ latency_ns >= k.slow_io_threshold_ns THEN "warning"
    ELSE "none"

\* trace_inet_sock_set_state, against a stable baseline.
RttSpike(k, baseline_us, rtt_us) ==
    /\ "network" \in k.flags
    /\ \/ k.rtt_spike_multiplier > 0 /\ rtt_us > (baseline_us * k.rtt_spike_multiplier) % TwoTo32
       \/ k.rtt_spike_abs_us > 0 /\ rtt_us > k.rtt_spike_abs_us

\* handle_exit.
ExitReported(k, code) ==
    /\ "container" \in k.flags
    /\ \A i \in 1..MAX_IGNORE_EXIT_CODES :
           i <= k.ignore_exit_count => k.ignore_exit_codes[i] # code

\* node_pmc::classify, for a sample with cycles.
PmcVerdict(t, stall, ipc) ==
    IF stall >= t.critical THEN "cpu_stall"
    ELSE IF stall >= t.warning THEN "memory_pressure"
    ELSE IF ipc < t.ipc THEN "ipc_degradation" ELSE "none"

=============================================================================
