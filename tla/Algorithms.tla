----------------------------- MODULE Algorithms -----------------------------
(***************************************************************************)
(* The sequential algorithms against reference definitions, one piece of   *)
(* work per behaviour: a buffer is cut into requests, a profile is         *)
(* repaired until the controller accepts it, a calendar runs day by day,   *)
(* two timestamps are compared, an agent names itself.                     *)
(***************************************************************************)
EXTENDS BatchSplit, ProfileCompiler, OccurrenceClock, WireMessages

CONSTANTS
    Buffers,        \* what is cut: the lengths of the events, and their sums
    Limits,         \* values of max_batch_events and max_request_bytes
    EmptyLen,       \* serialized_empty_batch_len(): agent_id "agent", node_name "node"
    Documents,      \* the profiles
    LastDay,        \* the last day a u64 of nanoseconds reaches
    Instants,       \* the times that are compared
    Identities,     \* environments, kernel release files and applied configs
    Types, Facts    \* of events

EnvValues == {Unset, Blank, Text}

\* The sums of the first n lengths: total[n].
ASSUME BuffersAssumption ==
    \A b \in Buffers :
        /\ b.events \in Seq(U64) /\ b.events # <<>>
        /\ b.total \in [0..Len(b.events) -> Nat] /\ b.total[0] = 0
        /\ \A n \in 1..Len(b.events) : b.total[n] = b.total[n - 1] + b.events[n]

ASSUME InputsAssumption ==
    /\ EmptyLen \in U64 /\ Limits \subseteq [max_batch_events : Nat, max_request_bytes : U64]
    /\ Documents \subseteq EvidenceProfile /\ LastDay \in Nat
    /\ Instants \subseteq [days : Nat, second : Nat, subsec : Nat]
    /\ \A t \in Instants : t.second < 86400 /\ t.subsec < 1000000000
    /\ \A x \in Identities :
          /\ x.env \in [TAPIO_NODE_NAME : EnvValues, HOSTNAME : EnvValues,
                        TAPIO_AGENT_ID : EnvValues]
          /\ x.file \in EnvValues /\ x.applied.some \in BOOLEAN
    /\ \A type \in Types : type \in Seq(STRING)
    /\ \A facts \in Facts : \A path \in facts : path \in Seq(STRING)

VARIABLE work

-----------------------------------------------------------------------------
(* Splitting.                                                              *)

SplitWork ==
    {[kind |-> "split", buffer |-> b, limits |-> l, at |-> 0, acc |-> split_start(EmptyLen),
      cuts |-> <<>>] : b \in Buffers, l \in Limits}

\* A turn of the loop of split_events_by_size; cuts records where it closes a batch.
split_turn ==
    /\ work.kind = "split" /\ work.at < Len(work.buffer.events)
    /\ LET acc == split_step(work.acc, work.buffer.events[work.at + 1], EmptyLen,
                             work.limits.max_batch_events, work.limits.max_request_bytes)
       IN work' = [work EXCEPT !.at = @ + 1, !.acc = acc,
                     !.cuts = IF acc.batches = work.acc.batches THEN @ ELSE Append(@, work.at)]

\* The reference: the length of a request of the events after the a-th up to the b-th, with
\* a comma between any two, and whether it is within both limits.
RequestLen(a, b) ==
    saturating_add(EmptyLen, work.buffer.total[b] - work.buffer.total[a] + (b - a - 1))
Fits(a, b) ==
    b - a <= work.limits.max_batch_events /\ RequestLen(a, b) <= work.limits.max_request_bytes

\* The incremental length accounting of split_events_by_size yields exactly the greedy
\* cut: no event lost, repeated or moved, no empty batch, none longer than fits unless it
\* is a single event, and none closed before it had to be.
SplitIsGreedy ==
    work.kind = "split" /\ work.at = Len(work.buffer.events) =>
        LET events == work.buffer.events
            batches == split_result(work.acc)
            ends == Append(work.cuts, Len(events))
            Begin(k) == IF k = 1 THEN 0 ELSE ends[k - 1]
        IN
        /\ Len(batches) = Len(ends)
        /\ \A k \in DOMAIN ends :
              /\ Begin(k) < ends[k] /\ batches[k] = SubSeq(events, Begin(k) + 1, ends[k])
              /\ \A b \in (Begin(k) + 2)..ends[k] : Fits(Begin(k), b)
              /\ ends[k] < Len(events) => ~Fits(Begin(k), ends[k] + 1)

-----------------------------------------------------------------------------
(* Profiles.                                                               *)

ProfileWork == {[kind |-> "profile", doc |-> d, at |-> 0, checked |-> <<>>] : d \in Documents}

Near(limits) == limits \cup {n - 1 : n \in limits} \cup {n + 1 : n \in limits}

\* The operator repairs the field that the error names.
Repaired(doc, path) ==
    LET without(section, fields) ==
            [doc EXCEPT !.overrides[section] =
                [f \in DOMAIN @ |-> IF f \in fields THEN Absent ELSE @[f]]]
    IN CASE path = "apiVersion" -> [doc EXCEPT !.api_version = TRUE]
         [] path = "kind" -> [doc EXCEPT !.kind = TRUE]
         [] path = "base" -> [doc EXCEPT !.base = "production-default"]
         [] path = "network.ratio" -> without("network", {"ratio"})
         [] path = "network.abs_ms" -> without("network", {"abs_ms"})
         [] path = "storage.warning_ms" -> without("storage", {"warning_ms"})
         [] path = "storage.critical_ms" -> without("storage", {"critical_ms"})
         [] path = "storage.slow_io" -> without("storage", {"warning_ms", "critical_ms"})
         [] path = "container.ignore_exit_codes" -> without("container", {"ignore_exit_codes"})
         [] path = "node_pmc.warning" -> without("node_pmc", {"warning"})
         [] path = "node_pmc.critical" -> without("node_pmc", {"critical"})
         [] path = "node_pmc.stall_pct" -> without("node_pmc", {"warning", "critical"})
         [] path = "node_pmc.ipc" -> without("node_pmc", {"ipc"})

repair ==
    /\ work.kind = "profile" /\ validate(work.doc) # Ok
    /\ work' = [work EXCEPT !.doc = Repaired(@, validate(@).path)]

WrittenCodes == Codes(work.doc.overrides.container)

\* A turn of apply_container's loop over the codes of a document it accepts.
check_turn ==
    /\ work.kind = "profile" /\ validate(work.doc) = Ok /\ work.at < Len(WrittenCodes)
    /\ work' = [work EXCEPT !.at = @ + 1,
                            !.checked = check_code(@, WrittenCodes[work.at + 1])]

\* The document is accepted, resolved, compiled, served and turned into the kernel's words.
Checked == validate(work.doc) = Ok /\ work.at = Len(WrittenCodes)
Written == Resolved(work.doc, work.checked)
Served == ConfigResponse(compile(Written))
KernelWords == tapio_config_from_compiled(Served.config, Served.version)

\* Errors come one at a time, but each leads on: once the field an error names is
\* repaired, the next error is of a later field, or there is none.
FieldOrder ==
    <<"apiVersion", "kind", "base", "network.ratio", "network.abs_ms", "storage.warning_ms",
      "storage.critical_ms", "storage.slow_io", "container.ignore_exit_codes",
      "node_pmc.warning", "node_pmc.critical", "node_pmc.stall_pct", "node_pmc.ipc", "none">>
Rank(doc) == CHOOSE i \in DOMAIN FieldOrder : FieldOrder[i] = validate(doc).path

RepairMovesOn ==
    [][work.kind = "profile" /\ validate(work.doc) # Ok => Rank(work'.doc) > Rank(work.doc)]_work

\* An agent without a controller, whose TOML file sets nothing, judges as one that is served
\* the empty profile: the defaults of the crates agree.
DefaultsAgree ==
    work.doc.overrides = NoOverrides =>
        /\ tapio_config(DefaultThresholds) = KernelWords
        /\ DefaultThresholds.stall_pct = pmc_thresholds_from_compiled(Served.config)
        /\ default_v1 = Served.config

\* What an accepted profile says is what a node does, through the compiler, the wire, the
\* agent and the kernel's words: latencies, RTTs and exit codes are judged by exactly the
\* written values (the profile speaks of ms, the kernel of us and ns), stalls and IPC by
\* values at most half a permille or thousandth away; the agent never refuses what the
\* controller serves, and an empty profile means what an agent does on its own.
JudgesAsWritten ==
    work.kind = "profile" /\ Checked =>
        LET w == Written
            pmc == pmc_thresholds_from_compiled(Served.config)
        IN
        /\ ResponseValid(Served) /\ DefaultsAgree
        /\ \A ms \in Near({w.storage.warning_ms, w.storage.critical_ms}) \ {0} : \A ns \in {-1, 0} :
              StorageVerdict(KernelWords, ms * NsPerMs + ns) =
                 IF ~w.storage.enabled THEN "none"
                 ELSE IF ms * NsPerMs + ns >= w.storage.critical_ms * NsPerMs THEN "critical"
                 ELSE IF ms * NsPerMs + ns >= w.storage.warning_ms * NsPerMs THEN "warning"
                 ELSE "none"
        /\ \A us \in Near({w.network.abs_ms * UsPerMs, 7 * w.network.ratio}) :
              RttSpike(KernelWords, 7, us) <=>
                 /\ w.network.enabled
                 /\ us > w.network.abs_ms * UsPerMs \/ us > 7 * w.network.ratio
        /\ \A code \in 0..MAX_EXIT_CODE :
              ExitReported(KernelWords, code) <=>
                 w.container.enabled
                 /\ \A i \in DOMAIN WrittenCodes : WrittenCodes[i] # code
        /\ pmc.critical >= pmc.warning
        /\ \A stall \in Near({w.node_pmc.warning - Fine, w.node_pmc.warning + Fine,
                              w.node_pmc.critical - Fine, w.node_pmc.critical + Fine}) :
           \A ipc \in {w.node_pmc.ipc - Fine, w.node_pmc.ipc + Fine} :
              PmcVerdict(pmc, stall, ipc) # PmcVerdict(w.node_pmc, stall, ipc) =>
                 \E t \in {w.node_pmc.warning, w.node_pmc.critical} :
                     2 * (stall - t) \in (-Fine)..Fine

-----------------------------------------------------------------------------
(* Dates and timestamps.                                                   *)

Leap(y) == y % 4 = 0 /\ (y % 100 # 0 \/ y % 400 = 0)
DaysIn(y, m) ==
    CASE m = 2 -> IF Leap(y) THEN 29 ELSE 28
      [] m \in {4, 6, 9, 11} -> 30
      [] OTHER -> 31

\* The reference: the calendar, from the first of January 1970.
next_day ==
    /\ work.kind = "day" /\ work.day < LastDay
    /\ LET y == work.date[1]
           m == work.date[2]
           d == work.date[3]
       IN work' = [work EXCEPT !.day = @ + 1,
                     !.date = IF d < DaysIn(y, m) THEN <<y, m, d + 1>>
                              ELSE IF m < 12 THEN <<y, m + 1, 1>> ELSE <<y + 1, 1, 1>>]

\* On every day that a u64 of nanoseconds can name, the date the agent prints is the date,
\* and the controller sink reads the day back from it.
CalendarRight ==
    work.kind = "day" =>
        /\ civil_from_days(work.day) = work.date
        /\ days_from_civil(work.date[1], work.date[2], work.date[3]) = work.day

Before(a, b) ==
    \/ a.days < b.days
    \/ a.days = b.days /\ a.second < b.second
    \/ a.days = b.days /\ a.second = b.second /\ a.subsec < b.subsec

\* Comparing the printed timestamps as strings is comparing the times, although the agent
\* prints nine digits of a fraction and chrono, which prints the cutoffs of `recent`,
\* `health` and the MCP tools, three, six or nine; and the controller gets the very
\* nanosecond the agent saw.
CutoffExact ==
    work.kind = "instants" =>
        LET a == unix_nanos_to_rfc3339(work.a) IN
        /\ SinceCutoff(a, to_rfc3339(work.b)) <=> ~Before(work.a, work.b)
        /\ StringLess(a, unix_nanos_to_rfc3339(work.b)) <=> Before(work.a, work.b)
        /\ timestamp_to_unix_nanos(a) = work.a

-----------------------------------------------------------------------------
(* Requests.                                                               *)

\* Whether a controller hears of an agent depends on nothing but its names: with an agent
\* id and a node name every request it builds passes both ends' validation, whatever the
\* kernel release reads and whether or not it has a config; without, none does, and its
\* evidence never leaves the node.  An event whose type the sink lets through is refused for
\* nothing but a reasoning key among its facts, and always for one outside of arrays.
NamesDecide ==
    work.kind = "identity" =>
        LET env == work.with.env
            named == required(agent_id(env)) /\ required(node_name(env))
            occ(type, facts) == [type |-> type, data |-> facts]
            Keys(path) == {path[i] : i \in DOMAIN path}
        IN
        /\ HelloValid(build_hello_request(env, work.with.file)) <=> named
        /\ HeartbeatValid(build_heartbeat(env, work.with.applied)) <=> named
        /\ ConfigQueryValid(agent_id(env), node_name(env)) <=> named
        /\ \A type \in {t \in Types : EventTypeOk(t)}, facts \in Facts :
              LET batch == build_batch(env, <<occ(type, {}), occ(type, facts)>>)
                  reasons == {path \in facts : Reasoning \in Keys(path)}
              IN /\ EventBatchValid(batch, 2) => named /\ \A path \in reasons : "[]" \in Keys(path)
                 /\ named /\ reasons = {} => EventBatchValid(batch, 2)

-----------------------------------------------------------------------------

Init ==
    \/ work \in SplitWork
    \/ work \in ProfileWork
    \/ work = [kind |-> "day", day |-> 0, date |-> <<1970, 1, 1>>]
    \/ work \in {[kind |-> "instants", a |-> a, b |-> b] : a \in Instants, b \in Instants}
    \/ work \in {[kind |-> "identity", with |-> x] : x \in Identities}

Next == split_turn \/ repair \/ check_turn \/ next_day

Spec == Init /\ [][Next]_work

=============================================================================
