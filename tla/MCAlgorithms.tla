---------------------------- MODULE MCAlgorithms ----------------------------
(* Inputs for Algorithms: values at and next to every limit. *)
EXTENDS Algorithms, SequencesExt

CONSTANTS
    EventLens,        \* lengths of an event's JSON
    MaxSplit,         \* bound: events in the buffer
    MaxBatch,         \* bound: values of max_batch_events
    RequestLimits     \* values of max_request_bytes

SomeBuffers ==
    {[events |-> e, total |-> [n \in 0..Len(e) |-> FoldLeft(+, 0, SubSeq(e, 1, n))]] :
        e \in BoundedSeq(EventLens, MaxSplit) \ {<<>>}}
SomeLimits == [max_batch_events : 1..MaxBatch, max_request_bytes : RequestLimits]

NetworkBlocks ==
    {[enabled |-> e, ratio |-> r, abs_ms |-> a] :
        e \in Option(BOOLEAN), r \in Option(Near({1, MAX_RATIO})),
        a \in Option(Near({1, MAX_RTT_ABS_MS}))}
StorageBlocks ==
    {[enabled |-> e, warning_ms |-> w, critical_ms |-> c] :
        e \in Option(BOOLEAN), w \in Option(Near({1, 200, MAX_WARNING_MS})),
        c \in Option(Near({1, 50, 200, MAX_CRITICAL_MS}))}
CodeLists ==
    BoundedSeq({-1, 0, 255, 256}, 2)
        \cup {[i \in 1..n |-> i % 18] : n \in Near({MAX_IGNORE_EXIT_CODES})}
        \cup {[i \in 1..MAX_IGNORE_EXIT_CODES |-> i \div 2]}
ContainerBlocks ==
    {[enabled |-> e, ignore_exit_codes |-> c] : e \in Option(BOOLEAN), c \in Option(CodeLists)}
PmcBlocks ==
    {[enabled |-> e, warning |-> w, critical |-> c, ipc |-> i] :
        e \in {Absent, FALSE}, i \in {Absent, NotFinite, -1, 4, 5, MAX_IPC, MAX_IPC + 1},
        w \in Option({NotFinite, -1, 0, 4, 5, 400 * Fine, MAX_STALL}),
        c \in Option({NotFinite, 0, 4, 6, 200 * Fine - 5, MAX_STALL, MAX_STALL + 1})}

\* Some of every block, good and bad, to have several errors at once.
Mixed(blocks) == {b \in blocks : b.enabled = FALSE}
MixedOverrides ==
    [network   : {b \in Mixed(NetworkBlocks) : b.ratio \in {Absent, 0} /\ b.abs_ms \in {1, 0}},
     storage   : {b \in Mixed(StorageBlocks) : b.warning_ms \in {Absent, 0, 201}
                                               /\ b.critical_ms \in {Absent, 0, 200}},
     container : {b \in Mixed(ContainerBlocks) : b.ignore_exit_codes \in {Absent, <<256>>, <<0>>}},
     node_pmc  : {b \in Mixed(PmcBlocks) : b.warning \in {Absent, 5} /\ b.ipc \in {Absent, -1}
                                           /\ b.critical \in {NotFinite, 4, 6}}]

SomeDocuments ==
    LET doc(o) == [api_version |-> TRUE, kind |-> TRUE, base |-> "production-default",
                   overrides |-> o]
        one(section, blocks) == {doc([NoOverrides EXCEPT ![section] = b]) : b \in blocks}
    IN one("network", NetworkBlocks) \cup one("storage", StorageBlocks)
        \cup one("container", ContainerBlocks) \cup one("node_pmc", PmcBlocks)
        \cup {doc(o) : o \in MixedOverrides}
        \cup {[api_version |-> a, kind |-> k, base |-> b, overrides |-> NoOverrides] :
                  a \in BOOLEAN, k \in BOOLEAN,
                  b \in {"production-default", "unknown", "malformed", "missing"}}

SomeInstants ==
    {Instant(d, s, n) : d \in {0, 10957, LastDay}, s \in {0, 59, 60, 3599, 3600, 86399},
                        n \in {0, 1, 999, 1000, 1001, 1000000, 1001000, 100000000, 999999999}}

AllIdentities ==
    [env : [TAPIO_NODE_NAME : EnvValues, HOSTNAME : EnvValues, TAPIO_AGENT_ID : EnvValues],
     file : EnvValues,
     applied : {[some |-> FALSE, flags |-> {}], [some |-> TRUE, flags |-> {"network"}]}]
SomeFacts == {{<<"pid">>, <<"conn", "rtt">>}, {<<"pid">>, <<"conn", Reasoning>>},
              {<<"frames", "[]", Reasoning>>}}
SomeTypes == {<<"kernel", "network", "rtt_spike">>, <<"kernel", Blank, "rtt_spike">>,
              <<"kernel", "network">>, <<"user", "network", "rtt_spike">>}

=============================================================================
