----------------------------- MODULE WireMessages -----------------------------
(***************************************************************************)
(* The requests an agent builds and the validation both ends put them      *)
(* through (tapio-wire/src/lib.rs): hello, heartbeat, config query and     *)
(* event batch.  Of a string only matters whether it is blank; the facts   *)
(* of an event are the set of the key paths of its JSON, in which "[]"     *)
(* stands for a step into an array.                                        *)
(***************************************************************************)
EXTENDS Integers, Sequences

Text    == "text"
Blank   == "blank"     \* empty, or only white space
Unset   == "unset"     \* no such environment variable
WIRE_VERSION == "v1"

\* The keys of is_reasoning_key are one.
Reasoning == "reasoning"

-----------------------------------------------------------------------------
(* The agent's identity, from its environment (tapio-agent/src/main.rs).   *)

node_name(env) ==
    IF env.TAPIO_NODE_NAME # Unset THEN env.TAPIO_NODE_NAME
    ELSE IF env.HOSTNAME # Unset THEN env.HOSTNAME ELSE Text

\* Without TAPIO_AGENT_ID it is "node/" and the node name, which is never blank.
agent_id(env) == IF env.TAPIO_AGENT_ID # Unset THEN env.TAPIO_AGENT_ID ELSE Text

\* Mutant: the file's content is taken as it is.
kernel_release_raw(file) == IF file = Unset THEN Text ELSE file

\* kernel_release: what cannot be read, or is empty, is "unknown".
kernel_release(file) == IF file = Text THEN file ELSE Text

build_hello_request(env, file) ==
    [wire_version |-> WIRE_VERSION, agent_id |-> agent_id(env), node_name |-> node_name(env),
     tapio_version |-> Text, kernel_release |-> kernel_release(file), arch |-> Text]

\* build_heartbeat: "0" and no hash before the first config is applied; the four
\* observers are running or disabled by the applied flags, whatever they really do.
build_heartbeat(env, applied) ==
    [wire_version |-> WIRE_VERSION, agent_id |-> agent_id(env), node_name |-> node_name(env),
     config_version |-> Text, config_hash |-> IF applied.some THEN Text ELSE Blank,
     observers |-> [o \in {"network", "storage", "container", "node_pmc"} |->
                      IF applied.some /\ o \in applied.flags THEN "running" ELSE "disabled"],
     degraded |-> ~applied.some]

\* observer_from_type: an event type of three parts that starts with "kernel"; the sink
\* returns an error for any other.
EventTypeOk(type) == Len(type) = 3 /\ type[1] = "kernel" /\ type[2] # Blank

\* occurrence_to_wire_event; the occurrence's reasoning is not among the facts.
occurrence_to_wire_event(occ) == [type |-> occ.type, observer |-> occ.type[2], facts |-> occ.data]

build_batch(env, occs) ==
    [wire_version |-> WIRE_VERSION, agent_id |-> agent_id(env), node_name |-> node_name(env),
     events |-> [i \in DOMAIN occs |-> occurrence_to_wire_event(occs[i])]]

-----------------------------------------------------------------------------
(* Validation.                                                             *)

required(value) == value # Blank

HelloValid(m) ==
    /\ m.wire_version = WIRE_VERSION
    /\ required(m.agent_id) /\ required(m.node_name) /\ required(m.tapio_version)
    /\ required(m.kernel_release) /\ required(m.arch)

HeartbeatValid(m) ==
    /\ m.wire_version = WIRE_VERSION
    /\ required(m.agent_id) /\ required(m.node_name) /\ required(m.config_version)
    /\ DOMAIN m.observers # {}

\* config_for: the query names an agent and a node.
ConfigQueryValid(agent, node) == required(agent) /\ required(node)

\* reject_reasoning_fields goes down into objects and not into arrays.
reject_reasoning_fields(facts) ==
    \E path \in facts : \E i \in DOMAIN path :
        path[i] = Reasoning /\ \A j \in 1..(i - 1) : path[j] # "[]"

WireEventValid(e) ==
    /\ required(e.observer) /\ e.type[1] = "kernel"
    /\ ~reject_reasoning_fields(e.facts)

EventBatchValid(m, max_batch_events) ==
    /\ m.wire_version = WIRE_VERSION
    /\ required(m.agent_id) /\ required(m.node_name)
    /\ m.events # <<>> /\ Len(m.events) <= max_batch_events
    /\ \A i \in DOMAIN m.events : WireEventValid(m.events[i])

=============================================================================
