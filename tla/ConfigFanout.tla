---------------------------- MODULE ConfigFanout ----------------------------
(***************************************************************************)
(* How one agent in controller mode takes a configuration from the         *)
(* controller to the kernel.  Three kinds of task run concurrently:        *)
(*                                                                         *)
(*   - the poll task (tapio-agent/src/controller.rs) fetches the config,   *)
(*     fans it out to every registered BPF carrier, publishes the PMC      *)
(*     thresholds and then records the applied identity;                   *)
(*   - one task per observer (tapio-agent/src/observer) writes the         *)
(*     cold-start config into its own carrier, registers the carrier and   *)
(*     brings it up to date if a config is already current;                *)
(*   - the registration task stores the version the controller advertises. *)
(*                                                                         *)
(* ConfigCarriers takes its mutex to change or read the registry and       *)
(* releases it BEFORE it writes to the kernel, so each of update_all and   *)
(* register is two kinds of step here.  A config stands for its content    *)
(* hash; Unset stands for "none": the all-zero carrier, no ETag, no        *)
(* applied identity, and the thresholds of the agent's TOML file.          *)
(***************************************************************************)
EXTENDS Integers

CONSTANTS
    Observers,          \* the observers of the agent
    Configs,            \* the configs a controller may serve
    Rejected,           \* those of them the agent's validation refuses
    Unset,              \* no config
    MaxSwitches,        \* bound: config changes at the controller
    MaxWriteFailures,   \* bound: failing BPF_MAP_UPDATE_ELEM calls
    MaxFetchErrors      \* bound: failing fetches

ASSUME FanoutAssumption ==
    /\ Unset \notin Configs
    /\ Rejected \subseteq Configs
    /\ MaxSwitches \in Nat /\ MaxWriteFailures \in Nat /\ MaxFetchErrors \in Nat

VARIABLES
    served,        \* the config the controller serves now
    switches,      \* how often it has changed
    obs,           \* obs[o]: where observer o's task is
    late,          \* late[o]: the current config register(o) read under the lock
    map,           \* map[o]: the config in o's kernel carrier
    carriers,      \* ConfigCarrierState.carriers
    current,       \* ConfigCarrierState.current
    poll,          \* where the poll task is
    fetched,       \* the config the poll task is applying
    todo,          \* carriers update_all still has to write
    etag,          \* poll_loop's local ETag
    active,        \* ActiveConfigIdentity
    version,       \* ControllerState.config_version
    thresholds,    \* the value of the PMC thresholds watch channel
    fetchErrors,   \* how many fetches have failed
    shutdown,      \* the shutdown watch channel
    writeFailures, \* how many carrier writes have failed
    failed,        \* history: observers one of whose late or fan-out writes has
                   \* not reached their carrier
    overlapped     \* history: observers whose registration was between its lock
                   \* and its write when an update_all took the lock

pollVars    == <<poll, fetched, todo, etag, fetchErrors>>
historyVars == <<writeFailures, failed, overlapped>>
vars == <<served, switches, obs, late, map, carriers, current, pollVars, active,
          version, thresholds, shutdown, historyVars>>

Maybe == Configs \cup {Unset}

ObsStates  == {"starting", "initialised", "registering", "attaching", "running", "exited"}
PollStates == {"idle", "validated", "fanout", "mark", "version", "stopped"}

Init ==
    /\ served \in Configs /\ switches = 0
    /\ obs  = [o \in Observers |-> "starting"]
    /\ late = [o \in Observers |-> Unset]
    /\ map  = [o \in Observers |-> Unset]
    /\ carriers = {} /\ current = Unset
    /\ poll = "idle" /\ fetched = Unset /\ todo = {}
    /\ etag = Unset /\ fetchErrors = 0
    /\ active = Unset /\ version = Unset /\ thresholds = Unset
    /\ shutdown = FALSE
    /\ writeFailures = 0 /\ failed = {} /\ overlapped = {}

-----------------------------------------------------------------------------
(* The controller, and the agent's environment.                            *)

\* The controller is restarted with another profile: its only way to change
\* the config it serves.
controller_restart ==
    /\ switches < MaxSwitches
    /\ switches' = switches + 1
    /\ \E c \in Configs \ {served} : served' = c
    /\ UNCHANGED <<obs, late, map, carriers, current, pollVars, active, version,
                   thresholds, shutdown, historyVars>>

\* The registration task's hello is accepted: it stores the version the
\* controller advertises, whatever the poll task has applied.
hello_accepted ==
    /\ ~shutdown
    /\ version' = served
    /\ UNCHANGED <<served, switches, obs, late, map, carriers, current, pollVars,
                   active, thresholds, shutdown, historyVars>>

\* SIGINT.
signal_shutdown ==
    /\ ~shutdown
    /\ shutdown' = TRUE
    /\ UNCHANGED <<served, switches, obs, late, map, carriers, current, pollVars,
                   active, version, thresholds, historyVars>>

-----------------------------------------------------------------------------
(* Writing tapio_config into a carrier.  The call may fail.  Nothing ever  *)
(* removes a carrier from the registry, and an observer whose task ends    *)
(* closes its map: a later write to the descriptor it registered fails, or *)
(* reaches the map of another observer that was given the number since.    *)

\* Observer p has its map open.
Open(p) == obs[p] \notin {"starting", "exited"}

\* Mutant: the struct is written in two halves, and the second one may be missing.
bpf_map_update_halves(o, c) ==
    /\ obs[o] # "exited"
    /\ \E half \in {c, <<map[o], c>>} : map' = [map EXCEPT ![o] = half]
    /\ UNCHANGED <<writeFailures, failed>>

bpf_map_update_tapio_config(o, c) ==
    \/ /\ obs[o] # "exited"
       /\ map' = [map EXCEPT ![o] = c]
       /\ UNCHANGED <<writeFailures, failed>>
    \/ /\ obs[o] # "exited"
       /\ writeFailures < MaxWriteFailures
       /\ writeFailures' = writeFailures + 1
       /\ failed' = failed \cup {o}
       /\ UNCHANGED map
    \/ /\ obs[o] = "exited"
       /\ \/ UNCHANGED map
          \/ \E p \in Observers : Open(p) /\ map' = [map EXCEPT ![p] = c]
       /\ failed' = failed \cup {o}
       /\ UNCHANGED writeFailures

-----------------------------------------------------------------------------
(* The observers' tasks.                                                   *)

observerFrame == <<served, switches, current, pollVars, active, version,
                   thresholds, shutdown>>

\* init_and_register_tapio_config, first half: the program is loaded and the
\* cold-start config (all zeros in controller mode) written into its carrier.
init_tapio_config(o) ==
    /\ obs[o] = "starting"
    /\ map' = [map EXCEPT ![o] = Unset]
    /\ obs' = [obs EXCEPT ![o] = "initialised"]
    /\ UNCHANGED <<late, carriers, historyVars, observerFrame>>

\* Mutant: the carrier registers without reading the current config.
register_lock_blind(o) ==
    /\ obs[o] = "initialised"
    /\ carriers' = carriers \cup {o}
    /\ obs' = [obs EXCEPT ![o] = "registering"]
    /\ UNCHANGED <<late, map, historyVars, observerFrame>>

\* ConfigCarriers::register under the lock.
register_lock(o) ==
    /\ obs[o] = "initialised"
    /\ carriers' = carriers \cup {o}
    /\ late' = [late EXCEPT ![o] = current]
    /\ obs' = [obs EXCEPT ![o] = "registering"]
    /\ UNCHANGED <<map, historyVars, observerFrame>>

\* ConfigCarriers::register after the lock is released: bring the late carrier
\* up to date.  A failing write is logged and the observer goes on.
register_write(o) ==
    /\ obs[o] = "registering"
    /\ \/ /\ late[o] = Unset
          /\ UNCHANGED <<map, writeFailures, failed>>
       \/ /\ late[o] # Unset
          /\ bpf_map_update_tapio_config(o, late[o])
    /\ obs' = [obs EXCEPT ![o] = "attaching"]
    /\ UNCHANGED <<late, carriers, overlapped, observerFrame>>

\* The programs attach and the observer enters its drain loop.
attach(o) ==
    /\ obs[o] = "attaching"
    /\ obs' = [obs EXCEPT ![o] = "running"]
    /\ UNCHANGED <<late, map, carriers, historyVars, observerFrame>>

\* The observer gives up: the object does not load, the carrier cannot be
\* initialised, a program does not attach, or the hardware counters of CPU 0
\* cannot be opened.  Its task ends; its carrier stays registered.
give_up(o) ==
    /\ obs[o] \in {"starting", "attaching"}
    /\ obs' = [obs EXCEPT ![o] = "exited"]
    /\ UNCHANGED <<late, map, carriers, historyVars, observerFrame>>

\* The drain loop's select sees the shutdown signal.
observer_stop(o) ==
    /\ shutdown
    /\ obs[o] = "running"
    /\ obs' = [obs EXCEPT ![o] = "exited"]
    /\ UNCHANGED <<late, map, carriers, historyVars, observerFrame>>

-----------------------------------------------------------------------------
(* The poll task.                                                          *)

pollFrame == <<served, switches, obs, late, carriers, version, shutdown>>

\* Mutant: the first apply is waited for without the shutdown signal.
poll_stop_after_apply ==
    /\ shutdown /\ poll = "idle" /\ active # Unset
    /\ poll' = "stopped"
    /\ UNCHANGED <<fetched, todo, etag, fetchErrors, map, current, active,
                   thresholds, historyVars, pollFrame>>

\* poll_loop leaves its select on the shutdown signal.
poll_stop ==
    /\ shutdown /\ poll = "idle"
    /\ poll' = "stopped"
    /\ UNCHANGED <<fetched, todo, etag, fetchErrors, map, current, active,
                   thresholds, historyVars, pollFrame>>

\* fetch_once fails: no answer, or one with another status.  Its two other outcomes that
\* lead to no apply, a 304 for the ETag it sent and a body that validation refuses,
\* change nothing but a metric and are stuttering steps.
fetch_error ==
    /\ poll = "idle"
    /\ fetchErrors < MaxFetchErrors
    /\ fetchErrors' = fetchErrors + 1
    /\ UNCHANGED <<poll, fetched, todo, etag, map, current, active, thresholds,
                   historyVars, pollFrame>>

\* fetch_once receives a config other than the one its ETag names, and accepts it.
fetch_once ==
    /\ poll = "idle"
    /\ served # etag /\ served \notin Rejected
    /\ fetched' = served
    /\ poll' = "validated"
    /\ UNCHANGED <<todo, etag, fetchErrors, map, current, active, thresholds,
                   historyVars, pollFrame>>

\* Mutant: the identity is recorded before the fan-out.
update_all_lock_marks ==
    /\ poll = "validated"
    /\ current' = fetched
    /\ active' = fetched
    /\ todo' = carriers
    /\ poll' = "fanout"
    /\ overlapped' = overlapped \cup {o \in Observers : obs[o] = "registering"}
    /\ UNCHANGED <<fetched, etag, fetchErrors, map, thresholds,
                   writeFailures, failed, pollFrame>>

\* Mutant: carriers that are already registered are taken for up to date.
update_all_lock_skips ==
    /\ poll = "validated"
    /\ current' = fetched
    /\ todo' = {}
    /\ poll' = "fanout"
    /\ overlapped' = overlapped \cup {o \in Observers : obs[o] = "registering"}
    /\ UNCHANGED <<fetched, etag, fetchErrors, map, active, thresholds,
                   writeFailures, failed, pollFrame>>

\* ConfigCarriers::update_all under the lock.
update_all_lock ==
    /\ poll = "validated"
    /\ current' = fetched
    /\ todo' = carriers
    /\ poll' = "fanout"
    /\ overlapped' = overlapped \cup {o \in Observers : obs[o] = "registering"}
    /\ UNCHANGED <<fetched, etag, fetchErrors, map, active, thresholds,
                   writeFailures, failed, pollFrame>>

\* ConfigCarriers::update_all after the lock is released: one carrier after the
\* other, and a failing write does not stop the rest.
update_all_write(o) ==
    /\ poll = "fanout"
    /\ o \in todo
    /\ bpf_map_update_tapio_config(o, fetched)
    /\ todo' = todo \ {o}
    /\ UNCHANGED <<poll, fetched, etag, fetchErrors, current, active,
                   thresholds, overlapped, pollFrame>>

\* Mutant: the thresholds are not published.
apply_config_no_thresholds ==
    /\ poll = "fanout" /\ todo = {}
    /\ poll' = "mark"
    /\ UNCHANGED <<fetched, todo, etag, fetchErrors, map, current, active,
                   thresholds, historyVars, pollFrame>>

\* apply_config after update_all: failures were only logged; the thresholds are
\* published to the node_pmc observer.
apply_config_thresholds ==
    /\ poll = "fanout" /\ todo = {}
    /\ thresholds' = fetched
    /\ poll' = "mark"
    /\ UNCHANGED <<fetched, todo, etag, fetchErrors, map, current, active,
                   historyVars, pollFrame>>

\* Mutant: the ETag is not remembered.
mark_applied_no_etag ==
    /\ poll = "mark"
    /\ active' = fetched
    /\ poll' = "version"
    /\ UNCHANGED <<fetched, todo, etag, fetchErrors, map, current, thresholds,
                   historyVars, pollFrame>>

\* poll_loop on Applied: remember the ETag and record the applied identity ...
mark_applied ==
    /\ poll = "mark"
    /\ etag' = fetched
    /\ active' = fetched
    /\ poll' = "version"
    /\ UNCHANGED <<fetched, todo, fetchErrors, map, current, thresholds,
                   historyVars, pollFrame>>

\* ... then store the version the event batches will carry.
set_config_version ==
    /\ poll = "version"
    /\ version' = fetched
    /\ poll' = "idle"
    /\ UNCHANGED <<served, switches, obs, late, map, carriers, current, fetched, todo,
                   etag, fetchErrors, active, thresholds, shutdown,
                   historyVars>>

-----------------------------------------------------------------------------

PollStep ==
    \/ poll_stop \/ fetch_error \/ fetch_once \/ update_all_lock
    \/ \E o \in Observers : update_all_write(o)
    \/ apply_config_thresholds \/ mark_applied \/ set_config_version

ObserverStep(o) ==
    \/ init_tapio_config(o) \/ register_lock(o) \/ register_write(o)
    \/ attach(o) \/ give_up(o) \/ observer_stop(o)

Environment == controller_restart \/ hello_accepted \/ signal_shutdown

Next ==
    \/ Environment
    \/ PollStep
    \/ \E o \in Observers : ObserverStep(o)

Spec == Init /\ [][Next]_vars

\* What the runtime guarantees: the poll interval keeps ticking and every task is
\* scheduled again.  A fetch or a write may fail, but only as often as the bounds
\* let it; nothing is assumed of the controller or of SIGINT.
Fairness ==
    /\ WF_vars(poll_stop) /\ WF_vars(fetch_once) /\ WF_vars(update_all_lock)
    /\ WF_vars(\E o \in Observers : update_all_write(o))
    /\ WF_vars(apply_config_thresholds) /\ WF_vars(mark_applied)
    /\ WF_vars(set_config_version)
    /\ \A o \in Observers : WF_vars(ObserverStep(o))

FairSpec == Spec /\ Fairness

-----------------------------------------------------------------------------
(* Properties.                                                             *)

TypeOK ==
    /\ served \in Configs /\ switches \in 0..MaxSwitches
    /\ obs \in [Observers -> ObsStates]
    /\ late \in [Observers -> Maybe] /\ map \in [Observers -> Maybe]
    /\ carriers \in SUBSET Observers /\ current \in Maybe
    /\ poll \in PollStates /\ fetched \in Maybe /\ todo \in SUBSET Observers
    /\ etag \in Maybe /\ active \in Maybe /\ version \in Maybe /\ thresholds \in Maybe
    /\ fetchErrors \in 0..MaxFetchErrors
    /\ shutdown \in BOOLEAN
    /\ writeFailures \in 0..MaxWriteFailures
    /\ failed \in SUBSET Observers /\ overlapped \in SUBSET Observers

\* The poll task has no apply in progress.
Quiet == poll \in {"idle", "stopped"}

\* Observer o has nothing left to write into its own carrier.
Settled(o) == o \in carriers /\ obs[o] # "registering"

\* A carrier that registers around a fan-out gets the config through update_all or
\* through its own late write: once neither has a write outstanding it holds the
\* current config, unless one of its writes failed or an update_all overtook the
\* late write.  (The mutex of observer/mod.rs:41-45 and 70-74 is what this needs.)
NoCarrierForgotten ==
    \A o \in Observers :
        Settled(o) /\ o \notin todo /\ o \notin failed \cup overlapped
            => map[o] = current

\* The identity a heartbeat reports never runs ahead of the fan-out: while a config
\* is being written to the carriers or its thresholds are still unpublished, the
\* heartbeat reports another one ("It is not the last hash fetched",
\* docs/agent-controller.md:62).
IdentityFollowsFanout ==
    poll \in {"validated", "fanout", "mark"} => active # fetched

\* Between two applies the four places that record the config in force agree: the
\* ETag sent with the next poll, the identity heartbeats report, the registry's
\* current config and the PMC thresholds.
QuietAgreement ==
    Quiet => /\ etag = active /\ active = current /\ current = thresholds

\* What the proofs need besides.  Where the poll task is in an apply determines how
\* its four records of the config compare with the one being applied ...
ApplyProgress ==
    /\ Quiet => etag = active /\ active = current /\ current = thresholds
    /\ poll = "validated" =>
           /\ fetched \in Configs /\ fetched # etag
           /\ etag = active /\ active = current /\ current = thresholds
    /\ poll = "fanout" =>
           /\ fetched \in Configs /\ fetched # etag /\ current = fetched
           /\ etag = active /\ active = thresholds
    /\ poll = "mark" =>
           /\ fetched \in Configs /\ fetched # etag /\ etag = active
           /\ current = fetched /\ thresholds = fetched
    /\ poll = "version" =>
           /\ fetched \in Configs /\ etag = fetched /\ active = fetched
           /\ current = fetched /\ thresholds = fetched
    /\ poll # "fanout" => todo = {}

\* ... and a registration that no update_all has overtaken still knows the current
\* config, which no fan-out will write for it.
RegistryProgress ==
    /\ todo \subseteq carriers
    /\ \A o \in Observers :
        /\ obs[o] \in {"starting", "initialised"} => o \notin carriers
        /\ obs[o] \in {"registering", "attaching", "running"} => o \in carriers
        /\ obs[o] = "initialised" /\ current = Unset => map[o] = Unset
        /\ obs[o] = "registering" /\ o \notin overlapped =>
               /\ late[o] = current
               /\ o \notin todo
               /\ late[o] = Unset => map[o] = Unset

IInv == TypeOK /\ ApplyProgress /\ RegistryProgress /\ NoCarrierForgotten

\* Docs: "After apply, it reports the generation/hash pair it is actually running"
\* (docs/agent-controller.md:66).
ReportedIsRunning ==
    Quiet /\ active # Unset
        => \A o \in Observers : obs[o] = "running" => map[o] = active

\* Docs: "tapio-agent writes identical bytes to index 0 in every carrier"
\* (docs/agent-kernel-config-abi.md:50); only momentary skew during a fan-out is
\* accepted (line 66).
IdenticalCarriers ==
    Quiet => \A o, p \in Observers :
                 obs[o] = "running" /\ obs[p] = "running" => map[o] = map[p]

\* Once the controller keeps serving one config the agent accepts, a running agent comes
\* to report that very config and stays with it, and every observer it still runs comes
\* to run it unless one of its carrier's writes fails or is overtaken.
ServedConfigTakesHold ==
    <>[](\/ shutdown \/ served \in Rejected
         \/ /\ active = served
            /\ \A o \in Observers :
                 obs[o] = "running" /\ o \notin failed \cup overlapped => map[o] = served)

\* After SIGINT every task of the agent ends, so main's join loop returns.
ShutdownCompletes ==
    shutdown ~> (poll = "stopped" /\ \A o \in Observers : obs[o] = "exited")

=============================================================================
