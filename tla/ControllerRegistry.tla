------------------------- MODULE ControllerRegistry -------------------------
(***************************************************************************)
(* The controller's in-memory state (tapio-controller/src/lib.rs): who has *)
(* said hello, the last heartbeat of every agent, and the accounting of    *)
(* event batches.  Requests arrive in any order: the agents' tasks and     *)
(* their retries are not synchronised, and a request may be served after   *)
(* its sender has given up.  Each handler holds the mutex over all it      *)
(* changes; the config is immutable while the process lives, so reading    *)
(* the batch limit under an earlier lock (lib.rs:276-279) is no step of    *)
(* its own.                                                                *)
(***************************************************************************)
EXTENDS SequenceTracking

CONSTANTS
    Agents,           \* agent ids
    Hashes,           \* config hashes, that of the served config included
    Unconfigured,     \* the empty hash a fresh agent reports
    Never,            \* no heartbeat stored
    max_batch_events, \* BatchingConfig of the served config
    MaxBatches,       \* bound: batches per controller process
    MaxRestarts       \* bound: controller restarts

ASSUME RegistryAssumption ==
    /\ Never \notin Hashes \cup {Unconfigured}
    /\ max_batch_events \in Nat \ {0}
    /\ MaxBatches \in Nat /\ MaxRestarts \in Nat

VARIABLES
    agents,           \* registered agents
    last_heartbeats,  \* [Agents -> hash of the last heartbeat, or Never]
    sequences,        \* [Agents -> Tracking]
    accepted_events_total, rejected_events_total,
    batches_accepted_total, batches_rejected_total,
    restarts,         \* restarts so far
    baseline,         \* history: the first sequence accepted since the last hello
    acceptedSeqs,     \* history: the sequences accepted since the last hello
    acceptedCount     \* history: how many batches were accepted since

totals  == <<accepted_events_total, rejected_events_total,
             batches_accepted_total, batches_rejected_total>>
history == <<baseline, acceptedSeqs, acceptedCount>>
vars    == <<agents, last_heartbeats, sequences, totals, restarts, history>>

ReportedHash == Hashes \cup {Unconfigured}

\* ControllerState::new.
Fresh ==
    /\ agents' = {}
    /\ last_heartbeats' = [a \in Agents |-> Never]
    /\ sequences' = [a \in Agents |-> Untracked]
    /\ accepted_events_total' = 0 /\ rejected_events_total' = 0
    /\ batches_accepted_total' = 0 /\ batches_rejected_total' = 0
    /\ baseline' = [a \in Agents |-> NotSeen]
    /\ acceptedSeqs' = [a \in Agents |-> {}]
    /\ acceptedCount' = [a \in Agents |-> 0]

Init ==
    /\ agents = {}
    /\ last_heartbeats = [a \in Agents |-> Never]
    /\ sequences = [a \in Agents |-> Untracked]
    /\ accepted_events_total = 0 /\ rejected_events_total = 0
    /\ batches_accepted_total = 0 /\ batches_rejected_total = 0
    /\ restarts = 0
    /\ baseline = [a \in Agents |-> NotSeen]
    /\ acceptedSeqs = [a \in Agents |-> {}]
    /\ acceptedCount = [a \in Agents |-> 0]

-----------------------------------------------------------------------------

\* POST /v1/agent/hello: the agent is (re-)registered and its sequence accounting
\* starts afresh; a heartbeat stored earlier stays.
register_agent(a) ==
    /\ agents' = agents \cup {a}
    /\ sequences' = [sequences EXCEPT ![a] = Untracked]
    /\ baseline' = [baseline EXCEPT ![a] = NotSeen]
    /\ acceptedSeqs' = [acceptedSeqs EXCEPT ![a] = {}]
    /\ acceptedCount' = [acceptedCount EXCEPT ![a] = 0]
    /\ UNCHANGED <<last_heartbeats, totals, restarts>>

\* Mutant: heartbeats of agents that have not said hello are ignored.
record_heartbeat_known(a, h) ==
    /\ last_heartbeats' = [last_heartbeats EXCEPT ![a] = IF a \in agents THEN h ELSE @]
    /\ UNCHANGED <<agents, sequences, totals, restarts, history>>

\* POST /v1/agent/heartbeat: stored and accepted, whoever sent it.
record_heartbeat(a, h) ==
    /\ last_heartbeats' = [last_heartbeats EXCEPT ![a] = h]
    /\ UNCHANGED <<agents, sequences, totals, restarts, history>>

\* EventBatchRequest::validate against the advertised limit.
BatchValid(n) == n > 0 /\ n <= max_batch_events

\* POST /v1/events with a valid batch of n events, from a registered agent or not.
accept_event_batch(a, s, n) ==
    /\ batches_accepted_total + batches_rejected_total < MaxBatches
    /\ BatchValid(n)
    /\ accepted_events_total' = accepted_events_total + n
    /\ batches_accepted_total' = batches_accepted_total + 1
    /\ sequences' = [sequences EXCEPT ![a] = update_sequence_tracking(@, s)]
    /\ baseline' = [baseline EXCEPT ![a] = IF sequences[a].last_seen = NotSeen THEN s ELSE @]
    /\ acceptedSeqs' = [acceptedSeqs EXCEPT ![a] = @ \cup {s}]
    /\ acceptedCount' = [acceptedCount EXCEPT ![a] = @ + 1]
    /\ UNCHANGED <<agents, last_heartbeats, rejected_events_total,
                   batches_rejected_total, restarts>>

\* POST /v1/events with an invalid one: counted, and the sequence does not advance.
reject_event_batch(n) ==
    /\ batches_accepted_total + batches_rejected_total < MaxBatches
    /\ ~BatchValid(n)
    /\ rejected_events_total' = rejected_events_total + n
    /\ batches_rejected_total' = batches_rejected_total + 1
    /\ UNCHANGED <<agents, last_heartbeats, sequences, accepted_events_total,
                   batches_accepted_total, restarts, history>>

\* The process dies and another takes its place: nothing is persisted.
restart ==
    /\ restarts < MaxRestarts
    /\ restarts' = restarts + 1
    /\ Fresh

Next ==
    \/ \E a \in Agents :
          \/ register_agent(a)
          \/ \E h \in ReportedHash : record_heartbeat(a, h)
          \/ \E s \in U64, n \in 1..max_batch_events : accept_event_batch(a, s, n)
    \/ \E n \in {0, max_batch_events + 1} : reject_event_batch(n)
    \/ restart

Spec == Init /\ [][Next]_vars

-----------------------------------------------------------------------------
(* Properties.                                                             *)

TypeOK ==
    /\ agents \in SUBSET Agents
    /\ last_heartbeats \in [Agents -> ReportedHash \cup {Never}]
    /\ sequences \in [Agents -> Tracking]
    /\ accepted_events_total \in Nat /\ rejected_events_total \in Nat
    /\ batches_accepted_total \in Nat /\ batches_rejected_total \in Nat
    /\ restarts \in 0..MaxRestarts
    /\ baseline \in [Agents -> U64 \cup {NotSeen}]
    /\ acceptedSeqs \in [Agents -> SUBSET U64]
    /\ acceptedCount \in [Agents -> Nat]

Counting(a) ==
    /\ sequences[a].last_seen # NotSeen
    /\ sequences[a].last_seen < MaxU64
    /\ sequences[a].regressions_total < MaxU64

\* The controller's accounting balances while no counter is saturated: since the last
\* hello, the span of sequences it has seen plus the regressions equals the gaps plus
\* the batches it accepted.  So late, repeated and reordered batches are never
\* mistaken for progress, and no gap is counted twice.
GapAccounting ==
    \A a \in Agents : Counting(a) =>
        sequences[a].last_seen - baseline[a] + 1 + sequences[a].regressions_total
            = sequences[a].gaps_total + acceptedCount[a]

\* Loss surfaces (scripts/smoke-agent-controller.sh:348): when a batch between the
\* first and the last one seen never arrived, the gap counter is not zero.
LossSurfaces ==
    \A a \in Agents :
        LET t == sequences[a] IN
        t.last_seen # NotSeen /\ t.gaps_total = 0
            => \A s \in U64 : baseline[a] <= s /\ s <= t.last_seen => s \in acceptedSeqs[a]

\* last_seen is the highest sequence accepted since the last hello: a duplicate or a
\* straggler never moves it back.
LastSeenIsHighest ==
    \A a \in Agents :
        sequences[a].last_seen # NotSeen =>
            /\ sequences[a].last_seen \in acceptedSeqs[a]
            /\ \A s \in acceptedSeqs[a] : s <= sequences[a].last_seen

\* What the proofs need besides: an agent without accepted batches is untracked, the
\* baseline is the lowest bound of the span, and the gaps fit into the span, so that
\* their counter cannot saturate.
TrackingProgress ==
    \A a \in Agents :
        LET t == sequences[a] IN
        /\ t.last_seen = NotSeen =>
               t = Untracked /\ acceptedCount[a] = 0 /\ acceptedSeqs[a] = {}
        /\ t.last_seen # NotSeen =>
               /\ baseline[a] \in U64 /\ baseline[a] <= t.last_seen
               /\ t.gaps_total <= t.last_seen - baseline[a]

IInv == /\ TypeOK /\ TrackingProgress /\ GapAccounting
        /\ LossSurfaces /\ LastSeenIsHighest

\* The evidence of trouble is only cleared by a hello or a restart: no batch ever
\* lowers an agent's gaps or regressions.
TroubleNotForgotten ==
    [][\A a \in Agents :
         \/ sequences'[a].gaps_total >= sequences[a].gaps_total
              /\ sequences'[a].regressions_total >= sequences[a].regressions_total
         \/ sequences'[a] = Untracked /\ (a \in agents' \/ restarts' # restarts)]_vars

=============================================================================
