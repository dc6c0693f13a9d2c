--------------------------- MODULE StorageMonitor ---------------------------
(***************************************************************************)
(* The storage observer: the two tracepoint programs of                    *)
(* ebpf/storage_monitor.c, which pair the issue and the completion of a    *)
(* block request through a map keyed by device, sector, size and           *)
(* operation, and the user-space loop that drains them                     *)
(* (tapio-agent/src/observer/storage.rs).  The programs run on any CPU     *)
(* between any two steps of another instance: a map call is a step, and so *)
(* is a use of the pointer a lookup returned.  The map's elements are      *)
(* allocated once and used again: such a pointer stays valid and shows     *)
(* whatever the element holds by then.  What a latency or an error amounts *)
(* to is left open: a completion is anomalous or it is not.                *)
(***************************************************************************)
EXTENDS Integers, Sequences, FiniteSets

CONSTANTS
    Requests,     \* block requests
    Keys,         \* struct io_key
    KeyOf,        \* the key every request is issued under
    Slots,        \* the elements of the map: 10000
    Null,         \* no element, no request
    RingCap,      \* events the ring buffer holds
    MaxToggles,   \* bound: config changes that switch the observer on or off
    MaxEvictions, \* bound: entries the LRU map evicts or has no room for
    MaxParts      \* bound: completions of a part of a request

Entry == [by : Requests, ambiguous : BOOLEAN]

ASSUME StorageAssumption ==
    /\ KeyOf \in [Requests -> Keys]
    /\ Null \notin Slots /\ Null \notin Requests /\ Null \notin Entry
    /\ RingCap \in Nat \ {0}
    /\ MaxToggles \in Nat /\ MaxEvictions \in Nat /\ MaxParts \in Nat

VARIABLES
    enabled,      \* TAPIO_F_STORAGE in the program's carrier
    toggles, evictions, parts,
    pc,           \* pc[r]: how far request r and the programs it triggers are
    split,        \* requests that complete in parts
    key, val, since, \* locals of r's program: key; val or existing; latency_ns, as the
                  \* request it is measured from
    inflight_io,  \* inflight_io[k]: the element key k is in
    elem,         \* elem[s]: the request that wrote the value, and whether ambiguous
    ring,         \* the ring buffer: <<the request completed, the one its latency is
                  \* measured from, the one its pid and cgroup are of>>
    lost, ambiguous_io,              \* METRIC_LOST_EVENTS, METRIC_STORAGE_AMBIGUOUS_IO
    lost_total, correlation_drops,   \* the agent's counters of the same
    stopped,      \* the user-space loop has ended
    emitted,      \* the events handed to the sink
    uncorrelated, \* history: requests that shared their key with one in flight
    dropped       \* history: those of them whose completion, while enabled, gave no event

requestVars == <<pc, split, key, val, since>>
mapVars     == <<inflight_io, elem>>
kernelVars  == <<enabled, toggles, evictions, parts, requestVars, mapVars, lost, ambiguous_io,
                 uncorrelated, dropped>>
vars == <<kernelVars, ring, lost_total, correlation_drops, stopped, emitted>>

InFlight == {r \in Requests : pc[r] \notin {"new", "done"}}

\* The requests of key k the device has, as the block layer sees it.
AtDevice(k) == {r \in Requests : pc[r] \in {"colliding", "marking", "issued"} /\ KeyOf[r] = k}

\* The elements no key is in.
Free == {s \in Slots : \A k \in Keys : inflight_io[k] # s}

Init ==
    /\ enabled \in BOOLEAN /\ toggles = 0 /\ evictions = 0 /\ parts = 0
    /\ pc = [r \in Requests |-> "new"] /\ split = {} /\ key = KeyOf
    /\ val = [r \in Requests |-> Null] /\ since = [r \in Requests |-> Null]
    /\ inflight_io = [k \in Keys |-> Null] /\ elem = [s \in Slots |-> Null]
    /\ ring = <<>> /\ lost = 0 /\ ambiguous_io = 0
    /\ lost_total = 0 /\ correlation_drops = 0
    /\ stopped = FALSE /\ emitted = {} /\ uncorrelated = {} /\ dropped = {}

-----------------------------------------------------------------------------
(* Environment.                                                            *)

\* A config apply changes the flag (ConfigFanout).
toggle ==
    /\ toggles < MaxToggles /\ toggles' = toggles + 1
    /\ enabled' = ~enabled
    /\ UNCHANGED <<evictions, parts, requestVars, mapVars, ring, lost, ambiguous_io, lost_total,
                   correlation_drops, stopped, emitted, uncorrelated, dropped>>

\* The LRU map makes room.
evict(k) ==
    /\ inflight_io[k] # Null
    /\ evictions < MaxEvictions /\ evictions' = evictions + 1
    /\ inflight_io' = [inflight_io EXCEPT ![k] = Null]
    /\ UNCHANGED <<enabled, toggles, parts, requestVars, elem, ring, lost, ambiguous_io,
                   lost_total, correlation_drops, stopped, emitted, uncorrelated, dropped>>

-----------------------------------------------------------------------------
(* trace_block_rq_issue.                                                   *)

programFrame == <<enabled, toggles, lost_total, correlation_drops, stopped, emitted>>
issueFrame   == <<parts, split, key, since, ring, lost, ambiguous_io, dropped, programFrame>>

\* Up to the BPF_NOEXIST update, which copies the value into an element the LRU gives out
\* and gives that back when the key is there already.
trace_block_rq_issue(r) ==
    LET k == KeyOf[r]
        write(s) == elem' = [elem EXCEPT ![s] = [by |-> r, ambiguous |-> FALSE]] IN
    /\ pc[r] = "new"
    /\ uncorrelated' = uncorrelated \cup
                          IF AtDevice(k) = {} THEN {} ELSE {r} \cup AtDevice(k)
    /\ \/ /\ ~enabled
          /\ pc' = [pc EXCEPT ![r] = "issued"]
          /\ UNCHANGED <<evictions, mapVars>>
       \/ /\ enabled /\ inflight_io[k] = Null
          /\ \E s \in Free : write(s) /\ inflight_io' = [inflight_io EXCEPT ![k] = s]
          /\ pc' = [pc EXCEPT ![r] = "issued"]
          /\ UNCHANGED evictions
       \/ /\ enabled /\ inflight_io[k] # Null
          /\ \/ \E s \in Free : write(s)
             \/ Free = {} /\ UNCHANGED elem
          /\ pc' = [pc EXCEPT ![r] = "colliding"]
          /\ UNCHANGED <<evictions, inflight_io>>
       \/ /\ enabled /\ inflight_io[k] = Null /\ Free = {}
          /\ evictions < MaxEvictions /\ evictions' = evictions + 1
          /\ pc' = [pc EXCEPT ![r] = "colliding"]
          /\ UNCHANGED mapVars
    /\ UNCHANGED <<val, issueFrame>>

\* ... its lookup after a failed update.
lookup_existing(r) ==
    LET existing == inflight_io[KeyOf[r]] IN
    /\ pc[r] = "colliding"
    /\ val' = [val EXCEPT ![r] = existing]
    /\ pc' = [pc EXCEPT ![r] = IF existing = Null THEN "issued" ELSE "marking"]
    /\ UNCHANGED <<evictions, mapVars, uncorrelated, issueFrame>>

\* Mutant: a shared key is not marked.
mark_ambiguous_not(r) ==
    /\ pc[r] = "marking"
    /\ val' = [val EXCEPT ![r] = Null]
    /\ pc' = [pc EXCEPT ![r] = "issued"]
    /\ UNCHANGED <<evictions, mapVars, uncorrelated, issueFrame>>

\* ... existing->ambiguous = 1.
mark_ambiguous(r) ==
    /\ pc[r] = "marking"
    /\ elem' = [elem EXCEPT ![val[r]].ambiguous = TRUE]
    /\ val' = [val EXCEPT ![r] = Null]
    /\ pc' = [pc EXCEPT ![r] = "issued"]
    /\ UNCHANGED <<evictions, inflight_io, uncorrelated, issueFrame>>

-----------------------------------------------------------------------------
(* trace_block_rq_complete.                                                *)

completeFrame == <<evictions, uncorrelated, programFrame>>
localFrame    == <<parts, split, key, val, completeFrame>>

\* r completes under key k: as a whole, or in parts, each of which starts at another
\* sector than the request or has another size.
Completes(r, k) ==
    /\ pc[r] = "issued"
    /\ \/ k = KeyOf[r] /\ r \notin split /\ UNCHANGED parts
       \/ k # KeyOf[r] /\ parts < MaxParts /\ parts' = parts + 1

\* The program for key k ends.  Parts come at least in twos.
return(r, k) ==
    /\ split' = IF k = KeyOf[r] THEN split ELSE split \cup {r}
    /\ \/ (k = KeyOf[r] \/ r \in split) /\ pc' = [pc EXCEPT ![r] = "done"]
       \/ k # KeyOf[r] /\ pc' = [pc EXCEPT ![r] = "issued"]
    /\ key' = [key EXCEPT ![r] = KeyOf[r]]
    /\ val' = [val EXCEPT ![r] = Null]
    /\ since' = [since EXCEPT ![r] = Null]

\* No entry, so nothing is known of the request.
complete_unmatched(r, k) ==
    /\ Completes(r, k) /\ inflight_io[k] = Null
    /\ return(r, k)
    /\ dropped' = dropped \cup IF enabled THEN {r} \cap uncorrelated ELSE {}
    /\ UNCHANGED <<mapVars, ring, lost, ambiguous_io, completeFrame>>

\* val points at the key's element.
complete_lookup(r, k) ==
    /\ Completes(r, k) /\ inflight_io[k] # Null
    /\ pc' = [pc EXCEPT ![r] = "found"]
    /\ key' = [key EXCEPT ![r] = k]
    /\ val' = [val EXCEPT ![r] = inflight_io[k]]
    /\ UNCHANGED <<split, since, mapVars, ring, lost, ambiguous_io, dropped, completeFrame>>

\* Mutant: a disabled program returns before the cleanup.
complete_gated(r) ==
    /\ pc[r] = "found"
    /\ \/ ~enabled /\ return(r, key[r])
       \/ /\ enabled
          /\ pc' = [pc EXCEPT ![r] = IF elem[val[r]].ambiguous THEN "deleting" ELSE "measuring"]
          /\ UNCHANGED <<split, key, val, since>>
    /\ UNCHANGED <<parts, mapVars, ring, lost, ambiguous_io, dropped, completeFrame>>

\* Config and val->ambiguous: a disabled program only cleans up, an ambiguous completion
\* is counted.
complete_judge(r) ==
    /\ pc[r] = "found"
    /\ \/ /\ ~enabled
          /\ pc' = [pc EXCEPT ![r] = "deleting"]
          /\ UNCHANGED <<ambiguous_io, dropped>>
       \/ /\ enabled /\ elem[val[r]].ambiguous
          /\ ambiguous_io' = ambiguous_io + 1 /\ dropped' = dropped \cup {r}
          /\ pc' = [pc EXCEPT ![r] = "deleting"]
       \/ /\ enabled /\ ~elem[val[r]].ambiguous
          /\ pc' = [pc EXCEPT ![r] = "measuring"]
          /\ UNCHANGED <<ambiguous_io, dropped>>
    /\ UNCHANGED <<since, mapVars, ring, lost, localFrame>>

\* val->issue_ns: a normal completion emits nothing.
complete_measure(r) ==
    /\ pc[r] = "measuring"
    /\ \/ pc' = [pc EXCEPT ![r] = "deleting"] /\ UNCHANGED since
       \/ /\ pc' = [pc EXCEPT ![r] = "emitting"]
          /\ since' = [since EXCEPT ![r] = elem[val[r]].by]
    /\ UNCHANGED <<mapVars, ring, lost, ambiguous_io, dropped, localFrame>>

\* The ring buffer takes the event with the rest of *val, or counts it as lost.
complete_emit(r) ==
    /\ pc[r] = "emitting"
    /\ pc' = [pc EXCEPT ![r] = "deleting"]
    /\ \/ /\ Len(ring) < RingCap
          /\ ring' = Append(ring, <<r, since[r], elem[val[r]].by>>)
          /\ UNCHANGED lost
       \/ Len(ring) = RingCap /\ lost' = lost + 1 /\ UNCHANGED ring
    /\ UNCHANGED <<since, mapVars, ambiguous_io, dropped, localFrame>>

\* bpf_map_delete_elem, by key.
complete_delete(r) ==
    /\ pc[r] = "deleting"
    /\ inflight_io' = [inflight_io EXCEPT ![key[r]] = Null]
    /\ return(r, key[r])
    /\ UNCHANGED <<parts, elem, ring, lost, ambiguous_io, dropped, completeFrame>>

-----------------------------------------------------------------------------
(* The user-space loop.                                                    *)

\* A tick hands the next event to the sink.
drain ==
    /\ ~stopped /\ ring # <<>>
    /\ emitted' = emitted \cup {Head(ring)}
    /\ ring' = Tail(ring)
    /\ UNCHANGED <<kernelVars, lost_total, correlation_drops, stopped>>

\* Every LOST_EVENTS_CHECK_INTERVAL ticks the kernel's counters are read.
read_metrics ==
    /\ ~stopped /\ <<lost_total, correlation_drops>> # <<lost, ambiguous_io>>
    /\ lost_total' = lost /\ correlation_drops' = ambiguous_io
    /\ UNCHANGED <<kernelVars, ring, stopped, emitted>>

\* The shutdown signal ends the loop; the ring buffer is not drained again.
stop ==
    /\ ~stopped /\ stopped' = TRUE
    /\ UNCHANGED <<kernelVars, ring, lost_total, correlation_drops, emitted>>

Next ==
    \/ \E r \in Requests :
          \/ trace_block_rq_issue(r) \/ lookup_existing(r) \/ mark_ambiguous(r)
          \/ \E k \in Keys : complete_unmatched(r, k) \/ complete_lookup(r, k)
          \/ complete_judge(r) \/ complete_measure(r) \/ complete_emit(r) \/ complete_delete(r)
    \/ toggle \/ \E k \in Keys : evict(k)
    \/ drain \/ read_metrics \/ stop

Spec == Init /\ [][Next]_vars

-----------------------------------------------------------------------------
(* Properties.                                                             *)

ProgramCounters == {"new", "colliding", "marking", "issued", "found", "measuring", "emitting",
                    "deleting", "done"}

TypeOK ==
    /\ enabled \in BOOLEAN
    /\ toggles \in 0..MaxToggles /\ evictions \in 0..MaxEvictions /\ parts \in 0..MaxParts
    /\ pc \in [Requests -> ProgramCounters] /\ split \subseteq Requests
    /\ key \in [Requests -> Keys]
    /\ val \in [Requests -> Slots \cup {Null}] /\ since \in [Requests -> Requests \cup {Null}]
    /\ inflight_io \in [Keys -> Slots \cup {Null}] /\ elem \in [Slots -> Entry \cup {Null}]
    /\ ring \in Seq(Requests \X Requests \X Requests) /\ Len(ring) <= RingCap
    /\ lost \in Nat /\ ambiguous_io \in Nat
    /\ lost_total \in 0..lost /\ correlation_drops \in 0..ambiguous_io
    /\ stopped \in BOOLEAN
    /\ emitted \subseteq Requests \X Requests \X Requests
    /\ uncorrelated \subseteq Requests /\ dropped \subseteq Requests

\* Config gates emission, never cleanup (docs/agent-kernel-config-abi.md:251): however
\* often the observer is switched off and on and whichever request's completion removes
\* it, an entry outlives its request only when that completed in parts.
EntryOwnerInFlight ==
    \A k \in Keys : inflight_io[k] # Null =>
        LET owner == elem[inflight_io[k]].by IN
        owner \in InFlight \cup split /\ KeyOf[owner] = k

\* "Wrong evidence is not emitted" (README.md:86): an event gives the latency, pid and
\* cgroup of the request that completed, not of another one.
NoWrongEvidence == \A e \in emitted : e[2] = e[1] /\ e[3] = e[1]

\* What the marking achieves: while the observer stays on, nothing is evicted and requests
\* complete as a whole, an event has the data of another request only if its key was used
\* by two requests and a third one, of whatever key, came to use the map.
PairsNeverConfused ==
    toggles = 0 /\ evictions = 0 /\ parts = 0 =>
        \A e \in emitted : e[2] # e[1] \/ e[3] # e[1] =>
            /\ Cardinality({r \in Requests : KeyOf[r] = KeyOf[e[1]] /\ pc[r] # "new"}) > 1
            /\ Cardinality({r \in Requests : pc[r] # "new"}) > 2

\* "Tapio drops that completion and increments" the counter (README.md:86): every
\* completion that gave no event because its key was shared in flight is counted.
AmbiguityCounted == ambiguous_io = Cardinality(dropped)

=============================================================================
