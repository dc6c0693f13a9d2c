-------------------------- MODULE ContainerMonitor --------------------------
(***************************************************************************)
(* The container observer: the oom and exit programs of                    *)
(* ebpf/container_monitor.c, which judge a death by a copy of tapio_config *)
(* taken word by word while the agent may be writing another one, and the  *)
(* user-space half (tapio-agent/src/observer/container.rs), which drains   *)
(* the records some time later and looks up the memory limit of the dead   *)
(* process's cgroup through a pid that may by then be gone or reused.      *)
(*                                                                         *)
(* A word of the carrier is represented by the generation whose bytes it   *)
(* holds: 1 is abi_version and generation, 2 the flags, 3 is               *)
(* ignore_exit_count and ignore_exit_codes[0], and every later one holds   *)
(* two codes.  The words between the flags and the count are the other     *)
(* observers' thresholds.                                                  *)
(***************************************************************************)
EXTENDS ObserverLoop, FiniteSets

CONSTANTS
    Pids, Cgroups,
    Exits,        \* <<exit code, signal>> a process may end with
    Profile,      \* Profile[g]: enabled and the ignore list of generation g
    MaxCodes,     \* TAPIO_CONFIG_MAX_IGNORE_EXIT_CODES: 16, an even number
    LimitOf,      \* LimitOf[c]: the memory limit of cgroup c
    InitLimit,    \* what resolve_via_proc(1) finds: a limit, or 0 for none
    CacheCap,     \* 10_000
    EvictCount    \* a fifth of the cache

Generations == DOMAIN Profile
WordOf(i) == 3 + i \div 2   \* the word that holds code i of the ignore list
LastWord == WordOf(MaxCodes)
Words == 1..LastWord
NoCgroup == "no cgroup"

ASSUME ContainerAssumption ==
    /\ Profile # <<>> /\ Profile \in Seq([enabled : BOOLEAN, ignore : Seq(Nat)])
    /\ MaxCodes \in Nat /\ \A g \in Generations : Len(Profile[g].ignore) <= MaxCodes
    /\ NoCgroup \notin Cgroups
    /\ <<0, 9>> \in Exits
    /\ LimitOf \in [Cgroups -> Nat \ {0}] /\ InitLimit \in Nat
    /\ CacheCap \in Nat /\ EvictCount \in Nat \ {0}

VARIABLES
    carrier,   \* carrier[w]: the generation whose bytes word w of tapio_config holds
    applying,  \* the generation written last or being written
    word,      \* the word the map update writes next, LastWord + 1 when it is done
    task,      \* task[p]: state, cgroup and exit status of pid p
    snap,      \* snap[p]: the words p's program has copied
    seen,      \* history: generations p's program may have read
    cache      \* CGROUP_LIMIT_CACHE

kernelVars == <<carrier, applying, word, task, snap, seen>>
vars == <<kernelVars, cache, loopVars>>

Dead == [state |-> "dead", cgroup |-> NoCgroup, status |-> <<0, 0>>]

Init ==
    /\ LoopInit
    /\ carrier = [w \in Words |-> 1] /\ applying = 1 /\ word = LastWord + 1
    /\ task = [p \in Pids |-> Dead]
    /\ snap = [p \in Pids |-> <<>>] /\ seen = [p \in Pids |-> {}]
    /\ cache = <<>>

-----------------------------------------------------------------------------
(* The agent's map update: the kernel copies the new value word by word,   *)
(* under no lock the programs take.                                        *)

apply ==
    /\ word = LastWord + 1 /\ applying + 1 \in Generations
    /\ applying' = applying + 1 /\ word' = 1
    /\ UNCHANGED <<carrier, task, snap, seen, cache, loopVars>>

write_word ==
    /\ word \in Words
    /\ carrier' = [carrier EXCEPT ![word] = applying]
    /\ word' = word + 1
    /\ seen' = [p \in Pids |-> IF seen[p] = {} THEN {} ELSE seen[p] \cup {applying}]
    /\ UNCHANGED <<applying, task, snap, cache, loopVars>>

-----------------------------------------------------------------------------
(* Processes: the kernel may give a pid to a new process once its last one *)
(* has been reaped.                                                        *)

fork(p, c) ==
    /\ task[p].state = "dead"
    /\ task' = [task EXCEPT ![p] = [Dead EXCEPT !.state = "alive", !.cgroup = c]]
    /\ UNCHANGED <<carrier, applying, word, snap, seen, cache, loopVars>>

reap(p) ==
    /\ task[p].state = "zombie"
    /\ task' = [task EXCEPT ![p] = Dead]
    /\ UNCHANGED <<carrier, applying, word, snap, seen, cache, loopVars>>

\* A tracepoint fires and its program enters tapio_config_snapshot.
enter(p, state, status) ==
    /\ task' = [task EXCEPT ![p].state = state, ![p].status = status]
    /\ seen' = [seen EXCEPT ![p] = {carrier[w] : w \in Words}]
    /\ UNCHANGED <<carrier, applying, word, snap, cache, loopVars>>

\* The OOM killer picks p (oom/mark_victim).
mark_victim(p) ==
    /\ task[p].state = "alive" /\ Attached
    /\ enter(p, "victim", <<0, 0>>)

\* p exits (sched/sched_process_exit); an OOM victim dies of SIGKILL.
process_exit(p) ==
    /\ Attached
    /\ \/ task[p].state = "alive" /\ \E s \in Exits : enter(p, "exiting", s)
       \/ task[p].state = "doomed" /\ enter(p, "exiting", <<0, 9>>)

-----------------------------------------------------------------------------
(* The programs.                                                           *)

\* tapio_config_snapshot copies the next word.
copy_word(p) ==
    /\ task[p].state \in {"victim", "exiting"} /\ Len(snap[p]) < Len(carrier)
    /\ snap' = [snap EXCEPT ![p] = Append(@, carrier[Len(@) + 1])]
    /\ UNCHANGED <<carrier, applying, word, task, seen, cache, loopVars>>

\* Code i of a config's ignore list; the array is zero beyond the list.
CodeAt(g, i) == IF i <= Len(Profile[g].ignore) THEN Profile[g].ignore[i] ELSE 0

\* Mutant: the loop runs one slot past the count.
IgnoredPastCount(s, code) ==
    \E i \in 1..(Len(Profile[s[3]].ignore) + 1) : CodeAt(s[WordOf(i)], i) = code

\* The snapshot's ignore list holds the code: the count comes from word 3 and each code
\* from its own word.
Ignored(s, code) ==
    \E i \in 1..Len(Profile[s[3]].ignore) : CodeAt(s[WordOf(i)], i) = code

\* handle_exit emits a record: enabled, abnormal and not ignored.
Reportable(s, status) ==
    /\ Profile[s[2]].enabled
    /\ status # <<0, 0>>
    /\ ~Ignored(s, status[1])

leave(p, state) ==
    /\ task' = [task EXCEPT ![p].state = state, ![p].status = <<0, 0>>]
    /\ snap' = [snap EXCEPT ![p] = <<>>]
    /\ seen' = [seen EXCEPT ![p] = {}]
    /\ UNCHANGED <<carrier, applying, word, cache>>

Copied(p) == Len(snap[p]) = Len(carrier)

\* handle_oom once the config is copied.  The record has no cgroup: the program runs in
\* the killer's context.
handle_oom(p) ==
    /\ task[p].state = "victim" /\ Copied(p)
    /\ leave(p, "doomed")
    /\ \/ Profile[snap[p][2]].enabled /\ bpf_ringbuf_submit(<<[pid |-> p, cgroup_id |-> NoCgroup]>>)
       \/ ~Profile[snap[p][2]].enabled /\ UNCHANGED loopVars

\* handle_exit once the config is copied.
handle_exit(p) ==
    /\ task[p].state = "exiting" /\ Copied(p)
    /\ leave(p, "zombie")
    /\ \/ /\ Reportable(snap[p], task[p].status)
          /\ bpf_ringbuf_submit(<<[pid |-> p, cgroup_id |-> task[p].cgroup]>>)
       \/ ~Reportable(snap[p], task[p].status) /\ UNCHANGED loopVars

-----------------------------------------------------------------------------
(* User space.                                                             *)

\* resolve_via_proc(pid), then resolve_via_proc(1): /proc/<pid>/cgroup is that of
\* whoever has the pid now.
resolve(pid) ==
    IF task[pid].state # "dead" THEN LimitOf[task[pid].cgroup] ELSE InitLimit

\* Mutant: nothing is evicted.
cache_insert_only(c, limit) ==
    cache' = [d \in DOMAIN cache \cup {c} |-> IF d = c THEN limit ELSE cache[d]]

\* The cache is full when it exceeds its cap; some EvictCount entries then go.
cache_insert(c, limit) ==
    \E evicted \in SUBSET DOMAIN cache :
        /\ Cardinality(evicted) = IF Cardinality(DOMAIN cache) > CacheCap THEN EvictCount ELSE 0
        /\ cache' = [d \in (DOMAIN cache \ evicted) \cup {c} |->
                        IF d = c THEN limit ELSE cache[d]]

\* enrich_memory_limit: only a cgroup that is named and not cached is looked up.
enrich_memory_limit(cgroup_id, pid) ==
    IF cgroup_id = NoCgroup \/ cgroup_id \in DOMAIN cache
    THEN UNCHANGED cache
    ELSE cache_insert(cgroup_id, resolve(pid))

\* The loop takes a record, classifies it (every record is an anomaly), enriches it and
\* hands it to the sink.
drain ==
    /\ take_record
    /\ enrich_memory_limit(Head(ring).cgroup_id, Head(ring).pid)
    /\ UNCHANGED kernelVars

-----------------------------------------------------------------------------

KernelStep ==
    \/ apply \/ write_word
    \/ \E p \in Pids :
          \/ \E c \in Cgroups : fork(p, c)
          \/ reap(p) \/ mark_victim(p) \/ process_exit(p)
          \/ copy_word(p) \/ handle_oom(p) \/ handle_exit(p)

Next ==
    \/ KernelStep
    \/ drain
    \/ LoopStep /\ UNCHANGED <<kernelVars, cache>>

\* The runtime wakes the loop again and again; nothing is assumed of the kernel.
Spec == /\ Init /\ [][Next]_vars
        /\ WF_vars(wake /\ UNCHANGED <<kernelVars, cache>>)
        /\ WF_vars(drain)
        /\ WF_vars(drain_end /\ UNCHANGED <<kernelVars, cache>>)
        /\ SF_vars(stop /\ UNCHANGED <<kernelVars, cache>>)

-----------------------------------------------------------------------------
(* Properties.                                                             *)

\* Every variable has its type, and the limit cache stays near its cap however many
\* cgroups come and go.
TypeOK ==
    /\ LoopTypeOK
    /\ Cardinality(DOMAIN cache) <= CacheCap + 1
    /\ carrier \in [Words -> Generations] /\ applying \in Generations /\ word \in 1..(LastWord + 1)
    /\ \A p \in Pids :
          /\ task[p].state \in {"dead", "alive", "victim", "doomed", "exiting", "zombie"}
          /\ task[p].cgroup \in Cgroups \cup {NoCgroup}
          /\ seen[p] \subseteq Generations
          /\ Len(snap[p]) <= LastWord
    /\ \A i \in DOMAIN ring :
          ring[i].pid \in Pids /\ ring[i].cgroup_id \in Cgroups \cup {NoCgroup}

\* What tearing can do to the ignore list (docs/agent-kernel-config-abi.md:227): a
\* program no update overlapped judges by the list it runs under, and one that read
\* two configs drops an exit only if one of them lists its code or the exit has code 0,
\* which a torn read may take from the unused slots of the shorter list.
VerdictExplained ==
    \A p \in Pids : task[p].state = "exiting" /\ Copied(p) =>
        LET code == task[p].status[1]
            listed(g) == \E i \in DOMAIN Profile[g].ignore : Profile[g].ignore[i] = code IN
        /\ \A g \in Generations : seen[p] = {g} => (Ignored(snap[p], code) <=> listed(g))
        /\ Ignored(snap[p], code) => code = 0 \/ \E g \in seen[p] : listed(g)

\* "Very fast OOM kills may still get 0 if the cgroup is deleted before we read"
\* (tapio-agent/src/observer/container.rs:93): the memory limit given for a cgroup is its
\* own or 0.
LimitOfOwnCgroup == \A c \in DOMAIN cache : cache[c] \in {0, LimitOf[c]}

\* "A partially updated config may cause one event to be judged by a previous or next
\* bounded set" (docs/agent-kernel-config-abi.md:247), not by a mixture of the two.
JudgedByPreviousOrNext ==
    \A p \in Pids : task[p].state = "exiting" /\ Copied(p) =>
        \E g \in seen[p] :
            Ignored(snap[p], task[p].status[1])
                <=> \E i \in DOMAIN Profile[g].ignore : Profile[g].ignore[i] = task[p].status[1]

=============================================================================
