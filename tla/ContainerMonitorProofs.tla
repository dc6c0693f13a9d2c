----------------------- MODULE ContainerMonitorProofs -----------------------
(***************************************************************************)
(* Proofs about the container observer, for any number of processes,       *)
(* cgroups and config generations, any lists of exit codes and any         *)
(* interleaving of the agent's word by word update with the programs'      *)
(* word by word copies.                                                    *)
(*                                                                         *)
(* VerdictExplained is about the moment a copy is complete.  SnapshotOK    *)
(* relates the copy to the carrier all along: while a program runs, every  *)
(* word it has copied and every word it may still copy belongs to a        *)
(* generation in seen, and no other process has a copy.  The rest is the   *)
(* test itself (IgnoredExplained).                                         *)
(***************************************************************************)
EXTENDS ContainerMonitor, FiniteSetTheorems, SequenceTheorems, TLAPS

-----------------------------------------------------------------------------
(* The ignore list.                                                        *)

Listed(g, code) == \E i \in DOMAIN Profile[g].ignore : Profile[g].ignore[i] = code

\* A generation's list is a sequence.
LEMMA ListsAreSequences ==
    ASSUME NEW g \in Generations
    PROVE  /\ Profile[g].ignore \in Seq(Nat) /\ Len(Profile[g].ignore) \in Nat
           /\ DOMAIN Profile[g].ignore = 1..Len(Profile[g].ignore)
<1> DEFINE S == [enabled : BOOLEAN, ignore : Seq(Nat)]
<1>1. Profile[g] \in S
  <2>1. Profile \in Seq(S)
    BY ContainerAssumption
  <2> HIDE DEF S
  <2>2. g \in 1..Len(Profile)
    BY <2>1, LenProperties DEF Generations
  <2> QED
    BY <2>1, <2>2, ElementOfSeq
<1>2. Profile[g].ignore \in Seq(Nat)
  BY <1>1
<1> QED
  BY <1>2, LenProperties

\* The last word is a natural number, and every code of a list is in a word after the flags.
LEMMA WordsOfCodes ==
    /\ LastWord \in Nat /\ 3 <= LastWord /\ 1 \in Words /\ 3 \in Words
    /\ \A g \in Generations : \A i \in 1..Len(Profile[g].ignore) : WordOf(i) \in Words
<1>1. LastWord \in Nat /\ 3 <= LastWord
  BY ContainerAssumption DEF LastWord, WordOf
<1>2. ASSUME NEW g \in Generations, NEW i \in 1..Len(Profile[g].ignore)
      PROVE  WordOf(i) \in Words
  <2>1. Len(Profile[g].ignore) \in Nat /\ Len(Profile[g].ignore) <= MaxCodes
    BY ListsAreSequences, ContainerAssumption
  <2>2. i \in Nat /\ MaxCodes \in Nat /\ i <= MaxCodes
    BY <2>1, ContainerAssumption
  <2> QED
    BY <2>2 DEF Words, LastWord, WordOf
<1> QED
  BY <1>1, <1>2 DEF Words

\* A snapshot of one generation tests that generation's list; one that mixes several finds
\* a code listed by one of them or the zero beyond the end of a shorter list.
LEMMA IgnoredExplained ==
    ASSUME NEW s, NEW S \in SUBSET Generations, \A w \in Words : s[w] \in S, NEW code
    PROVE  /\ \A g \in Generations : S = {g} => (Ignored(s, code) <=> Listed(g, code))
           /\ Ignored(s, code) => code = 0 \/ \E g \in S : Listed(g, code)
<1> DEFINE m == Len(Profile[s[3]].ignore)
<1>1. s[3] \in S /\ s[3] \in Generations
  BY WordsOfCodes
<1>2. \A i \in 1..m : s[WordOf(i)] \in S /\ s[WordOf(i)] \in Generations
  BY <1>1, WordsOfCodes
<1>3. ASSUME NEW g \in Generations, NEW i, i \in 1..Len(Profile[g].ignore)
      PROVE  CodeAt(g, i) = Profile[g].ignore[i] /\ i \in DOMAIN Profile[g].ignore
  BY <1>3, ListsAreSequences DEF CodeAt
<1>4. ASSUME NEW g \in Generations, S = {g} PROVE Ignored(s, code) <=> Listed(g, code)
  <2>1. s[3] = g /\ \A i \in 1..m : s[WordOf(i)] = g
    BY <1>1, <1>2, <1>4
  <2>2. DOMAIN Profile[g].ignore = 1..m
    BY <2>1, ListsAreSequences
  <2> QED
    BY <1>3, <2>1, <2>2 DEF Ignored, Listed
<1>5. ASSUME Ignored(s, code) PROVE code = 0 \/ \E g \in S : Listed(g, code)
  <2>1. PICK i \in 1..m : CodeAt(s[WordOf(i)], i) = code
    BY <1>5 DEF Ignored
  <2> DEFINE g == s[WordOf(i)]
             n == Len(Profile[g].ignore)
  <2>2. g \in S /\ g \in Generations /\ n \in Nat /\ i \in Nat /\ 1 <= i
    BY <1>2, <2>1, ListsAreSequences
  <2> HIDE DEF g
  <2>3. CASE i <= n
    BY <1>3, <2>1, <2>2, <2>3 DEF Listed, g
  <2>4. CASE ~(i <= n)
    BY <2>1, <2>4 DEF CodeAt, g
  <2> QED
    BY <2>3, <2>4
<1> QED
  BY <1>4, <1>5

-----------------------------------------------------------------------------
(* The cache.                                                              *)

CacheBounded == IsFiniteSet(DOMAIN cache) /\ Cardinality(DOMAIN cache) <= CacheCap + 1

\* Evicting before the insertion keeps the cache at one more than its cap.
LEMMA CacheInsertBounded ==
    ASSUME CacheBounded, NEW c, NEW limit, cache_insert(c, limit)
    PROVE  CacheBounded'
<1> DEFINE D == DOMAIN cache
<1>1. PICK E \in SUBSET D :
          /\ Cardinality(E) = IF Cardinality(D) > CacheCap THEN EvictCount ELSE 0
          /\ cache' = [d \in (D \ E) \cup {c} |-> IF d = c THEN limit ELSE cache[d]]
  BY DEF cache_insert
<1>2. DOMAIN cache' = (D \ E) \cup {c}
  BY <1>1
<1>3. IsFiniteSet(D) /\ Cardinality(D) \in Nat /\ Cardinality(D) <= CacheCap + 1
  BY FS_CardinalityType DEF CacheBounded
<1>4. D \ E \in SUBSET D
  OBVIOUS
<1> DEFINE R == D \ E
<1> HIDE DEF D
<1>5. /\ IsFiniteSet(R) /\ Cardinality(R) \in Nat
      /\ Cardinality(R) <= Cardinality(D)
      /\ Cardinality(R) = Cardinality(D) => R = D
  <2>1. /\ IsFiniteSet(R) /\ Cardinality(R) <= Cardinality(D)
        /\ Cardinality(D) = Cardinality(R) => D = R
    BY <1>3, <1>4, FS_Subset
  <2>2. Cardinality(R) \in Nat
    BY <2>1, FS_CardinalityType
  <2> QED
    BY <2>1, <2>2
<1>6. Cardinality(R) <= CacheCap
  <2>1. CASE Cardinality(D) > CacheCap
    <3>1. Cardinality(E) # 0
      BY <1>1, <2>1, ContainerAssumption
    <3>2. E # {}
      BY <3>1, FS_EmptySet
    <3>3. R # D
      BY <3>2
    <3> HIDE DEF R
    <3> QED
      BY <1>3, <1>5, <3>3, ContainerAssumption
  <2>2. CASE ~(Cardinality(D) > CacheCap)
    <3> HIDE DEF R
    <3> QED
      BY <1>3, <1>5, <2>2, ContainerAssumption
  <2> QED
    BY <2>1, <2>2
<1> HIDE DEF R
<1>7. IsFiniteSet(R \cup {c}) /\ Cardinality(R \cup {c}) <= CacheCap + 1
  <2>1. /\ IsFiniteSet(R \cup {c})
        /\ Cardinality(R \cup {c}) = IF c \in R THEN Cardinality(R) ELSE Cardinality(R) + 1
    BY <1>5, FS_AddElement
  <2> QED
    BY <1>5, <1>6, <2>1, ContainerAssumption
<1> QED
  BY <1>2, <1>7 DEF CacheBounded, R

-----------------------------------------------------------------------------
(* The loop and the ring buffer.                                           *)

RingRecords == [pid : Pids, cgroup_id : Cgroups \cup {NoCgroup}]
LoopOK == LoopTypeOK /\ ring \in Seq(RingRecords)

LEMMA SubmitOK ==
    ASSUME LoopOK, NEW e \in RingRecords, bpf_ringbuf_submit(<<e>>)
    PROVE  LoopOK'
<1> DEFINE records == <<e>>
           room == RingCap - Len(ring)
           fit  == IF Len(records) <= room THEN Len(records) ELSE room
           new  == SubSeq(records, 1, fit)
<1>1. ring \in Seq(RingRecords) /\ Len(ring) \in Nat /\ Len(ring) <= RingCap
  BY LenProperties DEF LoopOK, LoopTypeOK
<1>2. records \in Seq(RingRecords) /\ Len(records) = 1
  OBVIOUS
<1> HIDE DEF records
<1>3. fit \in Nat /\ fit <= 1 /\ Len(ring) + fit <= RingCap
  BY <1>1, <1>2, LoopAssumption
<1>4. /\ ring' = ring \o new
      /\ lost' = lost + (1 - fit) /\ lost' <= MaxLost
      /\ UNCHANGED <<lost_total, loop, tick_count, drained, shutdown>>
  BY <1>2 DEF bpf_ringbuf_submit, records
<1> HIDE DEF fit
<1>5. new \in Seq(RingRecords) /\ Len(new) = fit
  BY <1>2, <1>3
<1> HIDE DEF new
<1>6. ring' \in Seq(RingRecords) /\ Len(ring') = Len(ring) + fit
  BY <1>1, <1>4, <1>5, ConcatProperties
<1>7. lost' \in 0..MaxLost /\ lost_total' \in 0..lost'
  BY <1>3, <1>4, LoopAssumption DEF LoopOK, LoopTypeOK
<1> QED
  BY <1>3, <1>4, <1>6, <1>7 DEF LoopOK, LoopTypeOK

\* The loop's own steps.
LEMMA LoopStepOK ==
    ASSUME LoopOK, LoopStep \/ take_record \/ UNCHANGED loopVars
    PROVE  LoopOK'
<1> USE LoopAssumption
<1>1. CASE wake
  <2>1. tick_count' \in 0..(LOST_EVENTS_CHECK_INTERVAL - 1)
    BY <1>1 DEF wake, LoopOK, LoopTypeOK
  <2>2. lost_total' \in 0..lost
    BY <1>1 DEF wake, LoopOK, LoopTypeOK
  <2> QED
    BY <1>1, <2>1, <2>2 DEF wake, LoopOK, LoopTypeOK
<1>2. CASE drain_end
  BY <1>2 DEF drain_end, LoopOK, LoopTypeOK
<1>3. CASE stop
  BY <1>3 DEF stop, LoopOK, LoopTypeOK
<1>4. CASE signal_shutdown
  BY <1>4 DEF signal_shutdown, LoopOK, LoopTypeOK
<1>5. CASE take_record
  <2>1. /\ ring' \in Seq(RingRecords) /\ Len(ring') = Len(ring) - 1
        /\ Len(ring) \in Nat
    BY <1>5, HeadTailProperties, LenProperties DEF take_record, LoopOK
  <2> QED
    BY <1>5, <2>1 DEF take_record, LoopOK, LoopTypeOK
<1>6. CASE UNCHANGED loopVars
  BY <1>6 DEF loopVars, LoopOK, LoopTypeOK
<1> QED
  BY <1>1, <1>2, <1>3, <1>4, <1>5, <1>6 DEF LoopStep

-----------------------------------------------------------------------------
(* The carrier, the programs and their copies.                             *)

States == {"dead", "alive", "victim", "doomed", "exiting", "zombie"}
Programs == {"victim", "exiting"}
Tasks == [state : States, cgroup : Cgroups \cup {NoCgroup}, status : Exits \cup {<<0, 0>>}]

KernelTypeOK ==
    /\ carrier \in [Words -> Generations] /\ applying \in Generations /\ word \in 1..(LastWord + 1)
    /\ task \in [Pids -> Tasks]
    /\ snap \in [Pids -> Seq(Generations)]
    /\ seen \in [Pids -> SUBSET Generations]

\* What process p's program has copied and may still copy has been seen.
SnapshotOK(p) ==
    /\ Len(snap[p]) <= LastWord
    /\ task[p].state \in Programs =>
          /\ \A w \in Words : carrier[w] \in seen[p]
          /\ \A i \in 1..Len(snap[p]) : snap[p][i] \in seen[p]
    /\ task[p].state \notin Programs => snap[p] = <<>> /\ seen[p] = {}

KernelOK == KernelTypeOK /\ \A p \in Pids : SnapshotOK(p)

\* The carrier is a sequence of its words.
LEMMA CarrierLen == ASSUME KernelTypeOK PROVE Len(carrier) = LastWord
<1>1. DOMAIN carrier = 1..LastWord /\ LastWord \in Nat
  BY WordsOfCodes DEF KernelTypeOK, Words
<1> HIDE DEF LastWord
<1> QED
  BY <1>1

\* A step of one process.
LEMMA OneProcessChanges ==
    ASSUME KernelOK, NEW p \in Pids, UNCHANGED <<carrier, applying, word>>,
           NEW t \in Tasks, NEW s \in Seq(Generations), NEW g \in SUBSET Generations,
           task' = [task EXCEPT ![p] = t],
           snap' = [snap EXCEPT ![p] = s],
           seen' = [seen EXCEPT ![p] = g],
           Len(s) <= LastWord,
           t.state \in Programs => /\ \A w \in Words : carrier[w] \in g
                                   /\ \A i \in 1..Len(s) : s[i] \in g,
           t.state \notin Programs => s = <<>> /\ g = {}
    PROVE  KernelOK'
<1>1. KernelTypeOK'
  BY DEF KernelOK, KernelTypeOK
<1>2. task'[p] = t /\ snap'[p] = s /\ seen'[p] = g /\ carrier' = carrier
  BY DEF KernelOK, KernelTypeOK
<1>3. SnapshotOK(p)'
  BY <1>2 DEF SnapshotOK
<1>4. ASSUME NEW q \in Pids, q # p PROVE SnapshotOK(q)'
  <2>1. task'[q] = task[q] /\ snap'[q] = snap[q] /\ seen'[q] = seen[q] /\ SnapshotOK(q)
    BY <1>4 DEF KernelOK, KernelTypeOK
  <2> QED
    BY <1>2, <2>1 DEF SnapshotOK
<1> QED
  BY <1>1, <1>3, <1>4 DEF KernelOK

\* A function changed at one place to what it was there is not changed.
LEMMA SameElsewhere ==
    ASSUME KernelOK, NEW p \in Pids
    PROVE  /\ [task EXCEPT ![p] = task[p]] = task
           /\ [snap EXCEPT ![p] = snap[p]] = snap
           /\ [seen EXCEPT ![p] = seen[p]] = seen
  BY DEF KernelOK, KernelTypeOK

\* Processes come and go outside the programs.
LEMMA ForkReapOK ==
    ASSUME KernelOK, NEW p \in Pids, (\E c \in Cgroups : fork(p, c)) \/ reap(p)
    PROVE  KernelOK'
<1>1. PICK t \in Tasks : /\ t.state \notin Programs /\ task' = [task EXCEPT ![p] = t]
                         /\ task[p].state \notin Programs
  <2>1. CASE reap(p)
    BY <2>1 DEF reap, Dead, Tasks, States, Programs
  <2>2. ASSUME NEW c \in Cgroups, fork(p, c)
        PROVE  /\ task[p].state \notin Programs
               /\ \E t \in Tasks : t.state \notin Programs /\ task' = [task EXCEPT ![p] = t]
    <3> DEFINE t == [Dead EXCEPT !.state = "alive", !.cgroup = c]
    <3>1. Dead \in Tasks
      BY DEF Dead, Tasks, States
    <3>2. t \in Tasks /\ t.state \notin Programs
      BY <3>1 DEF Tasks, States, Programs
    <3> QED
      BY <2>2, <3>2 DEF fork, Programs
  <2> QED
    BY <2>1, <2>2
<1>2. UNCHANGED <<carrier, applying, word, snap, seen>>
  BY DEF fork, reap
<1>3. snap[p] = <<>> /\ seen[p] = {}
  BY <1>1 DEF KernelOK, SnapshotOK
<1>4. snap[p] \in Seq(Generations) /\ seen[p] \in SUBSET Generations /\ Len(snap[p]) <= LastWord
  BY DEF KernelOK, KernelTypeOK, SnapshotOK
<1>5. snap' = [snap EXCEPT ![p] = snap[p]] /\ seen' = [seen EXCEPT ![p] = seen[p]]
  BY <1>2, SameElsewhere
<1> QED
  BY <1>1, <1>2, <1>3, <1>4, <1>5, OneProcessChanges

\* A program starts: all it can read is what the carrier holds.
LEMMA EnterOK ==
    ASSUME KernelOK, NEW p \in Pids, mark_victim(p) \/ process_exit(p)
    PROVE  KernelOK'
<1>1. /\ task[p].state \notin Programs
      /\ \E state \in Programs : \E status \in Exits \cup {<<0, 0>>} : enter(p, state, status)
  BY ContainerAssumption DEF mark_victim, process_exit, Programs
<1>2. PICK state \in Programs, status \in Exits \cup {<<0, 0>>} : enter(p, state, status)
  BY <1>1
<1> DEFINE t == [task[p] EXCEPT !.state = state, !.status = status]
           g == {carrier[w] : w \in Words}
<1>3. task[p] \in Tasks
  BY DEF KernelOK, KernelTypeOK
<1>4. t \in Tasks /\ t.state = state
  BY <1>3 DEF Tasks, States, Programs
<1>5. task' = [task EXCEPT ![p] = t]
  BY <1>2 DEF enter, KernelOK, KernelTypeOK
<1>6. snap[p] = <<>> /\ snap[p] \in Seq(Generations) /\ Len(snap[p]) <= LastWord /\ Len(snap[p]) = 0
  BY <1>1 DEF KernelOK, KernelTypeOK, SnapshotOK
<1>7. g \in SUBSET Generations /\ \A w \in Words : carrier[w] \in g
  BY DEF KernelOK, KernelTypeOK
<1>8. snap' = [snap EXCEPT ![p] = snap[p]] /\ seen' = [seen EXCEPT ![p] = g]
  BY <1>2, SameElsewhere DEF enter
<1>9. UNCHANGED <<carrier, applying, word>>
  BY <1>2 DEF enter
<1>10. \A i \in 1..Len(snap[p]) : snap[p][i] \in g
  BY <1>6
<1> HIDE DEF t, g
<1> QED
  BY <1>4, <1>5, <1>6, <1>7, <1>8, <1>9, <1>10, OneProcessChanges

\* A copied word is one of the carrier's.
LEMMA CopyOK ==
    ASSUME KernelOK, NEW p \in Pids, copy_word(p)
    PROVE  KernelOK'
<1> DEFINE n == Len(snap[p])
           s == Append(snap[p], carrier[n + 1])
<1>1. /\ snap[p] \in Seq(Generations) /\ n \in Nat /\ n < LastWord
      /\ task[p].state \in Programs
  <2>1. Len(carrier) = LastWord
    BY CarrierLen DEF KernelOK
  <2>2. snap[p] \in Seq(Generations)
    BY DEF KernelOK, KernelTypeOK
  <2> QED
    BY <2>1, <2>2, LenProperties DEF copy_word, Programs
<1>2. n + 1 \in Words /\ LastWord \in Nat
  BY <1>1, WordsOfCodes DEF Words
<1>3. carrier[n + 1] \in Generations /\ carrier[n + 1] \in seen[p]
  BY <1>1, <1>2 DEF KernelOK, KernelTypeOK, SnapshotOK
<1>4. s \in Seq(Generations) /\ Len(s) = n + 1 /\ Len(s) <= LastWord
  BY <1>1, <1>2, <1>3
<1>5. \A i \in 1..Len(s) : s[i] \in seen[p]
  <2> SUFFICES ASSUME NEW i \in 1..(n + 1) PROVE s[i] \in seen[p]
    BY <1>4
  <2>1. CASE i = n + 1
    BY <1>1, <1>3, <2>1
  <2>2. CASE i # n + 1
    <3>1. i \in 1..n /\ s[i] = snap[p][i]
      BY <1>1, <2>2
    <3> QED
      BY <1>1, <3>1 DEF KernelOK, SnapshotOK
  <2> QED
    BY <2>1, <2>2
<1>6. \A w \in Words : carrier[w] \in seen[p]
  BY <1>1 DEF KernelOK, SnapshotOK
<1>7. /\ snap' = [snap EXCEPT ![p] = s] /\ task' = [task EXCEPT ![p] = task[p]]
      /\ seen' = [seen EXCEPT ![p] = seen[p]] /\ UNCHANGED <<carrier, applying, word>>
  BY SameElsewhere DEF copy_word
<1>8. task[p] \in Tasks /\ seen[p] \in SUBSET Generations
  BY DEF KernelOK, KernelTypeOK
<1> HIDE DEF s
<1> QED
  BY <1>1, <1>4, <1>5, <1>6, <1>7, <1>8, OneProcessChanges

\* A program ends and forgets its copy.
LEMMA LeaveOK ==
    ASSUME KernelOK, NEW p \in Pids, NEW state \in States \ Programs, leave(p, state)
    PROVE  KernelOK'
<1> DEFINE t == [task[p] EXCEPT !.state = state, !.status = <<0, 0>>]
<1>1. task[p] \in Tasks
  BY DEF KernelOK, KernelTypeOK
<1>2. t \in Tasks /\ t.state = state
  BY <1>1 DEF Tasks
<1>3. task' = [task EXCEPT ![p] = t]
  BY DEF leave, KernelOK, KernelTypeOK
<1>4. <<>> \in Seq(Generations) /\ Len(<<>>) <= LastWord /\ {} \in SUBSET Generations
  BY EmptySeq, WordsOfCodes
<1>5. /\ snap' = [snap EXCEPT ![p] = <<>>] /\ seen' = [seen EXCEPT ![p] = {}]
      /\ UNCHANGED <<carrier, applying, word>>
  BY DEF leave
<1> HIDE DEF t
<1> QED
  BY <1>2, <1>3, <1>4, <1>5, OneProcessChanges

\* The map update: what it writes, every running program has seen.
LEMMA WriteOK ==
    ASSUME KernelOK, apply \/ write_word
    PROVE  KernelOK'
<1>1. CASE apply
  <2>1. KernelTypeOK'
    BY <1>1 DEF apply, KernelOK, KernelTypeOK
  <2> QED
    BY <1>1, <2>1 DEF apply, KernelOK, SnapshotOK
<1>2. CASE write_word
  <2>1. KernelTypeOK'
    <3>1. LastWord \in Nat /\ Words = 1..LastWord
      BY WordsOfCodes DEF Words
    <3>2. carrier' \in [Words -> Generations] /\ word' \in 1..(LastWord + 1)
      BY <1>2, <3>1 DEF write_word, KernelOK, KernelTypeOK
    <3> QED
      BY <1>2, <3>2 DEF write_word, KernelOK, KernelTypeOK
  <2>2. ASSUME NEW p \in Pids PROVE SnapshotOK(p)'
    <3>1. /\ task' = task /\ snap' = snap /\ SnapshotOK(p)
          /\ seen'[p] = IF seen[p] = {} THEN {} ELSE seen[p] \cup {applying}
          /\ \A w \in Words : carrier'[w] \in {carrier[w], applying}
      BY <1>2 DEF write_word, KernelOK, KernelTypeOK
    <3>2. CASE task[p].state \in Programs
      <4>1. /\ \A w \in Words : carrier[w] \in seen[p]
            /\ \A i \in 1..Len(snap[p]) : snap[p][i] \in seen[p]
            /\ Len(snap[p]) <= LastWord
        BY <3>1, <3>2 DEF SnapshotOK
      <4>2. 1 \in Words
        BY WordsOfCodes
      <4>3. seen'[p] = seen[p] \cup {applying}
        BY <3>1, <4>1, <4>2
      <4> QED
        BY <3>1, <3>2, <4>1, <4>3 DEF SnapshotOK
    <3>3. CASE task[p].state \notin Programs
      BY <3>1, <3>3 DEF SnapshotOK
    <3> QED
      BY <3>2, <3>3
  <2> QED
    BY <2>1, <2>2 DEF KernelOK
<1> QED
  BY <1>1, <1>2

-----------------------------------------------------------------------------
(* The specification.                                                      *)

ContainerIInv == LoopOK /\ CacheBounded /\ KernelOK

LEMMA ContainerStep == ContainerIInv /\ [Next]_vars => ContainerIInv'
<1> SUFFICES ASSUME LoopOK, CacheBounded, KernelOK, [Next]_vars PROVE ContainerIInv'
  BY DEF ContainerIInv
<1>1. ASSUME UNCHANGED cache PROVE CacheBounded'
  BY <1>1 DEF CacheBounded
<1>2. ASSUME UNCHANGED kernelVars PROVE KernelOK'
  BY <1>2 DEF kernelVars, KernelOK, KernelTypeOK, SnapshotOK
<1>3. CASE apply \/ write_word
  <2>1. UNCHANGED <<cache, loopVars>>
    BY <1>3 DEF apply, write_word
  <2> QED
    BY <1>1, <1>3, <2>1, WriteOK, LoopStepOK DEF ContainerIInv
<1>4. ASSUME NEW p \in Pids,
             (\E c \in Cgroups : fork(p, c)) \/ reap(p) \/ mark_victim(p) \/ process_exit(p)
             \/ copy_word(p)
      PROVE  ContainerIInv'
  <2>1. UNCHANGED <<cache, loopVars>>
    BY <1>4 DEF fork, reap, mark_victim, process_exit, copy_word, enter
  <2>2. KernelOK'
    BY <1>4, ForkReapOK, EnterOK, CopyOK
  <2> QED
    BY <1>1, <2>1, <2>2, LoopStepOK DEF ContainerIInv
<1>5. ASSUME NEW p \in Pids, handle_oom(p) PROVE ContainerIInv'
  <2>1. KernelOK' /\ UNCHANGED cache
    BY <1>5, LeaveOK DEF handle_oom, leave, States, Programs
  <2>2. [pid |-> p, cgroup_id |-> NoCgroup] \in RingRecords
    BY DEF RingRecords
  <2>3. LoopOK'
    BY <1>5, <2>2, SubmitOK, LoopStepOK DEF handle_oom
  <2> QED
    BY <1>1, <2>1, <2>3 DEF ContainerIInv
<1>6. ASSUME NEW p \in Pids, handle_exit(p) PROVE ContainerIInv'
  <2>1. KernelOK' /\ UNCHANGED cache
    BY <1>6, LeaveOK DEF handle_exit, leave, States, Programs
  <2>2. [pid |-> p, cgroup_id |-> task[p].cgroup] \in RingRecords
    BY DEF RingRecords, KernelOK, KernelTypeOK, Tasks
  <2>3. LoopOK'
    BY <1>6, <2>2, SubmitOK, LoopStepOK DEF handle_exit
  <2> QED
    BY <1>1, <2>1, <2>3 DEF ContainerIInv
<1>7. CASE drain
  <2>1. LoopOK'
    BY <1>7, LoopStepOK DEF drain
  <2>2. CacheBounded'
    BY <1>1, <1>7, CacheInsertBounded DEF drain, enrich_memory_limit
  <2> QED
    BY <1>2, <1>7, <2>1, <2>2 DEF drain, ContainerIInv
<1>8. CASE LoopStep /\ UNCHANGED <<kernelVars, cache>>
  BY <1>1, <1>2, <1>8, LoopStepOK DEF ContainerIInv
<1>9. CASE UNCHANGED vars
  BY <1>1, <1>2, <1>9, LoopStepOK DEF ContainerIInv, vars
<1> QED
  BY <1>3, <1>4, <1>5, <1>6, <1>7, <1>8, <1>9 DEF Next, KernelStep

LEMMA ContainerInit == Init => ContainerIInv
<1> SUFFICES ASSUME Init PROVE ContainerIInv
  OBVIOUS
<1>1. LoopOK
  <2>1. ring \in Seq(RingRecords) /\ Len(ring) = 0
    BY EmptySeq DEF Init, LoopInit
  <2>2. /\ lost \in 0..MaxLost /\ lost_total \in 0..lost
        /\ tick_count \in 0..(LOST_EVENTS_CHECK_INTERVAL - 1)
        /\ drained \in 0..MAX_DRAIN_PER_TICK
    BY LoopAssumption DEF Init, LoopInit
  <2>3. loop \in {"sleeping", "draining", "stopped"} /\ shutdown \in BOOLEAN
    BY DEF Init, LoopInit
  <2> QED
    BY <2>1, <2>2, <2>3, LoopAssumption DEF LoopOK, LoopTypeOK
<1>2. CacheBounded
  <2>1. DOMAIN cache = {}
    BY DEF Init
  <2> QED
    BY <2>1, FS_EmptySet, ContainerAssumption DEF CacheBounded
<1>3. KernelTypeOK
  <2>1. 1 \in Generations
    BY ContainerAssumption, EmptySeq, LenProperties DEF Generations
  <2>2. Dead \in Tasks
    BY DEF Dead, Tasks, States
  <2> QED
    BY <2>1, <2>2, EmptySeq, WordsOfCodes DEF Init, KernelTypeOK
<1>4. \A p \in Pids : SnapshotOK(p)
  <2>1. \A p \in Pids : task[p] = Dead /\ snap[p] = <<>> /\ seen[p] = {}
    BY DEF Init
  <2>2. Dead.state \notin Programs /\ Len(<<>>) <= LastWord
    BY EmptySeq, WordsOfCodes DEF Dead, Programs
  <2> QED
    BY <2>1, <2>2 DEF SnapshotOK
<1> QED
  BY <1>1, <1>2, <1>3, <1>4 DEF ContainerIInv, KernelOK

\* The invariant of the container observer.
THEOREM ContainerInductive == Spec => []ContainerIInv
  BY ContainerInit, ContainerStep, PTL DEF Spec

\* The variables have their types, the ring buffer its capacity, and the limit cache never
\* exceeds its cap by more than one, however many cgroups come and go.
THEOREM ContainerTypeCorrect == Spec => []TypeOK
<1>1. ContainerIInv => TypeOK
  <2> SUFFICES ASSUME ContainerIInv PROVE TypeOK
    OBVIOUS
  <2>1. \A i \in DOMAIN ring : ring[i] \in RingRecords
    BY ElementOfSeq, LenProperties DEF ContainerIInv, LoopOK
  <2>2. \A p \in Pids : task[p] \in Tasks /\ seen[p] \in SUBSET Generations /\ SnapshotOK(p)
    BY DEF ContainerIInv, KernelOK, KernelTypeOK
  <2> QED
    BY <2>1, <2>2 DEF ContainerIInv, LoopOK, CacheBounded, KernelOK, KernelTypeOK, TypeOK,
           RingRecords, Tasks, States, SnapshotOK
<1> QED
  BY <1>1, ContainerInductive, PTL

\* What a torn read of the ignore list can do to the verdict of handle_exit, and no more.
THEOREM VerdictsExplained == Spec => []VerdictExplained
<1>1. ContainerIInv => VerdictExplained
  <2> SUFFICES ASSUME ContainerIInv, NEW p \in Pids,
                      task[p].state = "exiting", Copied(p)
               PROVE  LET code == task[p].status[1]
                          listed(g) == \E i \in DOMAIN Profile[g].ignore :
                                          Profile[g].ignore[i] = code IN
                      /\ \A g \in Generations :
                            seen[p] = {g} => (Ignored(snap[p], code) <=> listed(g))
                      /\ Ignored(snap[p], code) => code = 0 \/ \E g \in seen[p] : listed(g)
    BY DEF VerdictExplained
  <2> DEFINE code == task[p].status[1]
             s == snap[p]
  <2>1. Len(s) = LastWord
    BY CarrierLen DEF ContainerIInv, KernelOK, Copied
  <2>2. \A w \in Words : s[w] \in seen[p]
    <3>1. SnapshotOK(p)
      BY DEF ContainerIInv, KernelOK
    <3> QED
      BY <2>1, <3>1 DEF SnapshotOK, Programs, Words
  <2>3. seen[p] \in SUBSET Generations
    BY DEF ContainerIInv, KernelOK, KernelTypeOK
  <2> HIDE DEF s, code
  <2>4. /\ \A g \in Generations : seen[p] = {g} => (Ignored(s, code) <=> Listed(g, code))
        /\ Ignored(s, code) => code = 0 \/ \E g \in seen[p] : Listed(g, code)
    BY <2>2, <2>3, IgnoredExplained
  <2> QED
    BY <2>4 DEF Listed, s, code
<1> QED
  BY <1>1, ContainerInductive, PTL

=============================================================================
