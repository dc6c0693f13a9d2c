------------------------ MODULE StorageMonitorProofs ------------------------
(***************************************************************************)
(* Proofs about the in-flight map of the storage observer, for any set of  *)
(* requests, keys and map elements, any interleaving of the tracepoint     *)
(* programs on any number of CPUs, any config changes, evictions and       *)
(* completions in parts.                                                   *)
(*                                                                         *)
(* IInv says that an entry belongs to a request in flight, or to one that  *)
(* completed in parts.  PairInv adds, for a map nothing else disturbs, why *)
(* an event with the data of another request means three requests: a       *)
(* request that lost its entry, or never had one, met another with its     *)
(* key (NotAlone), and the element it looks at is its own or marked unless *)
(* a third one wrote to it or to its key (OwnElement).                     *)
(***************************************************************************)
EXTENDS StorageMonitor, FiniteSetTheorems, SequenceTheorems, TLAPS

-----------------------------------------------------------------------------
(* Entries and pointers.                                                   *)

\* An element in the map was written by a request in flight or one completed in parts.
EntriesOK ==
    \A k \in Keys : inflight_io[k] # Null =>
        /\ elem[inflight_io[k]] \in Entry
        /\ elem[inflight_io[k]].by \in InFlight \cup split
        /\ KeyOf[elem[inflight_io[k]].by] = k

\* A program's pointer is to an element that has been written.
PointersOK ==
    \A r \in Requests :
        /\ pc[r] \in {"marking", "found", "measuring", "emitting"} => val[r] # Null
        /\ val[r] # Null => elem[val[r]] \in Entry
        /\ pc[r] = "emitting" => since[r] # Null

IInv == TypeOK /\ EntriesOK /\ PointersOK

\* The types of the requests' and the map's variables.
RequestTypes ==
    /\ pc \in [Requests -> ProgramCounters] /\ split \subseteq Requests
    /\ key \in [Requests -> Keys]
    /\ val \in [Requests -> Slots \cup {Null}] /\ since \in [Requests -> Requests \cup {Null}]
    /\ inflight_io \in [Keys -> Slots \cup {Null}] /\ elem \in [Slots -> Entry \cup {Null}]

CounterTypes ==
    /\ enabled \in BOOLEAN /\ stopped \in BOOLEAN
    /\ toggles \in 0..MaxToggles /\ evictions \in 0..MaxEvictions /\ parts \in 0..MaxParts
    /\ lost \in Nat /\ ambiguous_io \in Nat
    /\ lost_total \in 0..lost /\ correlation_drops \in 0..ambiguous_io
    /\ uncorrelated \subseteq Requests /\ dropped \subseteq Requests

Events == Requests \X Requests \X Requests
EventTypes ==
    ring \in Seq(Events) /\ Len(ring) <= RingCap /\ emitted \subseteq Events

LEMMA Types == TypeOK <=> RequestTypes /\ CounterTypes /\ EventTypes
  BY DEF TypeOK, RequestTypes, CounterTypes, EventTypes, Events

\* What one step of r leaves of the others.
OthersLocals(r) ==
    \A q \in Requests : q # r => pc'[q] = pc[q] /\ val'[q] = val[q] /\ since'[q] = since[q]

Issues(r)    == trace_block_rq_issue(r) \/ lookup_existing(r) \/ mark_ambiguous(r)
Completing(r) ==
    \/ \E k \in Keys : complete_unmatched(r, k) \/ complete_lookup(r, k)
    \/ complete_judge(r) \/ complete_measure(r) \/ complete_emit(r) \/ complete_delete(r)

\* A value for a fresh element.
LEMMA Fresh ==
    ASSUME NEW r \in Requests
    PROVE  /\ [by |-> r, ambiguous |-> FALSE] \in Entry
           /\ [by |-> r, ambiguous |-> FALSE].by = r
  BY DEF Entry

\* Marking an entry keeps whose it is.
LEMMA Marked ==
    ASSUME NEW e \in Entry
    PROVE  /\ [e EXCEPT !.ambiguous = TRUE] \in Entry
           /\ [e EXCEPT !.ambiguous = TRUE].by = e.by
           /\ [e EXCEPT !.ambiguous = TRUE].ambiguous
  BY DEF Entry

\* Issuing keeps the types, touches one request, and writes to no element in the map
\* except to mark it.
LEMMA IssueTypes ==
    ASSUME IInv, NEW r \in Requests, Issues(r)
    PROVE  TypeOK' /\ OthersLocals(r)
<1> USE StorageAssumption
<1>1. RequestTypes /\ CounterTypes /\ EventTypes
  BY Types DEF IInv
<1>2. RequestTypes' /\ OthersLocals(r)
  <2>1. CASE trace_block_rq_issue(r)
    <3>1. elem' \in [Slots -> Entry \cup {Null}]
      BY <1>1, <2>1, Fresh DEF trace_block_rq_issue, RequestTypes, Free, mapVars
    <3>2. inflight_io' \in [Keys -> Slots \cup {Null}]
      BY <1>1, <2>1 DEF trace_block_rq_issue, RequestTypes, Free, mapVars
    <3>3. pc' \in [Requests -> ProgramCounters] /\ \A q \in Requests : q # r => pc'[q] = pc[q]
      BY <1>1, <2>1 DEF trace_block_rq_issue, RequestTypes, ProgramCounters
    <3> QED
      BY <1>1, <2>1, <3>1, <3>2, <3>3
         DEF trace_block_rq_issue, issueFrame, RequestTypes, OthersLocals
  <2>2. CASE lookup_existing(r)
    <3>1. KeyOf[r] \in Keys
      OBVIOUS
    <3>2. val' \in [Requests -> Slots \cup {Null}] /\ pc' \in [Requests -> ProgramCounters]
      BY <1>1, <2>2, <3>1 DEF lookup_existing, RequestTypes, ProgramCounters
    <3> QED
      BY <1>1, <2>2, <3>2
         DEF lookup_existing, issueFrame, mapVars, RequestTypes, OthersLocals
  <2>3. CASE mark_ambiguous(r)
    <3>1. val[r] \in Slots /\ elem[val[r]] \in Entry
      BY <1>1, <2>3 DEF mark_ambiguous, IInv, PointersOK, RequestTypes
    <3>2. elem' \in [Slots -> Entry \cup {Null}]
      BY <1>1, <2>3, <3>1, Marked DEF mark_ambiguous, RequestTypes
    <3> QED
      BY <1>1, <2>3, <3>2
         DEF mark_ambiguous, issueFrame, RequestTypes, OthersLocals, ProgramCounters
  <2> QED
    BY <2>1, <2>2, <2>3 DEF Issues
<1>3. CounterTypes'
  <2>1. uncorrelated' \subseteq Requests
    BY <1>1 DEF Issues, trace_block_rq_issue, lookup_existing, mark_ambiguous, AtDevice, CounterTypes
  <2>2. evictions' \in 0..MaxEvictions
    BY <1>1 DEF Issues, trace_block_rq_issue, lookup_existing, mark_ambiguous, CounterTypes
  <2> QED
    BY <1>1, <2>1, <2>2 DEF Issues, trace_block_rq_issue, lookup_existing, mark_ambiguous,
           issueFrame, programFrame, CounterTypes
<1>4. EventTypes'
  BY <1>1 DEF Issues, trace_block_rq_issue, lookup_existing, mark_ambiguous,
         issueFrame, programFrame, EventTypes
<1> QED
  BY <1>2, <1>3, <1>4 DEF TypeOK, RequestTypes, CounterTypes, EventTypes, Events

\* The end of a program.
LEMMA ReturnTypes ==
    ASSUME RequestTypes, NEW r \in Requests, NEW k \in Keys, return(r, k)
    PROVE  /\ pc' \in [Requests -> ProgramCounters] /\ split' \subseteq Requests
           /\ key' \in [Requests -> Keys]
           /\ val' \in [Requests -> Slots \cup {Null}]
           /\ since' \in [Requests -> Requests \cup {Null}]
           /\ OthersLocals(r)
  BY StorageAssumption DEF return, RequestTypes, OthersLocals, ProgramCounters

\* Completing keeps the types and touches one request.
LEMMA CompleteTypes ==
    ASSUME IInv, NEW r \in Requests, Completing(r)
    PROVE  TypeOK' /\ OthersLocals(r)
<1> USE StorageAssumption
<1>1. RequestTypes /\ CounterTypes /\ EventTypes
  BY Types DEF IInv
<1>2. RequestTypes' /\ OthersLocals(r)
  <2>1. ASSUME NEW k \in Keys, complete_unmatched(r, k) PROVE RequestTypes' /\ OthersLocals(r)
    BY <1>1, <2>1, ReturnTypes DEF complete_unmatched, mapVars, RequestTypes
  <2>2. ASSUME NEW k \in Keys, complete_lookup(r, k) PROVE RequestTypes' /\ OthersLocals(r)
    BY <1>1, <2>2 DEF complete_lookup, mapVars, RequestTypes, OthersLocals, ProgramCounters
  <2>3. CASE complete_judge(r)
    BY <1>1, <2>3
       DEF complete_judge, mapVars, localFrame, RequestTypes, OthersLocals, ProgramCounters
  <2>4. CASE complete_measure(r)
    <3>1. elem[val[r]].by \in Requests
      BY <2>4 DEF complete_measure, IInv, PointersOK, Entry
    <3> QED
      BY <1>1, <2>4, <3>1
         DEF complete_measure, mapVars, localFrame, RequestTypes, OthersLocals, ProgramCounters
  <2>5. CASE complete_emit(r)
    BY <1>1, <2>5
       DEF complete_emit, mapVars, localFrame, RequestTypes, OthersLocals, ProgramCounters
  <2>6. CASE complete_delete(r)
    <3>1. key[r] \in Keys
      BY <1>1 DEF RequestTypes
    <3> QED
      BY <1>1, <2>6, <3>1, ReturnTypes DEF complete_delete, RequestTypes
  <2> QED
    BY <2>1, <2>2, <2>3, <2>4, <2>5, <2>6 DEF Completing
<1>3. CounterTypes'
  <2>1. /\ lost' \in Nat /\ ambiguous_io' \in Nat
        /\ lost <= lost' /\ ambiguous_io <= ambiguous_io' /\ dropped' \subseteq Requests
    BY <1>1 DEF Completing, complete_unmatched, complete_lookup, complete_judge, complete_measure,
           complete_emit, complete_delete, CounterTypes
  <2>2. parts' \in 0..MaxParts
    BY <1>1 DEF Completing, complete_unmatched, complete_lookup, complete_judge, complete_measure,
           complete_emit, complete_delete, Completes, localFrame, CounterTypes
  <2>3. UNCHANGED completeFrame
    BY DEF Completing, complete_unmatched, complete_lookup, complete_judge, complete_measure,
           complete_emit, complete_delete, localFrame
  <2> QED
    BY <1>1, <2>1, <2>2, <2>3 DEF completeFrame, programFrame, CounterTypes
<1>4. EventTypes'
  <2>1. CASE complete_emit(r)
    <3> DEFINE e == <<r, since[r], elem[val[r]].by>>
    <3>1. e \in Events
      <4>1. since[r] \in Requests /\ elem[val[r]].by \in Requests
        BY <1>1, <2>1 DEF complete_emit, IInv, PointersOK, RequestTypes, Entry
      <4> QED
        BY <4>1 DEF Events
    <3>2. ring' = ring \/ (Len(ring) < RingCap /\ ring' = Append(ring, e))
      BY <2>1 DEF complete_emit
    <3>3. emitted' = emitted
      BY <2>1 DEF complete_emit, localFrame, completeFrame, programFrame
    <3> HIDE DEF e
    <3> QED
      BY <1>1, <3>1, <3>2, <3>3 DEF EventTypes
  <2>2. CASE ring' = ring
    <3>1. emitted' = emitted
      BY DEF Completing, complete_unmatched, complete_lookup, complete_judge, complete_measure,
             complete_emit, complete_delete, localFrame, completeFrame, programFrame
    <3> QED
      BY <1>1, <2>2, <3>1 DEF EventTypes
  <2> QED
    BY <2>1, <2>2 DEF Completing, complete_unmatched, complete_lookup, complete_judge,
           complete_measure, complete_delete
<1> QED
  BY <1>2, <1>3, <1>4 DEF TypeOK, RequestTypes, CounterTypes, EventTypes, Events

\* Entries keep their owners when the map keeps its elements and they their writers.
LEMMA EntriesKept ==
    ASSUME EntriesOK, inflight_io' = inflight_io,
           InFlight \cup split \subseteq (InFlight \cup split)',
           \A k \in Keys : inflight_io[k] # Null =>
               elem'[inflight_io[k]] \in Entry /\ elem'[inflight_io[k]].by = elem[inflight_io[k]].by
    PROVE  EntriesOK'
  BY DEF EntriesOK

\* A program that ends leaves nothing under its key, and so nothing of its request's
\* unless that completed in parts.
LEMMA ReturnEntries ==
    ASSUME IInv, NEW r \in Requests, NEW k \in Keys, return(r, k),
           elem' = elem, inflight_io'[k] = Null,
           \A l \in Keys : l # k => inflight_io'[l] = inflight_io[l]
    PROVE  EntriesOK'
<1> USE StorageAssumption
<1>1. RequestTypes
  BY Types DEF IInv
<1> SUFFICES ASSUME NEW l \in Keys, inflight_io'[l] # Null
             PROVE  /\ elem[inflight_io[l]] \in Entry
                    /\ inflight_io'[l] = inflight_io[l]
                    /\ elem[inflight_io[l]].by \in (InFlight \cup split)'
                    /\ KeyOf[elem[inflight_io[l]].by] = l
  BY DEF EntriesOK
<1>2. l # k /\ inflight_io'[l] = inflight_io[l]
  OBVIOUS
<1> DEFINE o == elem[inflight_io[l]].by
<1>3. elem[inflight_io[l]] \in Entry /\ o \in InFlight \cup split /\ KeyOf[o] = l /\ o \in Requests
  BY <1>2 DEF IInv, EntriesOK, Entry
<1> HIDE DEF o
<1>4. OthersLocals(r)
  BY <1>1, ReturnTypes
<1>5. o \in (InFlight \cup split)'
  <2>1. CASE o # r
    BY <1>3, <1>4, <2>1 DEF OthersLocals, InFlight, return
  <2>2. CASE o = r
    BY <1>2, <1>3, <2>2 DEF return
  <2> QED
    BY <2>1, <2>2
<1> QED
  BY <1>2, <1>3, <1>5 DEF o

LEMMA IssueEntries ==
    ASSUME IInv, NEW r \in Requests, Issues(r)
    PROVE  EntriesOK' /\ PointersOK'
<1> USE StorageAssumption
<1>1. RequestTypes /\ EntriesOK /\ PointersOK
  BY Types DEF IInv
<1>2. OthersLocals(r) /\ UNCHANGED <<split, since>>
  BY IssueTypes DEF Issues, trace_block_rq_issue, lookup_existing, mark_ambiguous, issueFrame
<1>3. pc'[r] \in {"colliding", "marking", "issued"}
  BY <1>1 DEF Issues, trace_block_rq_issue, lookup_existing, mark_ambiguous, RequestTypes
<1>4. InFlight \cup split \subseteq (InFlight \cup split)' /\ r \in InFlight'
  BY <1>2, <1>3 DEF OthersLocals, InFlight
<1>5. \A s \in Slots : elem[s] \in Entry => elem'[s] \in Entry
  BY <1>1, Fresh, Marked DEF Issues, trace_block_rq_issue, lookup_existing, mark_ambiguous, mapVars,
     RequestTypes
<1>6. EntriesOK'
  <2>1. CASE lookup_existing(r)
    BY <1>1, <1>4, <2>1, EntriesKept DEF lookup_existing, mapVars, EntriesOK
  <2>2. CASE mark_ambiguous(r)
    <3>1. val[r] \in Slots /\ elem[val[r]] \in Entry
      BY <1>1, <2>2 DEF mark_ambiguous, PointersOK, RequestTypes
    <3>2. \A s \in Slots : elem[s] \in Entry => elem'[s] \in Entry /\ elem'[s].by = elem[s].by
      BY <1>1, <2>2, <3>1, Marked DEF mark_ambiguous, RequestTypes
    <3>3. \A k \in Keys : inflight_io[k] # Null =>
             elem'[inflight_io[k]] \in Entry /\ elem'[inflight_io[k]].by = elem[inflight_io[k]].by
      BY <1>1, <3>2 DEF EntriesOK, RequestTypes
    <3>4. inflight_io' = inflight_io
      BY <2>2 DEF mark_ambiguous
    <3> QED
      BY <1>1, <1>4, <3>3, <3>4, EntriesKept
  <2>3. CASE trace_block_rq_issue(r) /\ inflight_io' = inflight_io
    <3>1. \A s \in Slots \ Free : elem'[s] = elem[s]
      BY <1>1, <2>3 DEF trace_block_rq_issue, mapVars, RequestTypes
    <3>2. \A k \in Keys : inflight_io[k] # Null => inflight_io[k] \in Slots \ Free
      BY <1>1 DEF RequestTypes, Free
    <3> QED
      BY <1>1, <1>4, <2>3, <3>1, <3>2, EntriesKept DEF EntriesOK
  <2>4. CASE trace_block_rq_issue(r) /\ inflight_io' # inflight_io
    <3> DEFINE e == [by |-> r, ambiguous |-> FALSE]
    <3>1. PICK s \in Free : /\ elem' = [elem EXCEPT ![s] = e]
                            /\ inflight_io' = [inflight_io EXCEPT ![KeyOf[r]] = s]
      BY <2>4 DEF trace_block_rq_issue, mapVars
    <3>2. e \in Entry /\ e.by = r
      BY Fresh
    <3> HIDE DEF e
    <3>3. s \in Slots /\ KeyOf[r] \in Keys /\ elem'[s] = e /\ inflight_io'[KeyOf[r]] = s
      BY <1>1, <3>1 DEF Free, RequestTypes
    <3>4. \A k \in Keys : k # KeyOf[r] /\ inflight_io'[k] # Null =>
             inflight_io'[k] = inflight_io[k] /\ elem'[inflight_io[k]] = elem[inflight_io[k]]
      BY <1>1, <3>1 DEF Free, RequestTypes
    <3> QED
      BY <1>1, <1>4, <3>2, <3>3, <3>4 DEF EntriesOK
  <2> QED
    BY <2>1, <2>2, <2>3, <2>4 DEF Issues
<1>7. PointersOK'
  <2> SUFFICES ASSUME NEW q \in Requests
               PROVE  /\ pc'[q] \in {"marking", "found", "measuring", "emitting"} => val'[q] # Null
                      /\ val'[q] # Null => elem'[val'[q]] \in Entry
                      /\ pc'[q] = "emitting" => since'[q] # Null
    BY DEF PointersOK
  <2>1. CASE q # r
    <3>1. val[q] # Null => val[q] \in Slots /\ elem[val[q]] \in Entry
      BY <1>1 DEF PointersOK, RequestTypes
    <3> QED
      BY <1>1, <1>2, <1>5, <2>1, <3>1 DEF OthersLocals, PointersOK
  <2>2. CASE q = r /\ trace_block_rq_issue(r)
    <3>1. pc'[r] \in {"colliding", "issued"} /\ val'[r] = val[r]
      BY <1>1, <2>2 DEF trace_block_rq_issue, RequestTypes
    <3>2. val[r] # Null => val[r] \in Slots /\ elem[val[r]] \in Entry
      BY <1>1 DEF PointersOK, RequestTypes
    <3> QED
      BY <1>5, <2>2, <3>1, <3>2
  <2>3. CASE q = r /\ lookup_existing(r)
    <3>1. /\ val'[r] = inflight_io[KeyOf[r]] /\ elem' = elem
          /\ pc'[r] = IF val'[r] = Null THEN "issued" ELSE "marking"
      BY <1>1, <2>3 DEF lookup_existing, mapVars, RequestTypes
    <3> QED
      BY <1>1, <2>3, <3>1 DEF EntriesOK
  <2>4. CASE q = r /\ mark_ambiguous(r)
    BY <1>1, <2>4 DEF mark_ambiguous, RequestTypes
  <2> QED
    BY <2>1, <2>2, <2>3, <2>4 DEF Issues
<1> QED
  BY <1>6, <1>7

LEMMA CompleteEntries ==
    ASSUME IInv, NEW r \in Requests, Completing(r)
    PROVE  EntriesOK' /\ PointersOK'
<1> USE StorageAssumption
<1>1. RequestTypes /\ EntriesOK /\ PointersOK
  BY Types DEF IInv
<1>2. OthersLocals(r) /\ elem' = elem
  BY CompleteTypes DEF Completing, complete_unmatched, complete_lookup, complete_judge,
     complete_measure, complete_emit, complete_delete, mapVars
<1>3. ASSUME NEW k \in Keys, complete_unmatched(r, k) PROVE EntriesOK'
  BY <1>2, <1>3, ReturnEntries DEF complete_unmatched, mapVars
<1>4. ASSUME complete_delete(r) PROVE EntriesOK'
  <2>1. PICK k \in Keys : k = key[r]
    BY <1>1 DEF RequestTypes
  <2>2. /\ return(r, k) /\ inflight_io'[k] = Null
        /\ \A l \in Keys : l # k => inflight_io'[l] = inflight_io[l]
    BY <1>1, <1>4, <2>1 DEF complete_delete, RequestTypes
  <2> QED
    BY <1>2, <2>1, <2>2, ReturnEntries
<1>5. ASSUME \/ \E k \in Keys : complete_lookup(r, k)
             \/ complete_judge(r) \/ complete_measure(r) \/ complete_emit(r)
      PROVE  EntriesOK'
  <2>1. /\ inflight_io' = inflight_io /\ split' = split
        /\ pc'[r] \in {"found", "measuring", "emitting", "deleting"}
    BY <1>1, <1>5 DEF complete_lookup, complete_judge, complete_measure, complete_emit, mapVars,
       localFrame, RequestTypes
  <2>2. InFlight \cup split \subseteq (InFlight \cup split)'
    BY <1>2, <2>1 DEF OthersLocals, InFlight
  <2>3. \A k \in Keys : inflight_io[k] # Null =>
           elem'[inflight_io[k]] \in Entry /\ elem'[inflight_io[k]].by = elem[inflight_io[k]].by
    BY <1>1, <1>2 DEF EntriesOK
  <2>4. EntriesOK /\ inflight_io' = inflight_io
    BY <1>1, <2>1
  <2> QED
    BY <2>2, <2>3, <2>4, EntriesKept
<1>6. PointersOK'
  <2> SUFFICES /\ pc'[r] \in {"marking", "found", "measuring", "emitting"} => val'[r] # Null
               /\ val'[r] # Null => elem[val'[r]] \in Entry
               /\ pc'[r] = "emitting" => since'[r] # Null
    BY <1>1, <1>2 DEF PointersOK, OthersLocals
  <2>1. ASSUME NEW k \in Keys, complete_unmatched(r, k) \/ complete_delete(r)
        PROVE  val'[r] = Null /\ pc'[r] \in {"issued", "done"}
    BY <1>1, <2>1 DEF complete_unmatched, complete_delete, return, RequestTypes
  <2>2. ASSUME NEW k \in Keys, complete_lookup(r, k)
        PROVE  /\ pc'[r] = "found" /\ val'[r] = inflight_io[k] /\ val'[r] # Null
               /\ elem[val'[r]] \in Entry
    BY <1>1, <2>2 DEF complete_lookup, RequestTypes, EntriesOK
  <2>3. CASE complete_judge(r) \/ complete_emit(r)
    BY <1>1, <2>3 DEF complete_judge, complete_emit, localFrame, RequestTypes, PointersOK
  <2>4. CASE complete_measure(r)
    <3>1. elem[val[r]] \in Entry /\ val' = val /\ val[r] # Null
      BY <1>1, <2>4 DEF complete_measure, localFrame, PointersOK
    <3>2. elem[val[r]].by # Null
      BY <3>1 DEF Entry
    <3> QED
      BY <1>1, <2>4, <3>1, <3>2 DEF complete_measure, RequestTypes
  <2> QED
    BY <2>1, <2>2, <2>3, <2>4 DEF Completing
<1> QED
  BY <1>3, <1>4, <1>5, <1>6 DEF Completing

\* Every step preserves the invariant.
LEMMA NextIInv == IInv /\ [Next]_vars => IInv'
<1> SUFFICES ASSUME IInv, [Next]_vars PROVE IInv'
  OBVIOUS
<1> USE StorageAssumption
<1>1. ASSUME NEW r \in Requests, Issues(r) \/ Completing(r) PROVE IInv'
  BY <1>1, IssueTypes, IssueEntries, CompleteTypes, CompleteEntries DEF IInv
<1>2. ASSUME NEW k \in Keys, evict(k) PROVE IInv'
  <2>1. TypeOK'
    BY <1>2 DEF evict, requestVars, IInv, TypeOK
  <2>2. EntriesOK' /\ PointersOK'
    BY <1>2 DEF evict, requestVars, IInv, TypeOK, EntriesOK, PointersOK, InFlight
  <2> QED
    BY <2>1, <2>2 DEF IInv
<1>3. CASE toggle \/ drain \/ read_metrics \/ stop \/ UNCHANGED vars
  <2>1. UNCHANGED <<requestVars, mapVars>>
    BY <1>3 DEF toggle, drain, read_metrics, stop, kernelVars, vars
  <2>2. EntriesOK' /\ PointersOK'
    BY <2>1 DEF requestVars, mapVars, IInv, EntriesOK, PointersOK, InFlight
  <2>3. RequestTypes /\ CounterTypes /\ EventTypes
    BY Types DEF IInv
  <2>4. RequestTypes'
    BY <2>1, <2>3 DEF requestVars, mapVars, RequestTypes
  <2>5. CounterTypes'
    <3>1. CASE toggle
      BY <2>3, <3>1 DEF toggle, CounterTypes
    <3>2. CASE drain
      BY <2>3, <3>2 DEF drain, kernelVars, CounterTypes
    <3>3. CASE read_metrics
      BY <2>3, <3>3 DEF read_metrics, kernelVars, CounterTypes
    <3>4. CASE stop \/ UNCHANGED vars
      BY <2>3, <3>4 DEF stop, kernelVars, vars, CounterTypes
    <3> QED
      BY <1>3, <3>1, <3>2, <3>3, <3>4
  <2>6. EventTypes'
    <3>1. CASE drain
      <4>1. ring \in Seq(Events) /\ ring # <<>> /\ Len(ring) <= RingCap
        BY <2>3, <3>1 DEF drain, EventTypes
      <4>2. Head(ring) \in Events /\ Tail(ring) \in Seq(Events) /\ Len(Tail(ring)) = Len(ring) - 1
        BY <4>1, HeadTailProperties
      <4>3. Len(ring) \in Nat
        BY <4>1, LenProperties
      <4> QED
        BY <2>3, <3>1, <4>1, <4>2, <4>3 DEF drain, EventTypes
    <3>2. CASE UNCHANGED <<ring, emitted>>
      BY <2>3, <3>2 DEF EventTypes
    <3> QED
      BY <1>3, <3>1, <3>2 DEF toggle, read_metrics, stop, vars
  <2>7. TypeOK'
    BY <2>4, <2>5, <2>6 DEF TypeOK, RequestTypes, CounterTypes, EventTypes, Events
  <2> QED
    BY <2>2, <2>7 DEF IInv
<1> QED
  BY <1>1, <1>2, <1>3 DEF Next, Issues, Completing

LEMMA StorageInit == Init => IInv
<1> SUFFICES ASSUME Init PROVE IInv
  OBVIOUS
<1> USE StorageAssumption DEF Init
<1>1. RequestTypes
  BY DEF RequestTypes, ProgramCounters
<1>2. CounterTypes
  <2>1. enabled \in BOOLEAN /\ stopped \in BOOLEAN
    OBVIOUS
  <2>2. /\ toggles \in 0..MaxToggles /\ evictions \in 0..MaxEvictions /\ parts \in 0..MaxParts
        /\ lost \in Nat /\ ambiguous_io \in Nat
        /\ lost_total \in 0..lost /\ correlation_drops \in 0..ambiguous_io
    OBVIOUS
  <2>3. uncorrelated \subseteq Requests /\ dropped \subseteq Requests
    OBVIOUS
  <2> QED
    BY <2>1, <2>2, <2>3 DEF CounterTypes
<1>3. EventTypes
  BY EmptySeq DEF EventTypes
<1>4. EntriesOK /\ PointersOK
  BY DEF EntriesOK, PointersOK
<1> QED
  BY <1>1, <1>2, <1>3, <1>4, Types DEF IInv

\* The types, the ownership of entries and the programs' pointers: the invariant the
\* results below rest on.
THEOREM StorageInductive == Spec => []IInv
  BY StorageInit, NextIInv, PTL DEF Spec

\* The in-flight map keeps no entry whose request has completed as a whole.
THEOREM StorageEntriesOwned == Spec => []EntryOwnerInFlight
<1>1. IInv => EntryOwnerInFlight
  BY DEF IInv, EntriesOK, EntryOwnerInFlight
<1> QED
  BY <1>1, StorageInductive, PTL

-----------------------------------------------------------------------------
(* Requests that share a key.                                              *)

Started(q) == q \in Requests /\ pc[q] # "new"
AllStarted == {q \in Requests : pc[q] # "new"}
Sharing(k) == {q \in Requests : KeyOf[q] = k /\ pc[q] # "new"}

\* Another request with r's key has been issued; three requests have.
Shared(r) == \E q \in Sharing(KeyOf[r]) : q # r
Crowded == \E a, b, c \in AllStarted : a # b /\ a # c /\ b # c

own(r) == inflight_io[KeyOf[r]]

\* A request that met an entry, lost its own, looks at another or took another's start is
\* not the only one with its key.
NotAlone(r) ==
    \/ pc[r] \in {"colliding", "marking"}
    \/ pc[r] = "issued" /\ own(r) = Null
    \/ pc[r] \in {"found", "measuring", "emitting"} /\ val[r] # own(r)
    \/ pc[r] = "emitting" /\ since[r] # r
    => Shared(r)

\* What a request is measured by is its own data, or is marked.
OwnElement(r) ==
    /\ pc[r] = "issued" /\ own(r) # Null => elem[own(r)].by = r \/ elem[own(r)].ambiguous
    /\ pc[r] = "found" => elem[val[r]].by = r \/ elem[val[r]].ambiguous
    /\ pc[r] \in {"measuring", "emitting"} => elem[val[r]].by = r
    /\ pc[r] = "emitting" => since[r] = r
    /\ pc[r] = "marking" => own(r) \in {val[r], Null}

Off ==
    /\ \A k \in Keys : inflight_io[k] = Null
    /\ \A r \in Requests : pc[r] \in {"new", "issued", "done"}

On ==
    /\ \A r \in Requests : NotAlone(r)
    /\ Crowded \/ \A r \in Requests : OwnElement(r)

Undisturbed ==
    /\ split = {} /\ key = KeyOf
    /\ ~enabled => Off
    /\ enabled => On

\* An event with the data of another request.
EventOK(e) == e[2] # e[1] \/ e[3] # e[1] =>
    e[1] \in Sharing(KeyOf[e[1]]) /\ Shared(e[1]) /\ Crowded

EventsOK == (\A i \in DOMAIN ring : EventOK(ring[i])) /\ \A e \in emitted : EventOK(e)

PairInv == toggles = 0 /\ evictions = 0 /\ parts = 0 => Undisturbed /\ EventsOK

\* Requests never become new again.
LEMMA StartedGrows ==
    ASSUME IInv, [Next]_vars
    PROVE  /\ \A q \in Requests : pc[q] # "new" => pc'[q] # "new"
           /\ \A r : Shared(r) => Shared(r)'
           /\ Crowded => Crowded'
           /\ \A e : EventOK(e) => EventOK(e)'
<1>1. \A q \in Requests : pc[q] # "new" => pc'[q] # "new"
  <2>1. ASSUME NEW r \in Requests, Issues(r) \/ Completing(r), pc[r] # "new"
        PROVE  pc'[r] # "new"
    BY <2>1 DEF IInv, TypeOK, Issues, Completing, trace_block_rq_issue, lookup_existing,
       mark_ambiguous, complete_unmatched, complete_lookup, complete_judge, complete_measure,
       complete_emit, complete_delete, return
  <2>2. ASSUME NEW r \in Requests, Issues(r) \/ Completing(r) PROVE OthersLocals(r)
    BY <2>2, IssueTypes, CompleteTypes
  <2>3. CASE pc' = pc
    BY <2>3
  <2>4. \/ pc' = pc
        \/ \E r \in Requests : Issues(r) \/ Completing(r)
    BY DEF Next, Issues, Completing, toggle, evict, drain, read_metrics, stop, vars, kernelVars,
       requestVars
  <2> QED
    BY <2>1, <2>2, <2>3, <2>4 DEF OthersLocals
<1>2. AllStarted \subseteq AllStarted' /\ \A k : Sharing(k) \subseteq Sharing(k)'
  BY <1>1 DEF AllStarted, Sharing
<1>3. \A r : Shared(r) => Shared(r)'
  BY <1>2 DEF Shared
<1>4. Crowded => Crowded'
  BY <1>2 DEF Crowded
<1>5. \A e : EventOK(e) => EventOK(e)'
  BY <1>2, <1>3, <1>4 DEF EventOK
<1> QED
  BY <1>1, <1>3, <1>4, <1>5

\* One step of r, as the others see it: Shared and Crowded only grow.
Steps(r) ==
    /\ OthersLocals(r)
    /\ \A q : Shared(q) => Shared(q)'
    /\ Crowded => Crowded'

\* ... a step that keeps the keys' elements, their writers and their marks.
LEMMA OthersKept ==
    ASSUME IInv, On, NEW r \in Requests, Steps(r), inflight_io' = inflight_io,
           \A s \in Slots : elem[s] \in Entry =>
               elem'[s].by = elem[s].by /\ (elem[s].ambiguous => elem'[s].ambiguous)
    PROVE  /\ \A q \in Requests : q # r => NotAlone(q)'
           /\ Crowded' \/ \A q \in Requests : q # r => OwnElement(q)'
<1>1. RequestTypes /\ EntriesOK /\ PointersOK
  BY Types DEF IInv
<1>2. ASSUME NEW q \in Requests, q # r
      PROVE  NotAlone(q)' /\ (OwnElement(q) => OwnElement(q)')
  <2>1. pc'[q] = pc[q] /\ val'[q] = val[q] /\ since'[q] = since[q] /\ own(q)' = own(q)
    BY <1>2 DEF Steps, OthersLocals, own
  <2>2. NotAlone(q)'
    BY <1>2, <2>1 DEF On, NotAlone, Steps
  <2>3. own(q) # Null => own(q) \in Slots /\ elem[own(q)] \in Entry
    BY <1>1, StorageAssumption DEF own, RequestTypes, EntriesOK
  <2>4. pc[q] \in {"found", "measuring", "emitting"} => val[q] \in Slots /\ elem[val[q]] \in Entry
    BY <1>1 DEF RequestTypes, PointersOK
  <2>5. OwnElement(q) => OwnElement(q)'
    BY <2>1, <2>3, <2>4 DEF OwnElement
  <2> QED
    BY <2>2, <2>5
<1> QED
  BY <1>2 DEF On, Steps

\* ... one that removes the entry of r's key: whoever shares it has met r.
LEMMA OthersDelete ==
    ASSUME IInv, On, NEW r \in Requests, Steps(r), elem' = elem, pc'[r] # "new",
           inflight_io' = [inflight_io EXCEPT ![KeyOf[r]] = Null]
    PROVE  /\ \A q \in Requests : q # r => NotAlone(q)'
           /\ Crowded' \/ \A q \in Requests : q # r => OwnElement(q)'
<1>1. RequestTypes
  BY Types DEF IInv
<1>2. ASSUME NEW q \in Requests, q # r
      PROVE  NotAlone(q)' /\ (OwnElement(q) => OwnElement(q)')
  <2>1. pc'[q] = pc[q] /\ val'[q] = val[q] /\ since'[q] = since[q]
    BY <1>2 DEF Steps, OthersLocals
  <2>2. CASE KeyOf[q] = KeyOf[r]
    <3>1. Shared(q)'
      BY <1>2, <2>2 DEF Shared, Sharing
    <3>2. own(q)' = Null
      BY <1>1, <2>2, StorageAssumption DEF own, RequestTypes
    <3> QED
      BY <2>1, <3>1, <3>2 DEF NotAlone, OwnElement
  <2>3. CASE KeyOf[q] # KeyOf[r]
    <3>1. own(q)' = own(q)
      BY <1>1, <2>3, StorageAssumption DEF own, RequestTypes
    <3>2. NotAlone(q)'
      BY <2>1, <3>1 DEF On, NotAlone, Steps
    <3>3. OwnElement(q) => OwnElement(q)'
      BY <2>1, <3>1 DEF OwnElement
    <3> QED
      BY <3>2, <3>3
  <2> QED
    BY <2>2, <2>3
<1> QED
  BY <1>2 DEF On, Steps

\* ... and the issue of r, which writes to an element no key is in: it concerns only
\* those that are not alone, and then r is the third.
LEMMA OthersIssue ==
    ASSUME IInv, On, NEW r \in Requests, Steps(r), pc[r] = "new", pc'[r] # "new",
           \A s \in Slots : elem'[s] = elem[s] \/ s \in Free,
           \A k \in Keys : inflight_io'[k] = inflight_io[k] \/ (k = KeyOf[r] /\ inflight_io[k] = Null),
           \A q \in Requests : pc[q] # "new" => pc'[q] # "new"
    PROVE  /\ \A q \in Requests : q # r => NotAlone(q)'
           /\ Crowded' \/ \A q \in Requests : q # r => OwnElement(q)'
<1>1. RequestTypes /\ EntriesOK /\ PointersOK
  BY Types DEF IInv
<1>2. ASSUME NEW q \in Requests, q # r, Shared(q), pc[q] # "new" PROVE Crowded'
  <2>1. PICK o \in Requests : o # q /\ pc[o] # "new"
    BY <1>2 DEF Shared, Sharing
  <2>2. o # r /\ o \in AllStarted' /\ q \in AllStarted' /\ r \in AllStarted'
    BY <1>2, <2>1 DEF AllStarted
  <2> QED
    BY <1>2, <2>1, <2>2 DEF Crowded
<1>3. ASSUME NEW q \in Requests, q # r
      PROVE  NotAlone(q)' /\ (Crowded' \/ (OwnElement(q) => OwnElement(q)'))
  <2>1. /\ pc'[q] = pc[q] /\ val'[q] = val[q] /\ since'[q] = since[q] /\ KeyOf[q] \in Keys
        /\ own(q) \in Slots \cup {Null}
    BY <1>1, <1>3, StorageAssumption DEF Steps, OthersLocals, RequestTypes, own
  <2>2. own(q)' = own(q) \/ (KeyOf[q] = KeyOf[r] /\ own(q) = Null)
    BY <2>1 DEF own
  <2>3. KeyOf[q] = KeyOf[r] => Shared(q)'
    BY <1>3 DEF Shared, Sharing
  <2>4. NotAlone(q)'
    BY <1>3, <2>1, <2>2, <2>3 DEF On, NotAlone, Steps
  <2>5. own(q) # Null => elem'[own(q)] = elem[own(q)]
    BY <2>1 DEF own, Free
  <2>6. NotAlone(q)
    BY DEF On
  <2>7. CASE Shared(q) /\ pc[q] # "new"
    BY <1>2, <1>3, <2>4, <2>7
  <2>8. CASE pc[q] = "new"
    BY <2>1, <2>4, <2>8 DEF OwnElement
  <2>9. CASE ~Shared(q)
    <3>1. /\ pc[q] \notin {"colliding", "marking"}
          /\ pc[q] = "issued" => own(q) # Null
          /\ pc[q] \in {"found", "measuring", "emitting"} => val[q] = own(q) /\ val[q] # Null
      BY <1>1, <2>6, <2>9 DEF NotAlone, PointersOK
    <3>2. OwnElement(q) => OwnElement(q)'
      BY <2>1, <2>2, <2>5, <3>1 DEF OwnElement
    <3> QED
      BY <2>4, <3>2
  <2> QED
    BY <2>7, <2>8, <2>9
<1> QED
  BY <1>3 DEF On, Steps

\* Requests that complete as a whole do so under the key they were issued under.
LEMMA WholeKept ==
    ASSUME IInv, split = {}, key = KeyOf, NEW r \in Requests, Issues(r) \/ Completing(r),
           parts' = parts
    PROVE  /\ split' = {} /\ key' = KeyOf
           /\ \A k \in Keys : complete_unmatched(r, k) \/ complete_lookup(r, k) => k = KeyOf[r]
<1> USE StorageAssumption
<1>1. RequestTypes /\ parts \in Nat
  BY Types DEF IInv, CounterTypes
<1>2. [KeyOf EXCEPT ![r] = KeyOf[r]] = KeyOf
  OBVIOUS
<1>3. CASE Issues(r)
  BY <1>3 DEF Issues, trace_block_rq_issue, lookup_existing, mark_ambiguous, issueFrame,
     complete_unmatched, complete_lookup, Completes, RequestTypes
<1>4. ASSUME NEW k \in Keys, complete_unmatched(r, k) \/ complete_lookup(r, k) PROVE k = KeyOf[r]
  BY <1>1, <1>4 DEF complete_unmatched, complete_lookup, Completes
<1>5. ASSUME NEW k \in Keys, complete_unmatched(r, k) \/ complete_lookup(r, k)
      PROVE  split' = {} /\ key' = KeyOf
  <2>1. k = KeyOf[r]
    BY <1>4, <1>5
  <2> QED
    BY <1>2, <1>5, <2>1 DEF complete_unmatched, complete_lookup, return
<1>6. ASSUME complete_delete(r) PROVE split' = {} /\ key' = KeyOf
  BY <1>2, <1>6 DEF complete_delete, return
<1>7. ASSUME complete_judge(r) \/ complete_measure(r) \/ complete_emit(r)
      PROVE  split' = {} /\ key' = KeyOf
  BY <1>7 DEF complete_judge, complete_measure, complete_emit, localFrame
<1>8. CASE Completing(r)
  BY <1>4, <1>5, <1>6, <1>7, <1>8 DEF Completing
<1> QED
  BY <1>3, <1>4, <1>8

\* While the observer is off, nothing enters the map and no program goes past its lookup.
LEMMA OffKept ==
    ASSUME IInv, Off, ~enabled, NEW r \in Requests, Issues(r) \/ Completing(r)
    PROVE  Off' /\ enabled' = enabled /\ UNCHANGED <<ring, emitted>>
<1> USE StorageAssumption
<1>1. RequestTypes
  BY Types DEF IInv
<1>2. CASE trace_block_rq_issue(r)
  BY <1>1, <1>2
     DEF trace_block_rq_issue, issueFrame, programFrame, mapVars, Off, RequestTypes
<1>3. ASSUME NEW k \in Keys, complete_unmatched(r, k)
      PROVE  Off' /\ enabled' = enabled /\ UNCHANGED <<ring, emitted>>
  BY <1>1, <1>3
     DEF complete_unmatched, return, completeFrame, programFrame, mapVars, Off, RequestTypes
<1>4. pc[r] \in {"new", "issued", "done"} /\ \A k \in Keys : inflight_io[k] = Null
  BY DEF Off
<1> QED
  BY <1>2, <1>3, <1>4 DEF Issues, Completing, lookup_existing, mark_ambiguous, complete_lookup,
     complete_judge, complete_measure, complete_emit, complete_delete

\* trace_block_rq_issue keeps requests and their data together.
LEMMA IssueOn ==
    ASSUME IInv, On, enabled, split = {}, NEW r \in Requests, Issues(r), evictions' = evictions,
           Steps(r), \A q \in Requests : pc[q] # "new" => pc'[q] # "new"
    PROVE  On'
<1> USE StorageAssumption
<1>1. RequestTypes /\ EntriesOK /\ PointersOK /\ KeyOf[r] \in Keys /\ evictions \in Nat
  BY Types DEF IInv, CounterTypes
<1>2. NotAlone(r) /\ (Crowded \/ OwnElement(r))
  BY DEF On
<1>3. SUFFICES /\ NotAlone(r)' /\ (Crowded' \/ OwnElement(r)')
               /\ \A q \in Requests : q # r => NotAlone(q)'
               /\ Crowded' \/ \A q \in Requests : q # r => OwnElement(q)'
  BY DEF On
<1>4. CASE trace_block_rq_issue(r)
  <2>1. /\ pc[r] = "new" /\ pc'[r] \in {"issued", "colliding"}
        /\ \A s \in Slots : elem'[s] = elem[s] \/ s \in Free
        /\ \A k \in Keys : \/ inflight_io'[k] = inflight_io[k]
                           \/ k = KeyOf[r] /\ inflight_io[k] = Null
    BY <1>1, <1>4 DEF trace_block_rq_issue, mapVars, RequestTypes
  <2>2. /\ \A q \in Requests : q # r => NotAlone(q)'
        /\ Crowded' \/ \A q \in Requests : q # r => OwnElement(q)'
    BY <2>1, OthersIssue
  <2>3. CASE own(r) = Null
    <3> DEFINE e == [by |-> r, ambiguous |-> FALSE]
    <3>1. PICK s \in Free : /\ elem' = [elem EXCEPT ![s] = e]
                            /\ inflight_io' = [inflight_io EXCEPT ![KeyOf[r]] = s]
                            /\ pc' = [pc EXCEPT ![r] = "issued"]
      BY <1>1, <1>4, <2>3 DEF trace_block_rq_issue, own
    <3>2. e.by = r
      BY Fresh
    <3> HIDE DEF e
    <3>3. pc'[r] = "issued" /\ own(r)' = s /\ s # Null /\ elem'[s] = e
      BY <1>1, <3>1 DEF own, RequestTypes, Free
    <3> QED
      BY <2>2, <3>2, <3>3 DEF NotAlone, OwnElement
  <2>4. CASE own(r) # Null
    <3>1. pc'[r] = "colliding"
      BY <1>1, <1>4, <2>4 DEF trace_block_rq_issue, own, RequestTypes
    <3>2. PICK o \in Requests : o \in InFlight /\ KeyOf[o] = KeyOf[r]
      BY <1>1, <2>4 DEF own, EntriesOK, Entry
    <3>3. o # r /\ pc[o] # "new"
      BY <2>1, <3>2 DEF InFlight
    <3>4. Shared(r)
      BY <3>2, <3>3 DEF Shared, Sharing
    <3> QED
      BY <2>2, <3>1, <3>4 DEF NotAlone, OwnElement, Steps
  <2> QED
    BY <2>2, <2>3, <2>4
<1>5. CASE lookup_existing(r)
  <2>1. /\ pc[r] = "colliding" /\ inflight_io' = inflight_io /\ elem' = elem
        /\ own(r)' = own(r) /\ val'[r] = own(r)
        /\ pc'[r] = IF own(r) = Null THEN "issued" ELSE "marking"
    BY <1>1, <1>5 DEF lookup_existing, mapVars, own, RequestTypes
  <2>2. Shared(r)'
    BY <1>2, <2>1 DEF NotAlone, Steps
  <2>3. /\ \A q \in Requests : q # r => NotAlone(q)'
        /\ Crowded' \/ \A q \in Requests : q # r => OwnElement(q)'
    BY <2>1, OthersKept
  <2>4. NotAlone(r)'
    BY <2>2 DEF NotAlone
  <2>5. OwnElement(r)'
    BY <2>1 DEF OwnElement
  <2> QED
    BY <2>3, <2>4, <2>5
<1>6. CASE mark_ambiguous(r)
  <2>1. val[r] \in Slots /\ elem[val[r]] \in Entry
    BY <1>1, <1>6 DEF mark_ambiguous, PointersOK, RequestTypes
  <2>2. /\ pc[r] = "marking" /\ pc'[r] = "issued" /\ inflight_io' = inflight_io
        /\ own(r)' = own(r)
        /\ elem' = [elem EXCEPT ![val[r]] = [elem[val[r]] EXCEPT !.ambiguous = TRUE]]
    BY <1>1, <1>6 DEF mark_ambiguous, own, RequestTypes
  <2>3. elem'[val[r]].ambiguous /\ elem'[val[r]].by = elem[val[r]].by
    BY <1>1, <2>1, <2>2, Marked DEF RequestTypes
  <2>4. \A s \in Slots : s # val[r] => elem'[s] = elem[s]
    BY <1>1, <2>2 DEF RequestTypes
  <2>5. /\ \A q \in Requests : q # r => NotAlone(q)'
        /\ Crowded' \/ \A q \in Requests : q # r => OwnElement(q)'
    BY <2>2, <2>3, <2>4, OthersKept
  <2>6. Shared(r)'
    BY <1>2, <2>2 DEF NotAlone, Steps
  <2>7. OwnElement(r) => OwnElement(r)'
    BY <2>2, <2>3 DEF OwnElement
  <2> QED
    BY <1>2, <2>5, <2>6, <2>7 DEF NotAlone, Steps
<1> QED
  BY <1>4, <1>5, <1>6 DEF Issues

\* A pointer that is not to r's own data means that r shared its key.
LEMMA AnothersElement ==
    ASSUME IInv, On, split = {}, NEW r \in Requests,
           pc[r] \in {"found", "measuring", "emitting"}, elem[val[r]].by # r
    PROVE  Shared(r)
<1>1. EntriesOK /\ PointersOK /\ KeyOf[r] \in Keys
  BY StorageAssumption DEF IInv
<1>2. CASE val[r] # own(r)
  BY <1>2 DEF On, NotAlone
<1>3. CASE val[r] = own(r)
  <2>1. elem[own(r)].by \in InFlight /\ KeyOf[elem[own(r)].by] = KeyOf[r]
    BY <1>1, <1>3 DEF own, EntriesOK, PointersOK
  <2> QED
    BY <1>3, <2>1 DEF InFlight, Shared, Sharing
<1> QED
  BY <1>2, <1>3

\* trace_block_rq_complete keeps them together.
LEMMA CompleteOn ==
    ASSUME IInv, On, enabled, split = {}, key = KeyOf, NEW r \in Requests, Completing(r),
           parts' = parts, Steps(r), \A q \in Requests : pc[q] # "new" => pc'[q] # "new"
    PROVE  On'
<1> USE StorageAssumption
<1>1. RequestTypes /\ EntriesOK /\ PointersOK /\ KeyOf[r] \in Keys
  BY Types DEF IInv
<1>2. NotAlone(r) /\ (Crowded \/ OwnElement(r))
  BY DEF On
<1>3. SUFFICES /\ NotAlone(r)' /\ (Crowded' \/ OwnElement(r)')
               /\ \A q \in Requests : q # r => NotAlone(q)'
               /\ Crowded' \/ \A q \in Requests : q # r => OwnElement(q)'
  BY DEF On
<1>4. ASSUME complete_delete(r)
      PROVE  /\ NotAlone(r)' /\ (Crowded' \/ OwnElement(r)')
             /\ \A q \in Requests : q # r => NotAlone(q)'
             /\ Crowded' \/ \A q \in Requests : q # r => OwnElement(q)'
  <2>1. pc'[r] = "done" /\ elem' = elem /\ inflight_io' = [inflight_io EXCEPT ![KeyOf[r]] = Null]
    BY <1>1, <1>4 DEF complete_delete, return, RequestTypes
  <2>2. /\ \A q \in Requests : q # r => NotAlone(q)'
        /\ Crowded' \/ \A q \in Requests : q # r => OwnElement(q)'
    BY <2>1, OthersDelete
  <2> QED
    BY <2>1, <2>2 DEF NotAlone, OwnElement
<1>5. ASSUME inflight_io' = inflight_io, elem' = elem
      PROVE  /\ \A q \in Requests : q # r => NotAlone(q)'
             /\ Crowded' \/ \A q \in Requests : q # r => OwnElement(q)'
             /\ own(r)' = own(r)
  BY <1>5, OthersKept DEF own
<1>6. ASSUME \/ \E k \in Keys : complete_unmatched(r, k) \/ complete_lookup(r, k)
             \/ complete_judge(r) \/ complete_measure(r) \/ complete_emit(r)
      PROVE  inflight_io' = inflight_io /\ elem' = elem
  BY <1>6 DEF complete_unmatched, complete_lookup, complete_judge, complete_measure,
     complete_emit, mapVars
<1>7. ASSUME NEW k \in Keys, complete_unmatched(r, k) PROVE NotAlone(r)' /\ OwnElement(r)'
  <2>1. k = KeyOf[r]
    BY <1>7, WholeKept DEF Completing
  <2>2. pc'[r] = "done"
    BY <1>1, <1>7, <2>1 DEF complete_unmatched, return, RequestTypes
  <2> QED
    BY <2>2 DEF NotAlone, OwnElement
<1>8. ASSUME NEW k \in Keys, complete_lookup(r, k)
      PROVE  NotAlone(r)' /\ (Crowded' \/ OwnElement(r)')
  <2>1. k = KeyOf[r]
    BY <1>8, WholeKept DEF Completing
  <2>2. /\ pc[r] = "issued" /\ pc'[r] = "found" /\ own(r) # Null /\ val'[r] = own(r)
        /\ elem' = elem
    BY <1>1, <1>8, <2>1 DEF complete_lookup, Completes, mapVars, own, RequestTypes
  <2>3. own(r)' = own(r)
    BY <1>5, <1>6, <1>8
  <2> QED
    BY <1>2, <2>2, <2>3 DEF NotAlone, OwnElement, Steps
<1>9. ASSUME complete_judge(r) PROVE NotAlone(r)' /\ (Crowded' \/ OwnElement(r)')
  <2>1. /\ pc[r] = "found" /\ val'[r] = val[r] /\ elem' = elem /\ own(r)' = own(r)
        /\ \/ pc'[r] = "deleting"
           \/ pc'[r] = "measuring" /\ ~elem[val[r]].ambiguous
    BY <1>1, <1>5, <1>6, <1>9 DEF complete_judge, localFrame, RequestTypes
  <2> QED
    BY <1>2, <2>1 DEF NotAlone, OwnElement, Steps
<1>10. ASSUME complete_measure(r) PROVE NotAlone(r)' /\ (Crowded' \/ OwnElement(r)')
  <2>1. /\ pc[r] = "measuring" /\ val'[r] = val[r] /\ elem' = elem /\ own(r)' = own(r)
        /\ \/ pc'[r] = "deleting"
           \/ pc'[r] = "emitting" /\ since'[r] = elem[val[r]].by
    BY <1>1, <1>5, <1>6, <1>10 DEF complete_measure, localFrame, RequestTypes
  <2>2. elem[val[r]].by # r => Shared(r)'
    BY <2>1, AnothersElement DEF Steps
  <2> QED
    BY <1>2, <2>1, <2>2 DEF NotAlone, OwnElement, Steps
<1>11. ASSUME complete_emit(r) PROVE NotAlone(r)' /\ OwnElement(r)'
  <2>1. pc'[r] = "deleting"
    BY <1>1, <1>11 DEF complete_emit, RequestTypes
  <2> QED
    BY <2>1 DEF NotAlone, OwnElement
<1> QED
  BY <1>4, <1>5, <1>6, <1>7, <1>8, <1>9, <1>10, <1>11 DEF Completing

\* An event with the data of another request gets into the ring buffer only when its key
\* is shared and three requests have been issued.
LEMMA EventsStep ==
    ASSUME IInv, Undisturbed, EventsOK, [Next]_vars
    PROVE  EventsOK'
<1> USE StorageAssumption
<1>1. RequestTypes /\ PointersOK /\ ring \in Seq(Events) /\ Len(ring) \in Nat /\ DOMAIN ring = 1..Len(ring)
  BY Types, LenProperties DEF IInv, EventTypes
<1>2. \A e : EventOK(e) => EventOK(e)'
  BY StartedGrows
<1>3. ASSUME NEW r \in Requests, complete_emit(r), ring' # ring PROVE EventsOK'
  <2> DEFINE e == <<r, since[r], elem[val[r]].by>>
  <2>1. /\ pc[r] = "emitting" /\ ring' = Append(ring, e) /\ emitted' = emitted
        /\ since[r] \in Requests /\ elem[val[r]] \in Entry
    BY <1>1, <1>3 DEF complete_emit, localFrame, completeFrame, programFrame, RequestTypes, PointersOK
  <2>2. On /\ split = {}
    BY <2>1 DEF Undisturbed, Off
  <2>3. e \in Events /\ e[1] = r /\ e[2] = since[r] /\ e[3] = elem[val[r]].by
    BY <2>1 DEF Events, Entry
  <2>4. since[r] # r => Shared(r)
    BY <2>1, <2>2 DEF On, NotAlone
  <2>5. elem[val[r]].by # r => Shared(r)
    BY <2>1, <2>2, AnothersElement
  <2>6. Crowded \/ (since[r] = r /\ elem[val[r]].by = r)
    BY <2>1, <2>2 DEF On, OwnElement
  <2>7. r \in Sharing(KeyOf[r])
    BY <2>1 DEF Sharing
  <2> HIDE DEF e
  <2>8. EventOK(e)
    BY <2>3, <2>4, <2>5, <2>6, <2>7 DEF EventOK
  <2>9. \A i \in DOMAIN ring' : ring'[i] = e \/ (i \in DOMAIN ring /\ ring'[i] = ring[i])
    BY <1>1, <2>1, <2>3
  <2> QED
    BY <1>2, <2>1, <2>8, <2>9 DEF EventsOK
<1>4. CASE drain
  <2>1. ring # <<>> /\ ring' = Tail(ring) /\ emitted' = emitted \cup {Head(ring)}
    BY <1>4 DEF drain
  <2>2. /\ 1 \in DOMAIN ring /\ Head(ring) = ring[1]
        /\ \A i \in DOMAIN ring' : i + 1 \in DOMAIN ring /\ ring'[i] = ring[i + 1]
    BY <1>1, <2>1
  <2> QED
    BY <1>2, <2>1, <2>2 DEF EventsOK
<1>5. CASE UNCHANGED <<ring, emitted>>
  BY <1>2, <1>5 DEF EventsOK
<1>6. ASSUME NEW r \in Requests, Issues(r) \/ Completing(r)
      PROVE  UNCHANGED <<ring, emitted>> \/ (complete_emit(r) /\ ring' # ring)
  BY <1>6 DEF Issues, Completing, trace_block_rq_issue, lookup_existing, mark_ambiguous, issueFrame,
     complete_unmatched, complete_lookup, complete_judge, complete_measure, complete_emit,
     complete_delete, localFrame, completeFrame, programFrame
<1>7. CASE toggle \/ (\E k \in Keys : evict(k)) \/ read_metrics \/ stop \/ UNCHANGED vars
  BY <1>5, <1>7 DEF toggle, evict, read_metrics, stop, vars
<1> QED
  BY <1>3, <1>4, <1>5, <1>6, <1>7 DEF Next, Issues, Completing

\* Config changes, evictions and parts end the claim; nothing else does.
LEMMA PairStep ==
    ASSUME IInv, PairInv, [Next]_vars
    PROVE  PairInv'
<1> USE StorageAssumption
<1>0. toggles \in Nat /\ evictions \in Nat /\ parts \in Nat
  BY DEF IInv, TypeOK
<1>1. toggles <= toggles' /\ evictions <= evictions' /\ parts <= parts'
  <2>1. ASSUME NEW r \in Requests, Issues(r) \/ Completing(r)
        PROVE  toggles <= toggles' /\ evictions <= evictions' /\ parts <= parts'
    BY <1>0, <2>1 DEF Issues, Completing, trace_block_rq_issue, lookup_existing, mark_ambiguous,
       issueFrame, complete_unmatched, complete_lookup, complete_judge, complete_measure,
       complete_emit, complete_delete, Completes, localFrame, completeFrame, programFrame
  <2>2. CASE toggle \/ (\E k \in Keys : evict(k)) \/ drain \/ read_metrics \/ stop \/ UNCHANGED vars
    BY <1>0, <2>2 DEF toggle, evict, drain, read_metrics, stop, kernelVars, vars
  <2> QED
    BY <2>1, <2>2 DEF Next, Issues, Completing
<1> SUFFICES ASSUME toggles' = 0, evictions' = 0, parts' = 0 PROVE Undisturbed' /\ EventsOK'
  BY DEF PairInv
<1>2. toggles = 0 /\ evictions = 0 /\ parts = 0 /\ TypeOK'
  BY <1>0, <1>1, NextIInv DEF IInv
<1>3. Undisturbed /\ EventsOK
  BY <1>2 DEF PairInv
<1>4. EventsOK'
  BY <1>3, EventsStep
<1>5. ASSUME NEW r \in Requests, Issues(r) \/ Completing(r) PROVE Undisturbed'
  <2>1. split' = {} /\ key' = KeyOf /\ evictions' = evictions /\ parts' = parts
    BY <1>2, <1>3, <1>5, WholeKept DEF Undisturbed
  <2>2. /\ Steps(r) /\ split = {} /\ key = KeyOf
        /\ \A q \in Requests : pc[q] # "new" => pc'[q] # "new"
    BY <1>3, <1>5, StartedGrows, IssueTypes, CompleteTypes DEF Steps, Undisturbed
  <2>3. enabled' = enabled
    BY <1>5 DEF Issues, Completing, trace_block_rq_issue, lookup_existing, mark_ambiguous,
       issueFrame, complete_unmatched, complete_lookup, complete_judge, complete_measure,
       complete_emit, complete_delete, localFrame, completeFrame, programFrame
  <2>4. CASE ~enabled
    BY <1>3, <1>5, <2>1, <2>3, <2>4, OffKept DEF Undisturbed
  <2>5. CASE enabled
    <3>1. On
      BY <1>3, <2>5 DEF Undisturbed
    <3>2. On'
      BY <1>5, <2>1, <2>2, <2>5, <3>1, IssueOn, CompleteOn
    <3> QED
      BY <2>1, <2>3, <2>5, <3>2 DEF Undisturbed
  <2> QED
    BY <2>4, <2>5
<1>6. CASE drain \/ read_metrics \/ stop \/ UNCHANGED vars
  <2>1. UNCHANGED <<enabled, requestVars, mapVars>>
    BY <1>6 DEF drain, read_metrics, stop, vars, kernelVars
  <2>2. Off => Off'
    BY <2>1 DEF Off, requestVars, mapVars
  <2>3. On => On'
    BY <2>1 DEF On, NotAlone, OwnElement, own, Shared, Sharing, Crowded, AllStarted, requestVars,
       mapVars
  <2>4. split' = split /\ key' = key /\ enabled' = enabled
    BY <2>1 DEF requestVars
  <2> QED
    BY <1>3, <1>4, <2>2, <2>3, <2>4 DEF Undisturbed
<1>7. ~toggle /\ \A k \in Keys : ~evict(k)
  BY <1>2 DEF toggle, evict
<1> QED
  BY <1>4, <1>5, <1>6, <1>7 DEF Next, Issues, Completing

\* Only finitely many requests have been issued, however many there are.
LEMMA StartedFinite ==
    ASSUME IInv, IsFiniteSet(AllStarted), [Next]_vars
    PROVE  IsFiniteSet(AllStarted')
<1>1. ASSUME NEW r \in Requests, Issues(r) \/ Completing(r) PROVE IsFiniteSet(AllStarted')
  <2>1. OthersLocals(r)
    BY <1>1, IssueTypes, CompleteTypes
  <2>2. AllStarted' \in SUBSET (AllStarted \cup {r})
    BY <2>1 DEF AllStarted, OthersLocals
  <2>3. IsFiniteSet(AllStarted \cup {r})
    BY FS_AddElement
  <2> QED
    BY <2>2, <2>3, FS_Subset
<1>2. CASE pc' = pc
  BY <1>2 DEF AllStarted
<1>3. pc' = pc \/ \E r \in Requests : Issues(r) \/ Completing(r)
  BY DEF Next, Issues, Completing, toggle, evict, drain, read_metrics, stop, vars, kernelVars,
     requestVars
<1> QED
  BY <1>1, <1>2, <1>3

\* Two different members make a set larger than one, ...
LEMMA MoreThanOne ==
    ASSUME NEW S, IsFiniteSet(S), NEW a \in S, NEW b \in S, a # b
    PROVE  Cardinality(S) > 1
<1>1. IsFiniteSet({a}) /\ Cardinality({a}) = 1
  BY FS_Singleton
<1>2. {a} \in SUBSET S /\ {a} # S
  OBVIOUS
<1>3. Cardinality({a}) <= Cardinality(S) /\ (Cardinality(S) = Cardinality({a}) => S = {a})
  BY <1>2, FS_Subset
<1>4. Cardinality(S) \in Nat
  BY FS_CardinalityType
<1> QED
  BY <1>1, <1>2, <1>3, <1>4

\* ... and three one larger than two.
LEMMA MoreThanTwo ==
    ASSUME NEW S, IsFiniteSet(S), NEW a \in S, NEW b \in S, NEW c \in S, a # b, c # a, c # b
    PROVE  Cardinality(S) > 2
<1>1. IsFiniteSet({a}) /\ Cardinality({a}) = 1
  BY FS_Singleton
<1>2. IsFiniteSet({a} \cup {b}) /\ Cardinality({a} \cup {b}) = 2
  <2> DEFINE one == {a}
  <2>1. b \notin one /\ IsFiniteSet(one) /\ Cardinality(one) = 1
    BY <1>1
  <2> HIDE DEF one
  <2>2. IsFiniteSet(one \cup {b}) /\ Cardinality(one \cup {b}) = Cardinality(one) + 1
    BY <2>1, FS_AddElement
  <2> QED
    BY <2>1, <2>2 DEF one
<1>3. IsFiniteSet({a} \cup {b} \cup {c}) /\ Cardinality({a} \cup {b} \cup {c}) = 3
  <2> DEFINE pair == {a} \cup {b}
  <2>1. c \notin pair /\ IsFiniteSet(pair) /\ Cardinality(pair) = 2
    BY <1>2
  <2> HIDE DEF pair
  <2>2. IsFiniteSet(pair \cup {c}) /\ Cardinality(pair \cup {c}) = Cardinality(pair) + 1
    BY <2>1, FS_AddElement
  <2> QED
    BY <2>1, <2>2 DEF pair
<1>4. Cardinality({a} \cup {b} \cup {c}) <= Cardinality(S)
  <2>1. {a} \cup {b} \cup {c} \in SUBSET S
    OBVIOUS
  <2> QED
    BY <2>1, FS_Subset
<1>5. Cardinality(S) \in Nat
  BY FS_CardinalityType
<1> QED
  BY <1>3, <1>4, <1>5

\* While the observer stays on, nothing is evicted and requests complete as a whole, the
\* marking of shared keys keeps two requests from being taken for one another.
THEOREM PairsKeptApart == Spec => []PairsNeverConfused
<1> DEFINE Inv == PairInv /\ IsFiniteSet(AllStarted)
<1>1. Init => Inv
  <2> SUFFICES ASSUME Init PROVE Inv
    OBVIOUS
  <2>1. \A r \in Requests : pc[r] = "new"
    BY DEF Init
  <2>2. \A k \in Keys : inflight_io[k] = Null
    BY DEF Init
  <2>3. Undisturbed
    BY <2>1, <2>2 DEF Init, Undisturbed, Off, On, NotAlone, OwnElement
  <2>4. EventsOK
    BY DEF Init, EventsOK
  <2>5. AllStarted = {}
    BY <2>1 DEF AllStarted
  <2> QED
    BY <2>3, <2>4, <2>5, FS_EmptySet DEF PairInv
<1>2. IInv /\ Inv /\ [Next]_vars => Inv'
  BY PairStep, StartedFinite
<1>3. IInv /\ Inv => PairsNeverConfused
  <2> SUFFICES ASSUME Inv, toggles = 0, evictions = 0, parts = 0, NEW e \in emitted,
                      e[2] # e[1] \/ e[3] # e[1]
               PROVE  /\ Cardinality(Sharing(KeyOf[e[1]])) > 1 /\ Cardinality(AllStarted) > 2
    BY DEF PairsNeverConfused, Sharing, AllStarted
  <2> DEFINE S == Sharing(KeyOf[e[1]])
  <2>1. EventOK(e) /\ IsFiniteSet(AllStarted)
    BY DEF PairInv, EventsOK
  <2>2. IsFiniteSet(S)
    <3>1. S \in SUBSET AllStarted
      BY DEF Sharing, AllStarted
    <3> QED
      BY <2>1, <3>1, FS_Subset
  <2>3. e[1] \in S /\ \E q \in S : q # e[1]
    BY <2>1 DEF EventOK, Shared
  <2> HIDE DEF S
  <2>4. Cardinality(S) > 1
    BY <2>2, <2>3, MoreThanOne
  <2>5. Cardinality(AllStarted) > 2
    BY <2>1, MoreThanTwo DEF EventOK, Crowded
  <2> QED
    BY <2>4, <2>5 DEF S
<1> QED
  BY <1>1, <1>2, <1>3, StorageInductive, PTL DEF Spec

=============================================================================
