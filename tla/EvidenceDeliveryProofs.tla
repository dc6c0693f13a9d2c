----------------------- MODULE EvidenceDeliveryProofs -----------------------
(***************************************************************************)
(* Proofs about the controller sink and the controller behind it, for any  *)
(* queue, batch size, retries and number of events, flushes and faults.    *)
(*                                                                         *)
(* None of the properties is inductive.  That nothing is lost silently     *)
(* needs that no two places of the sink hold the same event, or giving up  *)
(* one batch would count an event that is still to be sent: events move    *)
(* through queue, buffer, outbox and post in the order of sending          *)
(* (InOrder).  That a successful flush has decided needs what the order    *)
(* says of its request: every event behind it is later than its mark       *)
(* (QueueInOrder, FlushProgress).  And that a regression means a repeat    *)
(* needs the composition with the registry: without a fault the number of  *)
(* the next batch is always ahead of the last one the controller has seen  *)
(* (SequencesInOrder), where the types of the registry come from its own   *)
(* proofs through DeliveryImplementsRegistry.                              *)
(***************************************************************************)
EXTENDS EvidenceDelivery, ControllerRegistryProofs, FiniteSetTheorems, SequenceTheorems

-----------------------------------------------------------------------------
(* Sequences in increasing order, and what they hold.                      *)

Increasing(s) == \A i, j \in DOMAIN s : i < j => s[i] < s[j]

\* Appending an element.
LEMMA AppendElements ==
    ASSUME NEW S, NEW s \in Seq(S), NEW e \in S
    PROVE  /\ Append(s, e) \in Seq(S)
           /\ ElementsOf(Append(s, e)) = ElementsOf(s) \cup {e}
<1> DEFINE t == Append(s, e)
<1>1. /\ t \in Seq(S) /\ Len(t) = Len(s) + 1 /\ t[Len(s) + 1] = e
      /\ \A i \in 1..Len(s) : t[i] = s[i]
  OBVIOUS
<1>2. DOMAIN s = 1..Len(s) /\ DOMAIN t = 1..(Len(s) + 1)
  BY <1>1
<1>3. ElementsOf(s) \cup {e} \subseteq ElementsOf(t)
  BY <1>1, <1>2 DEF ElementsOf
<1>4. \A i \in DOMAIN t : t[i] \in ElementsOf(s) \cup {e}
  BY <1>1, <1>2 DEF ElementsOf
<1> QED
  BY <1>1, <1>3, <1>4 DEF ElementsOf

\* Taking the first one.
LEMMA TailElements ==
    ASSUME NEW S, NEW s \in Seq(S), s # <<>>
    PROVE  /\ Tail(s) \in Seq(S) /\ Head(s) \in S /\ Head(s) = s[1]
           /\ ElementsOf(s) = ElementsOf(Tail(s)) \cup {Head(s)}
           /\ \A i \in DOMAIN Tail(s) : i + 1 \in DOMAIN s /\ Tail(s)[i] = s[i + 1]
<1> DEFINE t == Tail(s)
<1>1. /\ t \in Seq(S) /\ Len(t) = Len(s) - 1 /\ Len(s) > 0 /\ Head(s) = s[1]
      /\ \A i \in 1..(Len(s) - 1) : t[i] = s[i + 1]
  OBVIOUS
<1>2. DOMAIN s = 1..Len(s) /\ DOMAIN t = 1..(Len(s) - 1)
  BY <1>1
<1>3. ElementsOf(t) \cup {Head(s)} \subseteq ElementsOf(s)
  BY <1>1, <1>2 DEF ElementsOf
<1>4. ASSUME NEW i \in DOMAIN s PROVE s[i] \in ElementsOf(t) \cup {Head(s)}
  <2>1. CASE i = 1
    BY <1>1, <2>1
  <2>2. CASE i # 1
    <3>1. i - 1 \in DOMAIN t /\ t[i - 1] = s[i]
      BY <1>1, <1>2, <2>2
    <3> QED
      BY <3>1 DEF ElementsOf
  <2> QED
    BY <2>1, <2>2
<1> QED
  BY <1>1, <1>2, <1>3, <1>4 DEF ElementsOf

\* Splitting a sequence behind its n-th element.
LEMMA SplitElements ==
    ASSUME NEW S, NEW s \in Seq(S), NEW n \in 1..Len(s)
    PROVE  /\ SubSeq(s, 1, n) \in Seq(S) /\ SubSeq(s, n + 1, Len(s)) \in Seq(S)
           /\ ElementsOf(s) = ElementsOf(SubSeq(s, 1, n)) \cup ElementsOf(SubSeq(s, n + 1, Len(s)))
<1> DEFINE a == SubSeq(s, 1, n)
           b == SubSeq(s, n + 1, Len(s))
<1>1. /\ a \in Seq(S) /\ Len(a) = n /\ \A i \in 1..n : a[i] = s[i]
  OBVIOUS
<1>2. /\ b \in Seq(S) /\ Len(b) = Len(s) - n
      /\ \A i \in 1..(Len(s) - n) : b[i] = s[n + i]
  OBVIOUS
<1>3. \A i \in DOMAIN s : s[i] \in ElementsOf(a) \cup ElementsOf(b)
  <2> SUFFICES ASSUME NEW i \in DOMAIN s PROVE s[i] \in ElementsOf(a) \cup ElementsOf(b)
    OBVIOUS
  <2>1. CASE i <= n
    BY <1>1, <2>1 DEF ElementsOf
  <2>2. CASE i > n
    <3>1. i - n \in 1..(Len(s) - n) /\ b[i - n] = s[i]
      BY <1>2, <2>2
    <3> QED
      BY <1>2, <3>1 DEF ElementsOf
  <2> QED
    BY <2>1, <2>2
<1>4. ElementsOf(a) \subseteq ElementsOf(s) /\ ElementsOf(b) \subseteq ElementsOf(s)
  BY <1>1, <1>2 DEF ElementsOf
<1> QED
  BY <1>1, <1>2, <1>3, <1>4 DEF ElementsOf

\* Order is kept by appending a larger element.
LEMMA AppendIncreasing ==
    ASSUME NEW s \in Seq(Int), NEW e \in Int, Increasing(s), \A x \in ElementsOf(s) : x < e
    PROVE  Increasing(Append(s, e))
  BY DEF Increasing, ElementsOf

\* Order is kept by a split, and separates the two parts.
LEMMA SplitIncreasing ==
    ASSUME NEW s \in Seq(Int), NEW n \in 1..Len(s), Increasing(s)
    PROVE  /\ Increasing(SubSeq(s, 1, n)) /\ Increasing(SubSeq(s, n + 1, Len(s)))
           /\ \A x \in ElementsOf(SubSeq(s, 1, n)) :
                 \A y \in ElementsOf(SubSeq(s, n + 1, Len(s))) : x < y
<1> DEFINE a == SubSeq(s, 1, n)
           b == SubSeq(s, n + 1, Len(s))
<1>0. Len(s) \in Nat /\ n \in Nat /\ n <= Len(s) /\ DOMAIN s = 1..Len(s)
  BY LenProperties
<1>1. /\ a \in Seq(Int) /\ Len(a) = n /\ \A i \in 1..n : a[i] = s[i]
  OBVIOUS
<1>2. /\ b \in Seq(Int) /\ Len(b) = Len(s) - n
      /\ \A i \in 1..(Len(s) - n) : b[i] = s[n + i]
  OBVIOUS
<1> HIDE DEF a, b
<1>3. DOMAIN a = 1..n /\ DOMAIN b = 1..(Len(s) - n)
  BY <1>1, <1>2, LenProperties
<1>4. Increasing(a)
  BY <1>0, <1>1, <1>3 DEF Increasing
<1>5. Increasing(b)
  <2> SUFFICES ASSUME NEW i \in DOMAIN b, NEW j \in DOMAIN b, i < j PROVE b[i] < b[j]
    BY DEF Increasing
  <2>1. i \in 1..(Len(s) - n) /\ j \in 1..(Len(s) - n)
    BY <1>3
  <2>2. n + i \in DOMAIN s /\ n + j \in DOMAIN s /\ n + i < n + j
    BY <1>0, <2>1
  <2>3. b[i] = s[n + i] /\ b[j] = s[n + j]
    BY <1>2, <2>1
  <2> QED
    BY <2>2, <2>3 DEF Increasing
<1>6. ASSUME NEW i \in DOMAIN a, NEW j \in DOMAIN b PROVE a[i] < b[j]
  <2>1. a[i] = s[i] /\ b[j] = s[n + j]
    BY <1>1, <1>2, <1>3
  <2>2. i \in DOMAIN s /\ n + j \in DOMAIN s /\ i < n + j
    BY <1>0, <1>3
  <2> QED
    BY <2>1, <2>2 DEF Increasing
<1> QED
  BY <1>4, <1>5, <1>6 DEF ElementsOf, a, b

\* An increasing sequence holds as many elements as it is long.
LEMMA IncreasingCardinality ==
    ASSUME NEW s \in Seq(Int), Increasing(s)
    PROVE  IsFiniteSet(ElementsOf(s)) /\ Cardinality(ElementsOf(s)) = Len(s)
<1>1. IsFiniteSet(1..Len(s)) /\ Cardinality(1..Len(s)) = Len(s)
  <2>1. Len(s) \in Int /\ 1 \in Int /\ Len(s) >= 0
    OBVIOUS
  <2>2. /\ IsFiniteSet(1..Len(s))
        /\ Cardinality(1..Len(s)) = IF 1 > Len(s) THEN 0 ELSE Len(s) - 1 + 1
    BY <2>1, FS_Interval, Zenon
  <2> QED
    BY <2>1, <2>2
<1>2. ASSUME NEW i \in 1..Len(s), NEW j \in 1..Len(s), s[i] = s[j] PROVE i = j
  <2>1. ~(i < j) /\ ~(j < i)
    BY <1>2 DEF Increasing
  <2> QED
    BY <2>1
<1>3. s \in Bijection(1..Len(s), ElementsOf(s))
  <2>1. DOMAIN s = 1..Len(s) /\ s \in [1..Len(s) -> ElementsOf(s)]
    BY DEF ElementsOf
  <2>2. \A t \in ElementsOf(s) : \E i \in 1..Len(s) : s[i] = t
    BY <2>1 DEF ElementsOf
  <2> QED
    BY <1>2, <2>1, <2>2 DEF Bijection, Injection, IsInjective, Surjection
<1>4. ExistsBijection(1..Len(s), ElementsOf(s))
  BY <1>3 DEF ExistsBijection
<1> QED
  BY <1>1, <1>4, FS_Bijection

-----------------------------------------------------------------------------
(* The sink's state, and the composition with the registry.                *)

\* What travels through the queue: events and flush requests.
Items == Events \cup {-k : k \in Flushes}

Batches == [sequence : U64, events : Seq(Events), attempt : 0..MAX_RETRIES]

SinkTypeOK ==
    /\ emitted \in 0..MaxEvents
    /\ queue \in Seq(Items) /\ buffer \in Seq(Events) /\ outbox \in Seq(Events)
    /\ sending \in Batches \cup {NoBatch} /\ sequence \in U64
    /\ worker \in {"recv", "flush", "last_flush", "stopped"}
    /\ ack \in 0..MaxFlushes
    /\ flush \in [Flushes -> {"none", "waiting", "ok", "err"}]
    /\ mark \in [Flushes -> 0..MaxEvents]
    /\ \A r \in wire : r.sequence \in U64 /\ r.events \in Seq(Events)
    /\ faults \in 0..MaxFaults
    /\ sink_drops_total \in Nat
    /\ delivered \in SUBSET Events /\ dropped \in SUBSET Events

\* Events are numbers.
LEMMA EventSequences == Seq(Events) \subseteq Seq(Nat) /\ Seq(Events) \subseteq Seq(Int)
<1>1. Events \subseteq Nat /\ Events \subseteq Int
  BY DEF Events
<1> QED
  BY <1>1, SeqMonotonic

\* A batch is never taken for no batch.
LEMMA BatchIsBatch == NoBatch \notin Batches
<1>1. Seq(Events) \subseteq Seq(Nat)
  BY EventSequences
<1>2. U64 \subseteq Nat /\ 0..MAX_RETRIES \subseteq Nat
  BY DeliveryAssumption, WidthAssumption DEF U64
<1> QED
  BY <1>1, <1>2, NoBatchAssumption DEF Batches

\* The elements of a sequence of events are events.
LEMMA ElementsAreEvents == \A s \in Seq(Events) : ElementsOf(s) \subseteq Events
  BY DEF ElementsOf

\* The queue's first item is an event or the request of a flush call.
LEMMA HeadItem ==
    ASSUME queue \in Seq(Items), queue # <<>>
    PROVE  /\ Tail(queue) \in Seq(Items) /\ Head(queue) \in Items
           /\ Head(queue) > 0 => Head(queue) \in Events
           /\ Head(queue) < 0 => -Head(queue) \in Flushes
<1>1. Tail(queue) \in Seq(Items) /\ Head(queue) \in Items
  OBVIOUS
<1> QED
  BY <1>1, DeliveryAssumption DEF Items, Events, Flushes

\* The initial state is well typed.
LEMMA SinkInitType == DeliveryInit => SinkTypeOK
  BY DeliveryAssumption, WidthAssumption
     DEF DeliveryInit, SinkTypeOK, U64, Events, Flushes

\* The callers' steps keep the types.
LEMMA CallerType ==
    ASSUME SinkTypeOK,
           \/ send \/ drop_sink
           \/ \E k \in Flushes : flush_enqueue(k) \/ flush_deadline(k)
    PROVE  SinkTypeOK' /\ UNCHANGED vars
<1> USE DeliveryAssumption DEF SinkTypeOK
<1>1. CASE send
  <2>1. emitted + 1 \in Events /\ emitted + 1 \in Items
    BY <1>1 DEF send, Events, Items
  <2>2. Append(queue, emitted + 1) \in Seq(Items)
    BY <2>1
  <2>3. emitted' \in 0..MaxEvents
    BY <1>1 DEF send
  <2>4. /\ queue' \in {queue, Append(queue, emitted + 1)}
        /\ sink_drops_total' \in {sink_drops_total, sink_drops_total + 1}
        /\ dropped' \in {dropped, dropped \cup {emitted + 1}}
    BY <1>1 DEF send, dropVars
  <2>5. queue' \in Seq(Items)
    BY <2>2, <2>4
  <2>6. sink_drops_total' \in Nat /\ dropped' \in SUBSET Events
    BY <2>1, <2>4
  <2> QED
    BY <1>1, <2>3, <2>5, <2>6 DEF send, workerVars, flushVars
<1>2. CASE drop_sink
  BY <1>2 DEF drop_sink, workerVars, flushVars, dropVars
<1>3. ASSUME NEW k \in Flushes, flush_enqueue(k) PROVE SinkTypeOK' /\ UNCHANGED vars
  <2>1. -k \in Items
    BY DEF Items
  <2>2. Append(queue, -k) \in Seq(Items)
    BY <2>1
  <2>3. queue' \in Seq(Items) /\ flush' \in [Flushes -> {"none", "waiting", "ok", "err"}]
        /\ mark' \in [Flushes -> 0..MaxEvents]
    BY <1>3, <2>2 DEF flush_enqueue
  <2> QED
    BY <1>3, <2>3 DEF flush_enqueue, workerVars, dropVars
<1>4. ASSUME NEW k \in Flushes, flush_deadline(k) PROVE SinkTypeOK' /\ UNCHANGED vars
  BY <1>4 DEF flush_deadline, workerVars, dropVars
<1> QED
  BY <1>1, <1>2, <1>3, <1>4

\* The worker's steps keep the types.
LEMMA WorkerType == ASSUME SinkTypeOK, WorkerStep PROVE SinkTypeOK' /\ UNCHANGED vars
<1> USE DeliveryAssumption DEF SinkTypeOK
<1>1. CASE recv_event
  <2>1. /\ queue' \in Seq(Items) /\ Append(buffer, Head(queue)) \in Seq(Events)
    BY <1>1, HeadItem DEF recv_event
  <2>2. \/ /\ outbox' = Append(buffer, Head(queue)) /\ buffer' = <<>> /\ ack' = 0
           /\ worker' = "flush"
        \/ /\ buffer' = Append(buffer, Head(queue)) /\ UNCHANGED <<outbox, ack, worker>>
    BY <1>1 DEF recv_event, flush_buffer
  <2>3. UNCHANGED <<sending, sequence, callerFrame>>
    BY <1>1 DEF recv_event, flush_buffer
  <2>4. buffer' \in Seq(Events) /\ outbox' \in Seq(Events)
    <3>1. CASE outbox' = Append(buffer, Head(queue)) /\ buffer' = <<>>
      BY <2>1, <3>1
    <3>2. CASE buffer' = Append(buffer, Head(queue)) /\ outbox' = outbox
      BY <2>1, <3>2
    <3> QED
      BY <2>2, <3>1, <3>2
  <2>5. ack' \in 0..MaxFlushes /\ worker' \in {"recv", "flush", "last_flush", "stopped"}
    BY <2>2
  <2> QED
    BY <2>1, <2>3, <2>4, <2>5 DEF callerFrame, flushVars, dropVars
<1>2. CASE recv_flush
  <2>1. queue' \in Seq(Items) /\ -Head(queue) \in Flushes
    BY <1>2, HeadItem DEF recv_flush
  <2> QED
    BY <1>2, <2>1 DEF recv_flush, flush_buffer, callerFrame, flushVars, dropVars, Flushes
<1>3. CASE recv_timeout
  BY <1>3 DEF recv_timeout, flush_buffer, callerFrame, flushVars, dropVars
<1>4. CASE recv_disconnected
  BY <1>4 DEF recv_disconnected, callerFrame, flushVars, dropVars
<1>5. CASE send_event_batch
  <2>1. PICK n \in 1..Len(outbox) :
          /\ sending' = [sequence |-> sequence, events |-> SubSeq(outbox, 1, n), attempt |-> 0]
          /\ outbox' = SubSeq(outbox, n + 1, Len(outbox))
    BY <1>5 DEF send_event_batch
  <2>2. SubSeq(outbox, 1, n) \in Seq(Events) /\ outbox' \in Seq(Events)
    BY <2>1, SplitElements
  <2>3. sending' \in Batches
    BY <2>1, <2>2 DEF Batches
  <2>4. sequence' \in U64
    BY <1>5, WidthAssumption DEF send_event_batch, saturating_add, U64
  <2> QED
    BY <1>5, <2>2, <2>3, <2>4 DEF send_event_batch, callerFrame, flushVars, dropVars
<1>6. CASE flush_returns
  <2>1. flush' \in [Flushes -> {"none", "waiting", "ok", "err"}]
    BY <1>6 DEF flush_returns
  <2> QED
    BY <1>6, <2>1 DEF flush_returns, dropVars
<1> QED
  BY <1>1, <1>2, <1>3, <1>4, <1>5, <1>6 DEF WorkerStep

\* A batch the controller takes is a step of the registry.
LEMMA HandlerIsRegistryStep ==
    ASSUME NEW s \in U64, NEW events \in Seq(Events), delivered \in SUBSET Events,
           events_handler(s, events)
    PROVE  /\ Next
           /\ delivered' \in SUBSET Events
           /\ delivered' = delivered \cup ElementsOf(events)
<1>1. Len(events) \in 1..max_batch_events
  BY RegistryAssumption DEF events_handler, accept_event_batch, BatchValid
<1>2. Next
  BY <1>1, DeliveryAssumption DEF events_handler, Next
<1> QED
  BY <1>2, ElementsAreEvents DEF events_handler

\* A failed attempt keeps the types.
LEMMA AttemptType ==
    ASSUME SinkTypeOK, sending # NoBatch, attempt_failed
    PROVE  /\ sending' \in Batches \cup {NoBatch}
           /\ sink_drops_total' \in Nat /\ dropped' \in SUBSET Events
<1>1. /\ sending \in Batches /\ sending.events \in Seq(Events)
      /\ sending.attempt \in 0..MAX_RETRIES
  BY DEF SinkTypeOK, Batches
<1>2. CASE sending.attempt < (IF worker = "flush" THEN MAX_RETRIES ELSE 0)
           /\ sending' = [sending EXCEPT !.attempt = @ + 1] /\ UNCHANGED dropVars
  <2>1. sending.attempt + 1 \in 0..MAX_RETRIES
    BY <1>1, <1>2, DeliveryAssumption
  <2>2. sending' \in Batches
    BY <1>1, <1>2, <2>1 DEF Batches
  <2> QED
    BY <1>2, <2>2 DEF SinkTypeOK, dropVars
<1>3. CASE sending' = NoBatch /\ dropped' = dropped \cup ElementsOf(sending.events)
           /\ sink_drops_total' = sink_drops_total + Len(sending.events)
  BY <1>1, <1>3, ElementsAreEvents DEF SinkTypeOK
<1> QED
  BY <1>2, <1>3 DEF attempt_failed

\* So does a post, and it leaves the registry alone or is a step of it.
LEMMA PostType == ASSUME SinkTypeOK, PostStep PROVE SinkTypeOK' /\ [Next]_vars
<1> USE DeliveryAssumption DEF SinkTypeOK
<1>1. sending # NoBatch
  BY DEF PostStep, post_ok, post_truncated, post_unanswered, post_times_out, post_refused
<1>2. /\ sending \in Batches /\ sending.events \in Seq(Events) /\ sending.sequence \in U64
  BY <1>1 DEF Batches
<1>3. UNCHANGED postFrame
  BY DEF PostStep, post_ok, post_truncated, post_unanswered, post_times_out, post_refused
<1>4. CASE post_ok \/ post_truncated
  <2>1. events_handler(sending.sequence, sending.events) /\ sending' = NoBatch
        /\ faults' \in 0..MaxFaults /\ UNCHANGED <<wire, dropVars>>
    BY <1>4 DEF post_ok, post_truncated
  <2>2. Next /\ delivered' \in SUBSET Events
    BY <1>2, <2>1, HandlerIsRegistryStep
  <2> QED
    BY <1>3, <2>1, <2>2 DEF postFrame, flushVars, dropVars
<1>5. CASE post_unanswered
  <2>1. /\ sending' \in Batches \cup {NoBatch}
        /\ sink_drops_total' \in Nat /\ dropped' \in SUBSET Events
    BY <1>1, <1>5, AttemptType DEF post_unanswered
  <2>2. events_handler(sending.sequence, sending.events)
        /\ faults' \in 0..MaxFaults /\ UNCHANGED wire
    BY <1>5 DEF post_unanswered
  <2>3. Next /\ delivered' \in SUBSET Events
    BY <1>2, <2>2, HandlerIsRegistryStep
  <2> QED
    BY <1>3, <2>1, <2>2, <2>3 DEF postFrame, flushVars
<1>6. CASE post_times_out \/ post_refused
  <2>1. /\ sending' \in Batches \cup {NoBatch}
        /\ sink_drops_total' \in Nat /\ dropped' \in SUBSET Events
    BY <1>1, <1>6, AttemptType DEF post_times_out, post_refused
  <2>2. faults' \in 0..MaxFaults /\ UNCHANGED <<vars, delivered>>
    BY <1>6 DEF post_times_out, post_refused
  <2>3. \A r \in wire' : r.sequence \in U64 /\ r.events \in Seq(Events)
    BY <1>2, <1>6 DEF post_times_out, post_refused
  <2> QED
    BY <1>3, <2>1, <2>2, <2>3 DEF postFrame, flushVars
<1> QED
  BY <1>4, <1>5, <1>6 DEF PostStep

\* Every step keeps the types and is a step of the registry or leaves it alone.
LEMMA DeliveryStepType ==
    SinkTypeOK /\ [DeliveryNext]_allVars => SinkTypeOK' /\ [Next]_vars
<1> SUFFICES ASSUME SinkTypeOK, [DeliveryNext]_allVars PROVE SinkTypeOK' /\ [Next]_vars
  OBVIOUS
<1>1. ASSUME NEW r \in wire, serve_batch_late(r) PROVE SinkTypeOK' /\ [Next]_vars
  <2>1. r.sequence \in U64 /\ r.events \in Seq(Events) /\ events_handler(r.sequence, r.events)
    BY <1>1 DEF serve_batch_late, SinkTypeOK
  <2>2. Next /\ delivered' \in SUBSET Events
    BY <2>1, HandlerIsRegistryStep DEF SinkTypeOK
  <2> QED
    BY <1>1, <2>2 DEF serve_batch_late, SinkTypeOK, workerVars, flushVars, dropVars
<1>2. CASE hello
  BY <1>2, DeliveryAssumption
     DEF hello, Next, sinkVars, SinkTypeOK, workerVars, flushVars, dropVars
<1>3. CASE controller_restart
  BY <1>3 DEF controller_restart, Next, SinkTypeOK, workerVars, flushVars, dropVars
<1>4. CASE UNCHANGED allVars
  BY <1>4 DEF allVars, sinkVars, SinkTypeOK, workerVars, flushVars, dropVars
<1> QED
  BY <1>1, <1>2, <1>3, <1>4, CallerType, WorkerType, PostType DEF DeliveryNext

\* The state of the sink is well typed.
THEOREM SinkTypeCorrect == DeliverySpec => []SinkTypeOK
  BY SinkInitType, DeliveryStepType, PTL DEF DeliverySpec

\* The composition implements the registry: batches that are retried, repeated, served
\* after their sender gave up or lost with a restart drive the controller only through
\* the steps of its own specification (tapio-controller/src/lib.rs).
THEOREM DeliveryImplementsRegistry == DeliverySpec => Spec
<1>1. DeliveryInit => Init
  BY DEF DeliveryInit
<1> QED
  BY <1>1, SinkTypeCorrect, DeliveryStepType, PTL DEF DeliverySpec, Spec

-----------------------------------------------------------------------------
(* No event is lost silently, and a flush that succeeds has decided.       *)

Positive(q) == {e \in ElementsOf(q) : e > 0}

\* A queue keeps the order of sending: every event in it is later than the events and
\* than the marks of the flush requests in front of it.
QueueInOrder(q, m) ==
    \A i, j \in DOMAIN q : i < j /\ q[j] > 0 =>
        /\ q[i] > 0 => q[i] < q[j]
        /\ q[i] < 0 => m[-q[i]] < q[j]

\* Where events are inside the sink.
Queued   == Positive(queue)
Buffered == ElementsOf(buffer)
Taken    == ElementsOf(outbox)
Posting  == IF sending = NoBatch THEN {} ELSE ElementsOf(sending.events)
InSink   == Queued \cup Buffered \cup Taken \cup Posting

\* What the worker holds at each stage; after the sink is dropped and the queue is
\* empty, nothing comes any more.
WorkerPhase ==
    /\ worker \in {"flush", "last_flush"} => buffer = <<>>
    /\ worker \in {"recv", "stopped"} => sending = NoBatch /\ outbox = <<>> /\ ack = 0
    /\ worker \in {"last_flush", "stopped"} => closed /\ queue = <<>> /\ ack = 0
    /\ worker = "stopped" => buffer = <<>>

\* Events go through the sink in the order they were sent: no two places hold the
\* same one.
InOrder ==
    /\ QueueInOrder(queue, mark)
    /\ Increasing(buffer) /\ Increasing(outbox)
    /\ sending # NoBatch => Increasing(sending.events)
    /\ \A x \in Posting : \A y \in Taken : x < y
    /\ \A x \in Posting \cup Taken \cup Buffered : \A y \in Queued : x < y
    /\ \A x \in InSink : x <= emitted

\* Every event is somewhere, and the drop counter counts each dropped one once.
Accounted ==
    /\ 1..emitted \subseteq InSink \cup delivered \cup dropped
    /\ dropped \subseteq 1..emitted
    /\ \A x \in InSink : x \notin dropped
    /\ sink_drops_total = Cardinality(dropped)

\* A flush call whose request is in the queue or with the worker has nothing of its own
\* behind it, and a request is queued once.
FlushProgress ==
    /\ \A k \in Flushes : mark[k] <= emitted
    /\ \A k \in Flushes : flush[k] = "none" => -k \notin ElementsOf(queue) /\ ack # k
    /\ ack # 0 => \A x \in Queued : mark[ack] < x
    /\ FlushOkDecides

Conserved == WorkerPhase /\ InOrder /\ Accounted /\ FlushProgress

\* Taking the first item of a queue in order.
LEMMA TailInOrder ==
    ASSUME NEW q \in Seq(Items), q # <<>>, NEW m, QueueInOrder(q, m)
    PROVE  /\ QueueInOrder(Tail(q), m)
           /\ Head(q) \in ElementsOf(q)
           /\ ElementsOf(Tail(q)) \subseteq ElementsOf(q)
           /\ Head(q) > 0 => Positive(q) = Positive(Tail(q)) \cup {Head(q)}
           /\ Head(q) < 0 => Positive(q) = Positive(Tail(q))
           /\ \A y \in Positive(Tail(q)) : Head(q) > 0 => Head(q) < y
           /\ \A y \in Positive(Tail(q)) : Head(q) < 0 => m[-Head(q)] < y
<1> DEFINE t == Tail(q)
<1>1. /\ t \in Seq(Items) /\ Head(q) \in Items /\ Head(q) = q[1]
      /\ ElementsOf(q) = ElementsOf(t) \cup {Head(q)}
      /\ \A i \in DOMAIN t : i + 1 \in DOMAIN q /\ t[i] = q[i + 1]
  BY TailElements
<1>2. Items \subseteq Int
  BY DEF Items, Events, Flushes
<1>3. QueueInOrder(t, m)
  <2> SUFFICES ASSUME NEW i \in DOMAIN t, NEW j \in DOMAIN t, i < j, t[j] > 0
               PROVE  (t[i] > 0 => t[i] < t[j]) /\ (t[i] < 0 => m[-t[i]] < t[j])
    BY DEF QueueInOrder
  <2>1. i + 1 \in DOMAIN q /\ j + 1 \in DOMAIN q /\ t[i] = q[i + 1] /\ t[j] = q[j + 1]
    BY <1>1
  <2>2. i + 1 < j + 1
    BY <1>1
  <2> QED
    BY <2>1, <2>2 DEF QueueInOrder
<1>4. ASSUME NEW y \in Positive(t)
      PROVE  (Head(q) > 0 => Head(q) < y) /\ (Head(q) < 0 => m[-Head(q)] < y)
  <2>1. PICK i \in DOMAIN t : y = t[i]
    BY DEF Positive, ElementsOf
  <2>2. i + 1 \in DOMAIN q /\ y = q[i + 1] /\ q[i + 1] > 0
    BY <1>1, <2>1 DEF Positive
  <2>3. 1 \in DOMAIN q /\ 1 < i + 1
    BY <1>1
  <2> QED
    BY <1>1, <2>2, <2>3 DEF QueueInOrder
<1>5. Head(q) > 0 => Positive(q) = Positive(t) \cup {Head(q)}
  BY <1>1, <1>2 DEF Positive
<1>6. Head(q) < 0 => Positive(q) = Positive(t)
  <2>1. Head(q) < 0 => ~(Head(q) > 0)
    BY <1>1 DEF Items, Events, Flushes
  <2> QED
    BY <1>1, <2>1, Zenon DEF Positive
<1> QED
  BY <1>1, <1>3, <1>4, <1>5, <1>6

\* Appending an item that is later than all in front of it.
LEMMA AppendInOrder ==
    ASSUME NEW q \in Seq(Items), NEW e \in Items, NEW m, QueueInOrder(q, m),
           e > 0 => \A x \in Positive(q) : x < e,
           e > 0 => \A k \in Flushes : m[k] < e
    PROVE  QueueInOrder(Append(q, e), m)
<1> DEFINE t == Append(q, e)
<1> SUFFICES ASSUME NEW i \in DOMAIN t, NEW j \in DOMAIN t, i < j, t[j] > 0
             PROVE  (t[i] > 0 => t[i] < t[j]) /\ (t[i] < 0 => m[-t[i]] < t[j])
  BY DEF QueueInOrder
<1>1. /\ i \in DOMAIN q /\ t[i] = q[i] /\ q[i] \in Items
      /\ (j \in DOMAIN q /\ t[j] = q[j]) \/ t[j] = e
  <2>1. DOMAIN q = 1..Len(q) /\ DOMAIN t = 1..(Len(q) + 1)
    OBVIOUS
  <2>2. i \in DOMAIN q /\ (j \in DOMAIN q \/ j = Len(q) + 1)
    BY <2>1
  <2> QED
    BY <2>2
<1>2. CASE j \in DOMAIN q /\ t[j] = q[j]
  BY <1>1, <1>2 DEF QueueInOrder
<1>3. CASE t[j] = e
  <2>1. t[i] > 0 => t[i] < e
    BY <1>1, <1>3 DEF Positive, ElementsOf
  <2>2. t[i] < 0 => -t[i] \in Flushes
    BY <1>1, DeliveryAssumption DEF Items, Events, Flushes
  <2> QED
    BY <1>3, <2>1, <2>2
<1> QED
  BY <1>1, <1>2, <1>3

\* A mark that no request in the queue refers to may change.
LEMMA MarkInOrder ==
    ASSUME NEW q \in Seq(Items), NEW m, NEW n, QueueInOrder(q, m),
           \A k \in Flushes : -k \in ElementsOf(q) => n[k] = m[k]
    PROVE  QueueInOrder(q, n)
<1> SUFFICES ASSUME NEW i \in DOMAIN q, NEW j \in DOMAIN q, i < j, q[j] > 0
             PROVE  (q[i] > 0 => q[i] < q[j]) /\ (q[i] < 0 => n[-q[i]] < q[j])
  BY DEF QueueInOrder
<1>1. q[i] \in Items /\ q[i] \in ElementsOf(q)
  BY DEF ElementsOf
<1>2. q[i] < 0 => -q[i] \in Flushes /\ -(-q[i]) = q[i]
  BY <1>1, DeliveryAssumption DEF Items, Events, Flushes
<1> QED
  BY <1>1, <1>2 DEF QueueInOrder

\* The invariant holds at the start.
LEMMA ConservedInit == DeliveryInit => Conserved
<1> SUFFICES ASSUME DeliveryInit PROVE Conserved
  OBVIOUS
<1> USE DEF DeliveryInit
<1>1. ElementsOf(queue) = {} /\ ElementsOf(buffer) = {} /\ ElementsOf(outbox) = {}
  BY DEF ElementsOf
<1>2. Queued = {} /\ Buffered = {} /\ Taken = {} /\ Posting = {} /\ InSink = {}
  BY <1>1 DEF Queued, Positive, Buffered, Taken, Posting, InSink
<1>3. WorkerPhase
  BY DEF WorkerPhase
<1>4. InOrder
  BY <1>2 DEF InOrder, QueueInOrder, Increasing
<1>5. Accounted
  BY <1>2, FS_EmptySet DEF Accounted
<1>6. FlushProgress
  BY <1>1, <1>2 DEF FlushProgress, FlushOkDecides, Flushes
<1> QED
  BY <1>3, <1>4, <1>5, <1>6 DEF Conserved

\* What is in the sink are events.
LEMMA SinkHoldsEvents == SinkTypeOK => InSink \subseteq Events
<1> SUFFICES ASSUME SinkTypeOK PROVE InSink \subseteq Events
  OBVIOUS
<1>1. \A x \in ElementsOf(queue) : x \in Items
  BY DEF SinkTypeOK, ElementsOf
<1>2. Queued \subseteq Events
  BY <1>1, DeliveryAssumption DEF Queued, Positive, Items, Events, Flushes
<1>3. Buffered \subseteq Events /\ Taken \subseteq Events
  BY ElementsAreEvents DEF Buffered, Taken, SinkTypeOK
<1>4. Posting \subseteq Events
  BY ElementsAreEvents DEF Posting, SinkTypeOK, Batches
<1> QED
  BY <1>2, <1>3, <1>4 DEF InSink

\* The dropped events are finitely many.
LEMMA DroppedFinite == SinkTypeOK => IsFiniteSet(dropped)
<1>1. 1 \in Int /\ MaxEvents \in Int
  BY DeliveryAssumption
<1>2. IsFiniteSet(Events)
  BY <1>1, FS_Interval DEF Events
<1> QED
  BY <1>2, FS_Subset DEF SinkTypeOK

\* send: the new event is later than all others, and goes into the queue or is counted.
LEMMA SendConserves == ASSUME SinkTypeOK, Conserved, send PROVE Conserved'
<1> DEFINE e == emitted + 1
<1>0. /\ emitted \in Nat /\ e \in Nat /\ e \in Items
  BY DeliveryAssumption DEF send, SinkTypeOK, Items, Events
<1>1. /\ ~closed /\ emitted' = e /\ emitted \in Nat /\ e \in Nat /\ e \in Items
      /\ UNCHANGED <<buffer, outbox, sending, worker, ack, closed, flush, mark, delivered>>
  BY <1>0 DEF send, workerVars, flushVars
<1>2. Buffered' = Buffered /\ Taken' = Taken /\ Posting' = Posting
  BY <1>1 DEF Buffered, Taken, Posting
<1>3. \A x \in InSink : x \in Int /\ x <= emitted /\ x < e
  <2>1. \A x \in InSink : x \in Int /\ x <= emitted
    BY SinkHoldsEvents DEF Conserved, InOrder, Events
  <2> QED
    BY <1>1, <2>1
<1>4. CASE queue' = Append(queue, e) /\ UNCHANGED dropVars
  <2>1. ElementsOf(queue') = ElementsOf(queue) \cup {e}
    BY <1>1, <1>4, AppendElements DEF SinkTypeOK
  <2>2. Queued' = Queued \cup {e} /\ InSink' = InSink \cup {e}
    BY <1>1, <1>2, <2>1 DEF Queued, Positive, InSink
  <2>3. WorkerPhase'
    BY <1>1 DEF Conserved, WorkerPhase
  <2>4. QueueInOrder(queue', mark')
    <3>1. \A k \in Flushes : mark[k] < e
      BY <1>1 DEF Conserved, FlushProgress, SinkTypeOK
    <3>2. \A x \in Positive(queue) : x < e
      BY <1>3 DEF InSink, Queued
    <3> QED
      BY <1>1, <1>4, <3>1, <3>2, AppendInOrder DEF Conserved, InOrder, SinkTypeOK
  <2>5. InOrder'
    <3>1. \A x \in Posting \cup Taken \cup Buffered : x < e
      BY <1>3 DEF InSink
    <3>2. \A x \in InSink' : x <= emitted'
      BY <1>1, <1>3, <2>2
    <3> QED
      BY <1>1, <1>2, <2>2, <2>4, <3>1, <3>2 DEF Conserved, InOrder
  <2>6. Accounted'
    <3>1. 1..e = 1..emitted \cup {e}
      BY <1>1
    <3>2. e \notin dropped
      BY <1>1 DEF Conserved, Accounted
    <3> QED
      BY <1>1, <1>4, <2>2, <3>1, <3>2 DEF Conserved, Accounted, dropVars
  <2>7. FlushProgress'
    <3>1. \A k \in Flushes : mark'[k] <= emitted'
      BY <1>1 DEF Conserved, FlushProgress, SinkTypeOK
    <3>2. \A k \in Flushes : -k # e
      BY <1>1 DEF Flushes
    <3>3. ack # 0 => mark[ack] < e
      <4>1. ack # 0 => ack \in Flushes
        BY <1>1, DeliveryAssumption DEF SinkTypeOK, Flushes
      <4>2. \A k \in Flushes : mark[k] \in Nat /\ mark[k] <= emitted
        BY <1>1 DEF Conserved, FlushProgress, SinkTypeOK
      <4> QED
        BY <1>1, <4>1, <4>2
    <3>4. FlushOkDecides'
      BY <1>1, <1>4 DEF Conserved, FlushProgress, FlushOkDecides, dropVars
    <3> QED
      BY <1>1, <2>1, <2>2, <3>1, <3>2, <3>3, <3>4 DEF Conserved, FlushProgress
  <2> QED
    BY <2>3, <2>5, <2>6, <2>7 DEF Conserved
<1>5. CASE /\ dropped' = dropped \cup {e} /\ sink_drops_total' = sink_drops_total + 1
           /\ UNCHANGED queue
  <2>1. Queued' = Queued /\ InSink' = InSink
    BY <1>2, <1>5 DEF Queued, InSink
  <2>2. WorkerPhase'
    BY <1>1, <1>5 DEF Conserved, WorkerPhase
  <2>3. \A x \in InSink' : x <= emitted'
    BY <1>1, <1>3, <2>1
  <2>4. InOrder'
    BY <1>1, <1>2, <1>5, <2>1, <2>3 DEF Conserved, InOrder
  <2>5. Accounted'
    <3>1. 1..e = 1..emitted \cup {e}
      BY <1>1
    <3>2. e \notin dropped /\ e \notin InSink
      BY <1>1, <1>3 DEF Conserved, Accounted
    <3>3. IsFiniteSet(dropped)
      BY DroppedFinite
    <3>4. Cardinality(dropped \cup {e}) = Cardinality(dropped) + 1
      BY <3>2, <3>3, FS_AddElement
    <3> QED
      BY <1>1, <1>5, <2>1, <3>1, <3>2, <3>4 DEF Conserved, Accounted
  <2>6. FlushProgress'
    <3>1. \A k \in Flushes : mark'[k] <= emitted'
      BY <1>1 DEF Conserved, FlushProgress, SinkTypeOK
    <3> QED
      BY <1>1, <1>5, <2>1, <3>1 DEF Conserved, FlushProgress, FlushOkDecides
  <2> QED
    BY <2>2, <2>4, <2>5, <2>6 DEF Conserved
<1> QED
  BY <1>4, <1>5 DEF send

\* flush: the request goes behind everything sent before it, and its call is marked.
LEMMA FlushCallConserves ==
    ASSUME SinkTypeOK, Conserved, NEW k \in Flushes, flush_enqueue(k) \/ flush_deadline(k)
    PROVE  Conserved'
<1>1. /\ UNCHANGED <<emitted, buffer, outbox, sending, worker, ack, closed, delivered, dropped,
                     sink_drops_total>>
      /\ emitted \in Nat
  BY DEF flush_enqueue, flush_deadline, workerVars, dropVars, SinkTypeOK
<1>2. Buffered' = Buffered /\ Taken' = Taken /\ Posting' = Posting
  BY <1>1 DEF Buffered, Taken, Posting
<1>3. CASE /\ ~closed /\ flush[k] = "none" /\ queue' = Append(queue, -k)
           /\ flush' = [flush EXCEPT ![k] = "waiting"] /\ mark' = [mark EXCEPT ![k] = emitted]
  <2>1. -k \in Items /\ ~(-k > 0)
    BY DEF Items, Flushes
  <2>2. ElementsOf(queue') = ElementsOf(queue) \cup {-k}
    BY <1>3, <2>1, AppendElements DEF SinkTypeOK
  <2>3. Queued' = Queued /\ InSink' = InSink
    BY <1>2, <2>1, <2>2 DEF Queued, Positive, InSink
  <2>4. WorkerPhase'
    BY <1>1, <1>3 DEF Conserved, WorkerPhase
  <2>5. -k \notin ElementsOf(queue) /\ ack # k
    BY <1>3 DEF Conserved, FlushProgress
  <2>6. \A l \in Flushes : l # k => mark'[l] = mark[l] /\ flush'[l] = flush[l]
    BY <1>3 DEF SinkTypeOK
  <2>7. mark'[k] = emitted /\ flush'[k] = "waiting"
    BY <1>3 DEF SinkTypeOK
  <2>8. QueueInOrder(queue', mark')
    <3>1. \A l \in Flushes : -l \in ElementsOf(queue) => mark'[l] = mark[l]
      BY <2>5, <2>6
    <3>2. queue \in Seq(Items) /\ QueueInOrder(queue, mark)
      BY DEF Conserved, InOrder, SinkTypeOK
    <3>3. QueueInOrder(queue, mark')
      BY <3>1, <3>2, MarkInOrder
    <3> QED
      BY <1>3, <2>1, <3>2, <3>3, AppendInOrder
  <2>9. InOrder'
    BY <1>1, <1>2, <2>3, <2>8 DEF Conserved, InOrder
  <2>10. Accounted'
    BY <1>1, <2>3 DEF Conserved, Accounted
  <2>11. FlushProgress'
    <3>1. \A l \in Flushes : mark'[l] <= emitted'
      BY <1>1, <2>6, <2>7 DEF Conserved, FlushProgress
    <3>2. \A l \in Flushes : flush'[l] = "none" => -l \notin ElementsOf(queue') /\ ack' # l
      <4> SUFFICES ASSUME NEW l \in Flushes, flush'[l] = "none"
                   PROVE  -l \notin ElementsOf(queue') /\ ack' # l
        OBVIOUS
      <4>1. l # k /\ -l # -k
        BY <2>7 DEF Flushes
      <4> QED
        BY <1>1, <2>2, <2>6, <4>1 DEF Conserved, FlushProgress
    <3>3. ack' # 0 => \A x \in Queued' : mark'[ack'] < x
      <4>1. ack # 0 => ack \in Flushes /\ ack # k
        BY <2>5 DEF SinkTypeOK, Flushes
      <4> QED
        BY <1>1, <2>3, <2>6, <4>1 DEF Conserved, FlushProgress
    <3>4. FlushOkDecides'
      BY <1>1, <2>6, <2>7 DEF Conserved, FlushProgress, FlushOkDecides
    <3> QED
      BY <3>1, <3>2, <3>3, <3>4 DEF FlushProgress
  <2> QED
    BY <2>4, <2>9, <2>10, <2>11 DEF Conserved
<1>4. CASE flush' = [flush EXCEPT ![k] = "err"] /\ UNCHANGED <<queue, mark>>
  <2>1. Queued' = Queued /\ InSink' = InSink
    BY <1>2, <1>4 DEF Queued, InSink
  <2>2. \A l \in Flushes : flush'[l] = flush[l] \/ flush'[l] = "err"
    BY <1>4 DEF SinkTypeOK
  <2>3. WorkerPhase' /\ InOrder' /\ Accounted'
    BY <1>1, <1>2, <1>4, <2>1 DEF Conserved, WorkerPhase, InOrder, Accounted
  <2>4. FlushProgress'
    BY <1>1, <1>4, <2>1, <2>2 DEF Conserved, FlushProgress, FlushOkDecides
  <2> QED
    BY <2>3, <2>4 DEF Conserved
<1> QED
  BY <1>3, <1>4 DEF flush_enqueue, flush_deadline

\* The worker takes an event: it stays the earliest but those the worker holds.
LEMMA RecvEventConserves == ASSUME SinkTypeOK, Conserved, recv_event PROVE Conserved'
<1> DEFINE h == Head(queue)
<1>1. /\ worker = "recv" /\ queue # <<>> /\ h > 0 /\ queue' = Tail(queue)
      /\ UNCHANGED <<emitted, sending, closed, flush, mark, delivered, dropped, sink_drops_total>>
  BY DEF recv_event, flush_buffer, callerFrame, flushVars, dropVars
<1>2. /\ sending = NoBatch /\ outbox = <<>> /\ ack = 0
      /\ Posting = {} /\ Posting' = {} /\ Taken = {}
  BY <1>1 DEF Conserved, WorkerPhase, Posting, Taken, ElementsOf
<1>3. /\ QueueInOrder(queue', mark') /\ h \in Queued /\ h \in Events
      /\ ElementsOf(queue') \subseteq ElementsOf(queue)
      /\ Queued = Queued' \cup {h} /\ \A y \in Queued' : h < y
  <2>1. queue \in Seq(Items) /\ QueueInOrder(queue, mark)
    BY DEF Conserved, InOrder, SinkTypeOK
  <2>2. /\ QueueInOrder(queue', mark) /\ h \in ElementsOf(queue)
        /\ ElementsOf(queue') \subseteq ElementsOf(queue)
        /\ Queued = Queued' \cup {h} /\ \A y \in Queued' : h < y
    BY <1>1, <2>1, TailInOrder DEF Queued
  <2> QED
    BY <1>1, <2>1, <2>2, HeadItem
<1>4. /\ ElementsOf(Append(buffer, h)) = Buffered \cup {h}
      /\ Increasing(Append(buffer, h))
  <2>1. buffer \in Seq(Events) /\ buffer \in Seq(Int) /\ Increasing(buffer) /\ h \in Int
    BY <1>3, EventSequences DEF SinkTypeOK, Conserved, InOrder, Events
  <2>2. \A x \in ElementsOf(buffer) : x < h
    BY <1>3 DEF Conserved, InOrder, Buffered
  <2>3. ElementsOf(Append(buffer, h)) = ElementsOf(buffer) \cup {h}
    BY <1>3, <2>1, AppendElements
  <2> QED
    BY <2>1, <2>2, <2>3, AppendIncreasing DEF Buffered
<1>5. \/ /\ outbox' = Append(buffer, h) /\ buffer' = <<>> /\ ack' = 0 /\ worker' = "flush"
      \/ /\ buffer' = Append(buffer, h) /\ UNCHANGED <<outbox, ack, worker>>
  BY DEF recv_event, flush_buffer
<1>6. /\ Buffered' \cup Taken' = Buffered \cup {h} /\ ack' = 0
      /\ Increasing(buffer') /\ Increasing(outbox')
      /\ \/ worker' = "flush" /\ buffer' = <<>>
         \/ worker' = "recv" /\ outbox' = <<>>
  <2>1. ElementsOf(<<>>) = {} /\ Increasing(<<>>)
    BY DEF ElementsOf, Increasing
  <2>2. CASE outbox' = Append(buffer, h) /\ buffer' = <<>> /\ ack' = 0 /\ worker' = "flush"
    BY <1>4, <2>1, <2>2 DEF Buffered, Taken
  <2>3. CASE buffer' = Append(buffer, h) /\ UNCHANGED <<outbox, ack, worker>>
    BY <1>1, <1>2, <1>4, <2>1, <2>3 DEF Buffered, Taken
  <2> QED
    BY <1>5, <2>2, <2>3
<1>7. InSink' = InSink
  BY <1>2, <1>3, <1>6 DEF InSink
<1>8. WorkerPhase'
  BY <1>1, <1>2, <1>6 DEF WorkerPhase
<1>9. InOrder'
  <2>1. \A x \in Buffered : \A y \in Queued : x < y
    BY DEF Conserved, InOrder
  <2>2. \A x \in Posting' \cup Taken' \cup Buffered' : \A y \in Queued' : x < y
    BY <1>2, <1>3, <1>6, <2>1
  <2> QED
    BY <1>1, <1>2, <1>3, <1>6, <1>7, <2>2 DEF Conserved, InOrder
<1>10. Accounted'
  BY <1>1, <1>7 DEF Conserved, Accounted
<1>11. FlushProgress'
  BY <1>1, <1>2, <1>3, <1>6 DEF Conserved, FlushProgress, FlushOkDecides, Flushes
<1> QED
  BY <1>8, <1>9, <1>10, <1>11 DEF Conserved

\* The worker takes everything it has buffered; a flush request it answers afterwards
\* was in front of all that is still queued.
LEMMA FlushConserves ==
    ASSUME SinkTypeOK, Conserved, recv_flush \/ recv_timeout \/ recv_disconnected
    PROVE  Conserved'
<1>1. /\ worker = "recv" /\ outbox' = buffer /\ buffer' = <<>>
      /\ worker' \in {"flush", "last_flush"}
      /\ UNCHANGED <<emitted, sending, closed, flush, mark, delivered, dropped, sink_drops_total>>
  BY DEF recv_flush, recv_timeout, recv_disconnected, flush_buffer, callerFrame, flushVars, dropVars
<1>2. /\ sending = NoBatch /\ outbox = <<>> /\ ack = 0
      /\ Posting = {} /\ Posting' = {} /\ Taken = {} /\ Taken' = Buffered /\ Buffered' = {}
  BY <1>1 DEF Conserved, WorkerPhase, Posting, Taken, Buffered, ElementsOf
<1>3. /\ QueueInOrder(queue', mark') /\ Queued' = Queued
      /\ ElementsOf(queue') \subseteq ElementsOf(queue)
      /\ \/ ack' = 0
         \/ /\ worker' = "flush" /\ ack' \in Flushes /\ -ack' \in ElementsOf(queue)
            /\ \A x \in Queued' : mark[ack'] < x
      /\ worker' = "last_flush" => closed /\ queue' = <<>> /\ ack' = 0
  <2>1. queue \in Seq(Items) /\ QueueInOrder(queue, mark)
    BY DEF Conserved, InOrder, SinkTypeOK
  <2>2. CASE recv_flush
    <3>1. /\ queue # <<>> /\ queue' = Tail(queue) /\ Head(queue) < 0 /\ ack' = -Head(queue)
          /\ worker' = "flush"
      BY <2>2 DEF recv_flush, flush_buffer
    <3>2. -Head(queue) \in Flushes /\ -(-Head(queue)) = Head(queue)
      BY <2>1, <3>1, HeadItem DEF Items, Events, Flushes
    <3>3. /\ QueueInOrder(queue', mark) /\ Head(queue) \in ElementsOf(queue)
          /\ ElementsOf(queue') \subseteq ElementsOf(queue)
          /\ Queued' = Queued /\ \A x \in Queued' : mark[-Head(queue)] < x
      BY <2>1, <3>1, TailInOrder DEF Queued
    <3> QED
      BY <1>1, <3>1, <3>2, <3>3
  <2>3. CASE recv_timeout \/ recv_disconnected
    <3>1. /\ queue' = queue /\ ack' = 0
          /\ worker' = "last_flush" => closed /\ queue = <<>>
      BY <2>3 DEF recv_timeout, recv_disconnected, flush_buffer
    <3> QED
      BY <1>1, <2>1, <3>1 DEF Queued
  <2> QED
    BY <2>2, <2>3
<1>4. InSink' = InSink
  BY <1>2, <1>3 DEF InSink
<1>5. WorkerPhase'
  BY <1>1, <1>2, <1>3 DEF WorkerPhase
<1>6. Increasing(outbox') /\ Increasing(buffer')
  BY <1>1 DEF Conserved, InOrder, Increasing
<1>7. InOrder'
  BY <1>1, <1>2, <1>3, <1>4, <1>6 DEF Conserved, InOrder
<1>8. Accounted'
  BY <1>1, <1>4 DEF Conserved, Accounted
<1>9. FlushProgress'
  <2>1. \A k \in Flushes : flush'[k] = "none" => -k \notin ElementsOf(queue') /\ ack' # k
    BY <1>1, <1>3 DEF Conserved, FlushProgress, Flushes
  <2> QED
    BY <1>1, <1>3, <2>1 DEF Conserved, FlushProgress, FlushOkDecides
<1> QED
  BY <1>5, <1>7, <1>8, <1>9 DEF Conserved

\* The next batch is the earliest part of what the worker has taken.
LEMMA SendBatchConserves == ASSUME SinkTypeOK, Conserved, send_event_batch PROVE Conserved'
<1>1. PICK n \in 1..Len(outbox) :
        /\ sending' = [sequence |-> sequence, events |-> SubSeq(outbox, 1, n), attempt |-> 0]
        /\ outbox' = SubSeq(outbox, n + 1, Len(outbox))
  BY DEF send_event_batch
<1>2. /\ sending = NoBatch /\ worker \in {"flush", "last_flush"}
      /\ UNCHANGED <<queue, buffer, worker, ack, emitted, closed, flush, mark, delivered, dropped,
                     sink_drops_total>>
  BY DEF send_event_batch, callerFrame, flushVars, dropVars
<1>3. outbox \in Seq(Events) /\ outbox \in Seq(Int) /\ Increasing(outbox)
  BY EventSequences DEF SinkTypeOK, Conserved, InOrder
<1>4. sending' # NoBatch /\ sending'.events = SubSeq(outbox, 1, n)
  <2>1. SubSeq(outbox, 1, n) \in Seq(Events)
    BY <1>3, SplitElements
  <2>2. sending' \in Batches
    BY <1>1, <2>1, DeliveryAssumption DEF Batches, SinkTypeOK
  <2> QED
    BY <1>1, <2>2, BatchIsBatch
<1>5. /\ Posting = {} /\ Taken = Posting' \cup Taken'
      /\ Buffered' = Buffered /\ Queued' = Queued
  BY <1>1, <1>2, <1>3, <1>4, SplitElements DEF Posting, Taken, Buffered, Queued
<1>6. /\ Increasing(outbox') /\ Increasing(sending'.events)
      /\ \A x \in Posting' : \A y \in Taken' : x < y
  BY <1>1, <1>3, <1>4, SplitIncreasing DEF Posting, Taken
<1>7. InSink' = InSink
  BY <1>5 DEF InSink
<1>8. WorkerPhase'
  BY <1>2 DEF Conserved, WorkerPhase
<1>9. InOrder'
  BY <1>2, <1>5, <1>6, <1>7 DEF Conserved, InOrder
<1>10. Accounted'
  BY <1>2, <1>7 DEF Conserved, Accounted
<1>11. FlushProgress'
  BY <1>2, <1>5 DEF Conserved, FlushProgress, FlushOkDecides
<1> QED
  BY <1>8, <1>9, <1>10, <1>11 DEF Conserved

\* When the worker answers a flush call, all that was sent before it is decided.
LEMMA FlushReturnConserves == ASSUME SinkTypeOK, Conserved, flush_returns PROVE Conserved'
<1>1. /\ worker \in {"flush", "last_flush"} /\ sending = NoBatch /\ outbox = <<>> /\ ack' = 0
      /\ worker' = IF worker = "flush" THEN "recv" ELSE "stopped"
      /\ UNCHANGED <<queue, buffer, outbox, sending, emitted, closed, mark, delivered, dropped,
                     sink_drops_total>>
  BY DEF flush_returns, dropVars
<1>2. buffer = <<>> /\ (worker = "last_flush" => closed /\ queue = <<>> /\ ack = 0)
  BY <1>1 DEF Conserved, WorkerPhase
<1>3. /\ Queued' = Queued /\ Buffered' = Buffered /\ Taken' = Taken /\ Posting' = Posting
      /\ InSink' = InSink /\ InSink = Queued
  BY <1>1, <1>2 DEF Queued, Buffered, Taken, Posting, InSink, ElementsOf
<1>4. WorkerPhase'
  BY <1>1, <1>2 DEF WorkerPhase
<1>5. InOrder'
  BY <1>1, <1>3 DEF Conserved, InOrder
<1>6. Accounted'
  BY <1>1, <1>3 DEF Conserved, Accounted
<1>7. ASSUME NEW k \in Flushes
      PROVE  \/ flush'[k] = flush[k]
             \/ k = ack /\ flush[k] = "waiting" /\ flush'[k] \in {"ok", "err"}
  BY <1>7 DEF flush_returns
<1>8. ack \in Flushes => 1..mark[ack] \subseteq delivered \cup dropped
  <2> SUFFICES ASSUME ack \in Flushes, NEW x \in 1..mark[ack]
               PROVE  x \in delivered \cup dropped
    OBVIOUS
  <2>1. ack # 0 /\ mark[ack] \in Int /\ emitted \in Int
    BY DEF Flushes, SinkTypeOK
  <2>2. mark[ack] <= emitted /\ \A y \in Queued : mark[ack] < y
    BY <2>1 DEF Conserved, FlushProgress
  <2>3. x \in 1..emitted /\ x \notin Queued
    BY <2>1, <2>2
  <2> QED
    BY <1>3, <2>3 DEF Conserved, Accounted
<1>9. FlushProgress'
  <2>1. \A k \in Flushes : flush'[k] = "none" => -k \notin ElementsOf(queue') /\ ack' # k
    BY <1>1, <1>7 DEF Conserved, FlushProgress, Flushes
  <2>2. FlushOkDecides'
    BY <1>1, <1>7, <1>8 DEF Conserved, FlushProgress, FlushOkDecides
  <2> QED
    BY <1>1, <2>1, <2>2 DEF Conserved, FlushProgress
<1> QED
  BY <1>4, <1>5, <1>6, <1>9 DEF Conserved

\* A post ends in one of three ways: the batch has reached the controller, it is tried
\* again, or it is given up and counted.
LEMMA PostOutcome ==
    ASSUME SinkTypeOK, PostStep
    PROVE  /\ sending \in Batches /\ delivered \subseteq delivered' /\ UNCHANGED postFrame
           /\ \/ /\ sending' = NoBatch /\ delivered' = delivered \cup ElementsOf(sending.events)
                 /\ UNCHANGED dropVars
              \/ /\ sending' \in Batches /\ sending'.events = sending.events
                 /\ sending'.sequence = sending.sequence
                 /\ UNCHANGED dropVars
              \/ /\ sending' = NoBatch /\ dropped' = dropped \cup ElementsOf(sending.events)
                 /\ sink_drops_total' = sink_drops_total + Len(sending.events)
<1>1. sending # NoBatch /\ sending \in Batches
  BY DEF PostStep, post_ok, post_truncated, post_unanswered, post_times_out, post_refused,
         SinkTypeOK
<1>2. UNCHANGED postFrame
  BY DEF PostStep, post_ok, post_truncated, post_unanswered, post_times_out, post_refused
<1>3. delivered' = delivered \/ delivered' = delivered \cup ElementsOf(sending.events)
  BY DEF PostStep, post_ok, post_truncated, post_unanswered, post_times_out, post_refused,
         events_handler
<1>4. CASE post_ok \/ post_truncated
  BY <1>1, <1>2, <1>3, <1>4 DEF post_ok, post_truncated, events_handler
<1>5. CASE post_unanswered \/ post_times_out \/ post_refused
  <2>1. attempt_failed
    BY <1>5 DEF post_unanswered, post_times_out, post_refused
  <2>2. CASE sending' = [sending EXCEPT !.attempt = @ + 1] /\ UNCHANGED dropVars
    <3>1. sending' \in Batches \cup {NoBatch}
      BY <1>1, <2>1, AttemptType
    <3>2. /\ sending'.events = sending.events /\ sending'.sequence = sending.sequence
          /\ sending' = [sequence |-> sending.sequence, events |-> sending.events,
                         attempt |-> sending.attempt + 1]
      BY <1>1, <2>2 DEF Batches
    <3>3. sending' # NoBatch
      <4>1. Seq(Events) \subseteq Seq(Nat)
        BY EventSequences
      <4>2. /\ sending.sequence \in Nat /\ sending.events \in Seq(Nat)
            /\ sending.attempt + 1 \in Nat
        BY <1>1, <4>1, WidthAssumption, DeliveryAssumption DEF Batches, U64
      <4> QED
        BY <3>2, <4>2, NoBatchAssumption
    <3> QED
      BY <1>1, <1>2, <1>3, <2>2, <3>1, <3>2, <3>3
  <2>3. CASE /\ sending' = NoBatch /\ dropped' = dropped \cup ElementsOf(sending.events)
             /\ sink_drops_total' = sink_drops_total + Len(sending.events)
    BY <1>1, <1>2, <1>3, <2>3
  <2> QED
    BY <2>1, <2>2, <2>3 DEF attempt_failed
<1> QED
  BY <1>4, <1>5 DEF PostStep

\* A post keeps every event accounted for, and counts a batch it gives up exactly.
LEMMA PostConserves == ASSUME SinkTypeOK, Conserved, PostStep PROVE Conserved'
<1>1. /\ sending \in Batches /\ delivered \subseteq delivered'
      /\ UNCHANGED <<emitted, queue, buffer, outbox, worker, ack, closed, flush, mark>>
  BY PostOutcome DEF postFrame, flushVars
<1>2. /\ sending # NoBatch /\ Posting = ElementsOf(sending.events)
      /\ sending.events \in Seq(Events) /\ Increasing(sending.events)
  BY <1>1, BatchIsBatch DEF Posting, Batches, Conserved, InOrder
<1>3. worker \in {"flush", "last_flush"}
  BY <1>2 DEF Conserved, WorkerPhase, SinkTypeOK
<1>4. Queued' = Queued /\ Buffered' = Buffered /\ Taken' = Taken
  BY <1>1 DEF Queued, Buffered, Taken
<1>5. WorkerPhase'
  BY <1>1, <1>3 DEF Conserved, WorkerPhase
<1>6. FlushOkDecides' \/ ~(dropped \subseteq dropped')
  BY <1>1 DEF Conserved, FlushProgress, FlushOkDecides
<1>7. CASE /\ sending' = NoBatch /\ delivered' = delivered \cup Posting
           /\ UNCHANGED dropVars
  <2>1. Posting' = {} /\ InSink = InSink' \cup Posting
    BY <1>4, <1>7 DEF Posting, InSink
  <2>2. InOrder'
    BY <1>1, <1>4, <1>7, <2>1 DEF Conserved, InOrder
  <2>3. Accounted'
    BY <1>1, <1>7, <2>1 DEF Conserved, Accounted, dropVars
  <2>4. FlushProgress'
    BY <1>1, <1>4, <1>6, <1>7 DEF Conserved, FlushProgress, dropVars
  <2> QED
    BY <1>5, <2>2, <2>3, <2>4 DEF Conserved
<1>8. CASE sending' \in Batches /\ sending'.events = sending.events /\ UNCHANGED dropVars
  <2>1. sending' # NoBatch /\ Posting' = Posting /\ InSink' = InSink
    BY <1>2, <1>4, <1>8, BatchIsBatch DEF Posting, InSink
  <2>2. InOrder'
    BY <1>1, <1>2, <1>4, <1>8, <2>1 DEF Conserved, InOrder
  <2>3. Accounted'
    BY <1>1, <1>8, <2>1 DEF Conserved, Accounted, dropVars
  <2>4. FlushProgress'
    BY <1>1, <1>4, <1>6, <1>8 DEF Conserved, FlushProgress, dropVars
  <2> QED
    BY <1>5, <2>2, <2>3, <2>4 DEF Conserved
<1>9. CASE /\ sending' = NoBatch /\ dropped' = dropped \cup Posting
           /\ sink_drops_total' = sink_drops_total + Len(sending.events)
  <2>1. /\ Posting' = {} /\ InSink = InSink' \cup Posting
    BY <1>4, <1>9 DEF Posting, InSink
  <2>2. InOrder'
    BY <1>1, <1>4, <1>9, <2>1 DEF Conserved, InOrder
  <2>3. \A x \in Posting : x \notin InSink' /\ x \notin dropped
    <3>1. \A x \in Posting : x \in Int
      BY SinkHoldsEvents DEF InSink, Events
    <3>2. \A x \in Posting : x \notin Queued /\ x \notin Taken
      BY <3>1 DEF Conserved, InOrder
    <3>3. Buffered = {}
      BY <1>3 DEF Conserved, WorkerPhase, Buffered, ElementsOf
    <3> QED
      BY <1>4, <2>1, <3>2, <3>3 DEF InSink, Conserved, Accounted
  <2>4. Cardinality(dropped') = Cardinality(dropped) + Len(sending.events)
    <3>1. Seq(Events) \subseteq Seq(Int)
      BY EventSequences
    <3>2. IsFiniteSet(Posting) /\ Cardinality(Posting) = Len(sending.events)
      BY <1>2, <3>1, IncreasingCardinality
    <3>3. IsFiniteSet(dropped) /\ dropped \cap Posting = {}
      BY <2>3, DroppedFinite
    <3>4. /\ Cardinality(dropped \cup Posting)
               = Cardinality(dropped) + Cardinality(Posting) - Cardinality({})
          /\ Cardinality({}) = 0
      BY <3>2, <3>3, FS_Union, FS_EmptySet
    <3>5. Cardinality(dropped) \in Int /\ Len(sending.events) \in Int
      BY <1>2 DEF Conserved, Accounted, SinkTypeOK
    <3> QED
      BY <1>9, <3>2, <3>4, <3>5
  <2>5. Posting \subseteq 1..emitted
    BY SinkHoldsEvents DEF InSink, Events, Conserved, InOrder, SinkTypeOK
  <2>6. Accounted'
    BY <1>1, <1>9, <2>1, <2>3, <2>4, <2>5 DEF Conserved, Accounted
  <2>7. FlushProgress'
    BY <1>1, <1>4, <1>6, <1>9 DEF Conserved, FlushProgress
  <2> QED
    BY <1>5, <2>2, <2>6, <2>7 DEF Conserved
<1> QED
  BY <1>2, <1>7, <1>8, <1>9, PostOutcome

\* Every step keeps the invariant.
LEMMA ConservedStep ==
    SinkTypeOK /\ Conserved /\ [DeliveryNext]_allVars => Conserved'
<1> SUFFICES ASSUME SinkTypeOK, Conserved, [DeliveryNext]_allVars PROVE Conserved'
  OBVIOUS
<1>1. ASSUME UNCHANGED <<emitted, queue, workerVars, flushVars, dropVars>>,
             closed => closed', delivered \subseteq delivered'
      PROVE  Conserved'
  <2>1. /\ Queued' = Queued /\ Buffered' = Buffered /\ Taken' = Taken /\ Posting' = Posting
        /\ InSink' = InSink
    BY <1>1 DEF Queued, Buffered, Taken, Posting, InSink, workerVars
  <2>2. WorkerPhase'
    BY <1>1 DEF Conserved, WorkerPhase, workerVars
  <2>3. InOrder'
    BY <1>1, <2>1 DEF Conserved, InOrder, workerVars, flushVars
  <2>4. Accounted'
    BY <1>1, <2>1 DEF Conserved, Accounted, dropVars
  <2>5. FlushProgress'
    BY <1>1, <2>1 DEF Conserved, FlushProgress, FlushOkDecides, workerVars, flushVars, dropVars
  <2> QED
    BY <2>2, <2>3, <2>4, <2>5 DEF Conserved
<1>2. CASE drop_sink
  BY <1>1, <1>2 DEF drop_sink
<1>3. CASE \E r \in wire : serve_batch_late(r)
  BY <1>1, <1>3 DEF serve_batch_late, events_handler
<1>4. CASE hello \/ controller_restart
  BY <1>1, <1>4 DEF hello, controller_restart, sinkVars
<1>5. CASE UNCHANGED allVars
  BY <1>1, <1>5 DEF allVars, sinkVars
<1>6. CASE WorkerStep
  BY <1>6, RecvEventConserves, FlushConserves, SendBatchConserves, FlushReturnConserves
     DEF WorkerStep
<1> QED
  BY <1>2, <1>3, <1>4, <1>5, <1>6, SendConserves, FlushCallConserves, PostConserves
     DEF DeliveryNext

\* The sink accounts for every event, in every reachable state.
THEOREM DeliveryInductive == DeliverySpec => []Conserved
  BY ConservedInit, SinkTypeCorrect, ConservedStep, PTL DEF DeliverySpec

\* No evidence is lost silently (docs/architecture.md:97), for any queue, batch size,
\* number of retries, faults and controller restarts (sink/controller.rs).
THEOREM EvidenceNeverLostSilently == DeliverySpec => []NoSilentLoss
<1>1. SinkTypeOK /\ Conserved => NoSilentLoss
  <2> SUFFICES ASSUME SinkTypeOK, Conserved PROVE NoSilentLoss
    OBVIOUS
  <2>1. Held = InSink
    <3>1. \A x \in ElementsOf(queue) : x \in Events <=> x > 0
      BY DeliveryAssumption DEF SinkTypeOK, ElementsOf, Items, Events, Flushes
    <3> QED
      BY <3>1, SinkHoldsEvents DEF Held, InSink, Queued, Positive, Buffered, Taken, Posting
  <2>2. worker = "stopped" => InSink = {}
    BY DEF Conserved, WorkerPhase, InSink, Queued, Positive, Buffered, Taken, Posting, ElementsOf
  <2> QED
    BY <2>1, <2>2 DEF Conserved, Accounted, NoSilentLoss
<1> QED
  BY <1>1, SinkTypeCorrect, DeliveryInductive, PTL

\* A flush that returns Ok has decided the fate of all that was sent before it
\* (sink/controller.rs, flush and Worker::run).
THEOREM FlushOkIsDecided == DeliverySpec => []FlushOkDecides
<1>1. Conserved => FlushOkDecides
  BY DEF Conserved, FlushProgress
<1> QED
  BY <1>1, DeliveryInductive, PTL

-----------------------------------------------------------------------------
(* Sequence numbers arrive in order unless a post went wrong.              *)

\* A batch with number s advances the tracking record: s is later than the last number
\* seen, or both have reached the width of the counter.
Advances(s) ==
    LET last == sequences[Agent].last_seen IN last < s \/ (last = MaxU64 /\ s = MaxU64)

SequencesInOrder ==
    faults = 0 =>
        /\ wire = {} /\ sequences[Agent].regressions_total = 0
        /\ sending = NoBatch => Advances(sequence)
        /\ sending # NoBatch =>
               Advances(sending.sequence) /\ sequence = saturating_add(sending.sequence, 1)

\* A batch that advances the record is no regression, and the next number advances it
\* again.
LEMMA AcceptAdvances ==
    ASSUME TypeOK, NEW s \in U64, NEW events, Advances(s), events_handler(s, events)
    PROVE  /\ sequences'[Agent].regressions_total = sequences[Agent].regressions_total
           /\ Advances(saturating_add(s, 1))'
<1> DEFINE t == sequences[Agent]
           u == update_sequence_tracking(t, s)
<1> USE WidthAssumption DEF U64, NotSeen
<1>1. t \in Tracking /\ sequences'[Agent] = u
  BY DeliveryAssumption DEF TypeOK, events_handler, accept_event_batch
<1>2. /\ t.last_seen \in U64 \cup {NotSeen}
      /\ t.gaps_total \in U64 /\ t.regressions_total \in U64
  BY <1>1 DEF Tracking
<1>3. u.last_seen = s /\ u.regressions_total = t.regressions_total
  <2>1. CASE t.last_seen < s
    BY <1>1, <1>2, <2>1, UpdateCases
  <2>2. CASE t.last_seen = MaxU64 /\ s = MaxU64
    <3>1. s = saturating_add(t.last_seen, 1)
      BY <1>2, <2>2 DEF saturating_add
    <3>2. u = [t EXCEPT !.last_seen = s]
      BY <3>1 DEF update_sequence_tracking
    <3> QED
      BY <1>1, <3>2 DEF Tracking
  <2> QED
    BY <2>1, <2>2 DEF Advances
<1>4. s < saturating_add(s, 1) \/ (s = MaxU64 /\ saturating_add(s, 1) = MaxU64)
  BY DEF saturating_add
<1> QED
  BY <1>1, <1>3, <1>4 DEF Advances

\* A fresh record is advanced by any number.
LEMMA FreshAdvances ==
    ASSUME sequences'[Agent] = Untracked
    PROVE  /\ sequences'[Agent].regressions_total = 0
           /\ \A s \in U64 : Advances(s)'
  BY WidthAssumption DEF Untracked, Advances, U64, NotSeen

\* Posts without a fault deliver a batch once and in order, or give it up.
LEMMA PostInOrder ==
    ASSUME SinkTypeOK, TypeOK, SequencesInOrder, PostStep
    PROVE  SequencesInOrder'
<1> SUFFICES ASSUME faults' = 0
             PROVE  /\ wire' = {} /\ sequences'[Agent].regressions_total = 0
                    /\ sending' = NoBatch => Advances(sequence)'
                    /\ sending' # NoBatch =>
                          /\ Advances(sending.sequence)'
                          /\ (sequence = saturating_add(sending.sequence, 1))'
  BY DEF SequencesInOrder
<1>1. /\ sending # NoBatch /\ sending \in Batches /\ sending.sequence \in U64
      /\ sequence' = sequence
  BY PostOutcome, BatchIsBatch DEF postFrame, Batches
<1>2. faults = 0 /\ (post_ok \/ post_refused)
  BY DEF PostStep, post_ok, post_refused, post_truncated, post_unanswered, post_times_out,
         SinkTypeOK
<1>3. /\ wire = {} /\ sequences[Agent].regressions_total = 0
      /\ Advances(sending.sequence) /\ sequence = saturating_add(sending.sequence, 1)
  BY <1>1, <1>2 DEF SequencesInOrder
<1>4. CASE post_ok
  <2>1. wire' = {} /\ sending' = NoBatch /\ events_handler(sending.sequence, sending.events)
    BY <1>3, <1>4 DEF post_ok
  <2> QED
    BY <1>1, <1>3, <2>1, AcceptAdvances DEF Advances
<1>5. CASE post_refused
  <2>1. wire' = {} /\ sequences' = sequences
    BY <1>3, <1>5 DEF post_refused, vars
  <2>2. sending' = NoBatch \/ sending'.sequence = sending.sequence
    BY <1>1, PostOutcome
  <2>3. Advances(sequence)
    <3>1. sequences[Agent].last_seen \in U64 \cup {NotSeen}
      BY DeliveryAssumption DEF TypeOK, Tracking
    <3> QED
      BY <1>1, <1>3, <3>1, WidthAssumption DEF Advances, saturating_add, U64, NotSeen
  <2> QED
    BY <1>1, <1>3, <2>1, <2>2, <2>3 DEF Advances
<1> QED
  BY <1>2, <1>4, <1>5

\* Every step keeps the numbers in order.
LEMMA InOrderStep ==
    ASSUME SinkTypeOK, TypeOK, SequencesInOrder, [DeliveryNext]_allVars
    PROVE  SequencesInOrder'
<1>1. ASSUME UNCHANGED <<sequences, sending, sequence, wire, faults>>
      PROVE  SequencesInOrder'
  BY <1>1 DEF SequencesInOrder, Advances
<1>2. CASE send_event_batch
  <2>1. /\ sending = NoBatch /\ sending' \in Batches /\ sending'.sequence = sequence
        /\ sequence' = saturating_add(sequence, 1) /\ UNCHANGED <<sequences, wire, faults>>
    <3>1. PICK n \in 1..Len(outbox) :
            sending' = [sequence |-> sequence, events |-> SubSeq(outbox, 1, n), attempt |-> 0]
      BY <1>2 DEF send_event_batch
    <3>2. SubSeq(outbox, 1, n) \in Seq(Events)
      BY SplitElements DEF SinkTypeOK
    <3>3. sending' \in Batches
      BY <3>1, <3>2, DeliveryAssumption DEF Batches, SinkTypeOK
    <3> QED
      BY <1>2, <3>1, <3>3 DEF send_event_batch, callerFrame, vars
  <2>2. sending' # NoBatch
    BY <2>1, BatchIsBatch
  <2> QED
    BY <2>1, <2>2 DEF SequencesInOrder, Advances
<1>3. CASE WorkerStep /\ ~send_event_batch
  <2>1. UNCHANGED <<sequences, sending, sequence, wire, faults>>
    BY <1>3 DEF WorkerStep, recv_event, recv_flush, recv_timeout, recv_disconnected,
                flush_returns, flush_buffer, callerFrame, vars
  <2> QED
    BY <1>1, <2>1
<1>4. CASE \/ send \/ drop_sink
           \/ \E k \in Flushes : flush_enqueue(k) \/ flush_deadline(k)
  <2>1. UNCHANGED <<sequences, sending, sequence, wire, faults>>
    BY <1>4 DEF send, drop_sink, flush_enqueue, flush_deadline, workerVars, vars
  <2> QED
    BY <1>1, <2>1
<1>5. CASE \E r \in wire : serve_batch_late(r)
  BY <1>5 DEF serve_batch_late, SequencesInOrder
<1>6. CASE hello \/ controller_restart
  <2>1. /\ sequences'[Agent] = Untracked /\ UNCHANGED <<sending, sequence, faults>>
        /\ (wire' = {} \/ wire' = wire)
    BY <1>6, DeliveryAssumption
       DEF hello, controller_restart, register_agent, restart, Fresh, sinkVars, workerVars, TypeOK
  <2>2. sending # NoBatch => sending.sequence \in U64
    BY DEF SinkTypeOK, Batches
  <2> QED
    BY <2>1, <2>2, FreshAdvances DEF SequencesInOrder, SinkTypeOK, Advances
<1>7. CASE UNCHANGED allVars
  <2>1. UNCHANGED <<sequences, sending, sequence, wire, faults>>
    BY <1>7 DEF allVars, sinkVars, workerVars, vars
  <2> QED
    BY <1>1, <2>1
<1> QED
  BY <1>2, <1>3, <1>4, <1>5, <1>6, <1>7, PostInOrder DEF DeliveryNext

\* The controller counts a regression only if a post timed out or lost its answer
\* (scripts/smoke-agent-controller.sh:409; sink/controller.rs, send_event_batch).
THEOREM RegressionsMeanRepeats == DeliverySpec => []RegressionMeansRepeat
<1>1. DeliveryInit => SequencesInOrder
  BY WidthAssumption, DeliveryAssumption
     DEF DeliveryInit, Init, SequencesInOrder, Advances, Untracked, NotSeen
<1>2. SinkTypeOK /\ TypeOK /\ SequencesInOrder /\ [DeliveryNext]_allVars
        => SequencesInOrder'
  BY InOrderStep
<1>3. DeliverySpec => []TypeOK
  BY DeliveryImplementsRegistry, RegistryTypeCorrect, PTL
<1>4. SinkTypeOK /\ SequencesInOrder => RegressionMeansRepeat
  BY DEF SinkTypeOK, SequencesInOrder, RegressionMeansRepeat
<1> QED
  BY <1>1, <1>2, <1>3, <1>4, SinkTypeCorrect, PTL DEF DeliverySpec

\* What is proved of the registry alone holds of the batches this sink sends: the gap
\* accounting balances, and a batch that never arrived between two that did leaves a gap
\* (tapio-controller/src/lib.rs, update_sequence_tracking).
THEOREM DeliveryAccounting == DeliverySpec => [](GapAccounting /\ LossSurfaces)
  BY DeliveryImplementsRegistry, RegistryBalances, RegistrySurfacesLoss, PTL

=============================================================================
