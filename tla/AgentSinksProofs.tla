-------------------------- MODULE AgentSinksProofs --------------------------
(***************************************************************************)
(* Proofs about MultiSink and its sinks: the buffers stay within bounds    *)
(* and the sinks keep the ledger, for any number of observers, any lists   *)
(* of sinks and any sizes.                                                 *)
(*                                                                         *)
(* Every step of a call is first put into one form, WorkOK: the thread     *)
(* moves on, and what waits in one sink's buffer, what the thread carries  *)
(* and what it brings is shared out anew among buffer, thread, delivered   *)
(* and lost (Shift).  The rest of the proof only looks at that form.       *)
(* BooksOK is what makes the refinement inductive: a sink has exactly the  *)
(* occurrences no thread is still bringing to it, each in one place, and   *)
(* as long as something waits in a buffer there is a thread that has yet   *)
(* to flush it.                                                            *)
(*                                                                         *)
(* The readers of the data directory change nothing of this; what they     *)
(* print and answer follows from FilesIInv: a file that is whole stays     *)
(* whole, and a load that is done has all that was whole when it began.    *)
(***************************************************************************)
EXTENDS OccurrenceFiles, FiniteSetTheorems, SequenceTheorems, TLAPS

-----------------------------------------------------------------------------
(* Sequences as sets.                                                      *)

LEMMA ElemsAppend ==
    ASSUME NEW S, NEW s \in Seq(S), NEW x \in S
    PROVE  Elems(Append(s, x)) = Elems(s) \cup {x}
<1> DEFINE t == Append(s, x)
<1>1. /\ DOMAIN s = 1..Len(s) /\ Len(s) \in Nat /\ DOMAIN t = 1..(Len(s) + 1)
      /\ \A i \in 1..Len(s) : t[i] = s[i]
      /\ t[Len(s) + 1] = x
  BY LenProperties
<1> HIDE DEF t
<1>2. Elems(t) \subseteq Elems(s) \cup {x}
  <2> SUFFICES ASSUME NEW i \in 1..(Len(s) + 1) PROVE t[i] \in Elems(s) \cup {x}
    BY <1>1 DEF Elems
  <2>1. CASE i = Len(s) + 1
    BY <1>1, <2>1
  <2>2. CASE i # Len(s) + 1
    <3>1. i \in 1..Len(s)
      BY <1>1, <2>2
    <3> QED
      BY <1>1, <3>1 DEF Elems
  <2> QED
    BY <2>1, <2>2
<1>3. Elems(s) \cup {x} \subseteq Elems(t)
  <2>1. x \in Elems(t)
    <3>1. Len(s) + 1 \in DOMAIN t
      BY <1>1
    <3> QED
      BY <1>1, <3>1 DEF Elems
  <2>2. ASSUME NEW i \in 1..Len(s) PROVE s[i] \in Elems(t)
    <3>1. i \in DOMAIN t /\ t[i] = s[i]
      BY <1>1
    <3> QED
      BY <3>1 DEF Elems
  <2> QED
    BY <1>1, <2>1, <2>2 DEF Elems
<1> QED
  BY <1>2, <1>3 DEF t

LEMMA ElemsEmpty == Elems(<<>>) = {}
  BY DEF Elems

LEMMA ElemsType == ASSUME NEW S, NEW s \in Seq(S) PROVE Elems(s) \subseteq S
  BY LenProperties, ElementOfSeq DEF Elems

-----------------------------------------------------------------------------
(* The threads.                                                            *)

\* The I/O each sink does outside its lock.
Doing == {<<"file", "write">>, <<"http", "post">>, <<"otlp", "export">>}

\* Where a thread may be: outside MultiSink, or in a call to one of the sinks.
ThreadOK(o) ==
    \/ thread[o] = Idle \/ thread[o] = Stopped
    \/ /\ thread[o].call \in {"send", "flush"} /\ thread[o].at \in 1..Len(configured)
       /\ thread[o].io # "none" => <<SinkOf(o), thread[o].io>> \in Doing
       /\ thread[o].io = "write" => thread[o].call = "send"
       /\ thread[o].call = "send" => thread[o].event \in 1..detected

\* The lists of sinks.
LEMMA DeploymentFacts ==
    ASSUME configured \in Deployments
    PROVE  /\ Len(configured) \in Nat \ {0} /\ DOMAIN configured = 1..Len(configured)
           /\ \A j \in 1..Len(configured) : configured[j] \in SinkNames
           /\ \A i, j \in 1..Len(configured) : configured[i] = configured[j] => i = j
           /\ Elems(configured) = {configured[j] : j \in 1..Len(configured)}
<1>1. configured \in Seq(SinkNames) /\ configured # <<>>
  BY SinksAssumption
<1>2. Len(configured) \in Nat \ {0} /\ DOMAIN configured = 1..Len(configured)
  BY <1>1, LenProperties, EmptySeq
<1>3. \A j \in 1..Len(configured) : configured[j] \in SinkNames
  BY <1>1, ElementOfSeq
<1> QED
  BY <1>2, <1>3, SinksAssumption DEF Elems

TypesOK ==
    /\ configured \in Deployments /\ detected \in 0..MaxEvents /\ shutdown \in BOOLEAN
    /\ thread \in [Observers -> Threads]
    /\ \A o \in Observers : ThreadOK(o)
    /\ buffer \in [Buffered -> Seq(Events)]
    /\ Len(buffer["http"]) <= BufferFactor * buffer_size
    /\ Len(buffer["otlp"]) < batch_size
    /\ delivered \in [SinkNames -> SUBSET Events] /\ lost \in [SinkNames -> SUBSET Events]

ClocksOK ==
    /\ since \in [Buffered -> 0..flush_interval]
    /\ retry_in \in 0..MAX_BACKOFF /\ backoff \in INITIAL_BACKOFF..MAX_BACKOFF
    /\ files \in [Events -> {"absent", "partial", "complete"}]
    /\ failures \in 0..MaxFailures

\* How a step of thread o's call changes the thread: the sink returns, it begins I/O, or
\* it tries again.
Returns(o) ==
    thread'[o] = IF thread[o].at < Len(configured)
                   THEN [Idle EXCEPT !.call = thread[o].call, !.event = thread[o].event,
                                     !.at = thread[o].at + 1]
                 ELSE IF thread[o].call = "send" THEN Idle ELSE Stopped

Begins(o) ==
    /\ thread[o].io = "none" /\ <<SinkOf(o), thread'[o].io>> \in Doing
    /\ thread'[o].io = "write" => thread[o].call = "send"
    /\ thread'[o] = [thread[o] EXCEPT !.io = thread'[o].io, !.batch = thread'[o].batch]
    /\ thread'[o].batch \in Seq(Events)

Retries1(o) ==
    /\ thread[o].io = "export" /\ thread[o].tries < Retries
    /\ thread'[o] = [thread[o] EXCEPT !.tries = thread[o].tries + 1]

ThreadMoves(o) ==
    /\ thread[o].call \in {"send", "flush"} /\ thread[o].at \in 1..Len(configured)
    /\ thread' = [thread EXCEPT ![o] = thread'[o]]
    /\ Returns(o) \/ Begins(o) \/ Retries1(o)

\* A thread on its way to sink j with an occurrence, and one that has yet to flush it.
Ahead(o, j) ==
    /\ thread[o].call = "send"
    /\ thread[o].at < j \/ (thread[o].at = j /\ thread[o].io = "none")

Unflushed(o, j) ==
    \/ thread[o].call \in {"idle", "send"}
    \/ /\ thread[o].call = "flush"
       /\ thread[o].at < j \/ (thread[o].at = j /\ thread[o].io = "none")

LEMMA IdleFields ==
    /\ Idle.call = "idle" /\ Idle.at = 0 /\ Idle.io = "none" /\ Idle.event = 0
    /\ Idle.batch = <<>> /\ Idle.tries = 0
    /\ Stopped.call = "stopped" /\ Stopped.at = 0 /\ Stopped.io = "none" /\ Stopped.event = 0
    /\ Stopped.batch = <<>> /\ Stopped.tries = 0
  BY DEF Idle, Stopped

LEMMA IdleTypes ==
    ASSUME configured \in Deployments
    PROVE  Idle \in Threads /\ Stopped \in Threads
<1>1. Len(configured) \in Nat
  BY DeploymentFacts
<1>2. Idle \in Threads
  BY <1>1, EmptySeq, SinksAssumption DEF Idle, Threads
<1>3. Stopped \in Threads
  BY <1>2 DEF Stopped, Threads
<1> QED
  BY <1>2, <1>3

\* What a move leaves of a thread's way: sink at is behind it.
LEMMA MoveFacts ==
    ASSUME TypesOK, NEW o \in Observers, ThreadMoves(o),
           UNCHANGED <<configured, detected>>
    PROVE  /\ thread' \in [Observers -> Threads'] /\ ThreadOK(o)'
           /\ \A q \in Observers : q # o => thread'[q] = thread[q]
           /\ thread'[o].call = "send" => thread[o].call = "send" /\ thread'[o].event = thread[o].event
           /\ \A j \in 1..Len(configured) :
                 /\ Ahead(o, j)' <=> Ahead(o, j) /\ j # thread[o].at
                 /\ Unflushed(o, j)' <=> Unflushed(o, j) /\ (thread[o].call = "send" \/ j # thread[o].at)
<1> USE DEF TypesOK
<1> DEFINE t == thread[o]
           n == Len(configured)
<1>1. /\ t \in Threads /\ t.call \in {"send", "flush"} /\ t.at \in 1..n /\ n \in Nat /\ n > 0
      /\ thread' = [thread EXCEPT ![o] = thread'[o]] /\ ThreadOK(o)
  BY DeploymentFacts DEF ThreadMoves
<1>2. Threads' = Threads /\ configured' = configured /\ detected' = detected
  BY DEF Threads
<1>3. \A q \in Observers : q # o => thread'[q] = thread[q]
  BY <1>1
<1>4. t # Idle /\ t # Stopped
  BY <1>1, IdleFields
<1>5. /\ t.call = "send" => t.event \in 1..detected
      /\ t.event \in 0..MaxEvents /\ t.batch \in Seq(Events) /\ t.tries \in 0..Retries
      /\ t.io \in {"none", "write", "post", "export"}
  BY <1>1, <1>4 DEF ThreadOK, Threads
<1>6. CASE Returns(o) /\ t.at < n
  <2> DEFINE u == [Idle EXCEPT !.call = t.call, !.event = t.event, !.at = t.at + 1]
  <2>1. thread'[o] = u
    BY <1>6 DEF Returns
  <2>2. u \in Threads
    <3>1. Idle \in Threads /\ t.at + 1 \in 0..Len(configured)
      BY <1>1, <1>6, IdleTypes
    <3>2. t.call \in {"idle", "send", "flush", "stopped"} /\ t.event \in 0..MaxEvents
      BY <1>1, <1>5
    <3> HIDE DEF t
    <3> QED
      BY <3>1, <3>2 DEF Threads
  <2>3. /\ u.call = t.call /\ u.event = t.event /\ u.at = t.at + 1 /\ u.io = "none"
        /\ u.at \in 1..n
    BY <1>1, <1>6, IdleFields DEF Idle
  <2> HIDE DEF u
  <2>4. ThreadOK(o)'
    BY <1>1, <1>2, <1>5, <2>1, <2>3 DEF ThreadOK
  <2>5. thread' \in [Observers -> Threads']
    BY <1>1, <1>2, <2>1, <2>2
  <2>6. \A j \in 1..n : t.at < j <=> t.at + 1 < j \/ t.at + 1 = j
    BY <1>1
  <2>7. ASSUME NEW j \in 1..n
        PROVE  /\ Ahead(o, j)' <=> Ahead(o, j) /\ j # t.at
               /\ Unflushed(o, j)' <=> Unflushed(o, j) /\ (t.call = "send" \/ j # t.at)
    <3>1. t.at < j => j # t.at
      BY <1>1
    <3> QED
      BY <1>1, <2>1, <2>3, <2>6, <3>1 DEF Ahead, Unflushed
  <2> QED
    BY <1>3, <2>1, <2>3, <2>4, <2>5, <2>7
<1>7. CASE Returns(o) /\ ~(t.at < n)
  <2>1. t.at = n /\ thread'[o] = IF t.call = "send" THEN Idle ELSE Stopped
    BY <1>1, <1>7 DEF Returns
  <2>2. ThreadOK(o)' /\ thread' \in [Observers -> Threads']
    <3>1. ThreadOK(o)'
      BY <2>1 DEF ThreadOK
    <3> QED
      BY <1>1, <1>2, <2>1, <3>1, IdleTypes
  <2>3. thread'[o].call = IF t.call = "send" THEN "idle" ELSE "stopped"
    BY <2>1, IdleFields
  <2>4. ASSUME NEW j \in 1..n
        PROVE  /\ Ahead(o, j)' <=> Ahead(o, j) /\ j # t.at
               /\ Unflushed(o, j)' <=> Unflushed(o, j) /\ (t.call = "send" \/ j # t.at)
    <3>1. ~(t.at < j)
      BY <1>1, <2>1
    <3> QED
      BY <1>1, <2>3, <3>1 DEF Ahead, Unflushed
  <2> QED
    BY <1>3, <2>2, <2>3, <2>4
<1>8. CASE Begins(o) \/ Retries1(o)
  <2> DEFINE u == thread'[o]
  <2>1. /\ u.call = t.call /\ u.at = t.at /\ u.event = t.event /\ u \in Threads /\ u.io # "none"
        /\ <<SinkOf(o), u.io>> \in Doing /\ (u.io = "write" => t.call = "send")
    <3>1. CASE Begins(o)
      <4>1. u = [t EXCEPT !.io = u.io, !.batch = u.batch]
        BY <3>1 DEF Begins
      <4>2. u.io \in {"write", "post", "export"} /\ u.batch \in Seq(Events)
        BY <3>1 DEF Begins, Doing
      <4> HIDE DEF u
      <4>3. u.call = t.call /\ u.at = t.at /\ u.event = t.event /\ u \in Threads
        BY <1>1, <4>1, <4>2 DEF Threads
      <4> QED
        BY <3>1, <4>2, <4>3 DEF Begins, u
    <3>2. CASE Retries1(o)
      <4>0. u = [t EXCEPT !.tries = t.tries + 1] /\ t.tries < Retries /\ t.io = "export"
        BY <3>2 DEF Retries1
      <4>1. t.tries + 1 \in 0..Retries
        <5>1. Retries \in Nat
          BY SinksAssumption
        <5>2. t.tries \in 0..Retries /\ t.tries < Retries
          BY <1>5, <4>0
        <5> QED
          BY <5>1, <5>2
      <4> HIDE DEF u
      <4>2. /\ u.call = t.call /\ u.at = t.at /\ u.event = t.event /\ u \in Threads /\ u.io = "export"
        BY <1>1, <4>0, <4>1 DEF Threads
      <4>3. <<SinkOf(o), "export">> \in Doing
        BY <1>1, <1>4, <4>0 DEF ThreadOK
      <4> QED
        BY <4>2, <4>3
    <3> QED
      BY <1>8, <3>1, <3>2
  <2> HIDE DEF u
  <2>2. SinkOf(o)' = SinkOf(o)
    BY <1>2, <2>1 DEF SinkOf, u
  <2>3. ThreadOK(o)'
    BY <1>1, <1>2, <1>5, <2>1, <2>2 DEF ThreadOK, u
  <2>4. thread' \in [Observers -> Threads']
    BY <1>1, <1>2, <2>1 DEF u
  <2>5. ASSUME NEW j \in 1..n
        PROVE  /\ Ahead(o, j)' <=> Ahead(o, j) /\ j # t.at
               /\ Unflushed(o, j)' <=> Unflushed(o, j) /\ (t.call = "send" \/ j # t.at)
    <3>1. t.at < j => j # t.at
      BY <1>1
    <3> QED
      BY <1>1, <2>1, <3>1 DEF Ahead, Unflushed, u
  <2> QED
    BY <1>3, <2>1, <2>3, <2>4, <2>5 DEF u
<1> QED
  BY <1>6, <1>7, <1>8 DEF ThreadMoves

-----------------------------------------------------------------------------
(* What a sink holds.                                                      *)

\* Carries of a thread in state t.
CarriesBy(t, s) ==
    CASE s \in Buffered /\ t.io = (IF s = "http" THEN "post" ELSE "export") -> Elems(t.batch)
      [] s = "file" /\ t.io = "write" -> {t.event}
      [] OTHER -> {}

LEMMA CarriesUnfold ==
    ASSUME NEW o, NEW s
    PROVE  Carries(o, s) = CarriesBy(thread[o], s) /\ Carries(o, s)' = CarriesBy(thread'[o], s)
  BY DEF Carries, CarriesBy

LEMMA CarriesCases ==
    ASSUME NEW t, NEW s \in SinkNames
    PROVE  /\ t.io = "none" => CarriesBy(t, s) = {}
           /\ t.io = "write" => CarriesBy(t, s) = IF s = "file" THEN {t.event} ELSE {}
           /\ t.io = "post" => CarriesBy(t, s) = IF s = "http" THEN Elems(t.batch) ELSE {}
           /\ t.io = "export" => CarriesBy(t, s) = IF s = "otlp" THEN Elems(t.batch) ELSE {}
<1>1. s \in {"stdout", "file", "http", "otlp"}
  BY DEF SinkNames
<1>2. CASE s = "stdout"
  BY <1>2 DEF CarriesBy, Buffered
<1>3. CASE s = "file"
  BY <1>3 DEF CarriesBy, Buffered
<1>4. CASE s = "http"
  BY <1>4 DEF CarriesBy, Buffered
<1>5. CASE s = "otlp"
  BY <1>5 DEF CarriesBy, Buffered
<1> QED
  BY <1>1, <1>2, <1>3, <1>4, <1>5

\* A thread in a call to a sink.
LEMMA Busy ==
    ASSUME TypesOK, NEW o \in Observers,
           thread[o].call \in {"send", "flush"} \/ thread[o].io # "none"
    PROVE  /\ thread[o].call \in {"send", "flush"} /\ thread[o].at \in 1..Len(configured)
           /\ SinkOf(o) \in SinkNames
           /\ thread[o].io # "none" => <<SinkOf(o), thread[o].io>> \in Doing
           /\ thread[o].io = "write" => thread[o].call = "send"
           /\ thread[o].call = "send" => thread[o].event \in Events
           /\ thread[o].batch \in Seq(Events)
           /\ \A s \in SinkNames : s # SinkOf(o) => Carries(o, s) = {}
<1>1. thread[o] # Idle /\ thread[o] # Stopped
  BY IdleFields
<1>2. /\ thread[o].call \in {"send", "flush"} /\ thread[o].at \in 1..Len(configured)
      /\ thread[o].io # "none" => <<SinkOf(o), thread[o].io>> \in Doing
      /\ thread[o].io = "write" => thread[o].call = "send"
      /\ thread[o].call = "send" => thread[o].event \in 1..detected
  BY <1>1 DEF TypesOK, ThreadOK
<1>3. SinkOf(o) \in SinkNames
  BY <1>2, DeploymentFacts DEF TypesOK, SinkOf
<1>4. thread[o].call = "send" => thread[o].event \in Events
  BY <1>2, SinksAssumption DEF TypesOK, Events
<1>5. thread[o].batch \in Seq(Events) /\ thread[o].io \in {"none", "write", "post", "export"}
  BY DEF TypesOK, Threads
<1>6. ASSUME NEW s \in SinkNames, s # SinkOf(o) PROVE Carries(o, s) = {}
  BY <1>2, <1>5, <1>6, CarriesUnfold, CarriesCases DEF Doing
<1> QED
  BY <1>2, <1>3, <1>4, <1>5, <1>6

\* A sink returns.
LEMMA ReturnMoves ==
    ASSUME TypesOK, NEW o \in Observers, NEW result \in {"ok", "err"},
           thread[o].call \in {"send", "flush"}, multi_return(o, result)
    PROVE  /\ ThreadMoves(o) /\ Returns(o)
           /\ \A s \in SinkNames : Carries(o, s)' = {}
<1>1. thread \in [Observers -> Threads]
  BY DEF TypesOK
<1>2. Returns(o) /\ thread' = [thread EXCEPT ![o] = thread'[o]]
  BY <1>1 DEF multi_return, Returns
<1>3. thread'[o].io = "none"
  <2>1. [Idle EXCEPT !.call = thread[o].call, !.event = thread[o].event,
                     !.at = thread[o].at + 1].io = "none"
    BY DEF Idle
  <2> QED
    BY <1>2, <2>1, IdleFields DEF Returns
<1>4. ASSUME NEW s \in SinkNames PROVE Carries(o, s)' = {}
  <2>1. Carries(o, s)' = CarriesBy(thread'[o], s)
    BY CarriesUnfold
  <2> QED
    BY <1>3, <2>1, CarriesCases
<1>5. ThreadMoves(o)
  BY <1>2, Busy DEF ThreadMoves
<1> QED
  BY <1>2, <1>4, <1>5

\* A thread begins to post a batch.
LEMMA PostMoves ==
    ASSUME TypesOK, NEW o \in Observers, NEW io, NEW batch \in Seq(Events),
           thread[o].call \in {"send", "flush"}, thread[o].io = "none",
           <<SinkOf(o), io>> \in {<<"http", "post">>, <<"otlp", "export">>},
           thread' = [thread EXCEPT ![o].io = io, ![o].batch = batch]
    PROVE  /\ ThreadMoves(o)
           /\ thread'[o].call = thread[o].call /\ thread'[o].at = thread[o].at
           /\ thread'[o].event = thread[o].event
           /\ \A s \in SinkNames :
                 Carries(o, s)' = IF s = SinkOf(o) THEN Elems(batch) ELSE {}
<1>1. thread \in [Observers -> Threads] /\ thread[o] \in Threads
  BY DEF TypesOK
<1>2. thread'[o] = [thread[o] EXCEPT !.io = io, !.batch = batch]
  BY <1>1
<1>3. /\ thread'[o].io = io /\ thread'[o].batch = batch
      /\ thread'[o].call = thread[o].call /\ thread'[o].at = thread[o].at
      /\ thread'[o].event = thread[o].event
  BY <1>1, <1>2 DEF Threads
<1>4. thread' = [thread EXCEPT ![o] = thread'[o]]
  BY <1>1
<1>5. Begins(o)
  BY <1>2, <1>3 DEF Begins, Doing
<1>6. ThreadMoves(o)
  BY <1>4, <1>5, Busy DEF ThreadMoves
<1>7. io \in {"post", "export"} /\ SinkOf(o) = IF io = "post" THEN "http" ELSE "otlp"
  OBVIOUS
<1>8. ASSUME NEW s \in SinkNames
      PROVE  Carries(o, s)' = IF s = SinkOf(o) THEN Elems(batch) ELSE {}
  <2>1. Carries(o, s)' = CarriesBy(thread'[o], s)
    BY CarriesUnfold
  <2> DEFINE t == thread'[o]
  <2> HIDE DEF t
  <2>2. /\ t.io = "post" => CarriesBy(t, s) = IF s = "http" THEN Elems(t.batch) ELSE {}
        /\ t.io = "export" => CarriesBy(t, s) = IF s = "otlp" THEN Elems(t.batch) ELSE {}
    BY CarriesCases
  <2> QED
    BY <1>3, <1>7, <2>1, <2>2 DEF t
<1> QED
  BY <1>3, <1>6, <1>8

\* A thread has created a file and begins to write it.
LEMMA WriteMoves ==
    ASSUME TypesOK, NEW o \in Observers, thread[o].call = "send", thread[o].io = "none",
           SinkOf(o) = "file", thread' = [thread EXCEPT ![o].io = "write"]
    PROVE  /\ ThreadMoves(o)
           /\ thread'[o].call = thread[o].call /\ thread'[o].at = thread[o].at
           /\ thread'[o].event = thread[o].event
           /\ \A s \in SinkNames : Carries(o, s)' = IF s = "file" THEN {thread[o].event} ELSE {}
<1>1. thread \in [Observers -> Threads] /\ thread[o] \in Threads
  BY DEF TypesOK
<1>2. thread'[o] = [thread[o] EXCEPT !.io = "write"]
  BY <1>1
<1>3. /\ thread'[o].io = "write" /\ thread'[o].batch = thread[o].batch
      /\ thread'[o].call = thread[o].call /\ thread'[o].at = thread[o].at
      /\ thread'[o].event = thread[o].event /\ thread[o].batch \in Seq(Events)
  BY <1>1, <1>2 DEF Threads
<1>4. thread' = [thread EXCEPT ![o] = thread'[o]]
  BY <1>1
<1>5. thread'[o] = [thread[o] EXCEPT !.io = "write", !.batch = thread[o].batch]
  BY <1>1, <1>2 DEF Threads
<1>6. Begins(o)
  BY <1>3, <1>5 DEF Begins, Doing
<1>7. ThreadMoves(o)
  BY <1>4, <1>6, Busy DEF ThreadMoves
<1>8. ASSUME NEW s \in SinkNames
      PROVE  Carries(o, s)' = IF s = "file" THEN {thread[o].event} ELSE {}
  <2>1. Carries(o, s)' = CarriesBy(thread'[o], s)
    BY CarriesUnfold
  <2> DEFINE t == thread'[o]
  <2> HIDE DEF t
  <2>2. t.io = "write" => CarriesBy(t, s) = IF s = "file" THEN {t.event} ELSE {}
    BY CarriesCases
  <2> QED
    BY <1>3, <2>1, <2>2 DEF t
<1> QED
  BY <1>3, <1>7, <1>8

-----------------------------------------------------------------------------
(* What a step of a call does to the sink's books.                         *)

\* The occurrence the thread is about to hand to the sink.
Fresh(o) == IF thread[o].call = "send" /\ thread[o].io = "none" THEN {thread[o].event} ELSE {}

\* Nothing the thread brings is with the sink already.
Clear(o, s) == Waiting(s) \cap Carries(o, s) = {} /\ Fresh(o) \cap (Waiting(s) \cup Carries(o, s)) = {}

\* The sink's occurrences and the fresh one are shared out anew: waiting, carried by this
\* thread, delivered (D) or lost (L), each in one place.  No other sink is concerned, and
\* a flush leaves nothing waiting behind.
Shift(o, s, D, L) ==
    /\ delivered' = Decide(delivered, s, D) /\ lost' = Decide(lost, s, L)
    /\ \A t \in SinkNames : t # s => Waiting(t)' = Waiting(t) /\ Carries(o, t)' = {}
    /\ Waiting(s)' \cup Carries(o, s)' \cup D \cup L = Waiting(s) \cup Carries(o, s) \cup Fresh(o)
    /\ Waiting(s)' \cap Carries(o, s)' = {} /\ D \cap L = {}
    /\ (Waiting(s)' \cup Carries(o, s)') \cap (D \cup L) = {}
    /\ thread[o].call = "flush" =>
          Waiting(s)' = {} \/ (thread[o].io # "none" /\ Waiting(s)' = Waiting(s))

\* Which of them sink_writes_total counts.
Counts(o) ==
    \/ /\ thread[o].call = "send" /\ Returns(o)
       /\ \E result \in {"ok", "err"} : writes' = [writes EXCEPT ![SinkOf(o)][result] = @ + 1]
    \/ thread[o].call = "flush" /\ writes' = writes
    \/ /\ thread'[o].call = thread[o].call /\ thread'[o].at = thread[o].at
       /\ thread'[o].event = thread[o].event /\ writes' = writes

BufferTypes ==
    /\ buffer \in [Buffered -> Seq(Events)]
    /\ Len(buffer["http"]) <= BufferFactor * buffer_size
    /\ Len(buffer["otlp"]) < batch_size

WorkOK(o, s) ==
    /\ UNCHANGED <<configured, detected, shutdown>>
    /\ ThreadMoves(o) /\ s = SinkOf(o) /\ Counts(o) /\ BufferTypes'
    /\ \E D, L \in SUBSET Events : Shift(o, s, D, L)

LEMMA DecideNothing ==
    ASSUME TypesOK, NEW s \in SinkNames
    PROVE  Decide(delivered, s, {}) = delivered /\ Decide(lost, s, {}) = lost
  BY DEF TypesOK, Decide

\* A call returns while the buffers stay as they are: everything it brought or carried is
\* decided.
LEMMA ReturnDecides ==
    ASSUME TypesOK, NEW o \in Observers, NEW s \in SinkNames, s = SinkOf(o), Clear(o, s),
           NEW result \in {"ok", "err"}, thread[o].call \in {"send", "flush"},
           multi_return(o, result),
           UNCHANGED <<configured, detected, shutdown, buffer>>,
           NEW D \in SUBSET Events, NEW L \in SUBSET Events,
           D \cup L = Carries(o, s) \cup Fresh(o), D \cap L = {},
           delivered' = Decide(delivered, s, D), lost' = Decide(lost, s, L),
           thread[o].call = "flush" => thread[o].io # "none" \/ Waiting(s) = {}
    PROVE  WorkOK(o, s)
<1>1. ThreadMoves(o) /\ Returns(o) /\ \A t \in SinkNames : Carries(o, t)' = {}
  BY ReturnMoves
<1>2. \A t \in SinkNames : Waiting(t)' = Waiting(t)
  BY DEF Waiting
<1>3. Counts(o)
  BY <1>1 DEF Counts, multi_return
<1>4. BufferTypes'
  BY DEF TypesOK, BufferTypes
<1>5. Waiting(s)' = Waiting(s) /\ Carries(o, s)' = {}
  BY <1>1, <1>2
<1>6. Shift(o, s, D, L)
  BY <1>1, <1>2, <1>5 DEF Shift, Clear
<1> QED
  BY <1>1, <1>3, <1>4, <1>6 DEF WorkOK

LEMMA UnbufferedWork ==
    ASSUME TypesOK, NEW o \in Observers,
           \/ stdout_send(o) \/ file_create(o) \/ file_write(o) \/ unbuffered_flush(o),
           \A s \in SinkNames : s = SinkOf(o) => Clear(o, s)
    PROVE  \E s \in SinkNames : WorkOK(o, s)
<1>0. thread[o].call \in {"send", "flush"} \/ thread[o].io # "none"
  BY DEF stdout_send, file_create, file_write, unbuffered_flush, Calls
<1>1. PICK s \in SinkNames : s = SinkOf(o)
  BY <1>0, Busy
<1>2. /\ thread[o].call \in {"send", "flush"} /\ Clear(o, s)
      /\ thread[o].call = "send" => thread[o].event \in Events
      /\ thread[o].io = "write" => thread[o].call = "send" /\ s = "file"
  BY <1>0, <1>1, Busy DEF Doing
<1> DEFINE e == thread[o].event
<1>3. Waiting("stdout") = {} /\ Waiting("file") = {}
  BY DEF Waiting, Buffered
<1>4. thread[o].io = "none" => Carries(o, s) = {}
  BY CarriesUnfold, CarriesCases
<1>5. thread[o].io = "write" => Carries(o, s) = {e}
  BY <1>2, CarriesUnfold, CarriesCases
<1>6. Decide(delivered, s, {}) = delivered /\ Decide(lost, s, {}) = lost
  BY DecideNothing
<1>7. CASE stdout_send(o)
  <2>1. /\ thread[o].call = "send" /\ thread[o].io = "none" /\ s = "stdout"
        /\ UNCHANGED <<configured, detected, shutdown, buffer>>
    BY <1>1, <1>7 DEF stdout_send, Calls
  <2>2. Fresh(o) = {e} /\ Carries(o, s) = {} /\ {e} \in SUBSET Events
    BY <1>2, <1>4, <2>1 DEF Fresh
  <2>3. CASE delivered' = Decide(delivered, "stdout", {e}) /\ multi_return(o, "ok") /\ lost' = lost
    <3> DEFINE D == {e}
               L == {}
    <3>1. /\ D \cup L = Carries(o, s) \cup Fresh(o) /\ D \cap L = {}
          /\ D \in SUBSET Events /\ L \in SUBSET Events
          /\ delivered' = Decide(delivered, s, D) /\ lost' = Decide(lost, s, L)
          /\ thread[o].call = "flush" => thread[o].io # "none" \/ Waiting(s) = {}
      BY <1>6, <2>1, <2>2, <2>3
    <3> HIDE DEF D, L
    <3> QED
      BY <1>1, <1>2, <2>1, <2>3, <3>1, ReturnDecides
  <2>4. CASE lost' = Decide(lost, "stdout", {e}) /\ multi_return(o, "err") /\ delivered' = delivered
    <3> DEFINE D == {}
               L == {e}
    <3>1. /\ D \cup L = Carries(o, s) \cup Fresh(o) /\ D \cap L = {}
          /\ D \in SUBSET Events /\ L \in SUBSET Events
          /\ delivered' = Decide(delivered, s, D) /\ lost' = Decide(lost, s, L)
          /\ thread[o].call = "flush" => thread[o].io # "none" \/ Waiting(s) = {}
      BY <1>6, <2>1, <2>2, <2>4
    <3> HIDE DEF D, L
    <3> QED
      BY <1>1, <1>2, <2>1, <2>4, <3>1, ReturnDecides
  <2> QED
    BY <1>7, <2>3, <2>4 DEF stdout_send
<1>8. CASE file_create(o)
  <2>1. /\ thread[o].call = "send" /\ thread[o].io = "none" /\ s = "file"
        /\ UNCHANGED <<configured, detected, shutdown, buffer, delivered>>
    BY <1>1, <1>8 DEF file_create, Calls
  <2>2. Fresh(o) = {e} /\ Carries(o, s) = {} /\ {e} \in SUBSET Events
    BY <1>2, <1>4, <2>1 DEF Fresh
  <2>3. CASE thread' = [thread EXCEPT ![o].io = "write"] /\ UNCHANGED <<lost, writes>>
    <3>1. /\ ThreadMoves(o)
          /\ thread'[o].call = thread[o].call /\ thread'[o].at = thread[o].at
          /\ thread'[o].event = thread[o].event
          /\ \A t \in SinkNames : Carries(o, t)' = IF t = "file" THEN {e} ELSE {}
      BY <1>1, <2>1, <2>3, WriteMoves
    <3>2. \A t \in SinkNames : Waiting(t)' = Waiting(t)
      BY <2>1 DEF Waiting
    <3>3. Carries(o, s)' = {e} /\ Waiting(s)' = {} /\ Waiting(s) = {}
      BY <1>3, <2>1, <3>1, <3>2
    <3>4. Shift(o, s, {}, {})
      BY <1>6, <2>1, <2>2, <2>3, <3>1, <3>2, <3>3 DEF Shift
    <3>5. Counts(o) /\ BufferTypes'
      BY <2>1, <2>3, <3>1 DEF Counts, BufferTypes, TypesOK
    <3> QED
      BY <1>1, <2>1, <3>1, <3>4, <3>5 DEF WorkOK
  <2>4. CASE lost' = Decide(lost, "file", {e}) /\ multi_return(o, "err")
    <3> DEFINE D == {}
               L == {e}
    <3>1. /\ D \cup L = Carries(o, s) \cup Fresh(o) /\ D \cap L = {}
          /\ D \in SUBSET Events /\ L \in SUBSET Events
          /\ delivered' = Decide(delivered, s, D) /\ lost' = Decide(lost, s, L)
          /\ thread[o].call = "flush" => thread[o].io # "none" \/ Waiting(s) = {}
      BY <1>6, <2>1, <2>2, <2>4
    <3> HIDE DEF D, L
    <3> QED
      BY <1>1, <1>2, <2>1, <2>4, <3>1, ReturnDecides
  <2> QED
    BY <1>8, <2>3, <2>4 DEF file_create
<1>9. CASE file_write(o)
  <2>1. /\ thread[o].io = "write" /\ thread[o].call = "send" /\ s = "file"
        /\ UNCHANGED <<configured, detected, shutdown, buffer>>
    BY <1>2, <1>9 DEF file_write
  <2>2. Fresh(o) = {} /\ Carries(o, s) = {e} /\ {e} \in SUBSET Events
    BY <1>2, <1>5, <2>1 DEF Fresh
  <2>3. CASE delivered' = Decide(delivered, "file", {e}) /\ multi_return(o, "ok") /\ lost' = lost
    <3> DEFINE D == {e}
               L == {}
    <3>1. /\ D \cup L = Carries(o, s) \cup Fresh(o) /\ D \cap L = {}
          /\ D \in SUBSET Events /\ L \in SUBSET Events
          /\ delivered' = Decide(delivered, s, D) /\ lost' = Decide(lost, s, L)
          /\ thread[o].call = "flush" => thread[o].io # "none" \/ Waiting(s) = {}
      BY <1>6, <2>1, <2>2, <2>3
    <3> HIDE DEF D, L
    <3> QED
      BY <1>1, <1>2, <2>1, <2>3, <3>1, ReturnDecides
  <2>4. CASE lost' = Decide(lost, "file", {e}) /\ multi_return(o, "err") /\ delivered' = delivered
    <3> DEFINE D == {}
               L == {e}
    <3>1. /\ D \cup L = Carries(o, s) \cup Fresh(o) /\ D \cap L = {}
          /\ D \in SUBSET Events /\ L \in SUBSET Events
          /\ delivered' = Decide(delivered, s, D) /\ lost' = Decide(lost, s, L)
          /\ thread[o].call = "flush" => thread[o].io # "none" \/ Waiting(s) = {}
      BY <1>6, <2>1, <2>2, <2>4
    <3> HIDE DEF D, L
    <3> QED
      BY <1>1, <1>2, <2>1, <2>4, <3>1, ReturnDecides
  <2> QED
    BY <1>9, <2>3, <2>4 DEF file_write
<1>10. CASE unbuffered_flush(o)
  <2>1. /\ thread[o].io = "none" /\ thread[o].call = "flush" /\ s \in {"stdout", "file"}
        /\ UNCHANGED <<configured, detected, shutdown, buffer, delivered, lost>>
        /\ multi_return(o, "ok")
    BY <1>1, <1>10 DEF unbuffered_flush, Calls, ioVars
  <2>2. Fresh(o) = {} /\ Carries(o, s) = {} /\ Waiting(s) = {}
    BY <1>3, <1>4, <2>1 DEF Fresh
  <2> QED
    BY <1>1, <1>2, <1>6, <2>1, <2>2, ReturnDecides
<1> QED
  BY <1>7, <1>8, <1>9, <1>10

\* The posts of the buffering sinks: the batch is decided, or tried again.
LEMMA PostWork ==
    ASSUME TypesOK, NEW o \in Observers,
           \/ post_batch_ok(o) \/ post_batch_err(o)
           \/ export_ok(o) \/ export_retry(o) \/ export_err(o),
           \A s \in SinkNames : s = SinkOf(o) => Clear(o, s)
    PROVE  \E s \in SinkNames : WorkOK(o, s)
<1>0. thread[o].io \in {"post", "export"}
  BY DEF post_batch_ok, post_batch_err, export_ok, export_retry, export_err
<1>1. PICK s \in SinkNames : s = SinkOf(o)
  BY <1>0, Busy
<1> DEFINE E == Elems(thread[o].batch)
<1>2. /\ thread[o].call \in {"send", "flush"} /\ Clear(o, s)
      /\ s = IF thread[o].io = "post" THEN "http" ELSE "otlp"
      /\ thread[o].batch \in Seq(Events)
      /\ \A t \in SinkNames : t # s => Carries(o, t) = {}
  BY <1>0, <1>1, Busy DEF Doing
<1>3. E \in SUBSET Events
  BY <1>2, ElemsType
<1>4. Carries(o, s) = E
  <2>1. Carries(o, s) = CarriesBy(thread[o], s)
    BY CarriesUnfold
  <2> QED
    BY <1>0, <1>2, <2>1, CarriesCases
<1>5. Fresh(o) = {}
  BY <1>0 DEF Fresh
<1>6. Decide(delivered, s, {}) = delivered /\ Decide(lost, s, {}) = lost
  BY DecideNothing
<1> HIDE DEF E
<1>7. CASE post_batch_ok(o) \/ export_ok(o)
  <2>1. /\ delivered' = Decide(delivered, s, E) /\ lost' = lost /\ multi_return(o, "ok")
        /\ UNCHANGED <<configured, detected, shutdown, buffer>>
    BY <1>2, <1>7 DEF post_batch_ok, export_ok, E
  <2> QED
    BY <1>0, <1>1, <1>2, <1>3, <1>4, <1>5, <1>6, <2>1, ReturnDecides
<1>8. CASE post_batch_err(o) \/ export_err(o)
  <2>1. /\ lost' = Decide(lost, s, E) /\ delivered' = delivered /\ multi_return(o, "err")
        /\ UNCHANGED <<configured, detected, shutdown, buffer>>
    BY <1>2, <1>8 DEF post_batch_err, export_err, E
  <2> QED
    BY <1>0, <1>1, <1>2, <1>3, <1>4, <1>5, <1>6, <2>1, ReturnDecides
<1>9. CASE export_retry(o)
  <2>1. /\ thread[o].io = "export" /\ thread[o].tries < Retries
        /\ thread' = [thread EXCEPT ![o].tries = @ + 1]
        /\ UNCHANGED <<configured, detected, shutdown, buffer, delivered, lost, writes>>
    BY <1>9 DEF export_retry
  <2>2. thread \in [Observers -> Threads] /\ thread[o] \in Threads
    BY DEF TypesOK
  <2>3. /\ thread'[o] = [thread[o] EXCEPT !.tries = thread[o].tries + 1]
        /\ thread' = [thread EXCEPT ![o] = thread'[o]]
    BY <2>1, <2>2
  <2>4. /\ thread'[o].call = thread[o].call /\ thread'[o].at = thread[o].at
        /\ thread'[o].event = thread[o].event /\ thread'[o].io = thread[o].io
        /\ thread'[o].batch = thread[o].batch
    BY <2>2, <2>3 DEF Threads
  <2>5. ThreadMoves(o)
    BY <1>0, <2>1, <2>3, Busy DEF ThreadMoves, Retries1
  <2>6. \A t \in SinkNames : Carries(o, t)' = Carries(o, t) /\ Waiting(t)' = Waiting(t)
    BY <2>1, <2>4 DEF Carries, Waiting
  <2>7. Carries(o, s)' = E /\ Waiting(s)' = Waiting(s)
    BY <1>4, <2>6
  <2>8. Shift(o, s, {}, {})
    BY <1>0, <1>2, <1>4, <1>5, <1>6, <2>1, <2>6, <2>7 DEF Shift, Clear
  <2>9. Counts(o) /\ BufferTypes'
    BY <2>1, <2>4 DEF Counts, BufferTypes, TypesOK
  <2> QED
    BY <1>1, <2>1, <2>5, <2>8, <2>9 DEF WorkOK
<1> QED
  BY <1>7, <1>8, <1>9

\* What the overflow check keeps of a buffer.
LEMMA KeptFacts ==
    ASSUME TypesOK, NEW s \in Buffered
    PROVE  /\ Kept(s) \in Seq(Events) /\ Elems(Kept(s)) \subseteq Elems(buffer[s])
           /\ Len(Kept(s)) \in Nat /\ Len(Kept(s)) < BufferFactor * Size(s)
           /\ BufferFactor * Size(s) \in Nat
<1> DEFINE b == buffer[s]
           n == Size(s)
           max == BufferFactor * n
           cut == SubSeq(b, Len(b) - n + 1, Len(b))
<1>1. n \in Nat /\ n > 0 /\ BufferFactor \in Nat /\ BufferFactor >= 2
  BY SinksAssumption DEF Size
<1>2. max \in Nat /\ n < max
  <2> HIDE DEF n
  <2>1. max \in Nat /\ 2 * n <= max
    BY <1>1
  <2> QED
    BY <1>1, <2>1
<1>3. b \in Seq(Events) /\ Len(b) \in Nat /\ DOMAIN b = 1..Len(b)
  BY LenProperties DEF TypesOK
<1>4. Kept(s) = IF Len(b) >= max THEN cut ELSE b
  BY DEF Kept
<1> HIDE DEF b, n, max
<1>5. CASE Len(b) >= max
  <2>1. Len(b) - n + 1 \in 1..Len(b)
    BY <1>1, <1>2, <1>3, <1>5
  <2>2. \A i \in (Len(b) - n + 1)..Len(b) : b[i] \in Events /\ i \in DOMAIN b
    BY <1>3, <2>1, ElementOfSeq
  <2>3. /\ cut \in Seq(Events) /\ Len(cut) = n
        /\ \A i \in 1..n : cut[i] = b[Len(b) - n + 1 + i - 1]
    <3>1. Len(b) - n + 1 \in Int /\ Len(b) \in Int
      BY <1>1, <1>3
    <3>2. /\ cut \in Seq(Events)
          /\ Len(cut) = IF Len(b) - n + 1 <= Len(b) THEN Len(b) - (Len(b) - n + 1) + 1 ELSE 0
          /\ \A i \in 1..(Len(b) - (Len(b) - n + 1) + 1) : cut[i] = b[Len(b) - n + 1 + i - 1]
      BY <2>2, <3>1, SubSeqProperties
    <3> HIDE DEF cut
    <3>3. Len(b) - (Len(b) - n + 1) + 1 = n /\ Len(b) - n + 1 <= Len(b)
      BY <1>1, <1>3
    <3> QED
      BY <3>2, <3>3
  <2> HIDE DEF cut
  <2>4. DOMAIN cut = 1..n
    BY <2>3, LenProperties
  <2>5. ASSUME NEW i \in DOMAIN cut PROVE cut[i] \in Elems(b)
    <3>1. Len(b) - n + 1 + i - 1 \in DOMAIN b
      BY <1>1, <1>2, <1>3, <1>5, <2>4
    <3> QED
      BY <2>3, <2>4, <3>1 DEF Elems
  <2>6. Elems(cut) \subseteq Elems(b)
    BY <2>5 DEF Elems
  <2> QED
    BY <1>1, <1>2, <1>4, <1>5, <2>3, <2>6 DEF b, n, max
<1>6. CASE ~(Len(b) >= max)
  <2>1. Len(b) < max
    BY <1>2, <1>3, <1>6
  <2>2. Kept(s) = b
    BY <1>4, <1>6
  <2> QED
    BY <1>2, <1>3, <2>1, <2>2 DEF b, n, max
<1> QED
  BY <1>5, <1>6

\* A buffering sink that changes its own buffer leaves the other's alone.
LEMMA OneBufferChanges ==
    ASSUME TypesOK, NEW s \in Buffered, NEW b \in Seq(Events),
           buffer' = [buffer EXCEPT ![s] = b],
           s = "http" => Len(b) <= BufferFactor * buffer_size,
           s = "otlp" => Len(b) < batch_size
    PROVE  /\ BufferTypes' /\ Waiting(s)' = Elems(b)
           /\ \A t \in SinkNames : t # s => Waiting(t)' = Waiting(t)
<1>1. buffer \in [Buffered -> Seq(Events)]
  BY DEF TypesOK
<1>2. /\ buffer' \in [Buffered -> Seq(Events)] /\ buffer'[s] = b
      /\ \A t \in Buffered : t # s => buffer'[t] = buffer[t]
  BY <1>1
<1>3. s \in {"http", "otlp"} /\ "http" \in Buffered /\ "otlp" \in Buffered
  BY DEF Buffered
<1>4. Len(buffer'["http"]) <= BufferFactor * buffer_size
  BY <1>2, <1>3 DEF TypesOK
<1>5. Len(buffer'["otlp"]) < batch_size
  BY <1>2, <1>3 DEF TypesOK
<1>6. Waiting(s)' = Elems(b) /\ \A t \in SinkNames : t # s => Waiting(t)' = Waiting(t)
  BY <1>2 DEF Waiting
<1> QED
  BY <1>2, <1>4, <1>5, <1>6 DEF BufferTypes

LEMMA EmptyBufferFits ==
    /\ <<>> \in Seq(Events) /\ Len(<<>>) <= BufferFactor * buffer_size /\ Len(<<>>) < batch_size
<1>1. BufferFactor * buffer_size \in Nat
  BY SinksAssumption
<1> QED
  BY <1>1, EmptySeq, SinksAssumption

\* send: the overflow is lost, and the buffer with the new occurrence is taken or kept.
LEMMA SendTakesOrKeeps ==
    ASSUME TypesOK, NEW o \in Observers, NEW s \in Buffered, s = SinkOf(o), Clear(o, s),
           thread[o].call = "send", thread[o].io = "none",
           UNCHANGED <<configured, detected, shutdown, delivered>>,
           lost' = Decide(lost, s, Elems(buffer[s]) \ Elems(Kept(s))),
           NEW io, <<s, io>> \in {<<"http", "post">>, <<"otlp", "export">>},
           \/ /\ buffer' = [buffer EXCEPT ![s] = <<>>]
              /\ thread' = [thread EXCEPT ![o].io = io,
                                          ![o].batch = Append(Kept(s), thread[o].event)]
              /\ UNCHANGED writes
           \/ /\ buffer' = [buffer EXCEPT ![s] = Append(Kept(s), thread[o].event)]
              /\ multi_return(o, "ok")
              /\ s = "otlp" => Len(Kept(s)) + 1 < batch_size
    PROVE  WorkOK(o, s)
<1> DEFINE e == thread[o].event
           W == Elems(buffer[s])
           K == Elems(Kept(s))
           full == Append(Kept(s), e)
           L == W \ K
<1>1. e \in Events /\ s \in SinkNames
  BY Busy DEF Buffered, SinkNames
<1>2. /\ Kept(s) \in Seq(Events) /\ K \subseteq W
      /\ Len(Kept(s)) \in Nat /\ Len(Kept(s)) < BufferFactor * Size(s)
      /\ BufferFactor * Size(s) \in Nat
  BY KeptFacts
<1>3. full \in Seq(Events) /\ Elems(full) = K \cup {e} /\ Len(full) = Len(Kept(s)) + 1
  BY <1>1, <1>2, ElemsAppend
<1>4. Waiting(s) = W /\ Carries(o, s) = {} /\ Fresh(o) = {e}
  <2>1. Carries(o, s) = CarriesBy(thread[o], s)
    BY CarriesUnfold
  <2> QED
    BY <1>1, <2>1, CarriesCases DEF Waiting, Fresh
<1>5. e \notin W /\ W \in SUBSET Events
  <2>1. buffer[s] \in Seq(Events)
    BY DEF TypesOK
  <2> QED
    BY <1>4, <2>1, ElemsType DEF Clear
<1>6. L \in SUBSET Events /\ delivered' = Decide(delivered, s, {}) /\ lost' = Decide(lost, s, L)
  BY <1>1, <1>5, DecideNothing
<1> HIDE DEF e, W, K, full, L
<1>7. CASE /\ buffer' = [buffer EXCEPT ![s] = <<>>]
           /\ thread' = [thread EXCEPT ![o].io = io, ![o].batch = full]
           /\ UNCHANGED writes
  <2>1. /\ ThreadMoves(o)
        /\ thread'[o].call = thread[o].call /\ thread'[o].at = thread[o].at
        /\ thread'[o].event = thread[o].event
        /\ \A t \in SinkNames : Carries(o, t)' = IF t = SinkOf(o) THEN Elems(full) ELSE {}
    BY <1>3, <1>7, PostMoves
  <2>2. /\ BufferTypes' /\ Waiting(s)' = {}
        /\ \A t \in SinkNames : t # s => Waiting(t)' = Waiting(t)
    BY <1>7, EmptyBufferFits, ElemsEmpty, OneBufferChanges
  <2>3. Carries(o, s)' = K \cup {e}
    BY <1>1, <1>3, <2>1
  <2>4. Shift(o, s, {}, L)
    BY <1>2, <1>4, <1>5, <1>6, <2>1, <2>2, <2>3 DEF Shift, L
  <2>5. Counts(o)
    BY <1>7, <2>1 DEF Counts
  <2> QED
    BY <1>6, <2>1, <2>2, <2>4, <2>5 DEF WorkOK
<1>8. CASE /\ buffer' = [buffer EXCEPT ![s] = full] /\ multi_return(o, "ok")
           /\ s = "otlp" => Len(Kept(s)) + 1 < batch_size
  <2>1. ThreadMoves(o) /\ Returns(o) /\ \A t \in SinkNames : Carries(o, t)' = {}
    BY <1>8, ReturnMoves
  <2>2. s = "http" => Len(full) <= BufferFactor * buffer_size
    <3>1. s = "http" => Size(s) = buffer_size
      BY DEF Size
    <3>2. Len(full) <= BufferFactor * Size(s)
      BY <1>2, <1>3
    <3> QED
      BY <3>1, <3>2
  <2>3. s = "otlp" => Len(full) < batch_size
    BY <1>3, <1>8
  <2>4. /\ BufferTypes' /\ Waiting(s)' = K \cup {e}
        /\ \A t \in SinkNames : t # s => Waiting(t)' = Waiting(t)
    BY <1>3, <1>8, <2>2, <2>3, OneBufferChanges
  <2>5. Carries(o, s)' = {}
    BY <1>1, <2>1
  <2>6. Shift(o, s, {}, L)
    BY <1>2, <1>4, <1>5, <1>6, <2>1, <2>4, <2>5 DEF Shift, L
  <2>7. Counts(o)
    BY <1>8, <2>1 DEF Counts, multi_return
  <2> QED
    BY <1>6, <2>1, <2>4, <2>6, <2>7 DEF WorkOK
<1> QED
  BY <1>7, <1>8 DEF full, e

\* flush: an empty buffer returns at once, any other is taken.
LEMMA FlushTakes ==
    ASSUME TypesOK, NEW o \in Observers, NEW s \in Buffered, s = SinkOf(o), Clear(o, s),
           thread[o].call = "flush", thread[o].io = "none",
           NEW io, <<s, io>> \in {<<"http", "post">>, <<"otlp", "export">>},
           flush_locked(o, s, io)
    PROVE  WorkOK(o, s)
<1>1. s \in SinkNames
  BY DEF Buffered, SinkNames
<1>2. UNCHANGED <<configured, detected, shutdown, delivered, lost>>
  BY DEF flush_locked, ioVars
<1>3. delivered' = Decide(delivered, s, {}) /\ lost' = Decide(lost, s, {})
  BY <1>1, <1>2, DecideNothing
<1>4. Waiting(s) = Elems(buffer[s]) /\ Carries(o, s) = {} /\ Fresh(o) = {}
  <2>1. Carries(o, s) = CarriesBy(thread[o], s)
    BY CarriesUnfold
  <2> QED
    BY <1>1, <2>1, CarriesCases DEF Waiting, Fresh
<1>5. buffer[s] \in Seq(Events)
  BY DEF TypesOK
<1>6. CASE buffer[s] = <<>> /\ multi_return(o, "ok") /\ UNCHANGED buffer
  <2>1. Waiting(s) = {}
    BY <1>4, <1>6, ElemsEmpty
  <2> QED
    BY <1>1, <1>2, <1>3, <1>4, <1>6, <2>1, ReturnDecides
<1>7. CASE /\ buffer' = [buffer EXCEPT ![s] = <<>>]
           /\ thread' = [thread EXCEPT ![o].io = io, ![o].batch = buffer[s]]
           /\ UNCHANGED writes
  <2>1. /\ ThreadMoves(o)
        /\ thread'[o].call = thread[o].call /\ thread'[o].at = thread[o].at
        /\ thread'[o].event = thread[o].event
        /\ \A t \in SinkNames : Carries(o, t)' = IF t = SinkOf(o) THEN Elems(buffer[s]) ELSE {}
    BY <1>5, <1>7, PostMoves
  <2>2. /\ BufferTypes' /\ Waiting(s)' = {}
        /\ \A t \in SinkNames : t # s => Waiting(t)' = Waiting(t)
    BY <1>7, EmptyBufferFits, ElemsEmpty, OneBufferChanges
  <2>3. Carries(o, s)' = Elems(buffer[s])
    BY <1>1, <2>1
  <2>4. Shift(o, s, {}, {})
    BY <1>3, <1>4, <2>1, <2>2, <2>3 DEF Shift
  <2>5. Counts(o)
    BY <1>7, <2>1 DEF Counts
  <2> QED
    BY <1>2, <2>1, <2>2, <2>4, <2>5 DEF WorkOK
<1> QED
  BY <1>6, <1>7 DEF flush_locked

LEMMA BufferedWork ==
    ASSUME TypesOK, NEW o \in Observers,
           \/ http_send(o) \/ otlp_send(o) \/ http_flush(o) \/ otlp_flush(o),
           \A s \in SinkNames : s = SinkOf(o) => Clear(o, s)
    PROVE  \E s \in SinkNames : WorkOK(o, s)
<1>1. "http" \in SinkNames /\ "otlp" \in SinkNames /\ "http" \in Buffered /\ "otlp" \in Buffered
  BY DEF SinkNames, Buffered
<1>2. CASE http_send(o)
  <2>1. WorkOK(o, "http")
    BY <1>1, <1>2, SendTakesOrKeeps DEF http_send, Calls, send_locked
  <2> QED
    BY <1>1, <2>1
<1>3. CASE otlp_send(o)
  <2>1. ~FlushDue("otlp") => Len(Kept("otlp")) + 1 < batch_size
    BY <1>1, KeptFacts, SinksAssumption DEF FlushDue, Size
  <2>2. WorkOK(o, "otlp")
    BY <1>1, <1>3, <2>1, SendTakesOrKeeps DEF otlp_send, Calls, send_locked
  <2> QED
    BY <1>1, <2>2
<1>4. CASE http_flush(o)
  <2>1. WorkOK(o, "http")
    BY <1>1, <1>4, FlushTakes DEF http_flush, Calls
  <2> QED
    BY <1>1, <2>1
<1>5. CASE otlp_flush(o)
  <2>1. WorkOK(o, "otlp")
    BY <1>1, <1>5, FlushTakes DEF otlp_flush, Calls
  <2> QED
    BY <1>1, <2>1
<1> QED
  BY <1>2, <1>3, <1>4, <1>5

\* Every step of a call, in these terms.
LEMMA EveryWork ==
    ASSUME TypesOK, NEW o \in Observers, CallStep(o) \/ IoStep(o),
           \A s \in SinkNames : s = SinkOf(o) => Clear(o, s)
    PROVE  \E s \in SinkNames : WorkOK(o, s)
  BY UnbufferedWork, PostWork, BufferedWork DEF CallStep, IoStep

-----------------------------------------------------------------------------
(* The books of a sink.                                                    *)

\* What the threads carry of a sink, and what has come to the j-th sink: every occurrence
\* but those still on their way to it.
Carried(s) == UNION {Carries(o, s) : o \in Observers}
Arrived(j) == {e \in 1..detected : \A o \in Observers : Ahead(o, j) => thread[o].event # e}

\* No occurrence is with a sink in two places.
Apart(s) ==
    /\ delivered[s] \cap lost[s] = {}
    /\ (Waiting(s) \cup Carried(s)) \cap (delivered[s] \cup lost[s]) = {}
    /\ Waiting(s) \cap Carried(s) = {}
    /\ \A o, q \in Observers : o # q => Carries(o, s) \cap Carries(q, s) = {}

\* The j-th sink, s, has what has come to it, in one place each, and what waits with it
\* has a thread that will flush it.
Books(j, s) ==
    /\ Apart(s)
    /\ Waiting(s) \cup Carried(s) \cup delivered[s] \cup lost[s] = Arrived(j)
    /\ Waiting(s) # {} => \E o \in Observers : Unflushed(o, j)

\* No two threads are sending the same occurrence.
Senders ==
    \A o, q \in Observers :
        o # q /\ thread[o].call = "send" /\ thread[q].call = "send"
          => thread[o].event # thread[q].event

BooksOK ==
    /\ Senders
    /\ \A j \in 1..Len(configured) : \A s \in SinkNames : s = configured[j] => Books(j, s)

\* The occurrences whose call to the j-th sink has returned.
Called(j) ==
    {e \in 1..detected : \A o \in Observers :
        thread[o].call = "send" /\ thread[o].at <= j => thread[o].event # e}

\* sink_writes_total counts each of them once.
CountsOK ==
    /\ writes \in [SinkNames -> [ok : Nat, err : Nat]]
    /\ \A j \in 1..Len(configured) : \A s \in SinkNames :
          s = configured[j] => writes[s].ok + writes[s].err = Cardinality(Called(j))
    /\ \A s \in SinkNames : s \notin Elems(configured) => writes[s].ok = 0 /\ writes[s].err = 0

SinksIInv == TypesOK /\ BooksOK /\ ClocksOK /\ CountsOK

\* A thread that is about to work on a sink brings it nothing it has.
LEMMA WorkerIsClear ==
    ASSUME TypesOK, BooksOK, NEW o \in Observers,
           thread[o].call \in {"send", "flush"} \/ thread[o].io # "none",
           NEW s \in SinkNames, s = SinkOf(o)
    PROVE  Clear(o, s)
<1> DEFINE j == thread[o].at
<1>1. j \in 1..Len(configured) /\ s = configured[j]
  BY Busy DEF SinkOf
<1> HIDE DEF j
<1>2. Books(j, s)
  BY <1>1 DEF BooksOK
<1>3. Carries(o, s) \subseteq Carried(s)
  BY DEF Carried
<1>4. thread[o].call = "send" /\ thread[o].io = "none" => thread[o].event \notin Arrived(j)
  BY DEF Arrived, Ahead, j
<1> QED
  BY <1>2, <1>3, <1>4 DEF Books, Apart, Clear, Fresh

\* What all the threads but o carry.
Others(o, s) == UNION {Carries(q, s) : q \in Observers \ {o}}

LEMMA CarriedSplit ==
    ASSUME NEW o \in Observers, NEW s
    PROVE  Carried(s) = Carries(o, s) \cup Others(o, s)
  BY DEF Carried, Others

LEMMA OthersKept ==
    ASSUME NEW o \in Observers, NEW s, \A q \in Observers : q # o => thread'[q] = thread[q]
    PROVE  /\ \A q \in Observers : q # o => Carries(q, s)' = Carries(q, s)
           /\ Others(o, s)' = Others(o, s)
           /\ Carried(s)' = Carries(o, s)' \cup Others(o, s)
<1>1. \A q \in Observers : q # o => Carries(q, s)' = Carries(q, s)
  BY DEF Carries
<1>2. Others(o, s)' = Others(o, s)
  BY <1>1 DEF Others
<1>3. Carried(s)' = Carries(o, s)' \cup Others(o, s)'
  BY DEF Carried, Others
<1> QED
  BY <1>1, <1>2, <1>3

\* A step that neither concerns what is with a sink nor what is on its way to it.
LEMMA BooksKept ==
    ASSUME NEW o \in Observers, NEW s \in SinkNames, NEW j, Books(j, s),
           \A q \in Observers : q # o => thread'[q] = thread[q],
           Carries(o, s)' = Carries(o, s), Waiting(s)' = Waiting(s),
           delivered'[s] = delivered[s], lost'[s] = lost[s],
           Arrived(j)' = Arrived(j), Unflushed(o, j) => Unflushed(o, j)'
    PROVE  Books(j, s)'
<1>0. /\ \A q \in Observers : q # o => Carries(q, s)' = Carries(q, s)
      /\ Carried(s)' = Carries(o, s)' \cup Others(o, s)
  BY OthersKept
<1>1. /\ \A q \in Observers : Carries(q, s)' = Carries(q, s)
      /\ Carried(s)' = Carried(s)
  BY <1>0, CarriedSplit
<1>2. \A q \in Observers : Unflushed(q, j) => Unflushed(q, j)'
  BY DEF Unflushed
<1> QED
  BY <1>1, <1>2 DEF Books, Apart

\* A step of a call, seen from the other sinks.
LEMMA OtherSinks ==
    ASSUME TypesOK, BooksOK, NEW o \in Observers, NEW s \in SinkNames, WorkOK(o, s),
           NEW j \in 1..Len(configured), NEW t \in SinkNames, t = configured[j], t # s
    PROVE  Books(j, t)'
<1>1. /\ ThreadMoves(o) /\ s = SinkOf(o) /\ configured' = configured /\ detected' = detected
      /\ thread[o].call \in {"send", "flush"}
  BY DEF WorkOK, ThreadMoves
<1>2. j # thread[o].at
  BY <1>1 DEF SinkOf
<1>3. /\ \A q \in Observers : q # o => thread'[q] = thread[q]
      /\ thread'[o].call = "send" => thread'[o].event = thread[o].event
      /\ Ahead(o, j)' <=> Ahead(o, j) /\ j # thread[o].at
      /\ Unflushed(o, j)' <=> Unflushed(o, j) /\ (thread[o].call = "send" \/ j # thread[o].at)
  BY <1>1, MoveFacts
<1>4. Carries(o, t) = {}
  BY <1>1, Busy
<1>5. PICK D \in SUBSET Events, L \in SUBSET Events : Shift(o, s, D, L)
  BY DEF WorkOK
<1>6. Waiting(t)' = Waiting(t) /\ Carries(o, t)' = {}
  BY <1>5 DEF Shift
<1>7. delivered'[t] = delivered[t] /\ lost'[t] = lost[t]
  BY <1>5 DEF Shift, Decide, TypesOK
<1>8. \A q \in Observers : (Ahead(q, j)' <=> Ahead(q, j)) /\ (Ahead(q, j) => thread'[q].event = thread[q].event)
  BY <1>2, <1>3 DEF Ahead
<1>9. Arrived(j)' = Arrived(j)
  BY <1>1, <1>8 DEF Arrived
<1>10. Books(j, t)
  BY DEF BooksOK
<1> QED
  BY <1>2, <1>3, <1>4, <1>6, <1>7, <1>9, <1>10, BooksKept

\* A step of a call, in the books of the sink that is called.
LEMMA CalledSink ==
    ASSUME TypesOK, BooksOK, NEW o \in Observers, NEW s \in SinkNames, WorkOK(o, s),
           NEW j, j = thread[o].at
    PROVE  Books(j, s)'
<1>1. /\ ThreadMoves(o) /\ s = SinkOf(o) /\ configured' = configured /\ detected' = detected
      /\ thread[o].call \in {"send", "flush"} /\ j \in 1..Len(configured)
  BY DEF WorkOK, ThreadMoves
<1>2. /\ \A q \in Observers : q # o => thread'[q] = thread[q]
      /\ ~Ahead(o, j)'
      /\ Unflushed(o, j)' <=> Unflushed(o, j) /\ thread[o].call = "send"
  BY <1>1, MoveFacts
<1>3. Books(j, s)
  BY <1>1 DEF BooksOK, SinkOf
<1>4. PICK D \in SUBSET Events, L \in SUBSET Events : Shift(o, s, D, L)
  BY DEF WorkOK
<1>5. delivered'[s] = delivered[s] \cup D /\ lost'[s] = lost[s] \cup L
  BY <1>4 DEF Shift, Decide, TypesOK
<1>6. Arrived(j)' = Arrived(j) \cup Fresh(o)
  <2>1. \A q \in Observers : q # o => (Ahead(q, j)' <=> Ahead(q, j)) /\ thread'[q].event = thread[q].event
    BY <1>2 DEF Ahead
  <2>2. Arrived(j)' = {e \in 1..detected : \A q \in Observers : q # o /\ Ahead(q, j) => thread[q].event # e}
    BY <1>1, <1>2, <2>1 DEF Arrived
  <2>3. CASE Ahead(o, j)
    <3>1. Fresh(o) = {thread[o].event} /\ thread[o].event \in 1..detected
      <4>1. thread[o].call = "send" /\ thread[o].io = "none"
        BY <1>1, <2>3 DEF Ahead
      <4>2. thread[o] # Idle /\ thread[o] # Stopped
        BY <4>1, IdleFields
      <4> QED
        BY <4>1, <4>2 DEF Fresh, TypesOK, ThreadOK
    <3>2. \A q \in Observers : q # o /\ Ahead(q, j) => thread[q].event # thread[o].event
      BY <2>3 DEF BooksOK, Senders, Ahead
    <3> QED
      BY <2>2, <2>3, <3>1, <3>2 DEF Arrived
  <2>4. CASE ~Ahead(o, j)
    <3>1. Fresh(o) = {}
      BY <2>4 DEF Fresh, Ahead
    <3> QED
      BY <2>2, <2>4, <3>1 DEF Arrived
  <2> QED
    BY <2>3, <2>4
<1>7. Fresh(o) \cap Arrived(j) = {}
  BY DEF Fresh, Arrived, Ahead
<1> DEFINE W == Waiting(s)
           C == Carries(o, s)
           R == Others(o, s)
           W1 == Waiting(s)'
           C1 == Carries(o, s)'
           F == Fresh(o)
<1>8. /\ W1 \cup C1 \cup D \cup L = W \cup C \cup F
      /\ W1 \cap C1 = {} /\ D \cap L = {} /\ (W1 \cup C1) \cap (D \cup L) = {}
  BY <1>4 DEF Shift
<1>9. Carried(s) = C \cup R /\ Carried(s)' = C1 \cup R
  BY <1>2, CarriedSplit, OthersKept
<1>10. \A q \in Observers : q # o => Carries(q, s)' = Carries(q, s) /\ Carries(q, s) \subseteq R
  BY <1>2, OthersKept DEF Others
<1>11. C \cap R = {}
  BY <1>3 DEF Books, Apart, Others
<1>12. /\ delivered[s] \cap lost[s] = {} /\ (W \cup C \cup R) \cap (delivered[s] \cup lost[s]) = {}
       /\ W \cap (C \cup R) = {} /\ W \cup C \cup R \cup delivered[s] \cup lost[s] = Arrived(j)
  BY <1>3, <1>9 DEF Books, Apart
<1> HIDE DEF W, C, R, W1, C1, F
<1>13. /\ delivered'[s] \cap lost'[s] = {}
       /\ (W1 \cup C1 \cup R) \cap (delivered'[s] \cup lost'[s]) = {}
       /\ W1 \cap (C1 \cup R) = {} /\ C1 \cap R = {}
       /\ W1 \cup C1 \cup R \cup delivered'[s] \cup lost'[s] = Arrived(j) \cup F
  <2>1. /\ F \cap (delivered[s] \cup lost[s]) = {} /\ F \cap R = {} /\ R \cap (delivered[s] \cup lost[s]) = {}
        /\ R \cap (W \cup C \cup F) = {}
    BY <1>7, <1>11, <1>12 DEF F
  <2>2. /\ D \subseteq W \cup C \cup F /\ L \subseteq W \cup C \cup F
        /\ W1 \subseteq W \cup C \cup F /\ C1 \subseteq W \cup C \cup F
    BY <1>8
  <2>3. (W \cup C \cup F) \cap (delivered[s] \cup lost[s]) = {}
    BY <1>12, <2>1
  <2>4. delivered'[s] \cap lost'[s] = {}
    BY <1>5, <1>8, <1>12, <2>2, <2>3
  <2>5. (W1 \cup C1 \cup R) \cap (delivered'[s] \cup lost'[s]) = {}
    BY <1>5, <1>8, <2>1, <2>2, <2>3
  <2>6. W1 \cap (C1 \cup R) = {} /\ C1 \cap R = {}
    BY <1>8, <2>1, <2>2
  <2>7. W1 \cup C1 \cup R \cup delivered'[s] \cup lost'[s] = Arrived(j) \cup F
    BY <1>5, <1>8, <1>12
  <2> QED
    BY <2>4, <2>5, <2>6, <2>7
<1>14. Apart(s)'
  <2>1. ASSUME NEW p \in Observers, NEW q \in Observers, p # q
        PROVE  Carries(p, s)' \cap Carries(q, s)' = {}
    <3>1. CASE p # o /\ q # o
      BY <1>3, <1>10, <2>1, <3>1 DEF Books, Apart
    <3>2. CASE p = o
      BY <1>10, <1>13, <2>1, <3>2 DEF C1
    <3>3. CASE q = o
      BY <1>10, <1>13, <2>1, <3>3 DEF C1
    <3> QED
      BY <3>1, <3>2, <3>3
  <2> QED
    BY <1>9, <1>13, <2>1 DEF Apart, W1
<1>15. W1 # {} => \E q \in Observers : Unflushed(q, j)'
  <2>1. CASE thread[o].call = "send"
    BY <1>2, <2>1 DEF Unflushed
  <2>2. CASE thread[o].call = "flush" /\ W1 # {}
    <3>1. thread[o].io # "none" /\ W1 = W
      BY <1>4, <2>2 DEF Shift, W, W1
    <3>2. PICK q \in Observers : Unflushed(q, j)
      BY <1>3, <2>2, <3>1 DEF Books, W
    <3>3. q # o
      BY <1>1, <2>2, <3>1, <3>2 DEF Unflushed
    <3>4. Unflushed(q, j)'
      BY <1>2, <3>2, <3>3 DEF Unflushed
    <3> QED
      BY <3>4
  <2> QED
    BY <1>1, <2>1, <2>2
<1> QED
  BY <1>6, <1>9, <1>13, <1>14, <1>15 DEF Books, W1, F

\* A step of a call keeps the books.
LEMMA WorkKeepsBooks ==
    ASSUME TypesOK, BooksOK, NEW o \in Observers, NEW s \in SinkNames, WorkOK(o, s)
    PROVE  BooksOK'
<1>1. /\ ThreadMoves(o) /\ s = SinkOf(o) /\ configured' = configured /\ detected' = detected
  BY DEF WorkOK
<1>2. Senders'
  <2>1. /\ \A q \in Observers : q # o => thread'[q] = thread[q]
        /\ thread'[o].call = "send" => thread[o].call = "send" /\ thread'[o].event = thread[o].event
    BY <1>1, MoveFacts
  <2> QED
    BY <2>1 DEF Senders, BooksOK
<1>3. ASSUME NEW j \in 1..Len(configured), NEW t \in SinkNames, t = configured[j]
      PROVE  Books(j, t)'
  <2>1. CASE t # s
    BY <1>3, <2>1, OtherSinks
  <2>2. CASE t = s
    <3>1. thread[o].at \in 1..Len(configured) /\ configured[thread[o].at] = configured[j]
      BY <1>1, <1>3, <2>2 DEF ThreadMoves, SinkOf
    <3>2. thread[o].at = j
      BY <3>1, DeploymentFacts DEF TypesOK
    <3> QED
      BY <2>2, <3>2, CalledSink
  <2> QED
    BY <2>1, <2>2
<1> QED
  BY <1>1, <1>2, <1>3 DEF BooksOK

\* ... and the types.
LEMMA WorkKeepsTypes ==
    ASSUME TypesOK, NEW o \in Observers, NEW s \in SinkNames, WorkOK(o, s)
    PROVE  TypesOK'
<1>1. /\ ThreadMoves(o) /\ BufferTypes' /\ UNCHANGED <<configured, detected, shutdown>>
  BY DEF WorkOK
<1>2. /\ thread' \in [Observers -> Threads'] /\ ThreadOK(o)'
      /\ \A q \in Observers : q # o => thread'[q] = thread[q]
  BY <1>1, MoveFacts
<1>3. \A q \in Observers : ThreadOK(q)'
  BY <1>1, <1>2 DEF TypesOK, ThreadOK, SinkOf
<1>4. delivered' \in [SinkNames -> SUBSET Events] /\ lost' \in [SinkNames -> SUBSET Events]
  <2>1. PICK D \in SUBSET Events, L \in SUBSET Events : Shift(o, s, D, L)
    BY DEF WorkOK
  <2> QED
    BY <2>1 DEF Shift, Decide, TypesOK
<1> QED
  BY <1>1, <1>2, <1>3, <1>4 DEF TypesOK, BufferTypes

-----------------------------------------------------------------------------
(* The steps of the drain loops.                                           *)

\* An observer that is between two records begins a call to the first sink.
Starts(o, t) ==
    /\ thread[o] = Idle /\ t.at = 1 /\ t.io = "none"
    /\ thread' = [thread EXCEPT ![o] = t]
    /\ UNCHANGED <<configured, buffer, delivered, lost, writes>>

LEMMA StartFacts ==
    ASSUME TypesOK, NEW o \in Observers, NEW t, Starts(o, t), t.call \in {"send", "flush"}
    PROVE  /\ thread'[o] = t /\ \A q \in Observers : q # o => thread'[q] = thread[q]
           /\ \A s \in SinkNames : Carries(o, s)' = Carries(o, s) /\ Waiting(s)' = Waiting(s)
           /\ \A j \in 1..Len(configured) :
                 /\ ~Ahead(o, j) /\ (Ahead(o, j)' <=> t.call = "send") /\ Unflushed(o, j)'
<1>1. thread'[o] = t /\ \A q \in Observers : q # o => thread'[q] = thread[q]
  BY DEF Starts, TypesOK
<1>2. ASSUME NEW s \in SinkNames PROVE Carries(o, s)' = Carries(o, s) /\ Waiting(s)' = Waiting(s)
  <2>1. Carries(o, s) = CarriesBy(Idle, s) /\ Carries(o, s)' = CarriesBy(t, s)
    BY <1>1, CarriesUnfold DEF Starts
  <2>2. CarriesBy(Idle, s) = {} /\ CarriesBy(t, s) = {}
    BY CarriesCases, IdleFields DEF Starts
  <2> QED
    BY <2>1, <2>2 DEF Starts, Waiting
<1>3. ASSUME NEW j \in 1..Len(configured)
      PROVE  ~Ahead(o, j) /\ (Ahead(o, j)' <=> t.call = "send") /\ Unflushed(o, j)'
  <2>1. 1 < j \/ 1 = j
    BY DeploymentFacts DEF TypesOK
  <2>2. ~Ahead(o, j)
    BY IdleFields DEF Ahead, Starts
  <2> QED
    BY <1>1, <2>1, <2>2 DEF Ahead, Unflushed, Starts
<1> QED
  BY <1>1, <1>2, <1>3

LEMMA DetectKeeps ==
    ASSUME TypesOK, BooksOK, NEW o \in Observers, detect(o)
    PROVE  TypesOK' /\ BooksOK'
<1> DEFINE t == [Idle EXCEPT !.call = "send", !.at = 1, !.event = detected + 1]
<1>1. t.call = "send" /\ t.at = 1 /\ t.io = "none" /\ t.event = detected + 1
  BY DEF Idle
<1>2. /\ Starts(o, t) /\ detected' = detected + 1 /\ detected < MaxEvents
      /\ UNCHANGED <<configured, shutdown, buffer, delivered, lost>>
  BY <1>1 DEF detect, Starts, ioVars
<1>3. /\ detected \in Nat /\ detected' \in 0..MaxEvents /\ detected + 1 \in 1..detected'
      /\ 1..detected \subseteq 1..detected' /\ 1..detected' = (1..detected) \cup {detected + 1}
      /\ detected + 1 \notin 1..detected /\ Len(configured) \in Nat \ {0}
  <2>1. detected \in Nat /\ MaxEvents \in Nat
    BY SinksAssumption DEF TypesOK
  <2>2. Len(configured) \in Nat \ {0}
    BY DeploymentFacts DEF TypesOK
  <2>3. 1..(detected + 1) = (1..detected) \cup {detected + 1}
    BY <2>1
  <2>4. detected' \in 0..MaxEvents /\ detected + 1 \in 1..detected' /\ detected + 1 \notin 1..detected
    BY <1>2, <2>1
  <2> QED
    BY <1>2, <2>1, <2>2, <2>3, <2>4
<1>4. t \in Threads
  <2>1. Idle \in Threads /\ 1 \in 0..Len(configured) /\ detected + 1 \in 0..MaxEvents
    BY <1>2, <1>3, IdleTypes DEF TypesOK
  <2> QED
    BY <2>1 DEF Threads
<1> HIDE DEF t
<1>5. /\ thread'[o] = t /\ \A q \in Observers : q # o => thread'[q] = thread[q]
      /\ \A s \in SinkNames : Carries(o, s)' = Carries(o, s) /\ Waiting(s)' = Waiting(s)
      /\ \A j \in 1..Len(configured) : ~Ahead(o, j) /\ Ahead(o, j)' /\ Unflushed(o, j)'
  BY <1>1, <1>2, StartFacts
<1>6. \A q \in Observers : thread[q].call = "send" => thread[q].event \in 1..detected
  BY IdleFields DEF TypesOK, ThreadOK
<1>7. TypesOK'
  <2>1. thread' \in [Observers -> Threads']
    BY <1>2, <1>4 DEF Starts, TypesOK, Threads
  <2>2. ThreadOK(o)'
    BY <1>1, <1>2, <1>3, <1>5 DEF ThreadOK
  <2>3. ASSUME NEW q \in Observers, q # o PROVE ThreadOK(q)'
    BY <1>2, <1>3, <1>5, <2>3 DEF TypesOK, ThreadOK, SinkOf
  <2> QED
    BY <1>2, <1>3, <2>1, <2>2, <2>3 DEF TypesOK
<1>8. Senders'
  BY <1>1, <1>3, <1>5, <1>6 DEF Senders, BooksOK
<1>9. ASSUME NEW j \in 1..Len(configured), NEW s \in SinkNames, s = configured[j]
      PROVE  Books(j, s)'
  <2>1. \A q \in Observers : q # o => (Ahead(q, j)' <=> Ahead(q, j)) /\ thread'[q].event = thread[q].event
    BY <1>5 DEF Ahead
  <2>2. ASSUME NEW e \in 1..detected'
        PROVE  (\A q \in Observers : Ahead(q, j)' => thread'[q].event # e)
                 <=> e \in Arrived(j)
    <3>1. CASE e = detected + 1
      BY <1>1, <1>3, <1>5, <3>1 DEF Arrived
    <3>2. CASE e # detected + 1
      <4>1. e \in 1..detected
        BY <1>3, <3>2
      <4> QED
        BY <1>1, <1>5, <2>1, <3>2, <4>1 DEF Arrived
    <3> QED
      BY <3>1, <3>2
  <2>3. Arrived(j)' = {e \in 1..detected' : \A q \in Observers : Ahead(q, j)' => thread'[q].event # e}
    BY DEF Arrived
  <2>4. Arrived(j) \subseteq 1..detected'
    BY <1>3 DEF Arrived
  <2>5. Arrived(j)' = Arrived(j)
    BY <2>2, <2>3, <2>4
  <2>6. Books(j, s)
    BY <1>9 DEF BooksOK
  <2> QED
    BY <1>2, <1>5, <2>5, <2>6, BooksKept
<1> QED
  BY <1>2, <1>7, <1>8, <1>9 DEF BooksOK

LEMMA EndKeeps ==
    ASSUME TypesOK, BooksOK, NEW o \in Observers, observer_end(o)
    PROVE  TypesOK' /\ BooksOK'
<1> DEFINE t == [Idle EXCEPT !.call = "flush", !.at = 1]
<1>1. t.call = "flush" /\ t.at = 1 /\ t.io = "none"
  BY DEF Idle
<1>2. Starts(o, t) /\ UNCHANGED <<configured, detected, shutdown, buffer, delivered, lost>>
  BY <1>1 DEF observer_end, Starts, ioVars
<1>3. Len(configured) \in Nat \ {0}
  BY DeploymentFacts DEF TypesOK
<1>4. t \in Threads
  <2>1. Idle \in Threads /\ 1 \in 0..Len(configured)
    BY <1>3, IdleTypes DEF TypesOK
  <2> QED
    BY <2>1 DEF Threads
<1> HIDE DEF t
<1>5. /\ thread'[o] = t /\ \A q \in Observers : q # o => thread'[q] = thread[q]
      /\ \A s \in SinkNames : Carries(o, s)' = Carries(o, s) /\ Waiting(s)' = Waiting(s)
      /\ \A j \in 1..Len(configured) : ~Ahead(o, j) /\ ~Ahead(o, j)' /\ Unflushed(o, j)'
  BY <1>1, <1>2, StartFacts
<1>6. TypesOK'
  <2>1. thread' \in [Observers -> Threads']
    BY <1>2, <1>4 DEF Starts, TypesOK, Threads
  <2>2. ThreadOK(o)'
    BY <1>1, <1>2, <1>3, <1>5 DEF ThreadOK
  <2>3. ASSUME NEW q \in Observers, q # o PROVE ThreadOK(q)'
    BY <1>2, <1>5, <2>3 DEF TypesOK, ThreadOK, SinkOf
  <2> QED
    BY <1>2, <2>1, <2>2, <2>3 DEF TypesOK
<1>7. Senders'
  BY <1>1, <1>5 DEF Senders, BooksOK
<1>8. ASSUME NEW j \in 1..Len(configured), NEW s \in SinkNames, s = configured[j]
      PROVE  Books(j, s)'
  <2>1. \A q \in Observers :
          (Ahead(q, j)' <=> Ahead(q, j)) /\ (Ahead(q, j) => thread'[q].event = thread[q].event)
    BY <1>5 DEF Ahead
  <2>2. Arrived(j)' = Arrived(j)
    BY <1>2, <2>1 DEF Arrived
  <2>3. Books(j, s)
    BY <1>8 DEF BooksOK
  <2> QED
    BY <1>2, <1>5, <2>2, <2>3, BooksKept
<1> QED
  BY <1>2, <1>6, <1>7, <1>8 DEF BooksOK

-----------------------------------------------------------------------------
(* The clocks, the files and the failures.                                 *)

LEMMA FailsType ==
    ASSUME ClocksOK, UNCHANGED failures \/ Fails
    PROVE  failures' \in 0..MaxFailures
  BY SinksAssumption DEF ClocksOK, Fails

LEMMA TickClocks ==
    ASSUME ClocksOK, tick
    PROVE  ClocksOK'
<1>1. flush_interval \in Nat /\ MAX_BACKOFF \in Nat
  BY SinksAssumption
<1>2. since' \in [Buffered -> 0..flush_interval]
  <2>1. ASSUME NEW s \in Buffered PROVE MinOf(since[s] + 1, flush_interval) \in 0..flush_interval
    BY <1>1 DEF ClocksOK, MinOf
  <2>2. 0 \in 0..flush_interval
    BY <1>1
  <2> QED
    BY <2>1, <2>2 DEF tick
<1>3. retry_in' \in 0..MAX_BACKOFF
  BY <1>1 DEF tick, ClocksOK
<1> QED
  BY <1>2, <1>3 DEF tick, ClocksOK, ioVars

LEMMA StepClocks ==
    ASSUME TypesOK, ClocksOK, NEW o \in Observers, CallStep(o) \/ IoStep(o)
    PROVE  ClocksOK'
<1>1. /\ flush_interval \in Nat /\ INITIAL_BACKOFF \in Nat /\ MAX_BACKOFF \in Nat
      /\ INITIAL_BACKOFF <= MAX_BACKOFF /\ 0 \in 0..flush_interval
  BY SinksAssumption
<1>2. /\ thread[o].call = "send" => thread[o].event \in Events
      /\ thread[o].io = "write" => thread[o].event \in Events
  BY Busy
<1>3. CASE stdout_send(o)
  <2>1. UNCHANGED <<since, httpClock, files>> /\ failures' \in 0..MaxFailures
    BY <1>3, FailsType DEF stdout_send
  <2> QED
    BY <2>1 DEF ClocksOK, httpClock
<1>4. CASE file_create(o) \/ file_write(o)
  <2>1. UNCHANGED <<since, httpClock>> /\ failures' \in 0..MaxFailures
    BY <1>4, FailsType DEF file_create, file_write
  <2>2. files' \in [Events -> {"absent", "partial", "complete"}]
    BY <1>2, <1>4 DEF file_create, file_write, Calls, ClocksOK
  <2> QED
    BY <2>1, <2>2 DEF ClocksOK, httpClock
<1>5. CASE unbuffered_flush(o) \/ export_ok(o)
  BY <1>5 DEF unbuffered_flush, export_ok, ClocksOK, httpClock, ioVars
<1>6. CASE export_retry(o) \/ export_err(o)
  <2>1. UNCHANGED <<since, httpClock, files>> /\ failures' \in 0..MaxFailures
    BY <1>6, FailsType DEF export_retry, export_err
  <2> QED
    BY <2>1 DEF ClocksOK, httpClock
<1>7. CASE http_send(o) \/ otlp_send(o) \/ http_flush(o) \/ otlp_flush(o)
  <2>1. UNCHANGED <<httpClock, files, failures>>
    BY <1>7 DEF http_send, otlp_send, http_flush, otlp_flush, flush_locked, ioVars
  <2>2. \/ since' = since
        \/ \E s \in Buffered : since' = [since EXCEPT ![s] = 0]
    BY <1>7 DEF http_send, otlp_send, http_flush, otlp_flush, flush_locked, send_locked, Buffered
  <2>3. since' \in [Buffered -> 0..flush_interval]
    BY <1>1, <2>2 DEF ClocksOK
  <2> QED
    BY <2>1, <2>3 DEF ClocksOK, httpClock
<1>8. CASE post_batch_ok(o)
  <2>1. INITIAL_BACKOFF \in INITIAL_BACKOFF..MAX_BACKOFF
    BY <1>1
  <2> QED
    BY <1>8, <2>1 DEF post_batch_ok, ClocksOK
<1>9. CASE post_batch_err(o)
  <2>1. UNCHANGED <<since, files>> /\ failures' \in 0..MaxFailures
    BY <1>9, FailsType DEF post_batch_err
  <2>2. backoff \in INITIAL_BACKOFF..MAX_BACKOFF
    BY DEF ClocksOK
  <2>3. backoff \in 0..MAX_BACKOFF /\ MinOf(2 * backoff, MAX_BACKOFF) \in INITIAL_BACKOFF..MAX_BACKOFF
    BY <1>1, <2>2 DEF MinOf
  <2> QED
    BY <1>9, <2>1, <2>3 DEF post_batch_err, ClocksOK
<1> QED
  BY <1>3, <1>4, <1>5, <1>6, <1>7, <1>8, <1>9 DEF CallStep, IoStep

-----------------------------------------------------------------------------
(* sink_writes_total.                                                      *)

\* A step that counts nothing and after which the same calls have returned.
LEMMA CountsKept ==
    ASSUME CountsOK, UNCHANGED <<configured, writes>>,
           \A j \in 1..Len(configured) : Called(j)' = Called(j)
    PROVE  CountsOK'
  BY DEF CountsOK

LEMMA CalledFinite ==
    ASSUME TypesOK, NEW j
    PROVE  /\ IsFiniteSet(Called(j)) /\ Cardinality(Called(j)) \in Nat
           /\ Cardinality(Called(j)) <= MaxEvents
<1>1. 1 \in Int /\ detected \in Int /\ detected \in Nat /\ detected <= MaxEvents /\ MaxEvents \in Nat
  BY SinksAssumption DEF TypesOK
<1>2. IsFiniteSet(1..detected) /\ Cardinality(1..detected) = IF 1 > detected THEN 0 ELSE detected - 1 + 1
  BY <1>1, FS_Interval
<1>3. Called(j) \subseteq 1..detected
  BY DEF Called
<1>4. IsFiniteSet(Called(j)) /\ Cardinality(Called(j)) <= Cardinality(1..detected)
  BY <1>2, <1>3, FS_Subset
<1>5. Cardinality(Called(j)) \in Nat
  BY <1>4, FS_CardinalityType
<1>6. Cardinality(1..detected) \in Nat /\ Cardinality(1..detected) <= MaxEvents
  BY <1>1, <1>2
<1> QED
  BY <1>1, <1>4, <1>5, <1>6

\* What a move changes of the calls that have returned.
LEMMA CalledByMove ==
    ASSUME TypesOK, BooksOK, NEW o \in Observers, ThreadMoves(o),
           UNCHANGED <<configured, detected>>, NEW j \in 1..Len(configured)
    PROVE  /\ thread[o].call = "send" /\ Returns(o) /\ j = thread[o].at =>
                 /\ thread[o].event \notin Called(j)
                 /\ Called(j)' = Called(j) \cup {thread[o].event}
           /\ ~(thread[o].call = "send" /\ Returns(o) /\ j = thread[o].at) =>
                 Called(j)' = Called(j)
<1> DEFINE a == thread[o].at
           n == Len(configured)
           e == thread[o].event
           Sends(q) == thread[q].call = "send" /\ thread[q].at <= j
<1>1. /\ a \in 1..n /\ n \in Nat /\ j \in 1..n /\ thread[o].call \in {"send", "flush"}
  BY DeploymentFacts DEF TypesOK, ThreadMoves
<1>2. /\ \A q \in Observers : q # o => thread'[q] = thread[q]
      /\ thread'[o].call = "send" => thread[o].call = "send" /\ thread'[o].event = e
  BY MoveFacts
<1>3. \A q \in Observers : q # o => (Sends(q)' <=> Sends(q)) /\ thread'[q].event = thread[q].event
  BY <1>2
<1>4. Called(j) = {x \in 1..detected : \A q \in Observers : Sends(q) => thread[q].event # x}
  BY DEF Called
<1>5. Called(j)' = {x \in 1..detected : \A q \in Observers : Sends(q)' => thread'[q].event # x}
  BY DEF Called
<1>6. Sends(o)' <=> Sends(o) /\ ~(Returns(o) /\ j = a)
  <2>1. CASE Returns(o) /\ a < n
    <3>1. thread'[o] = [Idle EXCEPT !.call = thread[o].call, !.event = thread[o].event, !.at = a + 1]
      BY <2>1 DEF Returns
    <3>2. thread'[o].call = thread[o].call /\ thread'[o].at = a + 1
      BY <3>1 DEF Idle
    <3>3. a + 1 <= j <=> a <= j /\ j # a
      BY <1>1
    <3> QED
      BY <2>1, <3>2, <3>3
  <2>2. CASE Returns(o) /\ ~(a < n)
    <3>1. thread'[o].call # "send"
      BY <1>1, <2>2, IdleFields DEF Returns
    <3>2. a = n /\ (a <= j => j = a)
      BY <1>1, <2>2
    <3> QED
      BY <2>2, <3>1, <3>2
  <2>3. CASE ~Returns(o)
    <3>1. thread'[o].call = thread[o].call /\ thread'[o].at = thread[o].at
      <4>1. thread[o] \in Threads
        BY DEF TypesOK
      <4>2. CASE Begins(o)
        <5>1. thread'[o] = [thread[o] EXCEPT !.io = thread'[o].io, !.batch = thread'[o].batch]
          BY <4>2 DEF Begins
        <5> QED
          BY <4>1, <5>1 DEF Threads
      <4>3. CASE Retries1(o)
        BY <4>1, <4>3 DEF Retries1, Threads
      <4> QED
        BY <2>3, <4>2, <4>3 DEF ThreadMoves
    <3> QED
      BY <2>3, <3>1
  <2> QED
    BY <2>1, <2>2, <2>3
<1>7. Sends(o)' => thread'[o].event = e
  BY <1>2
<1>8. Sends(o) => e \in 1..detected /\ \A q \in Observers : q # o /\ Sends(q) => thread[q].event # e
  BY IdleFields DEF TypesOK, ThreadOK, BooksOK, Senders
<1>9. thread[o].call = "send" /\ j = a => Sends(o)
  BY <1>1
<1> HIDE DEF Sends, a, e
<1>10. CASE thread[o].call = "send" /\ Returns(o) /\ j = a
  <2>1. Sends(o) /\ ~Sends(o)'
    BY <1>6, <1>9, <1>10
  <2>2. e \notin Called(j)
    BY <1>4, <2>1 DEF e
  <2>3. Called(j)' = {x \in 1..detected : \A q \in Observers : q # o /\ Sends(q) => thread[q].event # x}
    BY <1>3, <1>5, <2>1
  <2>4. Called(j)' = Called(j) \cup {e}
    BY <1>4, <1>8, <2>1, <2>3 DEF e
  <2> QED
    BY <1>10, <2>2, <2>4 DEF a, e
<1>11. CASE ~(thread[o].call = "send" /\ Returns(o) /\ j = a)
  <2>1. Sends(o)' <=> Sends(o)
    BY <1>6, <1>11 DEF Sends
  <2>2. Called(j)' = Called(j)
    BY <1>3, <1>4, <1>5, <1>7, <2>1 DEF e
  <2> QED
    BY <1>11, <2>2 DEF a
<1> QED
  BY <1>10, <1>11

LEMMA WorkCounts ==
    ASSUME TypesOK, BooksOK, CountsOK, NEW o \in Observers, NEW s \in SinkNames, WorkOK(o, s)
    PROVE  CountsOK'
<1>1. /\ ThreadMoves(o) /\ UNCHANGED <<configured, detected>> /\ s = SinkOf(o) /\ Counts(o)
      /\ thread[o].call \in {"send", "flush"} /\ thread[o].at \in 1..Len(configured)
  BY DEF WorkOK, ThreadMoves
<1>2. CASE /\ thread[o].call = "send" /\ Returns(o)
           /\ \E result \in {"ok", "err"} : writes' = [writes EXCEPT ![s][result] = @ + 1]
  <2>0. PICK a \in 1..Len(configured) : a = thread[o].at
    BY <1>1
  <2>1. PICK result \in {"ok", "err"} : writes' = [writes EXCEPT ![s][result] = @ + 1]
    BY <1>2
  <2>2. writes \in [SinkNames -> [ok : Nat, err : Nat]]
    BY DEF CountsOK
  <2>3. /\ writes' \in [SinkNames -> [ok : Nat, err : Nat]]
        /\ \A t \in SinkNames : t # s => writes'[t] = writes[t]
        /\ writes'[s].ok + writes'[s].err = writes[s].ok + writes[s].err + 1
    <3>1. writes[s].ok \in Nat /\ writes[s].err \in Nat
      BY <2>2
    <3>2. CASE result = "ok"
      <4>0. writes' = [writes EXCEPT ![s].ok = writes[s].ok + 1]
        BY <2>1, <2>2, <3>2
      <4>1. /\ writes' = [writes EXCEPT ![s] = [writes[s] EXCEPT !.ok = writes[s].ok + 1]]
            /\ writes'[s] = [writes[s] EXCEPT !.ok = writes[s].ok + 1]
        BY <2>2, <4>0
      <4>2. writes'[s] = [ok |-> writes[s].ok + 1, err |-> writes[s].err]
        <5>1. writes[s] \in [ok : Nat, err : Nat]
          BY <2>2
        <5> QED
          BY <4>1, <5>1
      <4>3. /\ writes'[s] \in [ok : Nat, err : Nat]
            /\ writes'[s].ok + writes'[s].err = writes[s].ok + writes[s].err + 1
        <5> DEFINE x == writes[s].ok
                   y == writes[s].err
        <5>1. x \in Nat /\ y \in Nat
          BY <3>1
        <5>2. writes'[s] = [ok |-> x + 1, err |-> y]
          BY <4>2
        <5> HIDE DEF x, y
        <5>3. [ok |-> x + 1, err |-> y] \in [ok : Nat, err : Nat] /\ (x + 1) + (y) = x + y + 1
          BY <5>1
        <5>4. writes'[s].ok = x + 1 /\ writes'[s].err = y
          BY <5>2
        <5> QED
          BY <5>2, <5>3, <5>4 DEF x, y
      <4> QED
        BY <2>2, <4>1, <4>3
    <3>3. CASE result = "err"
      <4>0. writes' = [writes EXCEPT ![s].err = writes[s].err + 1]
        BY <2>1, <2>2, <3>3
      <4>1. /\ writes' = [writes EXCEPT ![s] = [writes[s] EXCEPT !.err = writes[s].err + 1]]
            /\ writes'[s] = [writes[s] EXCEPT !.err = writes[s].err + 1]
        BY <2>2, <4>0
      <4>2. writes'[s] = [ok |-> writes[s].ok, err |-> writes[s].err + 1]
        <5>1. writes[s] \in [ok : Nat, err : Nat]
          BY <2>2
        <5> QED
          BY <4>1, <5>1
      <4>3. /\ writes'[s] \in [ok : Nat, err : Nat]
            /\ writes'[s].ok + writes'[s].err = writes[s].ok + writes[s].err + 1
        <5> DEFINE x == writes[s].ok
                   y == writes[s].err
        <5>1. x \in Nat /\ y \in Nat
          BY <3>1
        <5>2. writes'[s] = [ok |-> x, err |-> y + 1]
          BY <4>2
        <5> HIDE DEF x, y
        <5>3. [ok |-> x, err |-> y + 1] \in [ok : Nat, err : Nat] /\ (x) + (y + 1) = x + y + 1
          BY <5>1
        <5>4. writes'[s].ok = x /\ writes'[s].err = y + 1
          BY <5>2
        <5> QED
          BY <5>2, <5>3, <5>4 DEF x, y
      <4> QED
        BY <2>2, <4>1, <4>3
    <3> QED
      BY <3>2, <3>3
  <2>4. a \in 1..Len(configured) /\ s = configured[a] /\ s \in Elems(configured)
    BY <1>1, <2>0, DeploymentFacts DEF SinkOf, TypesOK
  <2>5. Cardinality(Called(a)') = Cardinality(Called(a)) + 1
    <3>1. thread[o].event \notin Called(a) /\ Called(a)' = Called(a) \cup {thread[o].event}
      BY <1>1, <1>2, <2>0, CalledByMove
    <3> QED
      BY <3>1, CalledFinite, FS_AddElement
  <2>6. ASSUME NEW j \in 1..Len(configured), NEW t \in SinkNames, t = configured[j]
        PROVE  writes'[t].ok + writes'[t].err = Cardinality(Called(j)')
    <3>1. CASE j = a
      BY <2>3, <2>4, <2>5, <2>6, <3>1 DEF CountsOK
    <3>2. CASE j # a
      <4>1. t # s
        BY <2>4, <2>6, <3>2, DeploymentFacts DEF TypesOK
      <4>2. Called(j)' = Called(j)
        BY <1>1, <2>0, <3>2, CalledByMove
      <4> QED
        BY <2>3, <2>6, <4>1, <4>2 DEF CountsOK
    <3> QED
      BY <3>1, <3>2
  <2>7. \A t \in SinkNames : t \notin Elems(configured) => writes'[t].ok = 0 /\ writes'[t].err = 0
    BY <2>3, <2>4 DEF CountsOK
  <2> QED
    BY <1>1, <2>3, <2>6, <2>7 DEF CountsOK
<1>3. CASE thread[o].call = "flush" /\ writes' = writes
  <2>1. \A j \in 1..Len(configured) : Called(j)' = Called(j)
    BY <1>1, <1>3, CalledByMove
  <2> QED
    BY <1>1, <1>3, <2>1, CountsKept
<1>4. CASE /\ thread'[o].call = thread[o].call /\ thread'[o].at = thread[o].at
           /\ thread'[o].event = thread[o].event /\ writes' = writes
  <2>1. ~Returns(o)
    <3> SUFFICES ASSUME Returns(o) PROVE FALSE
      OBVIOUS
    <3>1. [Idle EXCEPT !.call = thread[o].call, !.event = thread[o].event,
                       !.at = thread[o].at + 1].at = thread[o].at + 1
      BY DEF Idle
    <3>2. thread[o].at \in Nat /\ thread[o].at # thread[o].at + 1
      BY <1>1, DeploymentFacts DEF TypesOK
    <3> QED
      BY <1>1, <1>4, <3>1, <3>2, IdleFields DEF Returns
  <2>2. \A j \in 1..Len(configured) : Called(j)' = Called(j)
    BY <1>1, <2>1, CalledByMove
  <2> QED
    BY <1>1, <1>4, <2>2, CountsKept
<1> QED
  BY <1>1, <1>2, <1>3, <1>4 DEF Counts

LEMMA StartCounts ==
    ASSUME TypesOK, CountsOK, NEW o \in Observers, detect(o) \/ observer_end(o)
    PROVE  CountsOK'
<1>1. UNCHANGED <<configured, writes>> /\ detected \in Nat
  BY DEF detect, observer_end, TypesOK
<1>2. \A q \in Observers : thread[q].call = "send" => thread[q].event \in 1..detected
  BY IdleFields DEF TypesOK, ThreadOK
<1>3. thread[o].call # "send" /\ \A q \in Observers : q # o => thread'[q] = thread[q]
  BY IdleFields DEF detect, observer_end, TypesOK
<1>4. ASSUME NEW j \in 1..Len(configured) PROVE Called(j)' = Called(j)
  <2> DEFINE Sends(q) == thread[q].call = "send" /\ thread[q].at <= j
  <2>1. \A q \in Observers : q # o => (Sends(q)' <=> Sends(q)) /\ thread'[q].event = thread[q].event
    BY <1>3
  <2>2. Called(j) = {x \in 1..detected : \A q \in Observers : Sends(q) => thread[q].event # x}
    BY DEF Called
  <2>3. Called(j)' = {x \in 1..detected' : \A q \in Observers : Sends(q)' => thread'[q].event # x}
    BY DEF Called
  <2>4. ~Sends(o)
    BY <1>3
  <2>5. CASE detect(o)
    <3>1. thread'[o] = [Idle EXCEPT !.call = "send", !.at = 1, !.event = detected + 1]
      BY <2>5 DEF detect, TypesOK
    <3>2. thread'[o].call = "send" /\ thread'[o].at = 1 /\ thread'[o].event = detected + 1
      BY <3>1 DEF Idle
    <3>3. Sends(o)' /\ thread'[o].event = detected + 1
      <4>1. 1 <= j
        BY DeploymentFacts DEF TypesOK
      <4> QED
        BY <3>2, <4>1
    <3>4. detected' = detected + 1 /\ 1..(detected + 1) = (1..detected) \cup {detected + 1}
      BY <1>1, <2>5 DEF detect
    <3>5. detected + 1 \notin 1..detected
      BY <1>1
    <3> HIDE DEF Sends
    <3> QED
      BY <2>1, <2>2, <2>3, <2>4, <3>3, <3>4, <3>5
  <2>6. CASE observer_end(o)
    <3>1. thread'[o] = [Idle EXCEPT !.call = "flush", !.at = 1] /\ detected' = detected
      BY <2>6 DEF observer_end, TypesOK
    <3>2. thread'[o].call = "flush"
      BY <3>1 DEF Idle
    <3>3. ~Sends(o)'
      BY <3>2
    <3> HIDE DEF Sends
    <3> QED
      BY <2>1, <2>2, <2>3, <2>4, <3>1, <3>3
  <2> QED
    BY <2>5, <2>6
<1> QED
  BY <1>1, <1>4, CountsKept

-----------------------------------------------------------------------------
(* The inductive invariant.                                                *)

\* A step of nobody's call: time, the signal, or stuttering.
LEMMA QuietKeeps ==
    ASSUME TypesOK, BooksOK, CountsOK,
           UNCHANGED <<configured, detected, thread, buffer, delivered, lost, writes>>,
           shutdown' \in BOOLEAN
    PROVE  TypesOK' /\ BooksOK' /\ CountsOK'
<1>1. TypesOK'
  <2>1. Threads' = Threads /\ \A o \in Observers : ThreadOK(o)' = ThreadOK(o)
    BY DEF Threads, ThreadOK, SinkOf
  <2> QED
    BY <2>1 DEF TypesOK
<1>2. /\ \A s \in SinkNames : Waiting(s)' = Waiting(s)
      /\ \A s \in SinkNames : Apart(s)' = Apart(s) /\ Carried(s)' = Carried(s)
      /\ \A j \in 1..Len(configured) : Arrived(j)' = Arrived(j) /\ Called(j)' = Called(j)
  BY DEF Waiting, Apart, Carried, Carries, Arrived, Called, Ahead
<1>3. BooksOK'
  <2>1. Senders'
    BY DEF BooksOK, Senders
  <2>2. \A j \in 1..Len(configured) : \A s \in SinkNames : s = configured[j] => Books(j, s)'
    BY <1>2 DEF BooksOK, Books, Unflushed
  <2> QED
    BY <2>1, <2>2 DEF BooksOK
<1>4. CountsOK'
  BY <1>2, CountsKept
<1> QED
  BY <1>1, <1>3, <1>4

LEMMA SinksInit == Init => SinksIInv
<1> SUFFICES ASSUME Init PROVE SinksIInv
  OBVIOUS
<1>1. /\ configured \in Deployments /\ detected = 0 /\ thread = [o \in Observers |-> Idle]
      /\ delivered = [s \in SinkNames |-> {}] /\ lost = [s \in SinkNames |-> {}]
      /\ writes = [s \in SinkNames |-> [ok |-> 0, err |-> 0]]
      /\ buffer = [s \in Buffered |-> <<>>] /\ shutdown = FALSE
  BY DEF Init, create_sinks
<1>2. TypesOK
  <2>1. Idle \in Threads /\ \A o \in Observers : ThreadOK(o)
    BY <1>1, IdleTypes DEF ThreadOK
  <2>2. "http" \in Buffered /\ "otlp" \in Buffered /\ 0 \in 0..MaxEvents
    BY SinksAssumption DEF Buffered
  <2>3. buffer \in [Buffered -> Seq(Events)] /\ buffer["http"] = <<>> /\ buffer["otlp"] = <<>>
    BY <1>1, <2>2, EmptyBufferFits
  <2> QED
    BY <1>1, <2>1, <2>2, <2>3, EmptyBufferFits DEF TypesOK
<1>3. 1..detected = {}
  BY <1>1
<1>4. BooksOK
  <2>1. \A o \in Observers : thread[o].call # "send"
    BY <1>1, IdleFields
  <2>2. ASSUME NEW j, NEW s \in SinkNames PROVE Books(j, s)
    <3>1. Waiting(s) = {}
      BY <1>1, ElemsEmpty DEF Waiting
    <3>2. \A o \in Observers : Carries(o, s) = {}
      <4>1. CarriesBy(Idle, s) = {}
        BY CarriesCases, IdleFields
      <4> QED
        BY <1>1, <4>1, CarriesUnfold
    <3>3. Carried(s) = {} /\ Arrived(j) = {} /\ delivered[s] = {} /\ lost[s] = {}
      BY <1>1, <1>3, <3>2 DEF Carried, Arrived
    <3> QED
      BY <3>1, <3>2, <3>3 DEF Books, Apart
  <2> QED
    BY <2>1, <2>2 DEF BooksOK, Senders
<1>5. ClocksOK
  BY SinksAssumption DEF ClocksOK, Init, create_sinks
<1>6. CountsOK
  <2>1. \A j : Cardinality(Called(j)) = 0
    BY <1>3, FS_EmptySet DEF Called
  <2> QED
    BY <1>1, <2>1 DEF CountsOK
<1> QED
  BY <1>2, <1>4, <1>5, <1>6 DEF SinksIInv

\* A step of a call is work on a sink.
LEMMA CallWorks ==
    ASSUME SinksIInv, NEW o \in Observers, CallStep(o) \/ IoStep(o)
    PROVE  \E s \in SinkNames : WorkOK(o, s)
<1>1. thread[o].call \in {"send", "flush"} \/ thread[o].io # "none"
  BY DEF CallStep, IoStep, stdout_send, file_create, http_send, otlp_send, unbuffered_flush,
         http_flush, otlp_flush, Calls, file_write, post_batch_ok, post_batch_err, export_ok,
         export_retry, export_err
<1>2. \A s \in SinkNames : s = SinkOf(o) => Clear(o, s)
  BY <1>1, WorkerIsClear DEF SinksIInv
<1> QED
  BY <1>2, EveryWork DEF SinksIInv

LEMMA SinksStep == SinksIInv /\ [Next]_vars => SinksIInv'
<1> SUFFICES ASSUME SinksIInv, [Next]_vars PROVE SinksIInv'
  OBVIOUS
<1>1. TypesOK /\ BooksOK /\ ClocksOK /\ CountsOK
  BY DEF SinksIInv
<1>2. ASSUME NEW o \in Observers, detect(o) PROVE SinksIInv'
  <2>1. ClocksOK'
    BY <1>1, <1>2 DEF detect, ClocksOK, httpClock, ioVars
  <2> QED
    BY <1>1, <1>2, <2>1, DetectKeeps, StartCounts DEF SinksIInv
<1>3. ASSUME NEW o \in Observers, observer_end(o) PROVE SinksIInv'
  <2>1. ClocksOK'
    BY <1>1, <1>3 DEF observer_end, ClocksOK, httpClock, ioVars
  <2> QED
    BY <1>1, <1>3, <2>1, EndKeeps, StartCounts DEF SinksIInv
<1>4. ASSUME NEW o \in Observers, CallStep(o) \/ IoStep(o) PROVE SinksIInv'
  <2>1. PICK s \in SinkNames : WorkOK(o, s)
    BY <1>4, CallWorks
  <2>2. ClocksOK'
    BY <1>1, <1>4, StepClocks
  <2> QED
    BY <1>1, <2>1, <2>2, WorkKeepsTypes, WorkKeepsBooks, WorkCounts DEF SinksIInv
<1>5. CASE signal_shutdown
  <2>1. /\ UNCHANGED <<configured, detected, thread, buffer, delivered, lost, writes>>
        /\ shutdown' \in BOOLEAN
    BY <1>5 DEF signal_shutdown, ioVars
  <2>2. ClocksOK'
    BY <1>1, <1>5 DEF signal_shutdown, ClocksOK, httpClock, ioVars
  <2> QED
    BY <1>1, <2>1, <2>2, QuietKeeps DEF SinksIInv
<1>6. CASE tick
  <2>1. /\ UNCHANGED <<configured, detected, thread, buffer, delivered, lost, writes>>
        /\ shutdown' \in BOOLEAN
    BY <1>1, <1>6 DEF tick, ioVars, TypesOK
  <2> QED
    BY <1>1, <1>6, <2>1, QuietKeeps, TickClocks DEF SinksIInv
<1>7. CASE UNCHANGED vars
  <2>1. /\ UNCHANGED <<configured, detected, thread, buffer, delivered, lost, writes>>
        /\ shutdown' \in BOOLEAN
    BY <1>1, <1>7 DEF vars, ioVars, TypesOK
  <2>2. ClocksOK'
    BY <1>1, <1>7 DEF vars, ClocksOK, httpClock, ioVars
  <2> QED
    BY <1>1, <2>1, <2>2, QuietKeeps DEF SinksIInv
<1> QED
  BY <1>2, <1>3, <1>4, <1>5, <1>6, <1>7 DEF Next

\* In every reachable state each sink has every occurrence that has come to it in exactly
\* one place, whatever the threads of the observers do at the same time.
THEOREM SinksInductive == Spec => []SinksIInv
  BY SinksInit, SinksStep, PTL DEF Spec

\* The buffers never grow past their bounds and sink_writes_total never counts more than
\* has been detected: every variable keeps its type (http.rs and otlp.rs, send).
THEOREM BuffersStayBounded == Spec => []BuffersBounded
<1>1. SinksIInv => BuffersBounded
  <2> SUFFICES ASSUME SinksIInv PROVE BuffersBounded
    OBVIOUS
  <2>1. TypesOK /\ ClocksOK /\ CountsOK
    BY DEF SinksIInv
  <2>2. ASSUME NEW s \in SinkNames
        PROVE  writes[s] \in [ok : 0..MaxEvents, err : 0..MaxEvents]
    <3>1. writes[s] \in [ok : Nat, err : Nat] /\ MaxEvents \in Nat
      BY <2>1, SinksAssumption DEF CountsOK
    <3>2. writes[s].ok + writes[s].err <= MaxEvents
      <4>1. CASE s \in Elems(configured)
        <5>1. PICK j \in 1..Len(configured) : s = configured[j]
          BY <2>1, <4>1, DeploymentFacts DEF TypesOK
        <5> QED
          BY <2>1, <5>1, CalledFinite DEF CountsOK
      <4>2. CASE s \notin Elems(configured)
        BY <2>1, <3>1, <4>2 DEF CountsOK
      <4> QED
        BY <4>1, <4>2
    <3>3. writes[s].ok \in 0..MaxEvents /\ writes[s].err \in 0..MaxEvents
      BY <3>1, <3>2
    <3> QED
      BY <3>1, <3>3
  <2>3. writes \in [SinkNames -> [ok : 0..MaxEvents, err : 0..MaxEvents]]
    BY <2>1, <2>2 DEF CountsOK
  <2> QED
    BY <2>1, <2>3 DEF TypesOK, ClocksOK, BuffersBounded
<1> QED
  BY <1>1, SinksInductive, PTL

-----------------------------------------------------------------------------
(* The ledger.                                                             *)

\* The fate of an occurrence that is in one place at most.
Fate(s, e) ==
    IF e \in delivered[s] THEN "delivered"
    ELSE IF e \in lost[s] THEN "lost"
    ELSE IF e \in Waiting(s) \cup Carried(s) THEN "held" ELSE "new"

LEMMA FateKnown ==
    ASSUME NEW s, Apart(s), NEW e
    PROVE  FateOf(s, e) = Fate(s, e)
<1> DEFINE carriers == {o \in Observers : e \in Carries(o, s)}
           In(p) == CASE p = "held" -> e \in Waiting(s) \/ carriers # {}
                      [] p = "delivered" -> e \in delivered[s]
                      [] p = "lost" -> e \in lost[s]
           places == {p \in {"held", "delivered", "lost"} : In(p)}
           twice == \/ \E p, q \in places : p # q
                    \/ \E o, q \in carriers : o # q
                    \/ e \in Waiting(s) /\ carriers # {}
<1>1. FateOf(s, e) = CASE places = {} -> "new"
                       [] twice -> "twice"
                       [] OTHER -> CHOOSE p \in places : TRUE
  BY DEF FateOf
<1>2. carriers # {} <=> e \in Carried(s)
  BY DEF Carried
<1>3. \A o, q \in carriers : o = q
  BY DEF Apart
<1>4. ~(e \in Waiting(s) /\ carriers # {})
  BY <1>2 DEF Apart
<1>5. /\ In("held") <=> e \in Waiting(s) \cup Carried(s)
      /\ In("delivered") <=> e \in delivered[s]
      /\ In("lost") <=> e \in lost[s]
  BY <1>2
<1> HIDE DEF In, carriers
<1>6. /\ "held" \in places <=> e \in Waiting(s) \cup Carried(s)
      /\ "delivered" \in places <=> e \in delivered[s]
      /\ "lost" \in places <=> e \in lost[s]
      /\ places \subseteq {"held", "delivered", "lost"}
  BY <1>5
<1>7. /\ ~("held" \in places /\ "delivered" \in places) /\ ~("held" \in places /\ "lost" \in places)
      /\ ~("lost" \in places /\ "delivered" \in places)
  BY <1>6 DEF Apart
<1> HIDE DEF places
<1>8. \A p, q \in places : p = q
  BY <1>6, <1>7
<1>9. ~twice
  BY <1>3, <1>4, <1>8
<1> HIDE DEF twice
<1>10. CASE places = {}
  BY <1>1, <1>6, <1>9, <1>10 DEF Fate
<1>11. CASE places # {}
  <2>1. FateOf(s, e) = CHOOSE p \in places : TRUE
    BY <1>1, <1>9, <1>11
  <2>2. FateOf(s, e) \in places
    BY <1>11, <2>1
  <2> QED
    BY <1>6, <1>7, <2>2 DEF Fate
<1> QED
  BY <1>10, <1>11

\* What the mapping makes of the state.
FateMap == [s \in Elems(configured) |-> [e \in Events |-> FateOf(s, e)]]
Closed == \A o \in Observers : thread[o] = Stopped

LEMMA ConfiguredBooks ==
    ASSUME SinksIInv, NEW s \in Elems(configured)
    PROVE  /\ s \in SinkNames /\ Apart(s)
           /\ \E j \in 1..Len(configured) : s = configured[j] /\ Books(j, s)
<1>1. TypesOK /\ BooksOK
  BY DEF SinksIInv
<1>2. PICK j \in 1..Len(configured) : s = configured[j]
  BY <1>1, DeploymentFacts DEF TypesOK
<1>3. s \in SinkNames
  BY <1>1, <1>2, DeploymentFacts DEF TypesOK
<1>4. Books(j, s)
  BY <1>1, <1>2, <1>3 DEF BooksOK
<1> QED
  BY <1>2, <1>3, <1>4 DEF Books

LEMMA FateMapFacts ==
    SinksIInv => FateMap = [s \in Elems(configured) |-> [e \in Events |-> Fate(s, e)]]
<1> SUFFICES ASSUME SinksIInv
             PROVE  FateMap = [s \in Elems(configured) |-> [e \in Events |-> Fate(s, e)]]
  OBVIOUS
<1>1. \A s \in Elems(configured) : \A e \in Events : FateOf(s, e) = Fate(s, e)
  BY ConfiguredBooks, FateKnown
<1> QED
  BY <1>1 DEF FateMap

LEMMA AllApart == SinksIInv => \A s \in Elems(configured) : Apart(s)
  BY ConfiguredBooks

\* The same of the next state.
LEMMA FateMapNext ==
    SinksIInv' => FateMap' = [s \in Elems(configured') |-> [e \in Events |-> Fate(s, e)']]
<1>1. (SinksIInv => FateMap = [s \in Elems(configured) |-> [e \in Events |-> Fate(s, e)]])'
  BY FateMapFacts, PTL
<1> QED
  BY <1>1

LEMMA AllApartNext == SinksIInv' => \A s \in Elems(configured') : Apart(s)'
<1>1. (SinksIInv => \A s \in Elems(configured) : Apart(s))'
  BY AllApart, PTL
<1> QED
  BY <1>1

\* Steps that neither take in nor decide anything.
LEMMA LedgerStutters ==
    ASSUME SinksIInv, SinksIInv', configured' = configured,
           \A s \in SinkNames : /\ Waiting(s)' = Waiting(s) /\ Carried(s)' = Carried(s)
                                /\ delivered'[s] = delivered[s] /\ lost'[s] = lost[s]
    PROVE  FateMap' = FateMap
<1>1. FateMap = [s \in Elems(configured) |-> [e \in Events |-> Fate(s, e)]]
  BY FateMapFacts
<1>2. FateMap' = [s \in Elems(configured) |-> [e \in Events |-> Fate(s, e)']]
  BY FateMapNext
<1>3. \A s \in Elems(configured) : \A e \in Events : Fate(s, e)' = Fate(s, e)
  BY ConfiguredBooks DEF Fate
<1> QED
  BY <1>1, <1>2, <1>3

\* A step of a call is progress of the sink that is called.
LEMMA WorkProgress ==
    ASSUME SinksIInv, SinksIInv', NEW o \in Observers, NEW s \in SinkNames, WorkOK(o, s)
    PROVE  /\ s \in Elems(configured)
           /\ FateMap' = [FateMap EXCEPT ![s] = FateMap'[s]]
           /\ FateMap'[s] \in [Events -> Ledger!Fates]
           /\ \A e \in Events : FateMap'[s][e] # FateMap[s][e]
                 => <<FateMap[s][e], FateMap'[s][e]>> \in Ledger!Moves
<1>1. /\ TypesOK /\ ThreadMoves(o) /\ UNCHANGED <<configured, detected>> /\ s = SinkOf(o)
      /\ thread[o].call \in {"send", "flush"} /\ thread[o].at \in 1..Len(configured)
  BY DEF SinksIInv, WorkOK, ThreadMoves
<1>2. s \in Elems(configured)
  BY <1>1, DeploymentFacts DEF SinkOf, TypesOK
<1>3. \A q \in Observers : q # o => thread'[q] = thread[q]
  BY <1>1, MoveFacts
<1>4. PICK D \in SUBSET Events, L \in SUBSET Events : Shift(o, s, D, L)
  BY DEF WorkOK
<1>5. FateMap = [t \in Elems(configured) |-> [e \in Events |-> Fate(t, e)]]
  BY FateMapFacts
<1>6. FateMap' = [t \in Elems(configured) |-> [e \in Events |-> Fate(t, e)']]
  BY <1>1, FateMapNext
<1>7. ASSUME NEW t \in Elems(configured), t # s, NEW e \in Events PROVE Fate(t, e)' = Fate(t, e)
  <2>1. t \in SinkNames
    BY ConfiguredBooks
  <2>2. Waiting(t)' = Waiting(t) /\ Carries(o, t)' = {} /\ Carries(o, t) = {}
    BY <1>1, <1>4, <1>7, <2>1, Busy DEF Shift
  <2>3. Carried(t)' = Carried(t)
    <3>1. Carried(t)' = Carries(o, t)' \cup Others(o, t) /\ Carried(t) = Carries(o, t) \cup Others(o, t)
      BY <1>3, OthersKept, CarriedSplit
    <3> QED
      BY <2>2, <3>1
  <2>4. delivered'[t] = delivered[t] /\ lost'[t] = lost[t]
    BY <1>1, <1>4, <1>7, <2>1 DEF Shift, Decide, TypesOK
  <2> QED
    BY <2>2, <2>3, <2>4 DEF Fate
<1>8. ASSUME NEW e \in Events
      PROVE  /\ Fate(s, e)' \in {"new", "held", "delivered", "lost"}
             /\ Fate(s, e)' # Fate(s, e) => <<Fate(s, e), Fate(s, e)'>> \in Ledger!Moves
  <2> DEFINE was == Fate(s, e)
             now == Fate(s, e)'
  <2>1. Apart(s) /\ Apart(s)'
    BY <1>1, <1>2, AllApart, AllApartNext
  <2>2. delivered'[s] = delivered[s] \cup D /\ lost'[s] = lost[s] \cup L
    BY <1>1, <1>4 DEF Shift, Decide, TypesOK
  <2>3. Carried(s)' = Carries(o, s)' \cup Others(o, s) /\ Carried(s) = Carries(o, s) \cup Others(o, s)
    BY <1>3, OthersKept, CarriedSplit
  <2>4. Waiting(s) \cup Carries(o, s) \subseteq Waiting(s)' \cup Carries(o, s)' \cup D \cup L
    BY <1>4 DEF Shift
  <2>5. was = "delivered" => now = "delivered"
    BY <2>2 DEF Fate
  <2>6. was = "lost" => now = "lost"
    <3>1. delivered'[s] \cap lost'[s] = {}
      BY <2>1 DEF Apart
    <3> QED
      BY <2>2, <3>1 DEF Fate
  <2>7. was = "held" => now # "new"
    <3>1. Waiting(s) \cup Carried(s) \subseteq Waiting(s)' \cup Carried(s)' \cup delivered'[s] \cup lost'[s]
      BY <2>2, <2>3, <2>4
    <3> QED
      BY <3>1 DEF Fate
  <2>8. was \in {"new", "held", "delivered", "lost"} /\ now \in {"new", "held", "delivered", "lost"}
    BY DEF Fate
  <2> HIDE DEF was, now
  <2>9. now # was => <<was, now>> \in Ledger!Moves
    BY <2>5, <2>6, <2>7, <2>8 DEF Ledger!Moves
  <2> QED
    BY <2>8, <2>9 DEF was, now
<1>9. FateMap'[s] = [e \in Events |-> Fate(s, e)'] /\ FateMap[s] = [e \in Events |-> Fate(s, e)]
  BY <1>2, <1>5, <1>6
<1>10. FateMap' = [FateMap EXCEPT ![s] = FateMap'[s]]
  <2>1. \A t \in Elems(configured) : t # s => FateMap'[t] = FateMap[t]
    BY <1>5, <1>6, <1>7
  <2> QED
    BY <1>2, <1>5, <1>6, <2>1
<1>11. FateMap'[s] \in [Events -> Ledger!Fates]
  BY <1>8, <1>9 DEF Ledger!Fates
<1>12. \A e \in Events : FateMap'[s][e] # FateMap[s][e]
          => <<FateMap[s][e], FateMap'[s][e]>> \in Ledger!Moves
  BY <1>8, <1>9
<1> QED
  BY <1>2, <1>10, <1>11, <1>12

\* When the last observer has stopped nothing is held, and what one sink has seen all have.
Settled ==
    \A e \in Events :
        /\ \A s \in Elems(configured) : FateMap[s][e] # "held"
        /\ \A s, t \in Elems(configured) : FateMap[s][e] = "new" <=> FateMap[t][e] = "new"

LEMMA ClosedBooks == SinksIInv /\ Closed => Settled
<1> SUFFICES ASSUME SinksIInv, Closed PROVE Settled
  OBVIOUS
<1>1. ASSUME NEW s \in Elems(configured), NEW e \in Events
      PROVE  Fate(s, e) # "held" /\ (Fate(s, e) = "new" <=> e \notin 1..detected)
  <2>1. PICK j \in 1..Len(configured) : Books(j, s)
    BY ConfiguredBooks
  <2>2. s \in SinkNames
    BY ConfiguredBooks
  <2>3. \A o \in Observers : ~Ahead(o, j) /\ ~Unflushed(o, j)
    BY IdleFields DEF Closed, Ahead, Unflushed
  <2>4. Waiting(s) = {} /\ Arrived(j) = 1..detected
    BY <2>1, <2>3 DEF Books, Arrived
  <2>5. Carried(s) = {}
    <3>1. CarriesBy(Stopped, s) = {}
      BY <2>2, CarriesCases, IdleFields
    <3>2. \A o \in Observers : Carries(o, s) = {}
      BY <3>1, CarriesUnfold DEF Closed
    <3> QED
      BY <3>2 DEF Carried
  <2>6. delivered[s] \cup lost[s] = 1..detected
    BY <2>1, <2>4, <2>5 DEF Books
  <2> QED
    BY <2>4, <2>5, <2>6 DEF Fate
<1>2. \A s \in Elems(configured) : \A e \in Events : FateMap[s][e] = Fate(s, e)
  BY FateMapFacts
<1> QED
  BY <1>1, <1>2 DEF Settled

LEMMA ClosedBooksNext == SinksIInv' /\ Closed' => Settled'
  BY ClosedBooks, PTL

\* Before the work of a thread the agent is not done.
LEMMA NotClosed ==
    ASSUME NEW o \in Observers, thread[o] # Stopped
    PROVE  ~Closed
  BY DEF Closed

LEMMA WorkIsLedgerStep ==
    ASSUME SinksIInv, SinksIInv', NEW o \in Observers, CallStep(o) \/ IoStep(o)
    PROVE  Ledger!LedgerNext
<1>1. PICK s \in SinkNames : WorkOK(o, s)
  BY CallWorks
<1>2. s \in Elems(configured) /\ Ledger!Progress(s)
  <2>1. /\ s \in Elems(configured)
        /\ FateMap' = [FateMap EXCEPT ![s] = FateMap'[s]]
        /\ FateMap'[s] \in [Events -> Ledger!Fates]
        /\ \A e \in Events : FateMap'[s][e] # FateMap[s][e]
              => <<FateMap[s][e], FateMap'[s][e]>> \in Ledger!Moves
    BY <1>1, WorkProgress
  <2> QED
    BY <2>1 DEF Ledger!Progress, FateMap
<1>3. configured' = configured /\ ~Closed
  <2>1. thread[o].call \in {"send", "flush"} /\ configured' = configured
    BY <1>1 DEF WorkOK, ThreadMoves
  <2> QED
    BY <2>1, IdleFields, NotClosed
<1>4. Closed' => \A e \in Events :
                    /\ \A t \in Elems(configured) : FateMap'[t][e] # "held"
                    /\ \A t, u \in Elems(configured) : FateMap'[t][e] = "new" <=> FateMap'[u][e] = "new"
  BY <1>3, ClosedBooksNext DEF Settled
<1>5. CASE Closed'
  <2>1. Ledger!Close
    BY <1>2, <1>4, <1>5 DEF Ledger!Close, FateMap, Closed
  <2> QED
    BY <1>3, <2>1 DEF Ledger!LedgerNext, Closed
<1>6. CASE ~Closed'
  <2>1. Closed' = Closed
    BY <1>3, <1>6 DEF Closed
  <2> QED
    BY <1>2, <1>3, <2>1 DEF Ledger!LedgerNext, Closed
<1> QED
  BY <1>5, <1>6

LEMMA StartIsStutter ==
    ASSUME SinksIInv, SinksIInv', NEW o \in Observers, detect(o) \/ observer_end(o)
    PROVE  UNCHANGED <<Elems(configured), FateMap, Closed>>
<1>1. PICK t : Starts(o, t) /\ t.call \in {"send", "flush"}
  <2> DEFINE a == [Idle EXCEPT !.call = "send", !.at = 1, !.event = detected + 1]
             b == [Idle EXCEPT !.call = "flush", !.at = 1]
  <2>1. /\ a.call = "send" /\ a.at = 1 /\ a.io = "none"
        /\ b.call = "flush" /\ b.at = 1 /\ b.io = "none"
    BY DEF Idle
  <2>2. detect(o) => Starts(o, a)
    BY <2>1 DEF detect, Starts, ioVars
  <2>3. observer_end(o) => Starts(o, b)
    BY <2>1 DEF observer_end, Starts, ioVars
  <2> QED
    BY <2>1, <2>2, <2>3
<1>2. /\ thread'[o] = t /\ \A q \in Observers : q # o => thread'[q] = thread[q]
      /\ \A s \in SinkNames : Carries(o, s)' = Carries(o, s) /\ Waiting(s)' = Waiting(s)
  BY <1>1, StartFacts DEF SinksIInv
<1>3. ASSUME NEW s \in SinkNames PROVE Carried(s)' = Carried(s)
  <2>1. Carried(s)' = Carries(o, s)' \cup Others(o, s) /\ Carried(s) = Carries(o, s) \cup Others(o, s)
    BY <1>2, OthersKept, CarriedSplit
  <2> QED
    BY <1>2, <2>1
<1>4. UNCHANGED <<configured, delivered, lost>>
  BY <1>1 DEF Starts
<1>5. FateMap' = FateMap
  BY <1>2, <1>3, <1>4, LedgerStutters
<1>6. thread[o] # Stopped /\ thread'[o] # Stopped
  BY <1>1, <1>2, IdleFields DEF Starts
<1>7. Closed' = Closed
  BY <1>6 DEF Closed
<1> QED
  BY <1>4, <1>5, <1>7

LEMMA QuietIsStutter ==
    ASSUME UNCHANGED <<configured, thread, buffer, delivered, lost>>
    PROVE  UNCHANGED <<Elems(configured), FateMap, Closed>>
<1>1. FateMap' = FateMap
  BY DEF FateMap, FateOf, Carries, Waiting
<1> QED
  BY <1>1 DEF Closed

LEMMA LedgerStep ==
    ASSUME SinksIInv, SinksIInv', [Next]_vars
    PROVE  Ledger!LedgerNext \/ UNCHANGED <<Elems(configured), FateMap, Closed>>
<1>1. CASE \E o \in Observers : detect(o) \/ observer_end(o)
  BY <1>1, StartIsStutter
<1>2. CASE \E o \in Observers : CallStep(o) \/ IoStep(o)
  BY <1>2, WorkIsLedgerStep
<1>3. CASE signal_shutdown \/ tick \/ UNCHANGED vars
  <2>1. UNCHANGED <<configured, thread, buffer, delivered, lost>>
    BY <1>3 DEF signal_shutdown, tick, vars, ioVars
  <2> QED
    BY <2>1, QuietIsStutter
<1> QED
  BY <1>1, <1>2, <1>3 DEF Next

\* The sinks keep the ledger: whatever the observers' threads, the buffers and the posts do
\* at the same time, no occurrence is forgotten, posted in two batches or decided twice,
\* none is held once the last observer has ended, and all went to all sinks.
THEOREM SinksKeepLedger == Spec => KeepsLedger
<1>1. Init => Ledger!LedgerInit
  <2> SUFFICES ASSUME Init PROVE Ledger!LedgerInit
    OBVIOUS
  <2>1. SinksIInv
    BY SinksInit
  <2>2. configured \in Deployments
    BY DEF Init, create_sinks
  <2>3. Elems(configured) \subseteq SinkNames /\ Elems(configured) # {}
    <3>1. configured[1] \in Elems(configured)
      BY <2>2, DeploymentFacts
    <3> QED
      BY <2>2, <3>1, DeploymentFacts
  <2>4. ASSUME NEW s \in Elems(configured), NEW e \in Events PROVE Fate(s, e) = "new"
    <3>1. PICK j \in 1..Len(configured) : Books(j, s)
      BY <2>1, ConfiguredBooks
    <3>2. Arrived(j) = {}
      BY DEF Arrived, Init
    <3> QED
      BY <3>1, <3>2 DEF Books, Fate
  <2>5. FateMap = [s \in Elems(configured) |-> [e \in Events |-> "new"]]
    BY <2>1, <2>4, FateMapFacts
  <2>6. Closed = FALSE
    <3>1. PICK o \in Observers : TRUE
      BY SinksAssumption
    <3>2. thread[o] # Stopped
      BY IdleFields DEF Init
    <3> QED
      BY <3>2 DEF Closed
  <2> QED
    BY <2>3, <2>5, <2>6 DEF Ledger!LedgerInit, FateMap, Closed
<1>2. SinksIInv /\ SinksIInv' /\ [Next]_vars => [Ledger!LedgerNext]_(Ledger!ledgerVars)
  BY LedgerStep DEF Ledger!ledgerVars, FateMap, Closed
<1> QED
  BY <1>1, <1>2, SinksInductive, PTL DEF Spec, KeepsLedger, Ledger!LedgerSpec

-----------------------------------------------------------------------------
(* The files and their readers.                                            *)

\* A file is whole only after its sink has reported the occurrence delivered.
WholeIsDelivered == Complete \subseteq delivered["file"]

\* The directory a tool is reading: what it has read is whole, and of what was whole when
\* it began nothing can escape it.
ScanOK ==
    /\ scan \in [open : BOOLEAN, must : SUBSET Events, visited : SUBSET Events,
                 read : SUBSET Events, before : SUBSET Events]
    /\ scan.read \subseteq Complete
    /\ scan.before \subseteq scan.must \cap Complete
    /\ tool = "query" => scan.before \cap scan.visited \subseteq scan.read

\* What `watch` has read it has seen, and not printed before.
WatchOK ==
    /\ printed \in Seq(Events)
    /\ tool = "starting" => scan = NoScan /\ printed = <<>>
    /\ tool = "watch" => /\ scan.read \cup Elems(printed) \subseteq seen
                         /\ scan.read \cap Elems(printed) = {}

\* An answer is the one to some set of occurrences between those that were whole when the
\* command began and those that are whole now.
Judged(loaded) ==
    /\ answered.command \in Commands /\ answered.cutoff \in Nat /\ answered.pick \subseteq Events
    /\ answered.command = "recent" => answered.pick = Events
    /\ answered.before \subseteq loaded
    /\ answered.said \in Answers(answered.command, answered.cutoff, answered.pick, loaded)

AnswerOK == answered = NoAnswer \/ \E loaded \in SUBSET Complete : Judged(loaded)

FilesIInv == SinksIInv /\ WholeIsDelivered /\ ScanOK /\ WatchOK /\ AnswerOK

\* Nothing that is whole is ever truncated: no thread creates a file for an occurrence that
\* the file sink has already had.
LEMMA WholeStaysWhole ==
    ASSUME SinksIInv, SinksIInv', WholeIsDelivered, [Next]_vars
    PROVE  WholeIsDelivered' /\ Complete \subseteq Complete'
<1>1. TypesOK /\ BooksOK /\ files \in [Events -> {"absent", "partial", "complete"}]
  BY DEF SinksIInv, ClocksOK
<1>2. delivered["file"] \subseteq delivered'["file"]
  <2>1. ASSUME NEW o \in Observers, CallStep(o) \/ IoStep(o)
        PROVE  delivered["file"] \subseteq delivered'["file"]
    <3>1. PICK s \in SinkNames : WorkOK(o, s)
      BY <2>1, CallWorks
    <3>2. PICK D \in SUBSET Events : delivered' = Decide(delivered, s, D)
      BY <3>1 DEF WorkOK, Shift
    <3> QED
      BY <1>1, <3>2 DEF Decide, TypesOK, SinkNames
  <2>2. (\A o \in Observers : ~(CallStep(o) \/ IoStep(o))) => delivered' = delivered
    BY DEF Next, detect, observer_end, signal_shutdown, tick, vars, ioVars
  <2> QED
    BY <2>1, <2>2
<1>3. CASE files' = files
  BY <1>2, <1>3 DEF WholeIsDelivered, Complete
<1>4. ASSUME NEW o \in Observers, file_create(o), files' # files
      PROVE  WholeIsDelivered' /\ Complete \subseteq Complete'
  <2> DEFINE e == thread[o].event
             j == thread[o].at
  <2>1. /\ thread[o].call = "send" /\ thread[o].io = "none" /\ SinkOf(o) = "file"
        /\ files' = [files EXCEPT ![e] = "partial"]
    BY <1>4 DEF file_create, Calls
  <2>2. j \in 1..Len(configured) /\ "file" = configured[j] /\ "file" \in SinkNames
    BY <1>1, <2>1, Busy DEF SinkOf, SinkNames
  <2>3. Books(j, "file")
    BY <1>1, <2>2 DEF BooksOK
  <2>4. e \notin delivered["file"]
    <3>1. e \notin Arrived(j)
      BY <2>1 DEF Arrived, Ahead
    <3> QED
      BY <2>3, <3>1 DEF Books
  <2>5. files[e] # "complete" \/ e \notin Events
    BY <2>4 DEF WholeIsDelivered, Complete
  <2> HIDE DEF e
  <2>6. Complete' = Complete
    BY <1>1, <2>1, <2>5 DEF Complete
  <2> QED
    BY <1>2, <2>6 DEF WholeIsDelivered
<1>5. ASSUME NEW o \in Observers, file_write(o), files' # files
      PROVE  WholeIsDelivered' /\ Complete \subseteq Complete'
  <2> DEFINE e == thread[o].event
  <2>1. /\ files' = [files EXCEPT ![e] = "complete"]
        /\ delivered' = Decide(delivered, "file", {e})
    BY <1>5 DEF file_write
  <2>2. e \in delivered'["file"]
    BY <1>1, <2>1 DEF Decide, TypesOK, SinkNames
  <2> HIDE DEF e
  <2>3. Complete \subseteq Complete' /\ Complete' \subseteq Complete \cup {e}
    BY <1>1, <2>1 DEF Complete
  <2> QED
    BY <1>2, <2>2, <2>3 DEF WholeIsDelivered
<1>6. files' = files \/ \E o \in Observers : file_create(o) \/ file_write(o)
  BY DEF Next, detect, observer_end, CallStep, IoStep, signal_shutdown, tick, vars, ioVars,
         stdout_send, http_send, otlp_send, unbuffered_flush, http_flush, otlp_flush,
         flush_locked, post_batch_ok, post_batch_err, export_ok, export_retry, export_err
<1> QED
  BY <1>3, <1>4, <1>5, <1>6

LEMMA FilesInitIInv == FilesInit => FilesIInv
<1> SUFFICES ASSUME FilesInit PROVE FilesIInv
  OBVIOUS
<1>1. SinksIInv
  BY SinksInit DEF FilesInit
<1>2. Complete = {} /\ WholeIsDelivered
  BY DEF FilesInit, Init, Complete, WholeIsDelivered
<1>3. ScanOK
  BY DEF FilesInit, NoScan, ScanOK
<1>4. WatchOK
  BY DEF FilesInit, NoScan, WatchOK
<1> QED
  BY <1>1, <1>2, <1>3, <1>4 DEF FilesIInv, AnswerOK, FilesInit

\* The tools read: their steps leave the agent as it is.
LEMMA ReadersOnlyRead == [FilesNext]_allVars => [Next]_vars
  BY DEF FilesNext, ReadStep, watch_start, watch_tick, watch_visit, watch_print, watch_quit,
         load_begin, load_visit, answer, allVars

\* A step of the agent only adds to what is whole.
LEMMA AgentStepFiles ==
    ASSUME FilesIInv, SinksIInv', [Next]_vars, UNCHANGED toolVars
    PROVE  FilesIInv'
<1>1. WholeIsDelivered' /\ Complete \subseteq Complete'
  BY WholeStaysWhole DEF FilesIInv
<1>2. ScanOK'
  BY <1>1 DEF FilesIInv, ScanOK, toolVars
<1>3. WatchOK'
  BY DEF FilesIInv, WatchOK, toolVars
<1>4. AnswerOK'
  <2>1. CASE answered = NoAnswer
    BY <2>1 DEF AnswerOK, toolVars
  <2>2. CASE answered # NoAnswer
    <3>1. PICK loaded \in SUBSET Complete : Judged(loaded)
      BY <2>2 DEF FilesIInv, AnswerOK
    <3>2. loaded \in SUBSET Complete' /\ Judged(loaded)'
      BY <1>1, <3>1 DEF Judged, toolVars
    <3> QED
      BY <3>2 DEF AnswerOK
  <2> QED
    BY <2>1, <2>2
<1> QED
  BY <1>1, <1>2, <1>3, <1>4 DEF FilesIInv

\* Reading a file adds to what is read only if the file is whole.
LEMMA ReadOne ==
    ASSUME ScanOK, UNCHANGED vars, UNCHANGED tool, NEW e \in Events, read_occurrence_file(e)
    PROVE  /\ ScanOK'
           /\ scan'.read \subseteq scan.read \cup {e}
<1>1. Complete' = Complete
  BY DEF vars, ioVars, Complete
<1>2. scan' = [scan EXCEPT !.visited = scan.visited \cup {e},
                 !.read = IF files[e] = "complete" THEN scan.read \cup {e} ELSE scan.read]
  BY DEF read_occurrence_file
<1>3. /\ scan'.open = scan.open /\ scan'.must = scan.must /\ scan'.before = scan.before
      /\ scan'.visited = scan.visited \cup {e}
      /\ scan'.read = IF files[e] = "complete" THEN scan.read \cup {e} ELSE scan.read
      /\ scan' \in [open : BOOLEAN, must : SUBSET Events, visited : SUBSET Events,
                    read : SUBSET Events, before : SUBSET Events]
  BY <1>2 DEF ScanOK
<1>4. e \in scan.before => files[e] = "complete"
  BY DEF ScanOK, Complete
<1>5. scan'.read \subseteq Complete
  BY <1>3 DEF ScanOK, Complete
<1> QED
  BY <1>1, <1>3, <1>4, <1>5 DEF ScanOK

LEMMA EventsFinite ==
    ASSUME NEW S, S \subseteq Events
    PROVE  IsFiniteSet(S) /\ Cardinality(S) \in Nat
<1>1. 1 \in Int /\ MaxEvents \in Int
  BY SinksAssumption
<1>2. IsFiniteSet(Events)
  BY <1>1, FS_Interval DEF Events
<1>3. IsFiniteSet(S)
  BY <1>2, FS_Subset
<1> QED
  BY <1>3, FS_CardinalityType

LEMMA OrderFacts ==
    ASSUME NEW S, S \subseteq Events, NEW s \in Orders(S)
    PROVE  /\ s \in Seq(S) /\ s \in Seq(Events) /\ Len(s) = Cardinality(S) /\ Len(s) \in Nat
           /\ DOMAIN s = 1..Len(s) /\ Elems(s) = S
<1>1. Cardinality(S) \in Nat
  BY EventsFinite
<1>2. s \in [1..Cardinality(S) -> S] /\ Elems(s) = S
  BY DEF Orders
<1>3. s \in Seq(S) /\ s \in Seq(Events)
  BY <1>1, <1>2, SeqDef
<1>4. Len(s) = Cardinality(S)
  BY <1>1, <1>2, <1>3, LenProperties
<1> QED
  BY <1>1, <1>2, <1>3, <1>4

LEMMA ElemsConcat ==
    ASSUME NEW S, NEW s \in Seq(S), NEW t \in Seq(S)
    PROVE  Elems(s \o t) = Elems(s) \cup Elems(t)
<1> DEFINE u == s \o t
           m == Len(s)
           n == Len(t)
<1>1. /\ m \in Nat /\ n \in Nat /\ DOMAIN s = 1..m /\ DOMAIN t = 1..n
  BY LenProperties
<1>2. /\ DOMAIN u = 1..(m + n)
      /\ \A i \in 1..(m + n) : u[i] = IF i <= m THEN s[i] ELSE t[i - m]
  BY <1>1, ConcatProperties, LenProperties
<1> HIDE DEF u, m, n
<1>3. ASSUME NEW i \in 1..(m + n) PROVE u[i] \in Elems(s) \cup Elems(t)
  <2>1. CASE i <= m
    <3>1. i \in DOMAIN s /\ u[i] = s[i]
      BY <1>1, <1>2, <2>1
    <3> QED
      BY <3>1 DEF Elems
  <2>2. CASE ~(i <= m)
    <3>1. i - m \in DOMAIN t /\ u[i] = t[i - m]
      BY <1>1, <1>2, <2>2
    <3> QED
      BY <3>1 DEF Elems
  <2> QED
    BY <2>1, <2>2
<1>4. ASSUME NEW i \in 1..m PROVE s[i] \in Elems(u)
  <2>1. i \in 1..(m + n) /\ u[i] = s[i]
    BY <1>1, <1>2
  <2> QED
    BY <1>2, <2>1 DEF Elems
<1>5. ASSUME NEW i \in 1..n PROVE t[i] \in Elems(u)
  <2>1. PICK k \in 1..(m + n) : ~(k <= m) /\ k - m = i
    <3>1. i + m \in 1..(m + n) /\ ~(i + m <= m) /\ (i + m) - m = i
      BY <1>1
    <3> QED
      BY <3>1
  <2>2. u[k] = t[i]
    BY <1>2, <2>1
  <2> QED
    BY <1>2, <2>1, <2>2 DEF Elems
<1>6. Elems(u) = {u[i] : i \in 1..(m + n)} /\ Elems(s) = {s[i] : i \in 1..m}
      /\ Elems(t) = {t[i] : i \in 1..n}
  BY <1>1, <1>2 DEF Elems
<1>7. Elems(u) = Elems(s) \cup Elems(t)
  BY <1>3, <1>4, <1>5, <1>6
<1> QED
  BY <1>7 DEF u

\* What a turn prints.
LEMMA PrintFacts ==
    ASSUME FilesIInv, watch_print
    PROVE  \E order \in Seq(Events) :
              /\ printed' = printed \o order
              /\ Elems(order) = {e \in scan.read : matches_filter(e)}
              /\ Len(order) = Cardinality(Elems(order))
<1> DEFINE S == {e \in scan.read : matches_filter(e)}
<1>1. S \subseteq Events
  BY DEF FilesIInv, ScanOK
<1>2. PICK order \in OldestFirst(S) : printed' = printed \o order
  BY DEF watch_print
<1>3. order \in Orders(S)
  BY DEF OldestFirst
<1> HIDE DEF S
<1>4. order \in Seq(Events) /\ Elems(order) = S /\ Len(order) = Cardinality(S)
  BY <1>1, <1>3, OrderFacts
<1> QED
  BY <1>2, <1>4 DEF S

\* The steps of `watch`.
LEMMA WatchStepFiles ==
    ASSUME FilesIInv, SinksIInv',
           ReadStep \/ watch_quit
    PROVE  FilesIInv'
<1>1. UNCHANGED vars /\ UNCHANGED answered
  BY DEF ReadStep, watch_start, watch_tick, watch_visit, watch_print, watch_quit
<1>2. Complete' = Complete /\ Present' = Present /\ delivered' = delivered
  BY <1>1 DEF vars, ioVars, Complete, Present
<1>3. WholeIsDelivered'
  BY <1>2 DEF FilesIInv, WholeIsDelivered
<1>4. AnswerOK'
  <2>1. \A loaded : Judged(loaded)' <=> Judged(loaded)
    BY <1>1 DEF Judged
  <2> QED
    BY <1>1, <1>2, <2>1 DEF FilesIInv, AnswerOK
<1>5. ScanOK /\ WatchOK
  BY DEF FilesIInv
<1>6. CASE watch_start
  <2>1. ScanOK'
    BY <1>2, <1>5, <1>6 DEF watch_start, ScanOK
  <2>2. WatchOK'
    BY <1>5, <1>6, ElemsEmpty DEF watch_start, WatchOK, NoScan
  <2> QED
    BY <1>3, <1>4, <2>1, <2>2 DEF FilesIInv
<1>7. CASE watch_tick
  <2>1. Complete \subseteq Present /\ Present \subseteq Events
    BY DEF Complete, Present
  <2>2. ScanOK'
    BY <1>2, <1>7, <2>1 DEF watch_tick, read_dir, ScanOK
  <2>3. WatchOK'
    BY <1>5, <1>7 DEF watch_tick, read_dir, WatchOK
  <2> QED
    BY <1>3, <1>4, <2>2, <2>3 DEF FilesIInv
<1>8. ASSUME NEW e \in Events, watch_visit(e) PROVE FilesIInv'
  <2>1. CASE e \in seen
    <3>1. /\ tool = "watch" /\ scan' = [scan EXCEPT !.visited = scan.visited \cup {e}]
          /\ UNCHANGED <<seen, tool, printed>>
      BY <1>8, <2>1 DEF watch_visit
    <3>2. ScanOK'
      BY <1>2, <1>5, <3>1 DEF ScanOK
    <3>3. WatchOK'
      BY <1>5, <3>1 DEF WatchOK, ScanOK
    <3> QED
      BY <1>3, <1>4, <3>2, <3>3 DEF FilesIInv
  <2>2. CASE e \notin seen
    <3>1. /\ tool = "watch" /\ read_occurrence_file(e) /\ seen' = seen \cup {e}
          /\ UNCHANGED <<tool, printed>>
      BY <1>8, <2>2 DEF watch_visit
    <3>2. ScanOK' /\ scan'.read \subseteq scan.read \cup {e}
      BY <1>1, <1>5, <3>1, ReadOne
    <3>3. WatchOK'
      BY <1>5, <2>2, <3>1, <3>2 DEF WatchOK
    <3> QED
      BY <1>3, <1>4, <3>2, <3>3 DEF FilesIInv
  <2> QED
    BY <2>1, <2>2
<1>9. CASE watch_print
  <2>1. PICK order \in Seq(Events) :
            /\ printed' = printed \o order
            /\ Elems(order) = {e \in scan.read : matches_filter(e)}
    BY <1>9, PrintFacts
  <2>2. tool = "watch" /\ scan' = NoScan /\ UNCHANGED <<tool, seen>>
    BY <1>9 DEF watch_print
  <2>3. printed' \in Seq(Events) /\ Elems(printed') = Elems(printed) \cup Elems(order)
    BY <1>5, <2>1, ElemsConcat, ConcatProperties DEF WatchOK
  <2>4. ScanOK'
    BY <2>2 DEF ScanOK, NoScan
  <2>5. WatchOK'
    BY <1>5, <2>1, <2>2, <2>3 DEF WatchOK, NoScan
  <2> QED
    BY <1>3, <1>4, <2>4, <2>5 DEF FilesIInv
<1>10. CASE watch_quit
  <2>1. ScanOK'
    BY <1>2, <1>5, <1>10 DEF watch_quit, ScanOK
  <2>2. WatchOK'
    BY <1>5, <1>10 DEF watch_quit, WatchOK
  <2> QED
    BY <1>3, <1>4, <2>1, <2>2 DEF FilesIInv
<1> QED
  BY <1>6, <1>7, <1>8, <1>9, <1>10 DEF ReadStep

\* The steps of the commands that load everything.
LEMMA QueryStepFiles ==
    ASSUME FilesIInv, SinksIInv',
           \/ load_begin \/ \E e \in Events : load_visit(e)
           \/ \E command \in Commands, cutoff \in Cutoffs :
                 \E pick \in Picks(command) : answer(command, cutoff, pick)
    PROVE  FilesIInv'
<1>1. UNCHANGED <<vars, tool, seen, printed>> /\ tool = "query"
  BY DEF load_begin, load_visit, answer
<1>2. Complete' = Complete /\ Present' = Present /\ delivered' = delivered
  BY <1>1 DEF vars, ioVars, Complete, Present
<1>3. WholeIsDelivered' /\ WatchOK'
  BY <1>1, <1>2 DEF FilesIInv, WholeIsDelivered, WatchOK
<1>4. ScanOK /\ AnswerOK
  BY DEF FilesIInv
<1>5. CASE load_begin
  <2>1. Complete \subseteq Present /\ Present \subseteq Events
    BY DEF Complete, Present
  <2>2. ScanOK'
    BY <1>2, <1>5, <2>1 DEF load_begin, read_dir, ScanOK
  <2>3. AnswerOK'
    BY <1>5 DEF load_begin, AnswerOK
  <2> QED
    BY <1>3, <2>2, <2>3 DEF FilesIInv
<1>6. ASSUME NEW e \in Events, load_visit(e) PROVE FilesIInv'
  <2>1. ScanOK'
    BY <1>1, <1>4, <1>6, ReadOne DEF load_visit
  <2>2. UNCHANGED answered
    BY <1>6 DEF load_visit
  <2>3. \A loaded : Judged(loaded)' <=> Judged(loaded)
    BY <2>2 DEF Judged
  <2>4. AnswerOK'
    BY <1>2, <1>4, <2>2, <2>3 DEF AnswerOK
  <2> QED
    BY <1>3, <2>1, <2>4 DEF FilesIInv
<1>7. ASSUME NEW command \in Commands, NEW cutoff \in Cutoffs, NEW pick \in Picks(command),
             answer(command, cutoff, pick)
      PROVE  FilesIInv'
  <2>1. ScanOK'
    BY <1>7 DEF answer, NoScan, ScanOK
  <2>2. PICK said \in Answers(command, cutoff, pick, scan.read) :
            answered' = [command |-> command, cutoff |-> cutoff, pick |-> pick,
                         before |-> scan.before, said |-> said]
    BY <1>7 DEF answer
  <2>3. /\ answered'.command = command /\ answered'.cutoff = cutoff /\ answered'.pick = pick
        /\ answered'.before = scan.before /\ answered'.said = said
    BY <2>2
  <2>4. cutoff \in Nat /\ pick \subseteq Events
    <3>1. \A asked \in ByObserver : asked \subseteq Events
      BY DEF ByObserver
    <3>2. pick \subseteq Events
      BY <1>7, <3>1 DEF Picks, Commands
    <3> QED
      BY <3>2, FilesAssumption
  <2>5. scan.before \subseteq scan.read
    BY <1>1, <1>4, <1>7 DEF answer, ScanDone, ScanOK
  <2>6. ASSUME NEW loaded, loaded = scan.read PROVE Judged(loaded)'
    <3>1. command = "recent" => pick = Events
      BY <1>7 DEF Picks
    <3>2. said \in Answers(answered'.command, answered'.cutoff, answered'.pick, loaded)
      BY <2>2, <2>3, <2>6
    <3> QED
      BY <2>3, <2>4, <2>5, <2>6, <3>1, <3>2 DEF Judged
  <2>7. AnswerOK'
    <3>1. PICK loaded : loaded = scan.read
      OBVIOUS
    <3>2. loaded \in SUBSET Complete' /\ Judged(loaded)'
      BY <1>2, <1>4, <2>6, <3>1 DEF ScanOK
    <3> QED
      BY <3>2 DEF AnswerOK
  <2> QED
    BY <1>3, <2>1, <2>7 DEF FilesIInv
<1> QED
  BY <1>5, <1>6, <1>7

LEMMA FilesStep == FilesIInv /\ SinksIInv' /\ [FilesNext]_allVars => FilesIInv'
<1> SUFFICES ASSUME FilesIInv, SinksIInv', [FilesNext]_allVars PROVE FilesIInv'
  OBVIOUS
<1>1. CASE Next /\ UNCHANGED toolVars
  BY <1>1, AgentStepFiles
<1>2. CASE UNCHANGED allVars
  BY <1>2, AgentStepFiles DEF allVars
<1>3. CASE ReadStep \/ watch_quit
  BY <1>3, WatchStepFiles
<1>4. CASE \/ load_begin \/ \E e \in Events : load_visit(e)
           \/ \E command \in Commands, cutoff \in Cutoffs :
                 \E pick \in Picks(command) : answer(command, cutoff, pick)
  BY <1>4, QueryStepFiles
<1> QED
  BY <1>1, <1>2, <1>3, <1>4 DEF FilesNext

\* The command line does not disturb the agent: with `watch`, the commands and the MCP
\* tools reading the data directory, the agent takes no step it does not take without them,
\* so what is proved of the sinks holds beside them.
THEOREM ReadersDoNotDisturb == FilesSpec => Spec
<1>1. FilesInit => Init
  BY DEF FilesInit
<1> QED
  BY <1>1, ReadersOnlyRead, PTL DEF FilesSpec, Spec

\* What a reader has read is whole, and nothing whole is ever truncated again.
THEOREM FilesInductive == FilesSpec => []FilesIInv
<1>1. FilesSpec => []SinksIInv
  BY ReadersDoNotDisturb, SinksInductive, PTL
<1> QED
  BY <1>1, FilesInitIInv, FilesStep, PTL DEF FilesSpec

-----------------------------------------------------------------------------
(* The answers.                                                            *)

LEMMA CountGrows ==
    ASSUME NEW T, T \subseteq Events, NEW S, S \subseteq T, NEW c
    PROVE  Count(S, c) \in Nat /\ Count(T, c) \in Nat /\ Count(S, c) <= Count(T, c)
<1> DEFINE A == {e \in S : category[e] = c}
           B == {e \in T : category[e] = c}
<1>1. A \subseteq B /\ A \subseteq Events /\ B \subseteq Events
  OBVIOUS
<1>2. IsFiniteSet(B) /\ Cardinality(A) \in Nat /\ Cardinality(B) \in Nat
  BY <1>1, EventsFinite
<1>3. Cardinality(A) <= Cardinality(B)
  BY <1>1, <1>2, FS_Subset
<1> QED
  BY <1>2, <1>3 DEF Count

\* Every occurrence is of one of the four categories.
LEMMA CountsAddUp ==
    ASSUME NEW S, S \subseteq Events
    PROVE  Count(S, "network") + Count(S, "container") + Count(S, "storage") + Count(S, "node")
              = Cardinality(S)
<1> DEFINE C(c) == {e \in S : category[e] = c}
           N == C("network") \cup C("container")
           M == N \cup C("storage")
<1>1. \A c : C(c) \subseteq Events
  OBVIOUS
<1>2. N \subseteq Events /\ M \subseteq Events
  OBVIOUS
<1>3. /\ \A c : IsFiniteSet(C(c)) /\ Cardinality(C(c)) \in Nat
      /\ IsFiniteSet(N) /\ Cardinality(N) \in Nat
      /\ IsFiniteSet(M) /\ Cardinality(M) \in Nat
  BY <1>1, <1>2, EventsFinite
<1>4. /\ C("network") \cap C("container") = {} /\ N \cap C("storage") = {}
      /\ M \cap C("node") = {}
  OBVIOUS
<1>5. M \cup C("node") = S
  BY FilesAssumption DEF Categories
<1> HIDE DEF C
<1>6. Cardinality(N) = Cardinality(C("network")) + Cardinality(C("container"))
                          - Cardinality(C("network") \cap C("container"))
  BY <1>3, FS_Union
<1>7. Cardinality(M) = Cardinality(N) + Cardinality(C("storage"))
                          - Cardinality(N \cap C("storage"))
  <2> HIDE DEF N
  <2> QED
    BY <1>3, FS_Union
<1>8. Cardinality(M \cup C("node")) = Cardinality(M) + Cardinality(C("node"))
                                         - Cardinality(M \cap C("node"))
  <2> HIDE DEF M
  <2> QED
    BY <1>3, FS_Union
<1>9. Cardinality({}) = 0
  BY FS_EmptySet
<1>10. \A c : Count(S, c) = Cardinality(C(c))
  BY DEF Count, C
<1>11. /\ Cardinality(C("network") \cap C("container")) = 0
       /\ Cardinality(N \cap C("storage")) = 0 /\ Cardinality(M \cap C("node")) = 0
  BY <1>4, <1>9
<1>12. Cardinality(M \cup C("node")) = Cardinality(S)
  BY <1>5
<1> HIDE DEF M, N
<1>13. /\ Cardinality(C("network")) \in Nat /\ Cardinality(C("container")) \in Nat
       /\ Cardinality(C("storage")) \in Nat /\ Cardinality(C("node")) \in Nat
  BY <1>3
<1>14. Cardinality(C("network")) + Cardinality(C("container")) + Cardinality(C("storage"))
           + Cardinality(C("node")) = Cardinality(S)
  BY <1>3, <1>6, <1>7, <1>8, <1>11, <1>12, <1>13
<1> QED
  BY <1>10, <1>14

\* The command and the tool agree.
LEMMA HealthAgrees ==
    ASSUME NEW S, S \subseteq Events
    PROVE  cmd_health(S) = tapio_node_health(S)
<1>1. S \cap critical \subseteq Events
  OBVIOUS
<1> QED
  BY <1>1, CountsAddUp DEF cmd_health, tapio_node_health

\* More occurrences never make a node healthier.
LEMMA HealthGrows ==
    ASSUME NEW T, T \subseteq Events, NEW S, S \subseteq T
    PROVE  Severity(tapio_node_health(S)) <= Severity(tapio_node_health(T))
<1> DEFINE a == Cardinality(S)
           b == Cardinality(T)
           c == Cardinality(S \cap critical)
           d == Cardinality(T \cap critical)
<1>1. a \in Nat /\ b \in Nat /\ c \in Nat /\ d \in Nat /\ a <= b /\ c <= d
  <2>1. T \cap critical \subseteq Events /\ S \cap critical \subseteq T \cap critical
        /\ S \subseteq Events /\ S \cap critical \subseteq Events
    OBVIOUS
  <2>2. IsFiniteSet(T) /\ IsFiniteSet(T \cap critical)
        /\ a \in Nat /\ b \in Nat /\ c \in Nat /\ d \in Nat
    BY <2>1, EventsFinite
  <2> QED
    BY <2>1, <2>2, FS_Subset
<1> HIDE DEF a, b, c, d
<1>2. CriticalLimit \in Nat /\ TotalLimit \in Nat
  BY FilesAssumption
<1>3. Severity(health_status(a, c)) <= Severity(health_status(b, d))
  <2>1. CASE c >= CriticalLimit \/ a >= TotalLimit
    <3>1. d >= CriticalLimit \/ b >= TotalLimit
      BY <1>1, <1>2, <2>1
    <3>2. health_status(a, c) = "critical"
      BY <2>1 DEF health_status
    <3>3. health_status(b, d) = "critical"
      BY <3>1 DEF health_status
    <3> QED
      BY <3>2, <3>3 DEF Severity
  <2>2. CASE ~(c >= CriticalLimit \/ a >= TotalLimit) /\ a > 0
    <3>1. b > 0
      BY <1>1, <2>2
    <3>2. health_status(a, c) = "degraded" /\ health_status(b, d) \in {"critical", "degraded"}
      BY <2>2, <3>1 DEF health_status
    <3> QED
      BY <3>2 DEF Severity
  <2>3. CASE ~(c >= CriticalLimit \/ a >= TotalLimit) /\ ~(a > 0)
    <3>1. health_status(a, c) = "healthy"
      BY <2>3 DEF health_status
    <3>2. health_status(b, d) \in {"critical", "degraded", "healthy"}
      BY DEF health_status
    <3> QED
      BY <3>1, <3>2 DEF Severity
  <2> QED
    BY <2>1, <2>2, <2>3
<1> QED
  BY <1>3 DEF tapio_node_health, a, b, c, d

\* What a list shows of a set: it is in order, and leaves out only what is older.
Shows(said, S) ==
    /\ \A i, j \in DOMAIN said : i < j => timestamp[said[i]] >= timestamp[said[j]]
    /\ Elems(said) \subseteq S
    /\ \A e \in S \ Elems(said) :
          /\ Len(said) = ShowLast
          /\ \A i \in DOMAIN said : timestamp[said[i]] >= timestamp[e]

LEMMA AllShown ==
    ASSUME NEW S, S \subseteq Events, NEW said \in NewestFirst(S)
    PROVE  Shows(said, S)
  BY OrderFacts DEF NewestFirst, Shows

LEMMA NewestShown ==
    ASSUME NEW S, S \subseteq Events, NEW said \in newest(S)
    PROVE  Shows(said, S)
<1>1. PICK s \in NewestFirst(S) : said = SubSeq(s, 1, MinOf(ShowLast, Len(s)))
  BY DEF newest
<1>2. /\ s \in Seq(S) /\ Len(s) \in Nat /\ DOMAIN s = 1..Len(s) /\ Elems(s) = S
      /\ \A i, j \in DOMAIN s : i < j => timestamp[s[i]] >= timestamp[s[j]]
  BY OrderFacts DEF NewestFirst
<1> DEFINE n == MinOf(ShowLast, Len(s))
<1>3. n \in Nat /\ n <= Len(s) /\ (n = Len(s) \/ n = ShowLast)
  BY <1>2, FilesAssumption DEF MinOf
<1>4. said = SubSeq(s, 1, n)
  BY <1>1
<1> HIDE DEF n
<1>5. Len(said) = n /\ DOMAIN said = 1..n /\ \A i \in 1..n : said[i] = s[i]
  <2>1. \A i \in 1..n : s[i] \in S
    BY <1>2, <1>3, ElementOfSeq
  <2>2. /\ said \in Seq(S) /\ Len(said) = IF 1 <= n THEN n - 1 + 1 ELSE 0
        /\ \A i \in 1..(n - 1 + 1) : said[i] = s[1 + i - 1]
    BY <1>3, <1>4, <2>1, SubSeqProperties
  <2>3. Len(said) = n /\ n - 1 + 1 = n /\ \A i \in 1..n : 1 + i - 1 = i
    BY <1>3, <2>2
  <2> QED
    BY <2>2, <2>3, LenProperties
<1>9. DOMAIN s = 1..Len(s) /\ \A i \in 1..n : i \in 1..Len(s)
  <2> DEFINE m == Len(s)
  <2>1. m \in Nat /\ DOMAIN s = 1..m /\ n <= m
    BY <1>2, <1>3
  <2> HIDE DEF m
  <2>2. \A i \in 1..n : i \in 1..m
    BY <1>3, <2>1
  <2> QED
    BY <2>1, <2>2 DEF m
<1>6. \A i, j \in DOMAIN said : i < j => timestamp[said[i]] >= timestamp[said[j]]
  <2>1. \A i \in 1..n : i \in DOMAIN s
    BY <1>9
  <2> QED
    BY <1>2, <1>5, <2>1
<1>7. Elems(said) \subseteq S
  <2>1. \A i \in 1..n : s[i] \in S
    BY <1>2, <1>3, ElementOfSeq
  <2> QED
    BY <1>5, <2>1 DEF Elems
<1>8. ASSUME NEW e \in S \ Elems(said)
      PROVE  Len(said) = ShowLast /\ \A i \in DOMAIN said : timestamp[said[i]] >= timestamp[e]
  <2>1. PICK k \in 1..Len(s) : s[k] = e
    BY <1>2 DEF Elems
  <2>2. ~(k <= n)
    BY <1>3, <1>5, <1>8, <2>1 DEF Elems
  <2>3. n = ShowLast /\ \A i \in 1..n : i < k
    <3>1. k \in Int /\ k <= Len(s) /\ Len(s) \in Nat
      BY <1>2
    <3> QED
      BY <1>3, <2>2, <3>1
  <2>4. k \in DOMAIN s /\ \A i \in 1..n : i \in DOMAIN s
    BY <1>9
  <2> QED
    BY <1>2, <1>5, <2>1, <2>3, <2>4
<1> QED
  BY <1>6, <1>7, <1>8 DEF Shows

\* What a list answers with, by the set it lists.
LEMMA ListShows ==
    ASSUME NEW loaded, loaded \subseteq Events, NEW command, NEW cutoff, NEW pick,
           pick \subseteq Events,
           command \in {"recent", "tapio_recent_anomalies", "tapio_watch_stream"},
           command = "recent" => pick = Events,
           NEW said \in Answers(command, cutoff, pick, loaded)
    PROVE  \E L \in SUBSET (loaded \cap pick) :
              /\ Shows(said, L)
              /\ \A e \in (loaded \cap pick) \ L :
                    ~(timestamp[e] >= cutoff) /\ command # "tapio_watch_stream"
<1> DEFINE S == {e \in loaded : timestamp[e] >= cutoff}
<1>1. S \subseteq Events /\ S \cap pick \subseteq Events /\ loaded \cap pick \subseteq Events
  OBVIOUS
<1>2. CASE command = "recent"
  <2>1. said \in newest(S) /\ S \subseteq loaded \cap pick
    BY <1>2 DEF Answers
  <2>2. Shows(said, S)
    BY <1>1, <2>1, NewestShown
  <2> QED
    BY <1>2, <2>1, <2>2
<1>3. CASE command = "tapio_recent_anomalies"
  <2>1. said \in NewestFirst(S \cap pick)
    BY <1>3 DEF Answers
  <2>2. Shows(said, S \cap pick)
    BY <1>1, <2>1, AllShown
  <2> QED
    BY <1>3, <2>2
<1>4. CASE command = "tapio_watch_stream"
  <2>1. said \in newest(loaded \cap pick)
    BY <1>4 DEF Answers
  <2>2. Shows(said, loaded \cap pick)
    BY <1>1, <2>1, NewestShown
  <2> QED
    BY <2>2
<1> QED
  BY <1>2, <1>3, <1>4

LEMMA JudgedBracketed ==
    ASSUME NEW loaded \in SUBSET Complete, Judged(loaded), answered # NoAnswer
    PROVE  AnswersBracketed
<1> DEFINE command == answered.command
           cutoff == answered.cutoff
           pick == answered.pick
           before == answered.before
           said == answered.said
           Since(T) == {e \in T : timestamp[e] >= cutoff}
<1>1. /\ command \in Commands /\ cutoff \in Nat /\ pick \subseteq Events
      /\ command = "recent" => pick = Events
      /\ before \subseteq loaded /\ said \in Answers(command, cutoff, pick, loaded)
  BY DEF Judged
<1>2. Complete \subseteq Events /\ loaded \subseteq Complete /\ loaded \subseteq Events
      /\ before \subseteq Complete
  BY <1>1 DEF Complete
<1>3. CASE command = "status"
  <2>1. said = [c \in Categories |-> Count(loaded, c)]
    BY <1>1, <1>3 DEF Answers
  <2>2. ASSUME NEW c \in Categories
        PROVE  Count(before, c) <= said[c] /\ said[c] <= Count(Complete, c)
    <3>1. said[c] = Count(loaded, c)
      BY <2>1
    <3>2. Count(before, c) <= Count(loaded, c)
      BY <1>1, <1>2, CountGrows
    <3>3. Count(loaded, c) <= Count(Complete, c)
      BY <1>2, CountGrows
    <3> QED
      BY <3>1, <3>2, <3>3
  <2> QED
    BY <1>3, <2>2 DEF AnswersBracketed
<1>4. CASE command \in {"health", "tapio_node_health"}
  <2>1. PICK mine, then, now : mine = Since(loaded) /\ then = Since(before) /\ now = Since(Complete)
    OBVIOUS
  <2>2. then \subseteq mine /\ mine \subseteq now /\ now \subseteq Events /\ mine \subseteq Events
    BY <1>1, <1>2, <2>1
  <2>3. said = tapio_node_health(mine)
    <3>1. said = cmd_health(mine) \/ said = tapio_node_health(mine)
      BY <1>1, <1>4, <2>1 DEF Answers
    <3>2. cmd_health(mine) = tapio_node_health(mine)
      BY <2>2, HealthAgrees
    <3> QED
      BY <3>1, <3>2
  <2>4. Severity(tapio_node_health(then)) <= Severity(said)
    BY <2>2, <2>3, HealthGrows
  <2>5. Severity(said) <= Severity(tapio_node_health(now))
    BY <2>2, <2>3, HealthGrows
  <2>6. command # "status"
    BY <1>4
  <2> QED
    BY <1>4, <2>1, <2>4, <2>5, <2>6, Zenon DEF AnswersBracketed
<1>5. CASE command \in {"recent", "tapio_recent_anomalies", "tapio_watch_stream"}
  <2>1. command = "recent" => pick = Events
    BY <1>1
  <2>2. PICK L \in SUBSET (loaded \cap pick) :
            /\ Shows(said, L)
            /\ \A e \in (loaded \cap pick) \ L :
                  ~(timestamp[e] >= cutoff) /\ command # "tapio_watch_stream"
    BY <1>1, <1>2, <1>5, <2>1, ListShows
  <2>3. \A i, j \in DOMAIN said : i < j => timestamp[said[i]] >= timestamp[said[j]]
    BY <2>2, Zenon DEF Shows
  <2>4. Elems(said) \subseteq Complete \cap pick
    BY <1>2, <2>2 DEF Shows
  <2>5. ASSUME NEW e \in (before \cap pick) \ Elems(said)
        PROVE  \/ timestamp[e] < cutoff /\ command # "tapio_watch_stream"
               \/ Len(said) = ShowLast /\ \A i \in DOMAIN said :
                                              timestamp[said[i]] >= timestamp[e]
    <3>1. e \in loaded \cap pick /\ e \notin Elems(said)
      BY <1>1
    <3>2. CASE e \in L
      BY <2>2, <3>1, <3>2, Zenon DEF Shows
    <3>3. CASE e \notin L
      <4>1. ~(timestamp[e] >= cutoff) /\ command # "tapio_watch_stream"
        BY <2>2, <3>1, <3>3, Zenon
      <4>2. timestamp[e] \in Int /\ cutoff \in Int
        BY <1>1, <1>2, <3>1, FilesAssumption
      <4>3. timestamp[e] < cutoff
        BY <4>1, <4>2
      <4> QED
        BY <4>1, <4>3, Zenon
    <3> QED
      BY <3>2, <3>3
  <2>6. command # "status" /\ command \notin {"health", "tapio_node_health"}
    BY <1>5
  <2> QED
    BY <2>3, <2>4, <2>5, <2>6, Zenon DEF AnswersBracketed
<1> QED
  BY <1>1, <1>3, <1>4, <1>5 DEF Commands

\* Command line: an answer given while the agent writes is not torn, whatever the times and
\* categories of the occurrences, the cutoffs and the limits of health and of the lists.
THEOREM AnswersStayBracketed == FilesSpec => []AnswersBracketed
<1>1. FilesIInv => AnswersBracketed
  <2> SUFFICES ASSUME FilesIInv, answered # NoAnswer PROVE AnswersBracketed
    BY DEF AnswersBracketed
  <2>1. PICK loaded \in SUBSET Complete : Judged(loaded)
    BY DEF FilesIInv, AnswerOK
  <2> QED
    BY <2>1, JudgedBracketed
<1> QED
  BY <1>1, FilesInductive, PTL

\* The end of a concatenation.
LEMMA AddedPart ==
    ASSUME NEW s \in Seq(Events), NEW t \in Seq(Events), NEW u, u = s \o t
    PROVE  SubSeq(u, Len(s) + 1, Len(u)) = t
<1>1. u \in Seq(Events) /\ Len(u) = Len(s) + Len(t) /\ Len(s) \in Nat /\ Len(t) \in Nat
  BY ConcatProperties
<1>2. \A i \in 1..Len(t) : u[Len(s) + i] = t[i]
  BY <1>1, ConcatProperties
<1> QED
  BY <1>1, <1>2

LEMMA PrintedNew == FilesIInv /\ [FilesNext]_allVars => [PrintsNew]_printed
<1> SUFFICES ASSUME FilesIInv, FilesNext, printed' # printed PROVE PrintsNew
  BY DEF allVars, toolVars
<1> DEFINE new == SubSeq(printed', Len(printed) + 1, Len(printed'))
<1>1. printed \in Seq(Events) /\ Len(printed) \in Nat
  BY DEF FilesIInv, WatchOK
<1>2. CASE watch_print
  <2>1. PICK order \in Seq(Events) :
            /\ printed' = printed \o order
            /\ Elems(order) = {e \in scan.read : matches_filter(e)}
            /\ Len(order) = Cardinality(Elems(order))
    BY <1>2, PrintFacts
  <2>2. new = order
    BY <1>1, <2>1, AddedPart
  <2>3. tool = "watch"
    BY <1>2 DEF watch_print
  <2>4. scan.read \cap Elems(printed) = {} /\ scan.read \subseteq Complete
    BY <2>3 DEF FilesIInv, WatchOK, ScanOK
  <2>5. Elems(new) \cap Elems(printed) = {}
    BY <2>1, <2>2, <2>4
  <2>6. \A e \in Elems(new) : e \in Complete /\ matches_filter(e)
    BY <2>1, <2>2, <2>4
  <2>7. Len(new) = Cardinality(Elems(new))
    BY <2>1, <2>2
  <2> QED
    BY <2>5, <2>6, <2>7, Zenon DEF PrintsNew
<1>3. CASE watch_quit
  <2>1. printed' = <<>>
    BY <1>3 DEF watch_quit
  <2>2. new = <<>>
    BY <1>1, <2>1
  <2>3. Elems(new) = {}
    BY <2>2, ElemsEmpty
  <2>4. Len(new) = Cardinality(Elems(new))
    BY <2>2, <2>3, FS_EmptySet
  <2> QED
    BY <2>3, <2>4, Zenon DEF PrintsNew
<1>4. CASE ~watch_print /\ ~watch_quit
  <2>1. UNCHANGED printed
    BY <1>4 DEF FilesNext, toolVars, ReadStep, watch_start, watch_tick, watch_visit,
                load_begin, load_visit, answer
  <2> QED
    BY <2>1
<1> QED
  BY <1>2, <1>3, <1>4

\* Command line, the safety part of WatchShowsOnce: what `watch` prints is whole, as asked
\* for, and never printed twice, while any number of observers write.
THEOREM WatchPrintsNew == FilesSpec => [][PrintsNew]_printed
BY PrintedNew, FilesInductive, PTL DEF FilesSpec

=============================================================================
