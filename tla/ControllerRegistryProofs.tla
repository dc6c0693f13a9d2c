---------------------- MODULE ControllerRegistryProofs ----------------------
(***************************************************************************)
(* Proofs about the controller, for any agents, any order of requests and  *)
(* any integer width, and about the registration tasks that talk to it,    *)
(* for any number of configs, faults and restarts.                         *)
(*                                                                         *)
(* The balance of GapAccounting is preserved by a batch only because the   *)
(* gap counter cannot saturate: it is bounded by the span of sequences     *)
(* seen (TrackingProgress), and the span by the width.                     *)
(*                                                                         *)
(* The registration composed with the controller implements                *)
(* ControllerRegistry: whatever the agents send, repeat or abandon, the    *)
(* controller takes no step its own specification does not allow, so all   *)
(* that is proved of the registry holds of the composition.  And an agent  *)
(* the controller takes for converged has applied the served config.  That *)
(* needs the provenance of every hash on its way: one that an agent holds, *)
(* has sent, has left behind in a socket, or the controller has stored, is *)
(* one the agent has applied or the empty hash of a fresh agent            *)
(* (Provenance).                                                           *)
(***************************************************************************)
EXTENDS AgentRegistration, TLAPS

-----------------------------------------------------------------------------
(* The batch accounting.                                                   *)

\* The four ways a batch can meet the tracking record, with the saturating additions
\* evaluated.
LEMMA UpdateCases ==
    ASSUME NEW t \in Tracking, NEW s \in U64
    PROVE  LET u == update_sequence_tracking(t, s) IN
           /\ u \in Tracking
           /\ t.last_seen = NotSeen =>
                  /\ u.last_seen = s /\ u.gaps_total = t.gaps_total
                  /\ u.regressions_total = t.regressions_total
           /\ t.last_seen # NotSeen /\ s > t.last_seen =>
                  /\ u.last_seen = s
                  /\ u.gaps_total = saturating_add(t.gaps_total, s - (t.last_seen + 1))
                  /\ u.regressions_total = t.regressions_total
           /\ t.last_seen # NotSeen /\ s <= t.last_seen =>
                  /\ u.last_seen = t.last_seen /\ u.gaps_total = t.gaps_total
                  /\ \/ u.regressions_total = saturating_add(t.regressions_total, 1)
                     \/ t.last_seen = MaxU64 /\ u.regressions_total = t.regressions_total
<1> DEFINE u == update_sequence_tracking(t, s)
<1> USE WidthAssumption DEF U64, NotSeen
<1>1. /\ t.last_seen \in U64 \cup {NotSeen}
      /\ t.gaps_total \in U64 /\ t.regressions_total \in U64
  BY DEF Tracking
<1>2. CASE t.last_seen = NotSeen
  <2>1. u = [t EXCEPT !.last_seen = s]
    BY <1>2 DEF update_sequence_tracking
  <2> QED
    BY <1>1, <1>2, <2>1 DEF Tracking
<1>3. CASE t.last_seen # NotSeen /\ s = saturating_add(t.last_seen, 1)
  <2>1. u = [t EXCEPT !.last_seen = s]
    BY <1>3 DEF update_sequence_tracking
  <2>2. \/ s = t.last_seen + 1
        \/ s = MaxU64 /\ t.last_seen = MaxU64
    BY <1>1, <1>3 DEF saturating_add
  <2>3. s = t.last_seen + 1 => saturating_add(t.gaps_total, s - (t.last_seen + 1)) = t.gaps_total
    BY <1>1, <1>3 DEF saturating_add
  <2>4. u.last_seen = s /\ u.gaps_total = t.gaps_total
        /\ u.regressions_total = t.regressions_total /\ u \in Tracking
    BY <2>1 DEF Tracking
  <2> QED
    BY <1>1, <1>3, <2>2, <2>3, <2>4
<1>4. CASE t.last_seen # NotSeen /\ s > saturating_add(t.last_seen, 1)
  <2>1. saturating_add(t.last_seen, 1) = t.last_seen + 1 /\ s > t.last_seen + 1
    BY <1>1, <1>4 DEF saturating_add
  <2>2. u = [t EXCEPT !.last_seen = s,
                      !.gaps_total = saturating_add(@, s - saturating_add(t.last_seen, 1))]
    <3>1. s # saturating_add(t.last_seen, 1)
      BY <1>1, <2>1
    <3> QED
      BY <1>4, <3>1 DEF update_sequence_tracking
  <2>3. saturating_add(t.gaps_total, s - (t.last_seen + 1)) \in U64
    BY <1>1, <1>4, <2>1 DEF saturating_add
  <2>4. /\ u.last_seen = s
        /\ u.gaps_total = saturating_add(t.gaps_total, s - (t.last_seen + 1))
        /\ u.regressions_total = t.regressions_total /\ u \in Tracking
    BY <2>1, <2>2, <2>3 DEF Tracking
  <2> QED
    BY <1>1, <1>4, <2>1, <2>4
<1>5. CASE t.last_seen # NotSeen /\ s < saturating_add(t.last_seen, 1)
  <2>1. s <= t.last_seen
    BY <1>1, <1>5 DEF saturating_add
  <2>2. u = [t EXCEPT !.regressions_total = saturating_add(@, 1)]
    BY <1>1, <1>5 DEF update_sequence_tracking, saturating_add
  <2>3. saturating_add(t.regressions_total, 1) \in U64
    BY <1>1 DEF saturating_add
  <2>4. /\ u.last_seen = t.last_seen /\ u.gaps_total = t.gaps_total
        /\ u.regressions_total = saturating_add(t.regressions_total, 1) /\ u \in Tracking
    BY <2>2, <2>3 DEF Tracking
  <2> QED
    BY <1>1, <1>5, <2>1, <2>4
<1> QED
  <2>1. saturating_add(t.last_seen, 1) \in Int
    BY <1>1 DEF saturating_add
  <2> QED
    BY <1>2, <1>3, <1>4, <1>5, <2>1

\* The initial state satisfies the inductive invariant.
LEMMA InitIInv == Init => IInv
<1> SUFFICES ASSUME Init PROVE IInv
  OBVIOUS
<1> USE WidthAssumption, RegistryAssumption DEF Init
<1>1. Untracked \in Tracking /\ Untracked.last_seen = NotSeen
  BY DEF Untracked, Tracking, U64, NotSeen
<1>2. TypeOK
  BY <1>1 DEF TypeOK, ReportedHash
<1> QED
  BY <1>1, <1>2 DEF IInv, TrackingProgress, GapAccounting, Counting, LossSurfaces, LastSeenIsHighest

\* So does the state a restart leads to.
LEMMA FreshIInv == ASSUME restarts' \in 0..MaxRestarts, Fresh PROVE IInv'
<1> USE WidthAssumption, RegistryAssumption DEF Fresh
<1>1. Untracked \in Tracking /\ Untracked.last_seen = NotSeen
  BY DEF Untracked, Tracking, U64, NotSeen
<1>2. TypeOK'
  BY <1>1 DEF TypeOK, ReportedHash
<1> QED
  BY <1>1, <1>2 DEF IInv, TrackingProgress, GapAccounting, Counting, LossSurfaces, LastSeenIsHighest

\* A hello starts the accounting of one agent afresh and leaves the others alone.
LEMMA RegisterIInv ==
    ASSUME IInv, NEW a \in Agents, register_agent(a)
    PROVE  IInv'
<1> USE DEF register_agent, totals
<1>1. Untracked \in Tracking /\ Untracked.last_seen = NotSeen
  BY WidthAssumption DEF Untracked, Tracking, U64, NotSeen
<1>2. TypeOK'
  BY <1>1 DEF IInv, TypeOK
<1>3. /\ sequences'[a] = Untracked /\ acceptedCount'[a] = 0 /\ acceptedSeqs'[a] = {}
      /\ \A b \in Agents \ {a} :
            /\ sequences'[b] = sequences[b] /\ acceptedCount'[b] = acceptedCount[b]
            /\ baseline'[b] = baseline[b] /\ acceptedSeqs'[b] = acceptedSeqs[b]
  BY DEF IInv, TypeOK
<1> QED
  BY <1>1, <1>2, <1>3
  DEF IInv, TrackingProgress, GapAccounting, Counting, LossSurfaces, LastSeenIsHighest

\* An accepted batch keeps the accounts of its agent in balance.
LEMMA AcceptIInv ==
    ASSUME IInv, NEW a \in Agents, NEW s \in U64, NEW n \in 1..max_batch_events,
           accept_event_batch(a, s, n)
    PROVE  IInv'
<1> DEFINE t == sequences[a]
           u == update_sequence_tracking(t, s)
<1> USE WidthAssumption
<1>1. /\ t \in Tracking /\ acceptedCount[a] \in Nat /\ acceptedSeqs[a] \in SUBSET U64
      /\ baseline[a] \in U64 \cup {NotSeen}
  BY DEF IInv, TypeOK
<1>2. /\ sequences'[a] = u
      /\ acceptedCount'[a] = acceptedCount[a] + 1
      /\ acceptedSeqs'[a] = acceptedSeqs[a] \cup {s}
      /\ baseline'[a] = IF t.last_seen = NotSeen THEN s ELSE baseline[a]
      /\ \A b \in Agents \ {a} :
            /\ sequences'[b] = sequences[b] /\ acceptedCount'[b] = acceptedCount[b]
            /\ baseline'[b] = baseline[b] /\ acceptedSeqs'[b] = acceptedSeqs[b]
  BY DEF IInv, TypeOK, accept_event_batch
<1>3. /\ t.last_seen \in U64 \cup {NotSeen}
      /\ t.gaps_total \in U64 /\ t.regressions_total \in U64
  BY <1>1 DEF Tracking
<1>4. u \in Tracking
  BY <1>1, UpdateCases
<1>5. TypeOK'
  <2>1. /\ sequences' \in [Agents -> Tracking]
        /\ baseline' \in [Agents -> U64 \cup {NotSeen}]
        /\ acceptedSeqs' \in [Agents -> SUBSET U64]
        /\ acceptedCount' \in [Agents -> Nat]
    BY <1>4 DEF IInv, TypeOK, accept_event_batch
  <2>2. accepted_events_total' \in Nat /\ batches_accepted_total' \in Nat
    BY RegistryAssumption DEF IInv, TypeOK, accept_event_batch
  <2> QED
    BY <2>1, <2>2 DEF IInv, TypeOK, accept_event_batch
<1> DEFINE Good(b) ==
       /\ sequences'[b].last_seen = NotSeen =>
              sequences'[b] = Untracked /\ acceptedCount'[b] = 0 /\ acceptedSeqs'[b] = {}
       /\ sequences'[b].last_seen # NotSeen =>
              /\ baseline'[b] \in U64 /\ baseline'[b] <= sequences'[b].last_seen
              /\ sequences'[b].gaps_total <= sequences'[b].last_seen - baseline'[b]
              /\ sequences'[b].last_seen \in acceptedSeqs'[b]
              /\ \A r \in acceptedSeqs'[b] : r <= sequences'[b].last_seen
              /\ sequences'[b].gaps_total = 0 =>
                    \A r \in U64 : baseline'[b] <= r /\ r <= sequences'[b].last_seen
                                      => r \in acceptedSeqs'[b]
              /\ sequences'[b].last_seen < MaxU64 /\ sequences'[b].regressions_total < MaxU64 =>
                    sequences'[b].last_seen - baseline'[b] + 1 + sequences'[b].regressions_total
                       = sequences'[b].gaps_total + acceptedCount'[b]
<1>6. Good(a)
  <2>1. CASE t.last_seen = NotSeen
    <3>1. u.last_seen = s /\ u.gaps_total = t.gaps_total /\ u.regressions_total = t.regressions_total
      BY <1>1, <2>1, UpdateCases
    <3>2. t.gaps_total = 0 /\ t.regressions_total = 0 /\ acceptedCount[a] = 0
      BY <2>1 DEF IInv, TrackingProgress, Untracked
    <3>3. acceptedSeqs'[a] = {s}
      BY <1>2, <2>1 DEF IInv, TrackingProgress
    <3> QED
      BY <1>1, <1>2, <2>1, <3>1, <3>2, <3>3 DEF U64, NotSeen
  <2>2. CASE t.last_seen # NotSeen /\ s > t.last_seen
    <3>1. /\ u.last_seen = s /\ u.regressions_total = t.regressions_total
          /\ u.gaps_total = saturating_add(t.gaps_total, s - (t.last_seen + 1))
      BY <1>1, <2>2, UpdateCases
    <3>2. /\ baseline[a] \in U64 /\ baseline[a] <= t.last_seen
          /\ t.gaps_total <= t.last_seen - baseline[a]
      BY <2>2 DEF IInv, TrackingProgress
    <3>3. u.gaps_total = t.gaps_total + (s - (t.last_seen + 1))
      BY <1>3, <2>2, <3>1, <3>2 DEF saturating_add, U64, NotSeen
    <3>4. /\ baseline'[a] = baseline[a] /\ baseline'[a] <= u.last_seen
          /\ u.gaps_total <= u.last_seen - baseline'[a]
      BY <1>2, <1>3, <2>2, <3>1, <3>2, <3>3 DEF U64, NotSeen
    <3>5. \A r \in acceptedSeqs'[a] : r <= u.last_seen
      <4>1. \A r \in acceptedSeqs[a] : r \in U64 /\ r <= t.last_seen
        BY <1>1, <2>2 DEF IInv, LastSeenIsHighest
      <4> QED
        BY <1>2, <1>3, <2>2, <3>1, <4>1 DEF U64, NotSeen
    <3>6. u.gaps_total = 0 =>
             \A r \in U64 : baseline'[a] <= r /\ r <= u.last_seen => r \in acceptedSeqs'[a]
      <4> SUFFICES ASSUME u.gaps_total = 0, NEW r \in U64, baseline'[a] <= r, r <= u.last_seen
                   PROVE  r \in acceptedSeqs'[a]
        OBVIOUS
      <4>1. t.gaps_total = 0 /\ s = t.last_seen + 1
        <5>1. t.gaps_total >= 0 /\ t.gaps_total \in Int
          BY <1>3 DEF U64
        <5>2. s - (t.last_seen + 1) >= 0 /\ s \in Int /\ t.last_seen \in Int
          BY <1>3, <2>2 DEF U64, NotSeen
        <5>3. t.gaps_total + (s - (t.last_seen + 1)) = 0
          BY <3>3
        <5> QED
          BY <5>1, <5>2, <5>3
      <4>2. r = s \/ r <= t.last_seen
        BY <1>3, <3>1, <4>1 DEF U64, NotSeen
      <4>3. r <= t.last_seen => r \in acceptedSeqs[a]
        BY <2>2, <3>4, <4>1 DEF IInv, LossSurfaces
      <4> QED
        BY <1>2, <4>2, <4>3
    <3>7. u.regressions_total < MaxU64 =>
             u.last_seen - baseline'[a] + 1 + u.regressions_total = u.gaps_total + acceptedCount'[a]
      <4> SUFFICES ASSUME u.regressions_total < MaxU64
                   PROVE  u.last_seen - baseline'[a] + 1 + u.regressions_total
                             = u.gaps_total + acceptedCount'[a]
        OBVIOUS
      <4>1. Counting(a)
        BY <1>3, <2>2, <3>1 DEF Counting, U64, NotSeen
      <4>2. t.last_seen - baseline[a] + 1 + t.regressions_total = t.gaps_total + acceptedCount[a]
        BY <4>1 DEF IInv, GapAccounting
      <4> QED
        BY <1>1, <1>2, <1>3, <2>2, <3>1, <3>2, <3>3, <3>4, <4>2 DEF U64, NotSeen
    <3> QED
      BY <1>2, <2>2, <3>1, <3>2, <3>4, <3>5, <3>6, <3>7 DEF U64, NotSeen
  <2>3. CASE t.last_seen # NotSeen /\ s <= t.last_seen
    <3>1. /\ u.last_seen = t.last_seen /\ u.gaps_total = t.gaps_total
          /\ \/ u.regressions_total = saturating_add(t.regressions_total, 1)
             \/ t.last_seen = MaxU64 /\ u.regressions_total = t.regressions_total
      BY <1>1, <2>3, UpdateCases
    <3>2. /\ baseline[a] \in U64 /\ baseline[a] <= t.last_seen
          /\ t.gaps_total <= t.last_seen - baseline[a]
          /\ baseline'[a] = baseline[a]
      BY <1>2, <2>3 DEF IInv, TrackingProgress
    <3>3. /\ t.last_seen \in acceptedSeqs[a]
          /\ \A r \in acceptedSeqs[a] : r <= t.last_seen
      BY <2>3 DEF IInv, LastSeenIsHighest
    <3>4. u.gaps_total = 0 =>
             \A r \in U64 : baseline'[a] <= r /\ r <= u.last_seen => r \in acceptedSeqs'[a]
      BY <1>2, <2>3, <3>1, <3>2 DEF IInv, LossSurfaces
    <3>5. u.last_seen < MaxU64 /\ u.regressions_total < MaxU64 =>
             u.last_seen - baseline'[a] + 1 + u.regressions_total = u.gaps_total + acceptedCount'[a]
      <4> SUFFICES ASSUME u.last_seen < MaxU64, u.regressions_total < MaxU64
                   PROVE  u.last_seen - baseline'[a] + 1 + u.regressions_total
                             = u.gaps_total + acceptedCount'[a]
        OBVIOUS
      <4>1. u.regressions_total = t.regressions_total + 1
        BY <1>3, <3>1 DEF saturating_add, U64, NotSeen
      <4>2. Counting(a)
        BY <1>3, <2>3, <3>1, <4>1 DEF Counting, U64, NotSeen
      <4>3. t.last_seen - baseline[a] + 1 + t.regressions_total = t.gaps_total + acceptedCount[a]
        BY <4>2 DEF IInv, GapAccounting
      <4> QED
        BY <1>1, <1>2, <1>3, <2>3, <3>1, <3>2, <4>1, <4>3 DEF U64, NotSeen
    <3> QED
      BY <1>2, <2>3, <3>1, <3>2, <3>3, <3>4, <3>5
  <2> QED
    BY <1>3, <2>1, <2>2, <2>3 DEF U64
<1>7. \A b \in Agents \ {a} : Good(b)
  BY <1>2 DEF IInv, TrackingProgress, GapAccounting, Counting, LossSurfaces, LastSeenIsHighest
<1> QED
  BY <1>5, <1>6, <1>7
  DEF IInv, TrackingProgress, GapAccounting, Counting, LossSurfaces, LastSeenIsHighest

\* Every step preserves the inductive invariant.
LEMMA NextIInv == IInv /\ [Next]_vars => IInv'
<1> SUFFICES ASSUME IInv, [Next]_vars PROVE IInv'
  OBVIOUS
<1>1. CASE UNCHANGED vars
  BY <1>1 DEF IInv, TypeOK, TrackingProgress, GapAccounting, Counting, LossSurfaces,
              LastSeenIsHighest, vars, totals, history
<1>2. ASSUME NEW a \in Agents, register_agent(a) PROVE IInv'
  BY <1>2, RegisterIInv
<1>3. ASSUME NEW a \in Agents, NEW h \in ReportedHash, record_heartbeat(a, h) PROVE IInv'
  <2> USE <1>3 DEF record_heartbeat, totals, history
  <2>1. last_heartbeats' \in [Agents -> ReportedHash \cup {Never}]
    BY DEF IInv, TypeOK
  <2>2. TypeOK'
    BY <2>1 DEF IInv, TypeOK
  <2> QED
    BY <2>2 DEF IInv, TrackingProgress, GapAccounting, Counting, LossSurfaces, LastSeenIsHighest
<1>4. ASSUME NEW a \in Agents, NEW s \in U64, NEW n \in 1..max_batch_events,
             accept_event_batch(a, s, n)
      PROVE  IInv'
  BY <1>4, AcceptIInv
<1>5. ASSUME NEW n \in {0, max_batch_events + 1}, reject_event_batch(n) PROVE IInv'
  <2> USE <1>5 DEF reject_event_batch, history
  <2>1. rejected_events_total' \in Nat /\ batches_rejected_total' \in Nat
    BY RegistryAssumption DEF IInv, TypeOK
  <2>2. TypeOK'
    BY <2>1 DEF IInv, TypeOK
  <2> QED
    BY <2>2 DEF IInv, TrackingProgress, GapAccounting, Counting, LossSurfaces, LastSeenIsHighest
<1>6. CASE restart
  <2>1. restarts' \in 0..MaxRestarts
    BY <1>6, RegistryAssumption DEF restart, IInv, TypeOK
  <2> QED
    BY <1>6, <2>1, FreshIInv DEF restart
<1> QED
  BY <1>1, <1>2, <1>3, <1>4, <1>5, <1>6 DEF Next

-----------------------------------------------------------------------------

\* The accounting invariants hold together in every reachable state.
THEOREM RegistryInductive == Spec => []IInv
<1> QED
  BY InitIInv, NextIInv, PTL DEF Spec

\* The controller's state is type-correct: no counter leaves the u64 range.
THEOREM RegistryTypeCorrect == Spec => []TypeOK
<1>1. IInv => TypeOK
  BY DEF IInv
<1> QED
  BY <1>1, RegistryInductive, PTL

\* The gap and regression counters balance against the batches accepted, in any order
\* of arrival, with any duplication, and for every integer width.
THEOREM RegistryBalances == Spec => []GapAccounting
<1>1. IInv => GapAccounting
  BY DEF IInv
<1> QED
  BY <1>1, RegistryInductive, PTL

\* A batch that was lost between two accepted ones is never hidden behind a zero gap
\* counter.
THEOREM RegistrySurfacesLoss == Spec => []LossSurfaces
<1>1. IInv => LossSurfaces
  BY DEF IInv
<1> QED
  BY <1>1, RegistryInductive, PTL

\* No straggler moves the last sequence seen back.
THEOREM RegistryLastSeen == Spec => []LastSeenIsHighest
<1>1. IInv => LastSeenIsHighest
  BY DEF IInv
<1> QED
  BY <1>1, RegistryInductive, PTL

\* Only a hello or a restart clears an agent's gaps and regressions.
THEOREM RegistryKeepsTrouble == Spec => TroubleNotForgotten
<1> DEFINE Kept(a) ==
       \/ sequences'[a].gaps_total >= sequences[a].gaps_total
            /\ sequences'[a].regressions_total >= sequences[a].regressions_total
       \/ sequences'[a] = Untracked /\ (a \in agents' \/ restarts' # restarts)
<1>1. IInv /\ [Next]_vars => [\A a \in Agents : Kept(a)]_vars
  <2> SUFFICES ASSUME IInv, Next, NEW a \in Agents PROVE Kept(a)
    OBVIOUS
  <2>1. sequences[a] \in Tracking /\ sequences \in [Agents -> Tracking]
        /\ restarts \in Nat
    BY RegistryAssumption DEF IInv, TypeOK
  <2>2. sequences[a].gaps_total \in Int /\ sequences[a].regressions_total \in Int
    BY <2>1, WidthAssumption DEF Tracking, U64
  <2>3. UNCHANGED sequences => Kept(a)
    BY <2>2
  <2>4. ASSUME NEW b \in Agents, register_agent(b) PROVE Kept(a)
    BY <2>1, <2>2, <2>4 DEF register_agent
  <2>5. ASSUME NEW b \in Agents, NEW s \in U64, NEW n \in 1..max_batch_events,
               accept_event_batch(b, s, n)
        PROVE  Kept(a)
    <3>1. sequences'[a] = IF a = b THEN update_sequence_tracking(sequences[a], s)
                          ELSE sequences[a]
      BY <2>1, <2>5 DEF accept_event_batch
    <3>2. CASE a # b
      BY <2>2, <3>1, <3>2
    <3>3. CASE a = b
      <4> DEFINE t == sequences[a]
                 u == update_sequence_tracking(t, s)
      <4>1. t.last_seen \in U64 \cup {NotSeen} /\ t.gaps_total \in U64
            /\ t.regressions_total \in U64
        BY <2>1 DEF Tracking
      <4>2. saturating_add(t.regressions_total, 1) >= t.regressions_total
        BY <4>1, WidthAssumption DEF saturating_add, U64
      <4>3. t.last_seen # NotSeen /\ s > t.last_seen =>
               saturating_add(t.gaps_total, s - (t.last_seen + 1)) >= t.gaps_total
        BY <4>1, WidthAssumption DEF saturating_add, U64, NotSeen
      <4>4. t.last_seen # NotSeen => s > t.last_seen \/ s <= t.last_seen
        BY <4>1, WidthAssumption DEF U64, NotSeen
      <4>5. u.gaps_total >= t.gaps_total /\ u.regressions_total >= t.regressions_total
        BY <2>1, <2>2, <4>2, <4>3, <4>4, UpdateCases
      <4> QED
        BY <3>1, <3>3, <4>5
    <3> QED
      BY <3>2, <3>3
  <2>6. CASE restart
    BY <2>1, <2>6 DEF restart, Fresh
  <2> QED
    BY <2>3, <2>4, <2>5, <2>6 DEF Next, record_heartbeat, reject_event_batch
<1> QED
  BY <1>1, RegistryInductive, PTL DEF Spec, TroubleNotForgotten

-----------------------------------------------------------------------------
(* The registration tasks.                                                 *)

\* The hashes a may report.
Reportable(a) == everApplied[a] \cup {Unconfigured}

Progresses == {"built", "sent", "accepted", "rejected", "failed"}

Kinds == {"hello", "heartbeat"}

RequestsOf(a) == [kind : Kinds, hash : Reportable(a), progress : Progresses]

\* Every hash on its way to the controller, or stored there, comes from an apply.
Provenance ==
    /\ served \in Hashes
    /\ everApplied \in [Agents -> SUBSET Hashes]
    /\ \A a \in Agents :
          /\ applied[a] \in Reportable(a)
          /\ call[a] \in RequestsOf(a) \cup {NoCall}
          /\ last_heartbeats[a] \in Reportable(a) \cup {Never}
    /\ \A r \in stale :
          r.agent \in Agents /\ r.kind \in Kinds /\ r.hash \in Reportable(r.agent)

\* What the steps update are functions on the agents.
RegShape ==
    /\ agents \in SUBSET Agents
    /\ last_heartbeats = [a \in Agents |-> last_heartbeats[a]]
    /\ applied = [a \in Agents |-> applied[a]]
    /\ call = [a \in Agents |-> call[a]]

RegIInv == RegShape /\ Provenance

\* The initial state satisfies it.
LEMMA RegInitIInv == RegInit => RegIInv
  BY DEF RegInit, Init, RegIInv, RegShape, Provenance, Reportable, RequestsOf

\* The steps an agent takes alone leave the controller as it is and send, keep or
\* abandon only hashes the agent may report.
LEMMA AgentAloneIInv ==
    ASSUME RegIInv, NEW a \in Agents,
           \/ AgentStep(a) \/ fetch_and_apply(a)
           \/ time_out(a) \/ agent_exit(a) \/ agent_start(a)
    PROVE  RegIInv' /\ UNCHANGED vars
<1> USE DEF RegIInv, RegShape, Provenance, Reportable, vars
<1>1. CASE hello_once(a)
  BY <1>1 DEF hello_once, RequestsOf, Request, Kinds, Progresses
<1>2. CASE heartbeat_once(a)
  BY <1>2 DEF heartbeat_once, RequestsOf, Request, Kinds, Progresses
<1>3. CASE connect(a)
  BY <1>3 DEF connect, RequestsOf, Kinds, Progresses
<1>4. CASE hello_result(a) \/ backoff_elapsed(a) \/ heartbeat_result(a)
  BY <1>4 DEF hello_result, backoff_elapsed, heartbeat_result, RequestsOf
<1>5. CASE fetch_and_apply(a)
  <2>1. /\ served \in Hashes /\ applied' = [applied EXCEPT ![a] = served]
        /\ everApplied' = [everApplied EXCEPT ![a] = @ \cup {served}]
        /\ UNCHANGED <<vars, up, served, task, call, stale, callFaults>>
    BY <1>5 DEF fetch_and_apply
  <2>2. everApplied' \in [Agents -> SUBSET Hashes]
    BY <2>1
  <2>3. \A b \in Agents : everApplied[b] \subseteq everApplied'[b]
    BY <2>1
  <2>4. \A b \in Agents : RequestsOf(b) \subseteq RequestsOf(b)'
    BY <2>3 DEF RequestsOf
  <2>5. \A b \in Agents : applied'[b] \in everApplied'[b] \cup {Unconfigured}
    BY <2>1, <2>3
  <2> QED
    BY <2>1, <2>2, <2>3, <2>4, <2>5
<1>6. ASSUME NEW r \in Abandoned(a)
      PROVE  r.agent \in Agents /\ r.kind \in Kinds /\ r.hash \in Reportable(r.agent)
  <2>1. call[a] \in RequestsOf(a)
    BY <1>6 DEF Abandoned
  <2> QED
    BY <1>6, <2>1 DEF Abandoned, RequestsOf
<1>7. CASE time_out(a)
  BY <1>6, <1>7 DEF time_out, RequestsOf, Progresses
<1>8. CASE agent_exit(a)
  BY <1>6, <1>8 DEF agent_exit, RequestsOf
<1>9. CASE agent_start(a)
  BY <1>9 DEF agent_start, RequestsOf
<1> QED
  BY <1>1, <1>2, <1>3, <1>4, <1>5, <1>7, <1>8, <1>9 DEF AgentStep

\* A request of a known kind with a reportable hash is one the registry allows, and it
\* leaves a heartbeat the agent could have sent.
LEMMA HandleEffect ==
    ASSUME RegIInv, NEW a \in Agents, NEW kind, NEW hash \in Reportable(a),
           handle(a, kind, hash)
    PROVE  /\ Next
           /\ agents' \in SUBSET Agents
           /\ last_heartbeats' = [b \in Agents |-> last_heartbeats'[b]]
           /\ \A b \in Agents : last_heartbeats'[b] \in Reportable(b) \cup {Never}
<1> USE DEF RegIInv, RegShape, Provenance, Reportable
<1>1. hash \in ReportedHash
  BY DEF ReportedHash
<1>2. CASE register_agent(a)
  <2>1. Next
    BY <1>2 DEF Next
  <2> QED
    BY <1>2, <2>1 DEF register_agent
<1>3. CASE record_heartbeat(a, hash)
  <2>1. Next
    BY <1>1, <1>3 DEF Next
  <2> QED
    BY <1>3, <2>1 DEF record_heartbeat
<1> QED
  BY <1>2, <1>3 DEF handle

\* Serving a request that is waited for.
LEMMA ServeIInv ==
    ASSUME RegIInv, NEW a \in Agents, serve(a)
    PROVE  RegIInv' /\ Next
<1>1. call[a] \in RequestsOf(a)
  BY DEF serve, RegIInv, Provenance
<1>2. call[a].hash \in Reportable(a) /\ handle(a, call[a].kind, call[a].hash)
  BY <1>1 DEF serve, RequestsOf
<1>3. /\ Next
      /\ agents' \in SUBSET Agents
      /\ last_heartbeats' = [b \in Agents |-> last_heartbeats'[b]]
      /\ \A b \in Agents : last_heartbeats'[b] \in Reportable(b) \cup {Never}
  BY <1>2, HandleEffect
<1>4. /\ UNCHANGED <<up, served, task, applied, stale, callFaults, everApplied>>
      /\ \E p \in {"accepted"} : call' = [call EXCEPT ![a].progress = p]
  BY DEF serve, HeartbeatResponse
<1>5. \A b \in Agents : call'[b] \in RequestsOf(b) \cup {NoCall}
  BY <1>1, <1>4 DEF RegIInv, RegShape, Provenance, RequestsOf, Progresses
<1> QED
  BY <1>3, <1>4, <1>5 DEF RegIInv, RegShape, Provenance, Reportable, RequestsOf

\* Serving one that is not.
LEMMA ServeLateIInv ==
    ASSUME RegIInv, NEW r \in stale, serve_late(r)
    PROVE  RegIInv' /\ Next
<1>1. r.agent \in Agents /\ r.hash \in Reportable(r.agent) /\ handle(r.agent, r.kind, r.hash)
  BY DEF serve_late, RegIInv, Provenance
<1>2. /\ Next
      /\ agents' \in SUBSET Agents
      /\ last_heartbeats' = [b \in Agents |-> last_heartbeats'[b]]
      /\ \A b \in Agents : last_heartbeats'[b] \in Reportable(b) \cup {Never}
  BY <1>1, HandleEffect
<1>3. stale' \subseteq stale /\ UNCHANGED <<up, served, task, applied, call, callFaults, everApplied>>
  BY DEF serve_late
<1> QED
  BY <1>2, <1>3 DEF RegIInv, RegShape, Provenance, Reportable, RequestsOf

\* A crash empties the controller and its sockets; a start serves some config.
LEMMA ControllerIInv ==
    ASSUME RegIInv, controller_crash \/ controller_start
    PROVE  RegIInv' /\ [Next]_vars
<1> USE DEF RegIInv, RegShape, Provenance, Reportable
<1>1. CASE controller_crash
  <2>1. Next
    BY <1>1 DEF controller_crash, Next
  <2>2. agents' = {} /\ last_heartbeats' = [b \in Agents |-> Never] /\ stale' = {}
        /\ UNCHANGED <<served, applied, everApplied>>
    BY <1>1 DEF controller_crash, restart, Fresh
  <2>3. \A b \in Agents : call'[b] \in RequestsOf(b) \cup {NoCall}
    BY <1>1 DEF controller_crash, RequestsOf, Progresses
  <2>4. call' = [b \in Agents |-> call'[b]]
    BY <1>1 DEF controller_crash
  <2> QED
    BY <2>1, <2>2, <2>3, <2>4 DEF RequestsOf
<1>2. CASE controller_start
  BY <1>2 DEF controller_start, agentVars, vars, RequestsOf
<1> QED
  BY <1>1, <1>2

\* Every step of the composition preserves the invariant and is a step of the registry,
\* or leaves the registry alone.
LEMMA RegStep == RegIInv /\ [RegNext]_regVars => RegIInv' /\ [Next]_vars
<1> SUFFICES ASSUME RegIInv, [RegNext]_regVars PROVE RegIInv' /\ [Next]_vars
  OBVIOUS
<1>1. CASE UNCHANGED regVars
  BY <1>1 DEF regVars, agentVars, vars, RegIInv, RegShape, Provenance, Reportable, RequestsOf
<1> QED
  BY <1>1, AgentAloneIInv, ServeIInv, ServeLateIInv, ControllerIInv DEF RegNext

\* Every hash on its way comes from an apply, in every reachable state.
THEOREM RegInductive == RegSpec => []RegIInv
  BY RegInitIInv, RegStep, PTL DEF RegSpec

\* The composition implements the registry: hellos, heartbeats, requests that are served
\* after their senders gave up and restarts drive the controller only through the steps
\* of its own specification (tapio-controller/src/lib.rs).
THEOREM RegistrationImplementsRegistry == RegSpec => Spec
<1>1. RegInit => Init
  BY DEF RegInit
<1> QED
  BY <1>1, RegInductive, RegStep, PTL DEF RegSpec, Spec

\* The controller never takes an agent for converged that has not applied the served
\* config (lib.rs, unconverged_agents; registration.rs, heartbeat_once).
THEOREM ConvergedAgentsApplied == RegSpec => []ConvergedHasApplied
<1>1. RegIInv => ConvergedHasApplied
  BY RegistryAssumption, RegistrationAssumption
     DEF RegIInv, RegShape, Provenance, Reportable, ConvergedHasApplied, unconverged_agents
<1> QED
  BY <1>1, RegInductive, PTL

=============================================================================
