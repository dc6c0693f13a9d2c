------------------------- MODULE ConfigFanoutProofs -------------------------
(***************************************************************************)
(* Proofs about ConfigFanout and the node_pmc evidence path built on it,   *)
(* for any observers, configs and bounds.                                  *)
(*                                                                         *)
(* NoCarrierForgotten is not inductive: a late write is right only because *)
(* the config read under the lock is still the current one, and a fan-out  *)
(* write only because the registry's current config is the one being       *)
(* fanned out.  IInv adds the two facts, ApplyProgress for the poll task   *)
(* and RegistryProgress for the registrations.  That a cold agent is inert *)
(* needs one more, ColdCarriers: before the first fan-out no carrier holds *)
(* a config and no registration is about to write one.                     *)
(***************************************************************************)
EXTENDS PmcEvidence, TLAPS

\* A write into a carrier either stores the config or leaves the observer in the failed
\* history.  Another carrier is left alone, unless the observer has ended: then it may
\* get the config instead.
LEMMA WriteEffect ==
    ASSUME TypeOK, NEW o \in Observers, NEW c \in Maybe,
           bpf_map_update_tapio_config(o, c)
    PROVE  /\ map' \in [Observers -> Maybe]
           /\ writeFailures' \in 0..MaxWriteFailures
           /\ failed' \in SUBSET Observers
           /\ failed \subseteq failed'
           /\ o \in failed' \/ map'[o] = c
           /\ \A p \in Observers \ {o} :
                 map'[p] = map[p] \/ (obs[o] = "exited" /\ map'[p] = c)
  BY FanoutAssumption DEF bpf_map_update_tapio_config, TypeOK

\* The initial state satisfies the inductive invariant.
LEMMA InitIInv == Init => IInv
<1> SUFFICES ASSUME Init PROVE IInv
  OBVIOUS
<1> USE FanoutAssumption DEF Init
<1>1. TypeOK
  <2>1. /\ obs \in [Observers -> ObsStates]
        /\ late \in [Observers -> Maybe] /\ map \in [Observers -> Maybe]
    BY DEF Maybe, ObsStates
  <2>2. shutdown \in BOOLEAN
    OBVIOUS
  <2>3. /\ switches \in 0..MaxSwitches /\ fetchErrors \in 0..MaxFetchErrors
        /\ writeFailures \in 0..MaxWriteFailures
    OBVIOUS
  <2> QED
    BY <2>1, <2>2, <2>3 DEF TypeOK, Maybe, PollStates
<1>2. ApplyProgress
  BY DEF ApplyProgress, Quiet
<1>3. RegistryProgress
  BY DEF RegistryProgress
<1>4. NoCarrierForgotten
  BY DEF NoCarrierForgotten, Settled
<1> QED
  BY <1>1, <1>2, <1>3, <1>4 DEF IInv

\* Every step of the environment preserves it.
LEMMA EnvironmentIInv == IInv /\ Environment => IInv'
<1> SUFFICES ASSUME IInv, Environment PROVE IInv'
  OBVIOUS
<1> USE FanoutAssumption
    DEF IInv, TypeOK, ApplyProgress, RegistryProgress, NoCarrierForgotten, Settled, Quiet,
        Maybe, pollVars, historyVars
<1>1. CASE controller_restart
  BY <1>1 DEF controller_restart
<1>2. CASE hello_accepted
  BY <1>2 DEF hello_accepted
<1>3. CASE signal_shutdown
  BY <1>3 DEF signal_shutdown
<1> QED
  BY <1>1, <1>2, <1>3 DEF Environment

\* Every step of an observer's task preserves it.
LEMMA ObserverIInv ==
    ASSUME IInv, NEW o \in Observers, ObserverStep(o)
    PROVE  IInv'
<1> USE FanoutAssumption
    DEF IInv, TypeOK, ApplyProgress, RegistryProgress, NoCarrierForgotten, Settled, Quiet,
        Maybe, ObsStates, observerFrame, pollVars, historyVars
<1>1. CASE init_tapio_config(o)
  BY <1>1 DEF init_tapio_config
<1>2. CASE register_lock(o)
  BY <1>2 DEF register_lock
<1>3. CASE register_write(o)
  <2>1. CASE late[o] = Unset
    BY <1>3, <2>1 DEF register_write
  <2>2. CASE late[o] # Unset
    <3>1. bpf_map_update_tapio_config(o, late[o]) /\ late[o] \in Maybe
      BY <1>3, <2>2 DEF register_write
    <3>2. /\ map' \in [Observers -> Maybe]
          /\ writeFailures' \in 0..MaxWriteFailures
          /\ failed' \in SUBSET Observers
          /\ failed \subseteq failed'
          /\ o \in failed' \/ map'[o] = late[o]
          /\ \A p \in Observers \ {o} : map'[p] = map[p]
      BY <1>3, <3>1, WriteEffect DEF register_write
    <3>3. /\ obs[o] = "registering" /\ obs' = [obs EXCEPT ![o] = "attaching"]
          /\ UNCHANGED <<late, carriers, overlapped, observerFrame>>
      BY <1>3 DEF register_write
    <3>4. TypeOK'
      BY <3>2, <3>3
    <3>5. ApplyProgress' /\ RegistryProgress'
      BY <3>2, <3>3
    <3>6. NoCarrierForgotten'
      BY <3>2, <3>3
    <3> QED
      BY <3>4, <3>5, <3>6
  <2> QED
    BY <2>1, <2>2
<1>4. CASE attach(o)
  BY <1>4 DEF attach
<1>5. CASE give_up(o)
  BY <1>5 DEF give_up
<1>6. CASE observer_stop(o)
  BY <1>6 DEF observer_stop
<1> QED
  BY <1>1, <1>2, <1>3, <1>4, <1>5, <1>6 DEF ObserverStep

\* Every step of the poll task preserves it.
LEMMA PollIInv == IInv /\ PollStep => IInv'
<1> SUFFICES ASSUME IInv, PollStep PROVE IInv'
  OBVIOUS
<1> USE FanoutAssumption
    DEF IInv, TypeOK, ApplyProgress, RegistryProgress, NoCarrierForgotten, Settled, Quiet,
        Maybe, PollStates, pollFrame, historyVars
<1>1. CASE poll_stop
  BY <1>1 DEF poll_stop
<1>2. CASE fetch_error
  BY <1>2 DEF fetch_error
<1>3. CASE fetch_once
  BY <1>3 DEF fetch_once
<1>4. CASE update_all_lock
  BY <1>4 DEF update_all_lock
<1>5. ASSUME NEW o \in Observers, update_all_write(o) PROVE IInv'
  <2>1. bpf_map_update_tapio_config(o, fetched) /\ fetched \in Maybe
    BY <1>5 DEF update_all_write
  <2>2. /\ map' \in [Observers -> Maybe]
        /\ writeFailures' \in 0..MaxWriteFailures
        /\ failed' \in SUBSET Observers
        /\ failed \subseteq failed'
        /\ o \in failed' \/ map'[o] = fetched
        /\ \A p \in Observers \ {o} : map'[p] = map[p] \/ map'[p] = fetched
    BY <2>1, WriteEffect
  <2> QED
    BY <1>5, <2>2 DEF update_all_write
<1>6. CASE apply_config_thresholds
  BY <1>6 DEF apply_config_thresholds
<1>7. CASE mark_applied
  BY <1>7 DEF mark_applied
<1>8. CASE set_config_version
  BY <1>8 DEF set_config_version
<1> QED
  BY <1>1, <1>2, <1>3, <1>4, <1>5, <1>6, <1>7, <1>8 DEF PollStep

\* So does every step, and every stuttering step.
LEMMA FanoutStep == IInv /\ [Next]_vars => IInv'
<1>1. IInv /\ UNCHANGED vars => IInv'
  BY DEF IInv, TypeOK, ApplyProgress, RegistryProgress, NoCarrierForgotten, Settled, Quiet,
         vars, pollVars, historyVars
<1> QED
  BY <1>1, EnvironmentIInv, ObserverIInv, PollIInv DEF Next

\* The inductive invariant holds in every reachable state: whatever the order in which
\* polls, registrations, failures and shutdown interleave.
THEOREM FanoutInductive == Spec => []IInv
  BY InitIInv, FanoutStep, PTL DEF Spec

\* Type correctness of the fan-out.
THEOREM FanoutTypeCorrect == Spec => []TypeOK
<1>1. IInv => TypeOK
  BY DEF IInv
<1> QED
  BY <1>1, FanoutInductive, PTL

\* No registered carrier is missed by both update_all and its own late write
\* (observer/mod.rs:40-92), for any number of observers and configs.
THEOREM CarriersNotForgotten == Spec => []NoCarrierForgotten
<1>1. IInv => NoCarrierForgotten
  BY DEF IInv
<1> QED
  BY <1>1, FanoutInductive, PTL

\* The reported identity never runs ahead of the fan-out (controller.rs:104-116).
THEOREM IdentityNeverAhead == Spec => []IdentityFollowsFanout
<1>1. IInv => IdentityFollowsFanout
  BY DEF IInv, ApplyProgress, IdentityFollowsFanout
<1> QED
  BY <1>1, FanoutInductive, PTL

\* Between applies ETag, identity, registry and PMC thresholds name the same config.
THEOREM QuietRecordsAgree == Spec => []QuietAgreement
<1>1. IInv => QuietAgreement
  BY DEF IInv, ApplyProgress, QuietAgreement, Quiet
<1> QED
  BY <1>1, FanoutInductive, PTL

-----------------------------------------------------------------------------
(* The node_pmc evidence path.                                             *)

\* While the registry has no current config no carrier holds one, and no registration
\* has read one.
ColdCarriers ==
    current = Unset => \A o \in Observers : map[o] = Unset /\ late[o] = Unset

PmcIInv == IInv /\ ColdCarriers /\ ColdStartEmitsNothing

\* A step of the fan-out that leaves the registry without a config leaves the carriers
\* without one: the only writes there are carry the config of a finished lock.
LEMMA ColdCarriersStep ==
    ASSUME IInv, ColdCarriers, Next
    PROVE  ColdCarriers' /\ (current' = Unset => current = Unset)
<1> USE DEF ColdCarriers, IInv, TypeOK
<1>1. CASE Environment
  BY <1>1 DEF Environment, controller_restart, hello_accepted, signal_shutdown
<1>2. CASE PollStep
  <2>1. CASE poll_stop \/ fetch_error \/ fetch_once
    BY <2>1 DEF poll_stop, fetch_error, fetch_once, pollFrame
  <2>2. CASE update_all_lock
    <3>1. current' = fetched /\ fetched # Unset
      BY <2>2, FanoutAssumption DEF update_all_lock, ApplyProgress
    <3> QED
      BY <3>1
  <2>3. ASSUME NEW o \in Observers, update_all_write(o)
        PROVE  ColdCarriers' /\ (current' = Unset => current = Unset)
    <3>1. current' = current /\ current # Unset
      BY <2>3, FanoutAssumption DEF update_all_write, ApplyProgress
    <3> QED
      BY <3>1
  <2>4. CASE apply_config_thresholds \/ mark_applied
    BY <2>4 DEF apply_config_thresholds, mark_applied, pollFrame
  <2>5. CASE set_config_version
    BY <2>5 DEF set_config_version
  <2> QED
    BY <1>2, <2>1, <2>2, <2>3, <2>4, <2>5 DEF PollStep
<1>3. ASSUME NEW o \in Observers, ObserverStep(o)
      PROVE  ColdCarriers' /\ (current' = Unset => current = Unset)
  <2>1. current' = current
    BY <1>3 DEF ObserverStep, init_tapio_config, register_lock, register_write, attach,
                give_up, observer_stop, observerFrame
  <2>2. CASE init_tapio_config(o)
    BY <2>1, <2>2 DEF init_tapio_config
  <2>3. CASE register_lock(o)
    BY <2>1, <2>3 DEF register_lock
  <2>4. CASE register_write(o)
    BY <2>1, <2>4 DEF register_write
  <2>5. CASE attach(o) \/ give_up(o) \/ observer_stop(o)
    BY <2>1, <2>5 DEF attach, give_up, observer_stop
  <2> QED
    BY <1>3, <2>2, <2>3, <2>4, <2>5 DEF ObserverStep
<1> QED
  BY <1>1, <1>2, <1>3 DEF Next

\* A step of the fan-out or of the evidence path preserves the invariant of both.
LEMMA PmcStep == PmcIInv /\ [PmcNext]_<<vars, pmcVars>> => PmcIInv'
<1> SUFFICES ASSUME PmcIInv, [PmcNext]_<<vars, pmcVars>> PROVE PmcIInv'
  OBVIOUS
<1>1. ASSUME UNCHANGED vars PROVE IInv' /\ ColdCarriers' /\ current' = current
  <2>1. IInv'
    BY <1>1, FanoutStep DEF PmcIInv
  <2> QED
    BY <1>1, <2>1 DEF PmcIInv, ColdCarriers, vars
<1>2. CASE Next /\ UNCHANGED pmcVars
  <2>1. IInv'
    BY <1>2, FanoutStep DEF PmcIInv
  <2>2. ColdCarriers' /\ (current' = Unset => current = Unset)
    BY <1>2, ColdCarriersStep DEF PmcIInv
  <2> QED
    BY <1>2, <2>1, <2>2 DEF PmcIInv, ColdStartEmitsNothing, pmcVars
<1>3. CASE sample_pmc
  <2>1. current # Unset
    BY <1>3, PmcAssumption DEF sample_pmc, PmcIInv, ColdCarriers
  <2> QED
    BY <1>1, <1>3, <2>1 DEF sample_pmc, PmcIInv, ColdStartEmitsNothing
<1>4. CASE drain_pmc
  <2>1. current # Unset
    BY <1>4 DEF drain_pmc, PmcIInv, ColdStartEmitsNothing
  <2> QED
    BY <1>1, <1>4, <2>1 DEF drain_pmc, PmcIInv, ColdStartEmitsNothing
<1>5. CASE UNCHANGED <<vars, pmcVars>>
  BY <1>1, <1>5 DEF PmcIInv, ColdStartEmitsNothing, pmcVars
<1> QED
  BY <1>2, <1>3, <1>4, <1>5 DEF PmcNext

\* The invariant of the fan-out together with its evidence path.
THEOREM PmcInductive == PmcSpec => []PmcIInv
<1>1. PmcInit => PmcIInv
  <2> SUFFICES ASSUME PmcInit PROVE PmcIInv
    OBVIOUS
  <2>1. IInv
    BY InitIInv DEF PmcInit
  <2>2. ColdCarriers /\ ColdStartEmitsNothing
    BY DEF PmcInit, Init, ColdCarriers, ColdStartEmitsNothing
  <2> QED
    BY <2>1, <2>2 DEF PmcIInv
<1> QED
  BY <1>1, PmcStep, PTL DEF PmcSpec

\* A cold agent is inert (README.md:286): whatever the interleaving of registrations,
\* late writes and the first poll, no sample enters the node_pmc ring buffer before the
\* first config is being fanned out (ebpf/node_pmc_monitor.c, observer/mod.rs:40-92).
THEOREM ColdAgentInert == PmcSpec => []ColdStartEmitsNothing
<1>1. PmcIInv => ColdStartEmitsNothing
  BY DEF PmcIInv
<1> QED
  BY <1>1, PmcInductive, PTL

\* Once an identity has been reported, no sample is judged by the thresholds of the
\* TOML file any more (observer/node_pmc.rs, controller.rs:104-116).
THEOREM TomlOnlyBeforeFirstApply == PmcSpec => TomlJudgesOnlyBeforeFirstApply
<1>1. PmcIInv => (thresholds = Unset => active = Unset)
  BY FanoutAssumption DEF PmcIInv, IInv, TypeOK, ApplyProgress, Quiet, PollStates
<1>2. PmcIInv /\ [PmcNext]_<<vars, pmcVars>> =>
        [Len(ring') < Len(ring) /\ thresholds = Unset => active = Unset]_<<vars, pmcVars>>
  BY <1>1
<1> QED
  BY <1>2, PmcInductive, PTL DEF PmcSpec, TomlJudgesOnlyBeforeFirstApply

=============================================================================
