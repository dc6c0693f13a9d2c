---------------------------- MODULE PmcEvidence ----------------------------
(***************************************************************************)
(* The node_pmc evidence path on top of ConfigFanout.  It is the only      *)
(* observer whose events are judged in user space: the kernel program      *)
(* stamps a sample with the generation of its carrier, the ring buffer     *)
(* keeps the sample for up to a drain tick, and the observer then          *)
(* classifies it with whatever thresholds the watch channel holds.         *)
(***************************************************************************)
EXTENDS ConfigFanout, Sequences

CONSTANTS
    Pmc,       \* the node_pmc observer
    Enabled,   \* Enabled[c]: the observers whose flag config c sets
    RingCap,   \* samples the ring buffer holds
    MaxLost    \* bound: lost samples counted

ASSUME PmcAssumption ==
    /\ Pmc \in Observers
    /\ Enabled \in [Configs -> SUBSET Observers]
    /\ RingCap \in Nat \ {0} /\ MaxLost \in Nat

VARIABLES
    ring,    \* generation stamps of the samples in the ring buffer
    lost     \* METRIC_LOST_EVENTS of the program

pmcVars == <<ring, lost>>

PmcInit == Init /\ ring = <<>> /\ lost = 0

\* Mutant: the program does not look at the flags of its config.
sample_pmc_unconditional ==
    /\ obs[Pmc] = "running"
    /\ Len(ring) < RingCap
    /\ ring' = Append(ring, map[Pmc])
    /\ UNCHANGED <<lost, vars>>

\* The sampling timer fires on a program that is attached, configured and enabled.
\* A full ring buffer loses the sample, and the program counts it.
sample_pmc ==
    /\ obs[Pmc] = "running"
    /\ map[Pmc] # Unset /\ Pmc \in Enabled[map[Pmc]]
    /\ \/ /\ Len(ring) < RingCap
          /\ ring' = Append(ring, map[Pmc])
          /\ UNCHANGED lost
       \/ /\ Len(ring) = RingCap
          /\ lost < MaxLost /\ lost' = lost + 1
          /\ UNCHANGED ring
    /\ UNCHANGED vars

\* The observer takes the oldest sample and classifies it with the thresholds the
\* watch channel holds at that moment.
drain_pmc ==
    /\ obs[Pmc] = "running"
    /\ ring # <<>>
    /\ ring' = Tail(ring)
    /\ UNCHANGED <<lost, vars>>

PmcNext ==
    \/ Next /\ UNCHANGED pmcVars
    \/ sample_pmc
    \/ drain_pmc

PmcSpec == PmcInit /\ [][PmcNext]_<<vars, pmcVars>>

\* Nothing is asked of the sampling timer or of the drain loop.
PmcFairSpec == PmcSpec /\ Fairness

-----------------------------------------------------------------------------

\* A cold agent is inert (README.md:286): no sample enters the ring buffer, and so
\* none is judged, before the first config of the controller is being fanned out.
ColdStartEmitsNothing == current = Unset => ring = <<>>

\* The thresholds of the local TOML file judge a controller-mode sample only while
\* the very first apply is under way: once an identity has been reported they
\* are never used again.
TomlJudgesOnlyBeforeFirstApply ==
    [][Len(ring') < Len(ring) /\ thresholds = Unset => active = Unset]_<<vars, pmcVars>>

\* Docs: "Every emitted event carries the config generation that judged it"
\* (docs/agent-kernel-config-abi.md:184).
JudgedByStampedConfig ==
    [][Len(ring') < Len(ring) => Head(ring) = thresholds]_<<vars, pmcVars>>

=============================================================================
