--------------------------- MODULE EvidenceLedger ---------------------------
(***************************************************************************)
(* What the agent promises of the occurrences it hands to its sinks,       *)
(* whatever buffering, batching and concurrency is behind it.  Each sink   *)
(* keeps a ledger: an occurrence is new to it, held by it, or decided; a   *)
(* decision is final and is taken once; and when the agent is done nothing *)
(* is held any more and every occurrence has been through every sink.      *)
(***************************************************************************)
CONSTANTS
    Sinks,      \* the kinds of sink
    Events      \* the occurrences

VARIABLES
    configured, \* the sinks this agent runs with
    fate,       \* fate[s][e]: where sink s is with occurrence e
    closed      \* the agent is done

ledgerVars == <<configured, fate, closed>>

Fates == {"new", "held", "delivered", "lost"}

\* How an entry may change: it is taken in and decided, in one step or in two.
Moves == {<<"new", "held">>, <<"new", "delivered">>, <<"new", "lost">>,
          <<"held", "delivered">>, <<"held", "lost">>}

LedgerInit ==
    /\ configured \in (SUBSET Sinks) \ {{}}
    /\ fate = [s \in configured |-> [e \in Events |-> "new"]]
    /\ closed = FALSE

\* One sink makes progress with some of its entries.
Progress(s) ==
    LET was == fate[s]
        now == fate'[s]
    IN /\ fate' = [fate EXCEPT ![s] = now]
       /\ now \in [Events -> Fates]
       /\ \A e \in Events : now[e] # was[e] => <<was[e], now[e]>> \in Moves

\* The agent is done, possibly with the very step that decides the last entries.
Close ==
    /\ closed' = TRUE
    /\ (\E s \in configured : Progress(s)) \/ UNCHANGED fate
    /\ \A e \in Events :
        /\ \A s \in configured : fate'[s][e] # "held"
        /\ \A s, t \in configured : fate'[s][e] = "new" <=> fate'[t][e] = "new"

LedgerNext ==
    /\ ~closed
    /\ \/ (\E s \in configured : Progress(s)) /\ UNCHANGED closed
       \/ Close
    /\ UNCHANGED configured

LedgerSpec == LedgerInit /\ [][LedgerNext]_ledgerVars

=============================================================================
