------------------------- MODULE AgentRegistration -------------------------
(***************************************************************************)
(* The registration task of each agent (tapio-agent/src/registration.rs)   *)
(* against the controller of ControllerRegistry: hello with backoff until  *)
(* it is accepted, then a heartbeat per tick.  Controllers and agents may  *)
(* die and come back, calls may time out, and a request whose sender has   *)
(* given up may still be served: the controller finds it in its socket     *)
(* when it runs again.  The poll task of ConfigFanout appears as one step, *)
(* fetch_and_apply.                                                        *)
(***************************************************************************)
EXTENDS ControllerRegistry

CONSTANTS
    NoCall,      \* the agent has no request outstanding
    MaxCallFaults \* bound: timed-out calls and agent exits

ASSUME RegistrationAssumption ==
    /\ MaxCallFaults \in Nat
    \* A config hash starts with "sha256:"; the identity of a fresh agent is empty.
    /\ Unconfigured \notin Hashes

VARIABLES
    up,          \* the controller process runs
    served,      \* the hash of the config it serves
    task,        \* task[a]: where the registration task of a is
    applied,     \* ActiveConfigIdentity of a
    call,        \* call[a]: the request a waits for, with its progress
    stale,       \* requests in the controller's sockets that nobody waits for
    callFaults,  \* how many calls have timed out or agents exited
    everApplied  \* history: the configs a has applied in any of its lives

agentVars   == <<task, applied, call, stale, callFaults, everApplied>>
regVars     == <<vars, up, served, agentVars>>


RegInit ==
    /\ Init
    /\ up = TRUE /\ served \in Hashes
    /\ task = [a \in Agents |-> "hello"]
    /\ applied = [a \in Agents |-> Unconfigured]
    /\ call = [a \in Agents |-> NoCall]
    /\ stale = {} /\ callFaults = 0
    /\ everApplied = [a \in Agents |-> {}]

-----------------------------------------------------------------------------
(* The agent.                                                              *)

Request(kind, hash) == [kind |-> kind, hash |-> hash, progress |-> "built"]

\* hello_once up to the connect.
hello_once(a) ==
    /\ task[a] = "hello"
    /\ task' = [task EXCEPT ![a] = "hello_wait"]
    /\ call' = [call EXCEPT ![a] = Request("hello", Unconfigured)]
    /\ UNCHANGED <<vars, up, served, applied, stale, callFaults, everApplied>>

\* Mutant: the heartbeat reports the config the controller advertises.
heartbeat_once_advertised(a) ==
    /\ task[a] = "beat"
    /\ task' = [task EXCEPT ![a] = "beat_wait"]
    /\ call' = [call EXCEPT ![a] = Request("heartbeat", served)]
    /\ UNCHANGED <<vars, up, served, applied, stale, callFaults, everApplied>>

\* heartbeat_once up to the connect: the tick builds the request from the identity
\* that is applied at this moment.
heartbeat_once(a) ==
    /\ task[a] = "beat"
    /\ task' = [task EXCEPT ![a] = "beat_wait"]
    /\ call' = [call EXCEPT ![a] = Request("heartbeat", applied[a])]
    /\ UNCHANGED <<vars, up, served, applied, stale, callFaults, everApplied>>

\* The connection is made and the request written, or refused.
connect(a) ==
    /\ call[a] # NoCall /\ call[a].progress = "built"
    /\ call' = [call EXCEPT ![a].progress = IF up THEN "sent" ELSE "failed"]
    /\ UNCHANGED <<vars, up, served, task, applied, stale, callFaults, everApplied>>

\* The requests left behind when a gives up on its call.
Abandoned(a) ==
    IF call[a] # NoCall /\ call[a].progress = "sent"
      THEN {[id |-> callFaults, agent |-> a, kind |-> call[a].kind, hash |-> call[a].hash]}
      ELSE {}

\* The read times out, or the connection breaks: before the controller has served
\* the request, or after it.
time_out(a) ==
    /\ call[a] # NoCall /\ call[a].progress \in {"sent", "accepted"}
    /\ callFaults < MaxCallFaults /\ callFaults' = callFaults + 1
    /\ stale' = stale \cup Abandoned(a)
    /\ call' = [call EXCEPT ![a].progress = "failed"]
    /\ UNCHANGED <<vars, up, served, task, applied, everApplied>>

\* Mutant: the agent goes on to its heartbeats after a failed hello.
hello_result_ignored(a) ==
    /\ task[a] = "hello_wait"
    /\ call[a].progress \in {"accepted", "failed"}
    /\ task' = [task EXCEPT ![a] = "beat"]
    /\ call' = [call EXCEPT ![a] = NoCall]
    /\ UNCHANGED <<vars, up, served, applied, stale, callFaults, everApplied>>

\* registration_loop on the result of a hello.
hello_result(a) ==
    /\ task[a] = "hello_wait"
    /\ \/ call[a].progress = "accepted" /\ task' = [task EXCEPT ![a] = "beat"]
       \/ call[a].progress = "failed" /\ task' = [task EXCEPT ![a] = "backoff"]
    /\ call' = [call EXCEPT ![a] = NoCall]
    /\ UNCHANGED <<vars, up, served, applied, stale, callFaults, everApplied>>

\* The backoff sleep ends.
backoff_elapsed(a) ==
    /\ task[a] = "backoff"
    /\ task' = [task EXCEPT ![a] = "hello"]
    /\ UNCHANGED <<vars, up, served, applied, call, stale, callFaults, everApplied>>

\* Only a response that says "not accepted" sends the agent back to hello; an error
\* does not.
classify_heartbeat_result(result) == IF result = "rejected" THEN "hello" ELSE "beat"

\* heartbeat_loop on the result of a heartbeat.
heartbeat_result(a) ==
    /\ task[a] = "beat_wait"
    /\ call[a].progress \in {"accepted", "rejected", "failed"}
    /\ task' = [task EXCEPT ![a] = classify_heartbeat_result(call[a].progress)]
    /\ call' = [call EXCEPT ![a] = NoCall]
    /\ UNCHANGED <<vars, up, served, applied, stale, callFaults, everApplied>>

\* The poll task fetches and applies the served config.
fetch_and_apply(a) ==
    /\ task[a] # "stopped" /\ up /\ applied[a] # served
    /\ applied' = [applied EXCEPT ![a] = served]
    /\ everApplied' = [everApplied EXCEPT ![a] = @ \cup {served}]
    /\ UNCHANGED <<vars, up, served, task, call, stale, callFaults>>

\* The agent process stops or is killed.
agent_exit(a) ==
    /\ task[a] # "stopped"
    /\ callFaults < MaxCallFaults /\ callFaults' = callFaults + 1
    /\ task' = [task EXCEPT ![a] = "stopped"]
    /\ stale' = stale \cup Abandoned(a)
    /\ call' = [call EXCEPT ![a] = NoCall]
    /\ UNCHANGED <<vars, up, served, applied, everApplied>>

\* A new agent process starts with nothing applied.
agent_start(a) ==
    /\ task[a] = "stopped"
    /\ task' = [task EXCEPT ![a] = "hello"]
    /\ applied' = [applied EXCEPT ![a] = Unconfigured]
    /\ UNCHANGED <<vars, up, served, call, stale, callFaults, everApplied>>

-----------------------------------------------------------------------------
(* The controller.                                                         *)

\* The hello and heartbeat handlers.
handle(a, kind, hash) ==
    \/ kind = "hello" /\ register_agent(a)
    \/ kind = "heartbeat" /\ record_heartbeat(a, hash)

\* What record_heartbeat answers, whether or not it knows the agent.
HeartbeatResponse(a) == "accepted"

\* A request its sender waits for is served.
serve(a) ==
    /\ up /\ call[a] # NoCall /\ call[a].progress = "sent"
    /\ handle(a, call[a].kind, call[a].hash)
    /\ call' = [call EXCEPT ![a].progress =
                   IF call[a].kind = "hello" THEN "accepted" ELSE HeartbeatResponse(a)]
    /\ UNCHANGED <<up, served, task, applied, stale, callFaults, everApplied>>

\* An abandoned one is served.
serve_late(r) ==
    /\ up /\ r \in stale
    /\ handle(r.agent, r.kind, r.hash)
    /\ stale' = stale \ {r}
    /\ UNCHANGED <<up, served, task, applied, call, callFaults, everApplied>>

\* The controller dies: its state is gone, and so is what waits in its sockets.
controller_crash ==
    /\ up /\ up' = FALSE
    /\ restart
    /\ stale' = {}
    /\ call' = [a \in Agents |->
                  IF call[a] # NoCall /\ call[a].progress = "sent"
                    THEN [call[a] EXCEPT !.progress = "failed"] ELSE call[a]]
    /\ UNCHANGED <<served, task, applied, callFaults, everApplied>>

\* It starts again, with the same profile or another one.
controller_start ==
    /\ ~up /\ up' = TRUE
    /\ served' \in Hashes
    /\ UNCHANGED <<vars, agentVars>>

AgentStep(a) ==
    \/ hello_once(a) \/ heartbeat_once(a) \/ connect(a)
    \/ hello_result(a) \/ backoff_elapsed(a) \/ heartbeat_result(a)

RegNext ==
    \/ \E a \in Agents :
          \/ AgentStep(a) \/ fetch_and_apply(a) \/ serve(a)
          \/ time_out(a) \/ agent_exit(a) \/ agent_start(a)
    \/ \E r \in stale : serve_late(r)
    \/ controller_crash \/ controller_start

RegSpec == RegInit /\ [][RegNext]_regVars

\* Tokio keeps scheduling the tasks, ticks and sleeps end, the controller serves what
\* it has received and is brought back when it dies.  Timeouts, exits and crashes
\* happen or not; abandoned requests need never be served.
RegFairness ==
    /\ \A a \in Agents : /\ WF_regVars(AgentStep(a))
                         /\ WF_regVars(fetch_and_apply(a))
                         /\ WF_regVars(serve(a))
    /\ WF_regVars(controller_start)

RegFairSpec == RegSpec /\ RegFairness

-----------------------------------------------------------------------------
(* Properties.                                                             *)

\* ControllerState::unconverged_agents.
unconverged_agents(target) == {a \in agents : last_heartbeats[a] # target}

\* The controller never takes an agent for converged that has not applied the config:
\* neither the version a hello advertises nor a request served late can make it so.
ConvergedHasApplied ==
    \A a \in agents \ unconverged_agents(served) : served \in everApplied[a]

\* Whatever was lost, repeated or served late, the controller comes to know the config
\* a running agent runs, and keeps to it.
HeartbeatsCatchUp ==
    <>[](\A a \in Agents : ~up \/ task[a] = "stopped" \/ last_heartbeats[a] = served)

\* An agent that starts to register is registered in the end, or one of the two dies.
HelloSucceeds ==
    \A a \in Agents : task[a] = "hello" ~> (a \in agents \/ ~up \/ task[a] = "stopped")

\* The smoke test expects a running agent to register with a restarted controller
\* (scripts/smoke-agent-controller.sh:335).
ReRegisters ==
    \A a \in Agents : []<>(a \in agents \/ ~up \/ task[a] = "stopped")

=============================================================================
