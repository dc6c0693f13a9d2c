----------------------------- MODULE AgentSinks -----------------------------
(***************************************************************************)
(* From an observer's classified occurrence to the agent's local and       *)
(* third-party sinks: MultiSink (tapio-agent/src/main.rs) calls stdout,    *)
(* file, http and otlp (tapio-agent/src/sink) one after the other, on the  *)
(* thread of the observer.  The http and the otlp sink keep a buffer under *)
(* a mutex which they release before any I/O, so the threads of several    *)
(* observers fill the buffer and post batches of it at the same time.      *)
(*                                                                         *)
(* Time is discrete: since[s] is the time since a sink's last_flush, up to *)
(* the flush interval, and retry_in what is left of the http sink's        *)
(* backoff.  An occurrence is its number in the order of detection.        *)
(***************************************************************************)
EXTENDS Integers, Sequences

CONSTANTS
    Observers,         \* the observers' threads
    Deployments,       \* the lists of sinks the agent may be started with
    buffer_size,       \* of the http sink
    batch_size,        \* of the otlp sink
    BufferFactor,      \* max_buffer is BufferFactor times that (10 in the code)
    flush_interval,    \* flush interval of both, in ticks
    INITIAL_BACKOFF,   \* the http sink's first backoff, in ticks
    MAX_BACKOFF,       \* and its largest
    Retries,           \* entries of the otlp sink's retry_backoff_ms (3 in the code)
    MaxEvents,         \* bound: occurrences
    MaxFailures        \* bound: failing I/O calls

SinkNames == {"stdout", "file", "http", "otlp"}
Buffered  == {"http", "otlp"}
Events    == 1..MaxEvents

ASSUME SinksAssumption ==
    /\ Observers # {} /\ Deployments \subseteq Seq(SinkNames) \ {<<>>}
    \* No list names a sink twice: a buffer is known by its sink's name.
    /\ \A d \in Deployments : \A i, j \in DOMAIN d : d[i] = d[j] => i = j
    /\ buffer_size \in Nat \ {0} /\ batch_size \in Nat \ {0} /\ BufferFactor \in Nat \ {0, 1}
    /\ flush_interval \in Nat \ {0} /\ Retries \in Nat
    /\ INITIAL_BACKOFF \in Nat \ {0} /\ MAX_BACKOFF \in Nat
    /\ INITIAL_BACKOFF <= MAX_BACKOFF
    /\ MaxEvents \in Nat /\ MaxFailures \in Nat

VARIABLES
    configured,   \* MultiSink.sinks
    detected,     \* how many occurrences the observers have classified
    shutdown,     \* the shutdown watch channel
    thread,       \* thread[o]: where observer o's thread is
    buffer,       \* the buffers of the http and the otlp sink
    since,        \* time since their last_flush
    retry_in,     \* time until the http sink's next_retry
    backoff,      \* the http sink's backoff
    files,        \* files[e]: the occurrence's file in the data directory
    delivered,    \* delivered[s]: occurrences sink s has written or had acknowledged
    lost,         \* lost[s]: occurrences sink s has given up
    writes,       \* sink_writes_total by sink and result
    failures      \* how many I/O calls have failed

ioVars == <<files, delivered, lost, failures>>
httpClock == <<retry_in, backoff>>
vars == <<configured, detected, shutdown, thread, buffer, since, httpClock, ioVars, writes>>

Idle    == [call |-> "idle", at |-> 0, io |-> "none", event |-> 0, batch |-> <<>>, tries |-> 0]
Stopped == [Idle EXCEPT !.call = "stopped"]

MinOf(a, b) == IF a < b THEN a ELSE b
Elems(s) == {s[i] : i \in DOMAIN s}
Size(s) == IF s = "http" THEN buffer_size ELSE batch_size

\* create_sinks: the sinks named on the command line, in that order.
create_sinks ==
    /\ configured \in Deployments
    /\ buffer = [s \in Buffered |-> <<>>] /\ since = [s \in Buffered |-> 0]
    /\ retry_in = 0 /\ backoff = INITIAL_BACKOFF

Init ==
    /\ create_sinks
    /\ detected = 0 /\ shutdown = FALSE
    /\ thread = [o \in Observers |-> Idle]
    /\ files = [e \in Events |-> "absent"]
    /\ delivered = [s \in SinkNames |-> {}] /\ lost = [s \in SinkNames |-> {}]
    /\ writes = [s \in SinkNames |-> [ok |-> 0, err |-> 0]]
    /\ failures = 0

-----------------------------------------------------------------------------
(* MultiSink.                                                              *)

\* The sink that observer o's thread is at, and whether it is about to call it.
SinkOf(o) == configured[thread[o].at]
Calls(o, call, s) ==
    thread[o].call = call /\ thread[o].io = "none" /\ SinkOf(o) = s

\* Mutant: the first error ends the call.
multi_return_early(o, result) ==
    /\ thread' = [thread EXCEPT ![o] =
           IF result = "ok" /\ thread[o].at < Len(configured)
             THEN [Idle EXCEPT !.call = thread[o].call, !.event = thread[o].event,
                               !.at = thread[o].at + 1]
           ELSE IF thread[o].call = "send" THEN Idle ELSE Stopped]
    /\ writes' = IF thread[o].call = "send"
                   THEN [writes EXCEPT ![SinkOf(o)][result] = @ + 1] ELSE writes

\* A sink returns to MultiSink: send counts the result under the sink's name, flush
\* only logs it, and either goes on with the next sink whatever the result was.
\* After the last sink a send returns to the drain loop and a flush ends the observer.
multi_return(o, result) ==
    /\ thread' = [thread EXCEPT ![o] =
           IF thread[o].at < Len(configured)
             THEN [Idle EXCEPT !.call = thread[o].call, !.event = thread[o].event,
                               !.at = thread[o].at + 1]
           ELSE IF thread[o].call = "send" THEN Idle ELSE Stopped]
    /\ writes' = IF thread[o].call = "send"
                   THEN [writes EXCEPT ![SinkOf(o)][result] = @ + 1] ELSE writes

\* An I/O call fails.
Fails == failures < MaxFailures /\ failures' = failures + 1

Decide(ledger, s, E) == [ledger EXCEPT ![s] = @ \cup E]

-----------------------------------------------------------------------------
(* The observers.                                                          *)

\* The drain loop classifies a record as an anomaly and calls MultiSink::send.
detect(o) ==
    /\ thread[o] = Idle /\ detected < MaxEvents
    /\ detected' = detected + 1
    /\ thread' = [thread EXCEPT ![o] =
           [Idle EXCEPT !.call = "send", !.at = 1, !.event = detected + 1]]
    /\ UNCHANGED <<configured, shutdown, buffer, since, httpClock, ioVars, writes>>

\* The drain loop sees the shutdown signal and calls MultiSink::flush.
observer_end(o) ==
    /\ thread[o] = Idle /\ shutdown
    /\ thread' = [thread EXCEPT ![o] = [Idle EXCEPT !.call = "flush", !.at = 1]]
    /\ UNCHANGED <<configured, detected, shutdown, buffer, since, httpClock, ioVars, writes>>

signal_shutdown ==
    /\ ~shutdown /\ shutdown' = TRUE
    /\ UNCHANGED <<configured, detected, thread, buffer, since, httpClock, ioVars, writes>>

\* Time passes.
tick ==
    /\ since' = [s \in Buffered |-> IF s \in Elems(configured)
                                      THEN MinOf(since[s] + 1, flush_interval) ELSE 0]
    /\ retry_in' = IF retry_in > 0 THEN retry_in - 1 ELSE 0
    /\ <<since, retry_in>>' # <<since, retry_in>>
    /\ UNCHANGED <<configured, detected, shutdown, thread, buffer, backoff, ioVars, writes>>

-----------------------------------------------------------------------------
(* stdout and file.                                                        *)

\* StdoutSink::send writes one line under the lock; the pipe may be closed (SIGPIPE is
\* ignored, so the write returns an error).
stdout_send(o) ==
    /\ Calls(o, "send", "stdout")
    /\ \/ /\ delivered' = Decide(delivered, "stdout", {thread[o].event})
          /\ multi_return(o, "ok")
          /\ UNCHANGED <<lost, failures>>
       \/ /\ Fails
          /\ lost' = Decide(lost, "stdout", {thread[o].event})
          /\ multi_return(o, "err")
          /\ UNCHANGED delivered
    /\ UNCHANGED <<configured, detected, shutdown, buffer, since, httpClock, files>>

\* FileSink::send: fs::write creates (or truncates) <id>.json ...
file_create(o) ==
    /\ Calls(o, "send", "file")
    /\ \/ /\ files' = [files EXCEPT ![thread[o].event] = "partial"]
          /\ thread' = [thread EXCEPT ![o].io = "write"]
          /\ UNCHANGED <<lost, failures, writes>>
       \/ /\ Fails
          /\ lost' = Decide(lost, "file", {thread[o].event})
          /\ multi_return(o, "err")
          /\ UNCHANGED files
    /\ UNCHANGED <<configured, detected, shutdown, buffer, since, httpClock, delivered>>

\* ... and then writes the JSON into it.  When that fails the truncated file stays.
file_write(o) ==
    /\ thread[o].io = "write"
    /\ \/ /\ files' = [files EXCEPT ![thread[o].event] = "complete"]
          /\ delivered' = Decide(delivered, "file", {thread[o].event})
          /\ multi_return(o, "ok")
          /\ UNCHANGED <<lost, failures>>
       \/ /\ Fails
          /\ lost' = Decide(lost, "file", {thread[o].event})
          /\ multi_return(o, "err")
          /\ UNCHANGED <<files, delivered>>
    /\ UNCHANGED <<configured, detected, shutdown, buffer, since, httpClock>>

\* StdoutSink::flush (which may fail) and FileSink::flush (which does nothing).
unbuffered_flush(o) ==
    /\ Calls(o, "flush", "stdout") \/ Calls(o, "flush", "file")
    /\ multi_return(o, "ok")
    /\ UNCHANGED <<configured, detected, shutdown, buffer, since, httpClock, ioVars>>

-----------------------------------------------------------------------------
(* What the http and the otlp sink have in common, under their locks.      *)

\* The buffer after the overflow check: from max_buffer on only the newest Size(s)
\* occurrences stay, and the rest is gone with a log line.
Kept(s) ==
    LET b == buffer[s]
    IN IF Len(b) >= BufferFactor * Size(s)
         THEN SubSeq(b, Len(b) - Size(s) + 1, Len(b)) ELSE b

\* Mutant: the buffer is posted but not taken.
send_locked_copies(o, s, io, due) ==
    LET full == Append(Kept(s), thread[o].event)
    IN /\ lost' = Decide(lost, s, Elems(buffer[s]) \ Elems(Kept(s)))
       /\ buffer' = [buffer EXCEPT ![s] = full]
       /\ \/ /\ due
             /\ since' = [since EXCEPT ![s] = 0]
             /\ thread' = [thread EXCEPT ![o].io = io, ![o].batch = full]
             /\ UNCHANGED writes
          \/ /\ ~due
             /\ multi_return(o, "ok")
             /\ UNCHANGED since

\* send under the lock: drop the oldest occurrences of a buffer that is too long, push
\* the new one, and take the whole buffer when a flush is due; otherwise return.
send_locked(o, s, io, due) ==
    LET full == Append(Kept(s), thread[o].event)
    IN /\ lost' = Decide(lost, s, Elems(buffer[s]) \ Elems(Kept(s)))
       /\ \/ /\ due
             /\ buffer' = [buffer EXCEPT ![s] = <<>>]
             /\ since' = [since EXCEPT ![s] = 0]
             /\ thread' = [thread EXCEPT ![o].io = io, ![o].batch = full]
             /\ UNCHANGED writes
          \/ /\ ~due
             /\ buffer' = [buffer EXCEPT ![s] = full]
             /\ multi_return(o, "ok")
             /\ UNCHANGED since

\* The buffer with the new occurrence is full, or the interval is over.
FlushDue(s) == Len(Kept(s)) + 1 >= Size(s) \/ since[s] = flush_interval

\* flush under the lock: an empty buffer returns at once, any other is taken.
flush_locked(o, s, io) ==
    /\ \/ /\ buffer[s] = <<>>
          /\ multi_return(o, "ok")
          /\ UNCHANGED <<buffer, since>>
       \/ /\ buffer[s] # <<>>
          /\ buffer' = [buffer EXCEPT ![s] = <<>>]
          /\ since' = [since EXCEPT ![s] = 0]
          /\ thread' = [thread EXCEPT ![o].io = io, ![o].batch = buffer[s]]
          /\ UNCHANGED writes
    /\ UNCHANGED <<configured, detected, shutdown, httpClock, ioVars>>

-----------------------------------------------------------------------------
(* http.                                                                   *)

\* HttpSink::send: no flush is due before next_retry.
http_send(o) ==
    /\ Calls(o, "send", "http")
    /\ send_locked(o, "http", "post", retry_in = 0 /\ FlushDue("http"))
    /\ UNCHANGED <<configured, detected, shutdown, httpClock, files, delivered, failures>>

\* HttpSink::flush does not look at next_retry.
http_flush(o) == Calls(o, "flush", "http") /\ flush_locked(o, "http", "post")

\* HttpSink::post_batch, answered with 2xx: the backoff starts again from its first
\* value; a next_retry that another thread's failure has set stays.
post_batch_ok(o) ==
    /\ thread[o].io = "post"
    /\ delivered' = Decide(delivered, "http", Elems(thread[o].batch))
    /\ backoff' = INITIAL_BACKOFF
    /\ multi_return(o, "ok")
    /\ UNCHANGED <<configured, detected, shutdown, buffer, since, retry_in, files, lost,
                   failures>>

\* HttpSink::post_batch fails (connection, timeout, other status): the batch is lost,
\* the next flush has to wait, and the backoff doubles.
post_batch_err(o) ==
    /\ thread[o].io = "post" /\ Fails
    /\ lost' = Decide(lost, "http", Elems(thread[o].batch))
    /\ retry_in' = backoff
    /\ backoff' = MinOf(2 * backoff, MAX_BACKOFF)
    /\ multi_return(o, "err")
    /\ UNCHANGED <<configured, detected, shutdown, buffer, since, files, delivered>>

-----------------------------------------------------------------------------
(* otlp.                                                                   *)

\* Mutant: an occurrence waits while another thread exports.
otlp_send_waits(o) ==
    /\ Calls(o, "send", "otlp")
    /\ send_locked(o, "otlp", "export",
                   FlushDue("otlp") /\ \A p \in Observers : thread[p].io # "export")
    /\ UNCHANGED <<configured, detected, shutdown, httpClock, files, delivered, failures>>

\* OtlpSink::send: there is no backoff between batches.
otlp_send(o) ==
    /\ Calls(o, "send", "otlp")
    /\ send_locked(o, "otlp", "export", FlushDue("otlp"))
    /\ UNCHANGED <<configured, detected, shutdown, httpClock, files, delivered, failures>>

otlp_flush(o) == Calls(o, "flush", "otlp") /\ flush_locked(o, "otlp", "export")

\* OtlpSink::export_batch: an attempt is answered with 2xx.
export_ok(o) ==
    /\ thread[o].io = "export"
    /\ delivered' = Decide(delivered, "otlp", Elems(thread[o].batch))
    /\ multi_return(o, "ok")
    /\ UNCHANGED <<configured, detected, shutdown, buffer, since, httpClock, files, lost,
                   failures>>

\* 429, 5xx or a connection error: the thread sleeps and tries again, as often as
\* retry_backoff_ms has entries.
export_retry(o) ==
    /\ thread[o].io = "export" /\ thread[o].tries < Retries /\ Fails
    /\ thread' = [thread EXCEPT ![o].tries = @ + 1]
    /\ UNCHANGED <<configured, detected, shutdown, buffer, since, httpClock, files,
                   delivered, lost, writes>>

\* The retries are used up, or the collector answers with any other status, which is
\* never retried: the batch is dropped.
export_err(o) ==
    /\ thread[o].io = "export" /\ Fails
    /\ lost' = Decide(lost, "otlp", Elems(thread[o].batch))
    /\ multi_return(o, "err")
    /\ UNCHANGED <<configured, detected, shutdown, buffer, since, httpClock, files,
                   delivered>>

-----------------------------------------------------------------------------

IoStep(o) ==
    \/ file_write(o) \/ post_batch_ok(o) \/ post_batch_err(o)
    \/ export_ok(o) \/ export_retry(o) \/ export_err(o)

CallStep(o) ==
    \/ stdout_send(o) \/ file_create(o) \/ http_send(o) \/ otlp_send(o)
    \/ unbuffered_flush(o) \/ http_flush(o) \/ otlp_flush(o)

Next ==
    \/ \E o \in Observers : detect(o) \/ observer_end(o) \/ CallStep(o) \/ IoStep(o)
    \/ signal_shutdown
    \/ tick

Spec == Init /\ [][Next]_vars

\* Calls into a sink return and I/O ends (reads have timeouts, the kernel ends a connect;
\* the otlp sink's write has none and relies on a collector that goes on reading), time
\* passes, and an observer that is asked to stop does.  Nothing makes an observer detect
\* anything, and nothing sends SIGINT.
Fairness ==
    /\ WF_vars(tick)
    /\ \A o \in Observers : WF_vars(CallStep(o) \/ IoStep(o)) /\ WF_vars(observer_end(o))

FairSpec == Spec /\ Fairness

-----------------------------------------------------------------------------
(* Properties.                                                             *)

Threads == [call : {"idle", "send", "flush", "stopped"}, at : 0..Len(configured),
            io : {"none", "write", "post", "export"}, event : 0..MaxEvents,
            batch : Seq(Events), tries : 0..Retries]

\* Every variable has its type, and the buffers their bounds: the http buffer never
\* grows past max_buffer, and the otlp buffer, which is taken whenever it is full, never
\* even reaches batch_size, so that sink's overflow branch (otlp.rs:359) is dead code.
BuffersBounded ==
    /\ configured \in Deployments /\ detected \in 0..MaxEvents /\ shutdown \in BOOLEAN
    /\ thread \in [Observers -> Threads]
    /\ buffer \in [Buffered -> Seq(Events)]
    /\ Len(buffer["http"]) <= BufferFactor * buffer_size
    /\ Len(buffer["otlp"]) < batch_size
    /\ since \in [Buffered -> 0..flush_interval]
    /\ retry_in \in 0..MAX_BACKOFF /\ backoff \in INITIAL_BACKOFF..MAX_BACKOFF
    /\ files \in [Events -> {"absent", "partial", "complete"}]
    /\ delivered \in [SinkNames -> SUBSET Events] /\ lost \in [SinkNames -> SUBSET Events]
    /\ writes \in [SinkNames -> [ok : 0..MaxEvents, err : 0..MaxEvents]]
    /\ failures \in 0..MaxFailures

\* Mapping to the ledger: what a sink holds is in its buffer, in a batch some thread is
\* posting, or in a file some thread is writing; an occurrence that is in two of these,
\* or in one of them and decided, or decided both ways, has no fate the ledger knows.
Carries(o, s) ==
    CASE s \in Buffered /\ thread[o].io = (IF s = "http" THEN "post" ELSE "export") ->
            Elems(thread[o].batch)
      [] s = "file" /\ thread[o].io = "write" -> {thread[o].event}
      [] OTHER -> {}

Waiting(s) == IF s \in Buffered THEN Elems(buffer[s]) ELSE {}

FateOf(s, e) ==
    LET carriers == {o \in Observers : e \in Carries(o, s)}
        places == {p \in {"held", "delivered", "lost"} :
                     CASE p = "held" -> e \in Waiting(s) \/ carriers # {}
                       [] p = "delivered" -> e \in delivered[s]
                       [] p = "lost" -> e \in lost[s]}
    IN CASE places = {} -> "new"
         [] \/ \E p, q \in places : p # q
            \/ \E o, q \in carriers : o # q
            \/ e \in Waiting(s) /\ carriers # {} -> "twice"
         [] OTHER -> CHOOSE p \in places : TRUE

Ledger == INSTANCE EvidenceLedger WITH
    Sinks <- SinkNames,
    configured <- Elems(configured),
    fate <- [s \in Elems(configured) |-> [e \in Events |-> FateOf(s, e)]],
    closed <- \A o \in Observers : thread[o] = Stopped

\* The sinks keep the ledger: no occurrence is forgotten, posted in two batches or decided
\* twice, none is held once the last observer has ended, and all went to all sinks.
KeepsLedger == Ledger!LedgerSpec

\* A shutdown gets everything out: once it is signalled every observer ends, although its
\* last flush posts with retries while other threads post too, and by then every
\* occurrence has been offered to every sink, failing ones notwithstanding ("Failure in
\* one doesn't block others", main.rs:272), and is counted once in sink_writes_total.
SinksDrain ==
    shutdown ~> /\ \A o \in Observers : thread[o] = Stopped
                /\ \A s \in Elems(configured) : writes[s].ok + writes[s].err = detected

=============================================================================
