--------------------------- MODULE OccurrenceFiles ---------------------------
(***************************************************************************)
(* The command line (tapio-cli/src/main.rs) reads the files that the file  *)
(* sink of a running agent writes.  The two share nothing but the          *)
(* directory: a listing may miss a file created during it, and a file may  *)
(* be read between its creation and its content.  `watch` lists the        *)
(* directory again and again and prints what is new; status, recent,       *)
(* health and the tools of the MCP server load all of it for each answer.  *)
(***************************************************************************)
EXTENDS AgentSinks, FiniteSets

CONSTANTS
    Setups,         \* the lists of sinks, and the tool that runs beside the agent
    timestamp,      \* timestamp[e]
    category,       \* category[e]: observer_category of its type
    critical,       \* the occurrences of severity critical
    filters,        \* watch: the categories asked for; none means all
    ShowLast,       \* `recent` shows that many (20), watch_stream max_events (50)
    CriticalLimit,  \* health: that many critical ones (3) ...
    TotalLimit,     \* ... or that many of any kind (20) are critical
    ReaderEvents,   \* bound: occurrences while a tool reads ...
    ReaderFailures, \* ... and failing I/O calls
    Cutoffs         \* bound: the beginnings of the time spans asked for

Categories == {"network", "container", "storage", "node"}
Commands == {"status", "recent", "health",
             "tapio_recent_anomalies", "tapio_node_health", "tapio_watch_stream"}

ASSUME FilesAssumption ==
    /\ timestamp \in [Events -> Nat] /\ category \in [Events -> Categories]
    /\ critical \subseteq Events /\ filters \subseteq Categories
    /\ ShowLast \in Nat \ {0} /\ CriticalLimit \in Nat \ {0} /\ TotalLimit \in Nat \ {0}
    /\ ReaderEvents \in Nat /\ ReaderFailures \in Nat /\ Cutoffs \subseteq Nat

VARIABLES
    tool,     \* the command line's command, or "none", or "ended"
    seen,     \* watch: the names it has looked at
    scan,     \* the directory being read
    printed,  \* watch: the occurrences printed so far
    answered  \* the last answer given

toolVars == <<tool, seen, scan, printed, answered>>
allVars  == <<vars, toolVars>>

\* No directory is being read; otherwise, the names the listing must return, those
\* visited, and the occurrences read; before is what was complete when the read began.
NoScan == [open |-> FALSE, must |-> {}, visited |-> {}, read |-> {}, before |-> {}]

NoAnswer == [command |-> "none"]

Present  == {e \in Events : files[e] # "absent"}
Complete == {e \in Events : files[e] = "complete"}

FilesInit ==
    /\ Init
    /\ tool \in {"none", "starting", "query"} /\ [sinks |-> configured, tool |-> tool] \in Setups
    /\ seen = {} /\ scan = NoScan /\ printed = <<>> /\ answered = NoAnswer

-----------------------------------------------------------------------------
(* Reading the directory.                                                  *)

\* read_dir: it returns what is there now, and perhaps what comes later.
read_dir == scan' = [open |-> TRUE, must |-> Present, visited |-> {}, read |-> {},
                     before |-> Complete]

\* read_occurrence_file: a file without its content does not parse and is skipped with a
\* warning.
read_occurrence_file(e) ==
    scan' = [scan EXCEPT !.visited = @ \cup {e},
                         !.read = IF files[e] = "complete" THEN @ \cup {e} ELSE @]

Unvisited == {e \in Present : e \notin scan.visited}
ScanDone  == scan.open /\ scan.must \subseteq scan.visited

\* sort_by: the occurrences of a set by time, oldest or newest first.  Those of the same
\* time stay in the order of the listing, which is any.
Orders(S) == {s \in [1..Cardinality(S) -> S] : Elems(s) = S}
OldestFirst(S) ==
    {s \in Orders(S) : \A i, j \in DOMAIN s : i < j => timestamp[s[i]] <= timestamp[s[j]]}
NewestFirst(S) ==
    {s \in Orders(S) : \A i, j \in DOMAIN s : i < j => timestamp[s[i]] >= timestamp[s[j]]}

-----------------------------------------------------------------------------
(* watch.                                                                  *)

\* Everything already in the directory counts as seen.
watch_start ==
    /\ tool = "starting"
    /\ tool' = "watch" /\ seen' = Present
    /\ UNCHANGED <<vars, scan, printed, answered>>

\* Every 200 ms.
watch_tick ==
    /\ tool = "watch" /\ ~scan.open
    /\ Present \ seen # {}      \* otherwise the turn changes nothing
    /\ read_dir
    /\ UNCHANGED <<vars, tool, seen, printed, answered>>

\* Mutant: a name is only remembered by the listing that began with it.
watch_visit_forgets(e) ==
    /\ tool = "watch" /\ scan.open /\ e \in Unvisited
    /\ \/ /\ e \in seen
          /\ scan' = [scan EXCEPT !.visited = @ \cup {e}]
          /\ UNCHANGED seen
       \/ /\ e \notin seen
          /\ read_occurrence_file(e)
          /\ seen' = IF e \in scan.must THEN seen \cup {e} ELSE seen
    /\ UNCHANGED <<vars, tool, printed, answered>>

\* A name is marked as seen before its file is read, and read only the first time.
watch_visit(e) ==
    /\ tool = "watch" /\ scan.open /\ e \in Unvisited
    /\ \/ /\ e \in seen
          /\ scan' = [scan EXCEPT !.visited = @ \cup {e}]
          /\ UNCHANGED seen
       \/ /\ e \notin seen
          /\ read_occurrence_file(e)
          /\ seen' = seen \cup {e}
    /\ UNCHANGED <<vars, tool, printed, answered>>

matches_filter(e) == filters = {} \/ category[e] \in filters

\* The listing is done: what is new goes out in the order of time.
watch_print ==
    /\ tool = "watch" /\ ScanDone
    /\ \E order \in OldestFirst({e \in scan.read : matches_filter(e)}) :
          printed' = printed \o order
    /\ scan' = NoScan
    /\ UNCHANGED <<vars, tool, seen, answered>>

\* Ctrl-C, between two turns: the process is gone, and its state with it.
watch_quit ==
    /\ tool = "watch" /\ ~scan.open
    /\ tool' = "ended" /\ seen' = {} /\ printed' = <<>>
    /\ UNCHANGED <<vars, scan, answered>>

-----------------------------------------------------------------------------
(* The commands that load everything.                                      *)

load_begin ==
    /\ tool = "query" /\ ~scan.open
    /\ read_dir
    /\ answered' = NoAnswer
    /\ UNCHANGED <<vars, tool, seen, printed>>

load_visit(e) ==
    /\ tool = "query" /\ scan.open /\ e \in Unvisited
    /\ read_occurrence_file(e)
    /\ UNCHANGED <<vars, tool, seen, printed, answered>>

health_status(total, critical_total) ==
    IF critical_total >= CriticalLimit \/ total >= TotalLimit THEN "critical"
    ELSE IF total > 0 THEN "degraded" ELSE "healthy"

Count(S, c) == Cardinality({e \in S : category[e] = c})

\* Both health answers judge the occurrences of the last hour; the command adds up its
\* four categories, the tool whatever categories there are.
cmd_health(S) ==
    LET Total(T) == Count(T, "network") + Count(T, "container")
                        + Count(T, "storage") + Count(T, "node")
    IN health_status(Total(S), Total(S \cap critical))
tapio_node_health(S) == health_status(Cardinality(S), Cardinality(S \cap critical))

\* Mutant: what is shown is cut off before it is sorted.
newest_unsorted(S) ==
    UNION {NewestFirst(Elems(SubSeq(s, 1, MinOf(ShowLast, Len(s))))) : s \in Orders(S)}

\* `recent` and the MCP tools sort the newest first; two of the three show only so many.
newest(S) == {SubSeq(s, 1, MinOf(ShowLast, Len(s))) : s \in NewestFirst(S)}

\* The occurrences asked for: tapio_recent_anomalies filters by observer and then by
\* severity, tapio_watch_stream by observer, the others not at all.
ByObserver == {Events} \cup {{e \in Events : category[e] = c} : c \in Categories}
BySeverity == {Events, critical, Events \ critical}
Picks(command) ==
    CASE command = "tapio_recent_anomalies" ->
            {asked \cap rated : asked \in ByObserver, rated \in BySeverity}
      [] command = "tapio_watch_stream" -> ByObserver
      [] OTHER -> {Events}

\* The answers a command may give to what was loaded, with its cutoff and pick: one, up to
\* the order of occurrences of the same time.
Answers(command, cutoff, pick, loaded) ==
    LET S == {e \in loaded : timestamp[e] >= cutoff}
    IN CASE command = "status" -> {[c \in Categories |-> Count(loaded, c)]}
         [] command = "recent" -> newest(S)
         [] command = "tapio_recent_anomalies" -> NewestFirst(S \cap pick)
         [] command = "tapio_watch_stream" -> newest(loaded \cap pick)
         [] command = "health" -> {cmd_health(S)}
         [] command = "tapio_node_health" -> {tapio_node_health(S)}

\* mcp_call_tool and the cmd_ functions, once the directory is loaded.
answer(command, cutoff, pick) ==
    /\ tool = "query" /\ ScanDone
    /\ \E said \in Answers(command, cutoff, pick, scan.read) :
          answered' = [command |-> command, cutoff |-> cutoff, pick |-> pick,
                       before |-> scan.before, said |-> said]
    /\ scan' = NoScan
    /\ UNCHANGED <<vars, tool, seen, printed>>

-----------------------------------------------------------------------------

ReadStep ==
    \/ watch_start \/ watch_tick \/ watch_print
    \/ \E e \in Events : watch_visit(e)

FilesNext ==
    \/ /\ Next /\ UNCHANGED toolVars
       /\ tool # "none" => detected' <= ReaderEvents /\ failures' <= ReaderFailures
    \/ ReadStep \/ watch_quit
    \/ load_begin
    \/ \E e \in Events : load_visit(e)
    \/ \E command \in Commands, cutoff \in Cutoffs :
          \E pick \in Picks(command) : answer(command, cutoff, pick)

FilesSpec == FilesInit /\ [][FilesNext]_allVars

\* The agent's fairness, and the timer and the loop of `watch`; nobody has to ask for an
\* answer.
FilesFairSpec == FilesSpec /\ Fairness /\ WF_allVars(ReadStep)

-----------------------------------------------------------------------------
(* Properties.                                                             *)

\* What a turn of `watch` prints is whole, of the categories asked for, and nothing that
\* it has printed before.
PrintsNew ==
    LET new == SubSeq(printed', Len(printed) + 1, Len(printed'))
    IN /\ Len(new) = Cardinality(Elems(new)) /\ Elems(new) \cap Elems(printed) = {}
       /\ \A e \in Elems(new) : e \in Complete /\ matches_filter(e)

\* `watch` is a stream ("Live stream of kernel anomalies", main.rs:27): an occurrence whose
\* file is whole before `watch` first sees its name is printed, exactly once, unless the
\* user quits.
WatchShowsOnce ==
    /\ [][PrintsNew]_printed
    /\ \A e \in 1..ReaderEvents :
          tool = "watch" /\ e \in Complete /\ e \notin seen /\ matches_filter(e)
              ~> e \in Elems(printed) \/ tool = "ended"

Severity(status) == CASE status = "healthy" -> 0 [] status = "degraded" -> 1 [] OTHER -> 2

\* An answer given while the agent writes is not torn.  A count or a verdict lies between
\* the one for the files that were whole when the command began and the one for those
\* whole when it ended, whether the command or the MCP tool gives it; a list is in order,
\* and leaves out an occurrence that was there all along only for newer ones.
AnswersBracketed ==
    answered # NoAnswer =>
        LET Since(S) == {e \in S : timestamp[e] >= answered.cutoff}
            said == answered.said
        IN
        CASE answered.command = "status" ->
                \A c \in Categories :
                    Count(answered.before, c) <= said[c] /\ said[c] <= Count(Complete, c)
          [] answered.command \in {"health", "tapio_node_health"} ->
                /\ Severity(tapio_node_health(Since(answered.before))) <= Severity(said)
                /\ Severity(said) <= Severity(tapio_node_health(Since(Complete)))
          [] OTHER ->
                /\ \A i, j \in DOMAIN said : i < j => timestamp[said[i]] >= timestamp[said[j]]
                /\ Elems(said) \subseteq Complete \cap answered.pick
                /\ \A e \in (answered.before \cap answered.pick) \ Elems(said) :
                      \/ timestamp[e] < answered.cutoff /\ answered.command # "tapio_watch_stream"
                      \/ Len(said) = ShowLast /\ \A i \in DOMAIN said :
                                                    timestamp[said[i]] >= timestamp[e]

=============================================================================
