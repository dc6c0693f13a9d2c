---------------------------- MODULE MCAgentSinks ----------------------------
EXTENDS OccurrenceFiles

SomeSetups ==
    {[sinks |-> <<"otlp">>, tool |-> "none"], [sinks |-> <<"http", "stdout">>, tool |-> "none"],
     [sinks |-> <<"file">>, tool |-> "starting"], [sinks |-> <<"file">>, tool |-> "query"]}
SomeDeployments == {s.sinks : s \in SomeSetups}

\* Two observers' records are not drained in the order of their timestamps, and two
\* occurrences are of the same time.
SomeTimestamps == [e \in Events |-> IF e % 2 = 0 THEN e - 1 ELSE 2]
SomeCategories == [e \in Events |-> IF e = 3 THEN "storage" ELSE "network"]

=============================================================================
