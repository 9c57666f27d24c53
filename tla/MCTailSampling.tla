--------------------------- MODULE MCTailSampling ---------------------------
(***************************************************************************)
(* Three traces for a shard that holds two, one of them with its root span *)
(* in a later payload, and eight configurations of the processor.          *)
(***************************************************************************)
EXTENDS TailSampling

MCTraces == {"a", "b", "c"}
MCSpans == {"a1", "a2", "b1", "c1"}
MCTraceOf == [s \in MCSpans |-> CASE s = "b1" -> "b" [] s = "c1" -> "c" [] OTHER -> "a"]
MCRoots == {"a2", "b1"}
MCPayloads == {<<"a1">>, <<"b1", "c1", "a2">>}

Complete == [ block |-> FALSE, sampled |-> 0, nonSampled |-> 0, ingest |-> FALSE,
              firstMatch |-> FALSE, dropPending |-> FALSE, fallible |-> FALSE ]
Cache(c) == [c EXCEPT !.sampled = 1, !.nonSampled = 1]

MCConfigs ==
  { Complete, Cache(Complete),
    [Complete EXCEPT !.block = TRUE, !.dropPending = TRUE],
    [Cache(Complete) EXCEPT !.block = TRUE, !.firstMatch = TRUE],
    [Complete EXCEPT !.ingest = TRUE, !.nonSampled = 1],
    [Cache(Complete) EXCEPT !.block = TRUE, !.ingest = TRUE],
    [Complete EXCEPT !.fallible = TRUE, !.dropPending = TRUE],
    [Cache(Complete) EXCEPT !.block = TRUE, !.ingest = TRUE, !.fallible = TRUE] }

MCPolicies == << <<FALSE, TRUE, FALSE>>, <<TRUE>> >>
MCLimits == <<0, 1>>
=============================================================================
