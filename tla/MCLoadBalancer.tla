--------------------------- MODULE MCLoadBalancer ---------------------------
\* Two endpoints that differ in the default port only, and one more; the rings
\* have a fourth.  Points of one endpoint and of several meet at position 9, two
\* of them with one checksum, and are probed around the end of the ring.
EXTENDS LoadBalancer, HashRing

MCEndpoints == {"a", "a:4317", "b:55"}
MCAddress == [e \in MCEndpoints |-> IF e = "a" THEN "a:4317" ELSE e]
MCRank == [e \in MCEndpoints \cup {"c:7"} |->
  CASE e = "a" -> 1 [] e = "a:4317" -> 2 [] e = "b:55" -> 3 [] e = "c:7" -> 4]
MCCrc32 == [e \in DOMAIN MCRank |->
  CASE e = "a" -> <<3, 16, 29>> [] e = "a:4317" -> <<5, 9, 19>>
    [] e = "b:55" -> <<8, 11, 24>> [] e = "c:7" -> <<12, 7, 29>>]
MCReports == {{"a"}, {"a:4317"}, {"a", "b:55"}}
MCConfigs == {<<"traces", "periodic">>, <<"traces", "static">>, <<"logs", "static">>}
MCMaxGen == [a \in {"a:4317", "b:55"} |-> IF a = "b:55" THEN 2 ELSE 1]
MCIds == {4, 16}
MCRequests == {{4}, {4, 16}}
\* What these rings answer (16 is position 6).
MCEndpointFor(S, id) ==
  IF Cardinality(S) = 1 THEN CHOOSE e \in S : TRUE
  ELSE IF "b:55" \in S /\ (id = 4 \/ "a" \notin S) THEN "b:55"
  ELSE IF id = 4 THEN "a:4317" ELSE "a"

\* Lists of up to three endpoints, some named twice, and those of all four.
RingLists ==
  LET Lists(n) == [1 .. n -> DOMAIN Rank]
  IN  UNION { Lists(n) : n \in 1 .. 3 } \cup { l \in Lists(4) : IsInjective(l) }
Rings == [l \in RingLists |-> newHashRing(l)]

\* Collectors that know the same backends route alike, in whatever order their
\* resolvers list them and however their points collide; no two items share a
\* position; and a backend has all its points but those that met as many taken
\* positions in a row as are probed (positionsForEndpointsWithOptions: the sorts
\* and the probing).
RingIsFair ==
  phase = "new" => \A l \in RingLists :
    /\ Rings[l] = Rings[SortSeq(l, LAMBDA d, e : Rank[d] < Rank[e])]
    /\ \A i \in 2 .. Len(Rings[l]) : Rings[l][i - 1].pos < Rings[l][i].pos
    /\ \A e \in Range(l) :
         LET named == Cardinality({ i \in DOMAIN l : l[i] = e })
             points == Cardinality({ i \in DOMAIN Rings[l] : Rings[l][i].endpoint = e })
         IN  points >= named * (Weight - Cardinality(Crowded(Rings[l], e)))

\* A ring answers every position with the first item at or after it, around the
\* end if there is none (the binary search of findEndpoint and bsearch), so that
\* an identifier has the backend that EndpointFor says.
RingAnswers ==
  phase = "new" => \A l \in RingLists :
    /\ \A p \in 0 .. MaxPositions - 1 : findEndpoint(Rings[l], p) = Successor(Rings[l], p)
    /\ IsInjective(l) /\ Range(l) \in Reports =>
         \A id \in Ids : EndpointFor(Range(l), id) = endpointFor(Rings[l], id)
=============================================================================
