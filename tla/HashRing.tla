------------------------------ MODULE HashRing ------------------------------
(***************************************************************************)
(* The consistent-hashing ring of the load-balancing exporter              *)
(* (consistent_hashing.go).  A ring is the sequence of its items, ordered  *)
(* by position; the checksum that spreads an endpoint over the ring is a   *)
(* table, so that an instance can choose collisions and wrap-around.       *)
(***************************************************************************)
EXTENDS Naturals, SequencesExt

CONSTANTS
  Crc32,          \* Crc32[e][i]: the checksum of endpoint e and number i
  Rank,           \* the order of the endpoints as strings
  Weight,         \* defaultWeight: the points of an endpoint
  MaxPositions,   \* maxPositions
  ProbeLimit      \* linearProbeLimit

ASSUME HashAssumption ==
  /\ Crc32 \in [DOMAIN Rank -> [1 .. Weight -> Nat]]
  /\ Rank \in [DOMAIN Rank -> Nat] /\ IsInjective(Rank)
  /\ Weight \in Nat /\ ProbeLimit \in Nat /\ MaxPositions \in Nat \ {0}

RingItem == [pos : 0 .. MaxPositions - 1, endpoint : DOMAIN Rank]

\* positionsForWithMaxPositions.
Candidates(endpoint) ==
  [ i \in 1 .. Weight |->
      [pos |-> Crc32[endpoint][i] % MaxPositions, hash |-> Crc32[endpoint][i],
       endpoint |-> endpoint] ]

\* Mutant: candidates with one checksum stay in the order of the list.
EarlierByHash(a, b) == a.pos < b.pos \/ (a.pos = b.pos /\ a.hash < b.hash)

\* The order of the first sort: position, then checksum, then endpoint.
Earlier(a, b) ==
  \/ a.pos < b.pos
  \/ a.pos = b.pos /\ a.hash < b.hash
  \/ a.pos = b.pos /\ a.hash = b.hash /\ Rank[a.endpoint] < Rank[b.endpoint]

\* The probes that would find a free position.
FreeProbes(items, candidate) ==
  { k \in 0 .. ProbeLimit - 1 :
      \A it \in Range(items) : it.pos # (candidate.pos + k) % MaxPositions }

\* The first free position is taken; a candidate that finds none is skipped.
Place(items, candidate) ==
  LET free == FreeProbes(items, candidate)
  IN  IF free = {} THEN items
      ELSE Append(items, [pos |-> (candidate.pos + Min(free)) % MaxPositions,
                          endpoint |-> candidate.endpoint])

\* The ring of a list of endpoints, in the order in which a resolver reports them.
newHashRing(endpoints) ==
  LET candidates == FlattenSeq([i \in DOMAIN endpoints |-> Candidates(endpoints[i])])
      items == FoldLeft(Place, <<>>, SortSeq(candidates, Earlier))
  IN  SortSeq(items, LAMBDA a, b : a.pos < b.pos)

\* Mutant: the halves are compared with the wrong end of the left one.
FirstOfLeftBsearch(pos, left, right) ==
  LET search[l \in Seq(RingItem), r \in Seq(RingItem)] ==
        LET into(h) == search[SubSeq(h, 1, Len(h) \div 2), SubSeq(h, Len(h) \div 2 + 1, Len(h))]
        IN  CASE l[Len(l)].pos = pos -> l[Len(l)]
              [] l[Len(l)].pos # pos /\ r[1].pos = pos -> r[1]
              [] OTHER ->
                   IF pos > r[Len(r)].pos THEN l[1]
                   ELSE LET half == IF pos > l[1].pos THEN r ELSE l
                        IN  IF Len(half) = 1 THEN half[1] ELSE into(half)
  IN  search[left, right]

bsearch(pos, left, right) ==
  LET search[l \in Seq(RingItem), r \in Seq(RingItem)] ==
        LET into(h) == search[SubSeq(h, 1, Len(h) \div 2), SubSeq(h, Len(h) \div 2 + 1, Len(h))]
        IN  CASE l[Len(l)].pos = pos -> l[Len(l)]
              [] l[Len(l)].pos # pos /\ r[1].pos = pos -> r[1]
              [] OTHER ->
                   IF pos > r[Len(r)].pos THEN l[1]
                   ELSE LET half == IF pos > l[Len(l)].pos THEN r ELSE l
                        IN  IF Len(half) = 1 THEN half[1] ELSE into(half)
  IN  search[left, right]

\* The ring has no item, or two of them at least: bsearch reads the last item
\* of the left half.
findEndpoint(items, pos) ==
  LET n == Len(items)
  IN  IF n = 0 THEN ""
      ELSE bsearch(pos, SubSeq(items, 1, n \div 2), SubSeq(items, n \div 2 + 1, n)).endpoint

endpointFor(items, hash) == findEndpoint(items, hash % MaxPositions)

-----------------------------------------------------------------------------
\* What a ring promises: the first item at or after the position, the first
\* item of all when there is none.
Successor(items, pos) ==
  LET after == { i \in DOMAIN items : items[i].pos >= pos }
  IN  items[IF after = {} THEN 1 ELSE Min(after)].endpoint

\* The positions that a candidate may be placed at.
Window(candidate) == { (candidate.pos + k) % MaxPositions : k \in 0 .. ProbeLimit - 1 }

\* The points of an endpoint that a ring has no room for near their positions.
Crowded(items, endpoint) ==
  { i \in 1 .. Weight :
      \A p \in Window(Candidates(endpoint)[i]) : \E it \in Range(items) : it.pos = p }
=============================================================================
