------------------------ MODULE LoadBalancerProofs ------------------------
(***************************************************************************)
(* Proofs about LoadBalancer, for any number of calls, endpoints and       *)
(* identifiers, any routing and any exporters that fail.                   *)
(***************************************************************************)
EXTENDS LoadBalancer, FiniteSetTheorems, TLAPS

Holders(x) == { c \in Calls : x \in held[c] }

\* A call has the exporter that it is about to count itself in, and sends to one
\* that it has counted itself in.
PlaceInv ==
  \A c \in Calls : /\ pc[c] = "found" => found[c] \in Wrapped
                   /\ pc[c] = "sending" => sending[c] \in held[c]

\* The list that the resolver is about to pass on is within the bound.
ReportInv == phase = "changed" => \A a \in Missing(endpoints) : created[a] < MaxGen[a]

\* Before the resolver starts nothing was created.
NewInv == phase = "new" => ring = NoRing /\ \A a \in Addresses : created[a] = 0

IInv ==
  /\ TypeOK /\ PlaceInv /\ ReportInv /\ NewInv
  /\ RunningIsListed /\ RingIsServed /\ WaitGroupExact

-----------------------------------------------------------------------------
\* An exporter is an address and the number of its creation.
LEMMA WrappedFacts ==
  /\ \A a \in Addresses : \A g \in 1 .. MaxGen[a] : <<a, g>> \in Wrapped
  /\ \A x \in Wrapped : /\ x = <<x[1], x[2]>> /\ x[1] \in Addresses
                        /\ x[2] \in 1 .. MaxGen[x[1]]
BY DEF Wrapped

\* The calls that are counted in an exporter can be counted.
LEMMA HoldersFinite ==
  \A x \in Wrapped : IsFiniteSet(Holders(x)) /\ Cardinality(Holders(x)) \in Nat
<1>. TAKE x \in Wrapped
<1>1. Holders(x) \subseteq Calls
  BY Zenon DEF Holders
<1>. QED BY <1>1, LoadBalancerAssumption, FS_Subset, FS_CardinalityType, Zenon

\* A call that comes to hold x, and one that does not hold it any more.
LEMMA HoldersAdd ==
  ASSUME NEW x \in Wrapped, NEW c \in Calls, x \notin held[c],
         Holders(x)' = Holders(x) \cup {c}
  PROVE  Cardinality(Holders(x)') = Cardinality(Holders(x)) + 1
<1>1. c \notin Holders(x)
  BY Zenon DEF Holders
<1>. QED BY <1>1, HoldersFinite, FS_AddElement, Zenon

\* A call that gives its count back.
LEMMA HoldersRemove ==
  ASSUME NEW x \in Wrapped, NEW c \in Calls, x \in held[c],
         Holders(x)' = Holders(x) \ {c}
  PROVE  /\ Cardinality(Holders(x)') = Cardinality(Holders(x)) - 1
         /\ Cardinality(Holders(x)) >= 1
<1>1. c \in Holders(x)
  BY Zenon DEF Holders
<1>2. Cardinality(Holders(x) \ {c}) = Cardinality(Holders(x)) - 1
  BY <1>1, HoldersFinite, FS_RemoveElement, Zenon
<1>3. Cardinality(Holders(x)) # 0
  BY <1>1, HoldersFinite, FS_EmptySet, Zenon
<1>. QED BY <1>2, <1>3, HoldersFinite
-----------------------------------------------------------------------------
\* What the load balancer's maps satisfy after a change of backends.
BalancerType ==
  /\ ring \in (SUBSET Endpoints) \cup {NoRing}
  /\ exporters \in [Addresses -> Nat] /\ created \in [Addresses -> Nat]
  /\ \A a \in Addresses : exporters[a] <= created[a] /\ created[a] <= MaxGen[a]
  /\ state \in [Wrapped -> {"new", "running", "stopping", "down"}]

RunningInList == \A x \in Wrapped : state[x] = "running" => x \in Listed
ListRuns == \A x \in Listed : state[x] = "running"

\* The bound on creations is positive.
LEMMA MaxGenType == \A a \in Addresses : MaxGen[a] \in Nat /\ MaxGen[a] >= 1
<1>1. MaxGen \in [Addresses -> Nat \ {0}]
  BY LoadBalancerAssumption, Zenon
<1>. QED BY <1>1

\* The exporters that the map has.
LEMMA ListedFacts ==
  ASSUME BalancerType
  PROVE  /\ Listed \subseteq Wrapped
         /\ \A x \in Wrapped : x \in Listed <=> exporters[x[1]] = x[2]
<1>1. \A a \in Addresses : exporters[a] # 0 => exporters[a] \in 1 .. MaxGen[a]
  BY MaxGenType DEF BalancerType
<1>2. Listed \subseteq Wrapped
  BY <1>1, WrappedFacts, Zenon DEF Listed
<1>3. ASSUME NEW x \in Wrapped
      PROVE  x \in Listed <=> exporters[x[1]] = x[2]
  <2>1. x = <<x[1], x[2]>> /\ x[1] \in Addresses /\ x[2] \in 1 .. MaxGen[x[1]]
    BY WrappedFacts, Zenon
  <2>2. x[2] # 0
    BY <2>1, MaxGenType
  <2>. QED BY <2>1, <2>2 DEF Listed
<1>. QED BY <1>2, <1>3, Zenon

\* The same of the next state.
LEMMA ListedNext ==
  ASSUME BalancerType'
  PROVE  /\ Listed' \subseteq Wrapped
         /\ \A x \in Wrapped : x \in Listed' <=> exporters'[x[1]] = x[2]
<1>1. \A a \in Addresses : exporters'[a] # 0 => exporters'[a] \in 1 .. MaxGen[a]
  BY MaxGenType DEF BalancerType
<1>2. Listed' \subseteq Wrapped
  BY <1>1, WrappedFacts, Zenon DEF Listed
<1>3. ASSUME NEW x \in Wrapped
      PROVE  x \in Listed' <=> exporters'[x[1]] = x[2]
  <2>1. x = <<x[1], x[2]>> /\ x[1] \in Addresses /\ x[2] \in 1 .. MaxGen[x[1]]
    BY WrappedFacts, Zenon
  <2>2. x[2] # 0
    BY <2>1, MaxGenType
  <2>. QED BY <2>1, <2>2 DEF Listed
<1>. QED BY <1>2, <1>3, Zenon

\* The addresses of a list of endpoints.
LEMMA AddressesOfType ==
  ASSUME NEW S \in SUBSET Endpoints
  PROVE  AddressesOf(S) \subseteq Addresses /\ Missing(S) \subseteq Addresses
BY Zenon DEF AddressesOf, Addresses, Missing

\* A new ring keeps the maps consistent, whatever they were, and serves it.
LEMMA ReplaceStep ==
  ASSUME BalancerType, NEW S \in SUBSET Endpoints, Replace(S),
         \A a \in Missing(S) : created[a] < MaxGen[a]
  PROVE  /\ BalancerType' /\ ring' = S
         /\ RunningInList => RunningInList'
         /\ ListRuns => ListRuns'
         /\ RingIsServed'
<1>1. PICK failed \in SUBSET (Missing(S) \cap MayFail) :
        LET started == Missing(S) \ failed
        IN  /\ ring' = S
            /\ created' = [a \in Addresses |-> created[a] + (IF a \in started THEN 1 ELSE 0)]
            /\ exporters' = [a \in Addresses |-> IF a \in started THEN created[a] + 1
                                                 ELSE IF a \in Extra(S) THEN 0 ELSE exporters[a]]
            /\ state' = [x \in Wrapped |->
                 IF x[1] \in started /\ x[2] = created[x[1]] + 1 THEN "running"
                 ELSE IF x[1] \in Extra(S) /\ x[2] = exporters[x[1]] THEN "stopping" ELSE state[x]]
  BY Zenon DEF Replace
<1>. DEFINE started == Missing(S) \ failed
<1>2. /\ started \subseteq Addresses
      /\ \A a \in started : created[a] < MaxGen[a] /\ exporters[a] = 0 /\ a \in AddressesOf(S)
      /\ \A a \in Extra(S) : a \in Addresses /\ exporters[a] # 0 /\ a \notin AddressesOf(S)
      /\ \A a \in AddressesOf(S) \ MayFail : exporters[a] = 0 => a \in started
      /\ \A a \in Addresses : exporters[a] # 0 /\ a \notin AddressesOf(S) => a \in Extra(S)
  BY AddressesOfType, Zenon DEF Missing, Extra
<1>3. /\ ring' = S
      /\ created' = [a \in Addresses |-> created[a] + (IF a \in started THEN 1 ELSE 0)]
      /\ exporters' = [a \in Addresses |-> IF a \in started THEN created[a] + 1
                                           ELSE IF a \in Extra(S) THEN 0 ELSE exporters[a]]
      /\ state' = [x \in Wrapped |->
           IF x[1] \in started /\ x[2] = created[x[1]] + 1 THEN "running"
           ELSE IF x[1] \in Extra(S) /\ x[2] = exporters[x[1]] THEN "stopping" ELSE state[x]]
  BY <1>1, Zenon
<1>. HIDE DEF started
<1>4. BalancerType'
  <2>1. \A a \in Addresses : created[a] \in Nat /\ exporters[a] \in Nat /\ MaxGen[a] \in Nat
                             /\ exporters[a] <= created[a] /\ created[a] <= MaxGen[a]
    BY LoadBalancerAssumption, Zenon DEF BalancerType
  <2>2. exporters' \in [Addresses -> Nat] /\ created' \in [Addresses -> Nat]
    BY <1>3, <2>1
  <2>3. \A a \in Addresses : exporters'[a] <= created'[a] /\ created'[a] <= MaxGen[a]
    BY <1>2, <1>3, <2>1
  <2>4. state' \in [Wrapped -> {"new", "running", "stopping", "down"}]
    BY <1>3, Zenon DEF BalancerType
  <2>5. ring' \in (SUBSET Endpoints) \cup {NoRing}
    BY <1>3, Zenon
  <2>. QED BY <2>2, <2>3, <2>4, <2>5, Zenon DEF BalancerType
<1>5. /\ Listed' \subseteq Wrapped
      /\ \A x \in Wrapped : x \in Listed' <=> exporters'[x[1]] = x[2]
  BY <1>4, ListedNext, Zenon
<1>6. \A x \in Wrapped : x[1] \in Addresses /\ x[2] \in 1 .. MaxGen[x[1]]
  BY WrappedFacts, Zenon
<1>7. \A x \in Wrapped : x[2] # 0
  BY <1>6, MaxGenType
<1>8. \A x \in Wrapped : x \in Listed <=> exporters[x[1]] = x[2]
  BY ListedFacts, Zenon
<1>9. ASSUME RunningInList, NEW x \in Wrapped, state'[x] = "running"
      PROVE  x \in Listed'
  <2>1. CASE x[1] \in started /\ x[2] = created[x[1]] + 1
    BY <2>1, <1>3, <1>5, <1>6, Zenon
  <2>2. CASE ~(x[1] \in started /\ x[2] = created[x[1]] + 1)
    <3>1. state[x] = "running" /\ ~(x[1] \in Extra(S) /\ x[2] = exporters[x[1]])
      BY <2>2, <1>3, <1>9, Zenon
    <3>2. exporters[x[1]] = x[2]
      BY <3>1, <1>9, <1>8, Zenon DEF RunningInList
    <3>3. x[1] \notin started /\ x[1] \notin Extra(S)
      BY <3>1, <3>2, <1>2, <1>7, Zenon
    <3>. QED BY <3>2, <3>3, <1>3, <1>5, <1>6, Zenon
  <2>. QED BY <2>1, <2>2, Zenon
<1>10. ASSUME ListRuns, NEW x \in Listed'
       PROVE  state'[x] = "running"
  <2>0. x \in Wrapped /\ exporters'[x[1]] = x[2]
    BY <1>5, Zenon
  <2>1. CASE x[1] \in started
    BY <2>0, <2>1, <1>3, <1>6, Zenon
  <2>2. CASE x[1] \notin started
    <3>1. x[1] \notin Extra(S) /\ exporters[x[1]] = x[2]
      BY <2>0, <2>2, <1>3, <1>6, <1>7, Zenon
    <3>. QED BY <3>1, <2>0, <2>2, <1>3, <1>8, <1>10, Zenon DEF ListRuns
  <2>. QED BY <2>1, <2>2, Zenon
<1>11. ASSUME NEW a \in AddressesOf(S) \ MayFail
       PROVE  exporters'[a] # 0
  <2>1. a \in Addresses /\ a \notin Extra(S) /\ (exporters[a] = 0 => a \in started)
    BY <1>2, AddressesOfType, Zenon
  <2>2. created[a] \in Nat
    BY <2>1, Zenon DEF BalancerType
  <2>. QED BY <2>1, <2>2, <1>3
<1>12. ASSUME NEW x \in Listed'
       PROVE  x[1] \in AddressesOf(S)
  <2>0. x \in Wrapped /\ exporters'[x[1]] = x[2]
    BY <1>5, Zenon
  <2>1. x[1] \in started \/ (x[1] \notin Extra(S) /\ exporters[x[1]] # 0)
    BY <2>0, <1>3, <1>6, <1>7, Zenon
  <2>. QED BY <2>0, <2>1, <1>2, <1>6, Zenon
<1>13. RingIsServed'
  BY <1>3, <1>11, <1>12, Zenon DEF RingIsServed, AddressesOf
<1>. QED BY <1>3, <1>4, <1>9, <1>10, <1>13, Zenon DEF RunningInList, ListRuns

-----------------------------------------------------------------------------
\* What a step does to the maps: nothing, a new ring, or an exporter on its way
\* down.
MapsStep ==
  \/ UNCHANGED balancer
  \/ \E S \in SUBSET Endpoints :
       Replace(S) /\ \A a \in Missing(S) : created[a] < MaxGen[a]
  \/ \E x \in Wrapped : WrappedShutdown(x) \/ ShutdownNext(x)

\* onBackendChanges leaves everything alone, or replaces ring and exporters
\* together.
LEMMA OnBackendChangesStep ==
  ASSUME NEW S \in SUBSET Endpoints, onBackendChanges(S),
         \A a \in Missing(S) : created[a] < MaxGen[a]
  PROVE  UNCHANGED balancer \/ Replace(S)
BY Zenon DEF onBackendChanges

\* Every step treats ring, map and exporters in one of a few ways.
LEMMA NextMapsStep ==
  ASSUME IInv, Next
  PROVE  MapsStep
<1>0. \A S \in Reports : S \in SUBSET Endpoints
  BY LoadBalancerAssumption, Zenon
<1>1. CASE StartStatic \/ StartPeriodic
  <2>1. \A a \in Addresses : created[a] < MaxGen[a]
    BY <1>1, MaxGenType DEF IInv, NewInv, StartStatic, StartPeriodic
  <2>2. CASE UNCHANGED balancer
    BY <2>2, Zenon DEF MapsStep
  <2>3. ASSUME NEW S \in Reports, onBackendChanges(S)
        PROVE  MapsStep
    BY <2>1, <2>3, <1>0, AddressesOfType, OnBackendChangesStep, Zenon DEF MapsStep
  <2>. QED BY <1>1, <2>2, <2>3, Zenon DEF StartStatic, StartPeriodic, balancer
<1>2. CASE Propagate
  <2>1. CASE UNCHANGED balancer
    BY <2>1, Zenon DEF MapsStep
  <2>2. CASE onBackendChanges(endpoints)
    <3>1. endpoints \in SUBSET Endpoints /\ \A a \in Missing(endpoints) : created[a] < MaxGen[a]
      BY <1>2, Zenon DEF IInv, TypeOK, ReportInv, Propagate
    <3>. QED BY <3>1, <2>2, OnBackendChangesStep, Zenon DEF MapsStep
  <2>. QED BY <1>2, <2>1, <2>2, Zenon DEF Propagate
<1>3. CASE ShutdownStatic
  <2>1. Missing({}) = {} /\ {} \in SUBSET Endpoints
    BY Zenon DEF Missing, AddressesOf
  <2>2. onBackendChanges({})
    BY <1>3, Zenon DEF ShutdownStatic
  <2>. QED BY <2>1, <2>2, OnBackendChangesStep, Zenon DEF MapsStep
<1>4. CASE \E x \in Wrapped : WrappedShutdown(x) \/ ShutdownNext(x)
  BY <1>4, Zenon DEF MapsStep
<1>5. CASE (\E S \in Reports : Resolve(S)) \/ ResolverEnds \/ ShutdownPeriodic \/ ResolverStopped
           \/ ShutdownEnd
  BY <1>5, Zenon DEF Resolve, ResolverEnds, ShutdownPeriodic, ResolverStopped, ShutdownEnd, MapsStep
<1>6. CASE \E c \in Calls : (\E ids \in Requests : Begin(c, ids)) \/ Consume(c)
  BY <1>6 DEF Begin, Consume, Lookup, Count, TracesFail, LogsFail, Fails, Send, exportToBackend,
              MapsStep
<1>. QED BY <1>1, <1>2, <1>3, <1>4, <1>5, <1>6, Zenon DEF Next

\* Shutdown goes one way, and only in its last part exporters are stopped that
\* the ring still needs.
LEMMA StopStep ==
  ASSUME TypeOK, Next
  PROVE  /\ stop' \in {"up", "resolver", "exporters", "done"}
         /\ stop' \in {"up", "resolver"} => stop \in {"up", "resolver"}
         /\ phase' \in {"new", "idle", "changed", "ended"}
         /\ phase' = "new" => phase = "new" /\ UNCHANGED <<ring, created>>
         /\ signal' = signal /\ resolver' = resolver
<1>1. CASE StartStatic \/ StartPeriodic \/ Propagate \/ ResolverEnds \/ \E S \in Reports : Resolve(S)
  BY <1>1, Zenon DEF TypeOK, StartStatic, StartPeriodic, Propagate, ResolverEnds, Resolve, config
<1>2. CASE \E c \in Calls : (\E ids \in Requests : Begin(c, ids)) \/ Consume(c)
  BY <1>2 DEF TypeOK, Begin, Consume, Lookup, Count, TracesFail, LogsFail, Fails, Send,
              exportToBackend, config, balancer
<1>3. CASE \E x \in Wrapped : WrappedShutdown(x) \/ ShutdownNext(x)
  BY <1>3, Zenon DEF TypeOK, WrappedShutdown, ShutdownNext, config
<1>4. CASE ShutdownStatic
  BY <1>4, Zenon DEF TypeOK, ShutdownStatic, config
<1>5. CASE ShutdownPeriodic \/ ResolverStopped \/ ShutdownEnd
  BY <1>5, Zenon DEF TypeOK, ShutdownPeriodic, ResolverStopped, ShutdownEnd, config, balancer
<1>. QED BY <1>1, <1>2, <1>3, <1>4, <1>5, Zenon DEF Next

\* Each of them keeps the running exporters listed and the ring served.
LEMMA MapsInvariant ==
  ASSUME IInv, Next
  PROVE  /\ BalancerType' /\ RunningIsListed' /\ RingIsServed'
<1>1. MapsStep
  BY NextMapsStep, Zenon
<1>2. BalancerType /\ RunningInList /\ RingIsServed
  BY Zenon DEF IInv, TypeOK, BalancerType, RunningIsListed, RunningInList
<1>3. stop' \in {"up", "resolver"} => ListRuns
  BY StopStep, Zenon DEF IInv, RunningIsListed, ListRuns
<1>4. SUFFICES /\ BalancerType' /\ RunningInList' /\ RingIsServed'
               /\ stop' \in {"up", "resolver"} => ListRuns'
  BY Zenon DEF RunningIsListed, RunningInList, ListRuns
<1>5. CASE UNCHANGED balancer
  BY <1>5, <1>2, <1>3 DEF balancer, BalancerType, RunningInList, ListRuns, Listed, RingIsServed,
                          AddressesOf
<1>6. CASE \E S \in SUBSET Endpoints :
             Replace(S) /\ \A a \in Missing(S) : created[a] < MaxGen[a]
  BY <1>6, <1>2, <1>3, ReplaceStep, Zenon
<1>7. ASSUME NEW x \in Wrapped, WrappedShutdown(x) \/ ShutdownNext(x)
      PROVE  /\ BalancerType' /\ RunningInList' /\ RingIsServed'
             /\ stop' \in {"up", "resolver"} => ListRuns'
  <2>1. /\ UNCHANGED <<ring, exporters, created, stop>>
        /\ state' = [state EXCEPT ![x] = "down"] \/ state' = [state EXCEPT ![x] = "stopping"]
    BY <1>7, Zenon DEF WrappedShutdown, ShutdownNext
  <2>2. Listed' = Listed /\ Listed \subseteq Wrapped
    BY <2>1, <1>2, ListedFacts DEF Listed
  <2>3. BalancerType'
    BY <2>1, <1>2, Zenon DEF BalancerType
  <2>4. RunningInList'
    BY <2>1, <2>2, <1>2, Zenon DEF RunningInList, BalancerType
  <2>5. RingIsServed'
    BY <2>1, <2>2, <1>2, Zenon DEF RingIsServed, AddressesOf
  <2>6. ASSUME stop' \in {"up", "resolver"} PROVE ListRuns'
    <3>1. ListRuns /\ stop # "exporters"
      BY <2>6, <2>1, <1>3, Zenon
    <3>2. state[x] = "stopping" /\ x \notin Listed
      BY <3>1, <1>7, Zenon DEF WrappedShutdown, ShutdownNext, ListRuns
    <3>. QED BY <3>1, <3>2, <2>1, <2>2, <1>2, Zenon DEF ListRuns, BalancerType
  <2>. QED BY <2>3, <2>4, <2>5, <2>6, Zenon
<1>. QED BY <1>1, <1>5, <1>6, <1>7, Zenon DEF MapsStep

-----------------------------------------------------------------------------
\* What a step does to the calls and the wait groups.
CallsStep ==
  \/ UNCHANGED <<calls, consumeWG>>
  \/ \E c \in Calls : (\E ids \in Requests : Begin(c, ids)) \/ Consume(c)

\* Every step treats the calls and their counts in one of a few ways.
LEMMA NextCallsStep ==
  ASSUME Next
  PROVE  CallsStep
<1>1. CASE StartStatic \/ StartPeriodic \/ Propagate \/ ResolverEnds \/ \E S \in Reports : Resolve(S)
  BY <1>1, Zenon DEF StartStatic, StartPeriodic, Propagate, ResolverEnds, Resolve, CallsStep
<1>2. CASE \E x \in Wrapped : WrappedShutdown(x) \/ ShutdownNext(x)
  BY <1>2, Zenon DEF WrappedShutdown, ShutdownNext, CallsStep
<1>3. CASE ShutdownStatic \/ ShutdownPeriodic \/ ResolverStopped \/ ShutdownEnd
  BY <1>3, Zenon DEF ShutdownStatic, ShutdownPeriodic, ResolverStopped, ShutdownEnd, CallsStep
<1>. QED BY <1>1, <1>2, <1>3, Zenon DEF Next, CallsStep

CallsInv ==
  /\ pc \in [Calls -> {"idle", "routing", "found", "sending"}]
  /\ todo \in [Calls -> SUBSET Ids] /\ held \in [Calls -> SUBSET Wrapped]
  /\ found \in [Calls -> Wrapped \cup {<<>>}] /\ sending \in [Calls -> Wrapped \cup {<<>>}]
  /\ PlaceInv

\* What Lookup finds is an exporter.
LEMMA ExporterForType ==
  ASSUME TypeOK, NEW id \in Ids, ExporterFor(id) # <<>>
  PROVE  ExporterFor(id) \in Wrapped
<1>1. ring \in (SUBSET Endpoints) \ {{}}
  BY Zenon DEF ExporterFor, TypeOK
<1>2. EndpointFor(ring, id) \in Endpoints
  BY <1>1, RoutingAssumption, Zenon
<1>. DEFINE a == endpointWithPort[EndpointFor(ring, id)]
<1>3. a \in Addresses
  BY <1>2, Zenon DEF Addresses
<1>4. ExporterFor(id) = <<a, exporters[a]>> /\ exporters[a] # 0
  BY Zenon DEF ExporterFor
<1>. HIDE DEF a
<1>5. exporters[a] \in 1 .. MaxGen[a]
  BY <1>3, <1>4, MaxGenType DEF TypeOK
<1>. QED BY <1>3, <1>4, <1>5, WrappedFacts, Zenon

\* The wait groups follow the calls that hold the exporters.
CountInv == \A x \in Wrapped : /\ consumeWG[x] >= Cardinality(Holders(x))
                               /\ signal = "traces" => consumeWG[x] = Cardinality(Holders(x))

\* WaitGroupExact, one exporter at a time.
LEMMA CountIsExact == WaitGroupExact <=> CountInv
BY Zenon DEF WaitGroupExact, CountInv, Holders

\* The same in the next state.
LEMMA CountIsExactNext == WaitGroupExact' <=> CountInv'
BY Zenon DEF WaitGroupExact, CountInv, Holders

\* The four ways in which a step changes the count of one exporter.
CountStep(x) ==
  \/ Holders(x)' = Holders(x) /\ consumeWG'[x] = consumeWG[x]
  \/ \E c \in Calls : /\ x \notin held[c] /\ Holders(x)' = Holders(x) \cup {c}
                      /\ consumeWG'[x] = consumeWG[x] + 1
  \/ \E c \in Calls : /\ x \in held[c] /\ Holders(x)' = Holders(x) \ {c}
                      /\ consumeWG'[x] = consumeWG[x] - 1
  \/ \E c \in Calls : /\ x \in held[c] /\ Holders(x)' = Holders(x) \ {c}
                      /\ consumeWG'[x] = consumeWG[x] /\ signal = "logs"

\* Counting a call in or out of one exporter.
LEMMA CountStepExact ==
  ASSUME TypeOK, CountInv, NEW x \in Wrapped, CountStep(x), signal' = signal
  PROVE  /\ consumeWG'[x] \in Nat
         /\ consumeWG'[x] >= Cardinality(Holders(x)')
         /\ signal' = "traces" => consumeWG'[x] = Cardinality(Holders(x)')
<1>0. /\ Cardinality(Holders(x)) \in Nat /\ consumeWG[x] \in Nat
      /\ consumeWG[x] >= Cardinality(Holders(x))
      /\ signal = "traces" => consumeWG[x] = Cardinality(Holders(x))
  BY HoldersFinite, Zenon DEF TypeOK, CountInv
<1>1. CASE Holders(x)' = Holders(x) /\ consumeWG'[x] = consumeWG[x]
  BY <1>0, <1>1, Zenon
<1>2. ASSUME NEW c \in Calls, x \notin held[c], Holders(x)' = Holders(x) \cup {c},
             consumeWG'[x] = consumeWG[x] + 1
      PROVE  /\ consumeWG'[x] \in Nat
             /\ consumeWG'[x] >= Cardinality(Holders(x)')
             /\ signal' = "traces" => consumeWG'[x] = Cardinality(Holders(x)')
  <2>1. Cardinality(Holders(x)') = Cardinality(Holders(x)) + 1
    BY <1>2, HoldersAdd, Zenon
  <2>. QED BY <1>0, <1>2, <2>1
<1>3. ASSUME NEW c \in Calls, x \in held[c], Holders(x)' = Holders(x) \ {c},
             \/ consumeWG'[x] = consumeWG[x] - 1
             \/ consumeWG'[x] = consumeWG[x] /\ signal = "logs"
      PROVE  /\ consumeWG'[x] \in Nat
             /\ consumeWG'[x] >= Cardinality(Holders(x)')
             /\ signal' = "traces" => consumeWG'[x] = Cardinality(Holders(x)')
  <2>1. /\ Cardinality(Holders(x)') = Cardinality(Holders(x)) - 1
        /\ Cardinality(Holders(x)) >= 1
    BY <1>3, HoldersRemove, Zenon
  <2>. QED BY <1>0, <1>3, <2>1
<1>. QED BY <1>1, <1>2, <1>3, Zenon DEF CountStep

\* Every action of a call is one of the four for every exporter.
LEMMA CallCounts ==
  ASSUME IInv, NEW c \in Calls, (\E ids \in Requests : Begin(c, ids)) \/ Consume(c)
  PROVE  /\ \A x \in Wrapped : CountStep(x)
         /\ DOMAIN consumeWG' = Wrapped /\ consumeWG' = [x \in Wrapped |-> consumeWG'[x]]
<1>0. /\ held \in [Calls -> SUBSET Wrapped] /\ consumeWG \in [Wrapped -> Nat]
      /\ pc[c] = "found" => found[c] \in Wrapped
      /\ pc[c] = "sending" => sending[c] \in held[c]
  BY Zenon DEF IInv, TypeOK, PlaceInv
<1>1. CASE UNCHANGED <<held, consumeWG>>
  BY <1>0, <1>1, Zenon DEF CountStep, Holders
<1>2. CASE Count(c)
  <2>1. /\ found[c] \in Wrapped /\ held' = [held EXCEPT ![c] = @ \cup {found[c]}]
        /\ consumeWG' = IF found[c] \in held[c] THEN consumeWG
                        ELSE [consumeWG EXCEPT ![found[c]] = @ + 1]
    BY <1>0, <1>2, Zenon DEF Count
  <2>2. ASSUME NEW x \in Wrapped PROVE CountStep(x)
    <3>1. CASE x = found[c] /\ x \notin held[c]
      BY <1>0, <2>1, <3>1, Zenon DEF CountStep, Holders
    <3>2. CASE ~(x = found[c] /\ x \notin held[c])
      BY <1>0, <2>1, <3>2, Zenon DEF CountStep, Holders
    <3>. QED BY <3>1, <3>2, Zenon
  <2>. QED BY <2>1, <2>2, <1>0, Zenon
<1>3. CASE TracesFail(c)
  <2>1. /\ held' = [held EXCEPT ![c] = {}]
        /\ consumeWG' = [x \in Wrapped |-> consumeWG[x] - (IF x \in held[c] THEN 1 ELSE 0)]
    BY <1>3, Zenon DEF TracesFail, Fails
  <2>2. ASSUME NEW x \in Wrapped PROVE CountStep(x)
    <3>1. CASE x \in held[c]
      BY <1>0, <2>1, <3>1, Zenon DEF CountStep, Holders
    <3>2. CASE x \notin held[c]
      BY <1>0, <2>1, <3>2 DEF CountStep, Holders
    <3>. QED BY <3>1, <3>2, Zenon
  <2>. QED BY <2>1, <2>2, Zenon
<1>4. CASE LogsFail(c)
  <2>1. held' = [held EXCEPT ![c] = {}] /\ consumeWG' = consumeWG /\ signal = "logs"
    BY <1>4, Zenon DEF LogsFail, Fails
  <2>2. ASSUME NEW x \in Wrapped PROVE CountStep(x)
    <3>1. CASE x \in held[c]
      BY <1>0, <2>1, <3>1, Zenon DEF CountStep, Holders
    <3>2. CASE x \notin held[c]
      BY <1>0, <2>1, <3>2, Zenon DEF CountStep, Holders
    <3>. QED BY <3>1, <3>2, Zenon
  <2>. QED BY <1>0, <2>1, <2>2, Zenon
<1>5. CASE exportToBackend(c)
  <2>1. /\ sending[c] \in held[c] /\ sending[c] \in Wrapped
        /\ held' = [held EXCEPT ![c] = @ \ {sending[c]}]
        /\ consumeWG' = [consumeWG EXCEPT ![sending[c]] = @ - 1]
    BY <1>0, <1>5, Zenon DEF exportToBackend
  <2>2. ASSUME NEW x \in Wrapped PROVE CountStep(x)
    <3>1. CASE x = sending[c]
      BY <1>0, <2>1, <3>1, Zenon DEF CountStep, Holders
    <3>2. CASE x # sending[c]
      BY <1>0, <2>1, <3>2, Zenon DEF CountStep, Holders
    <3>. QED BY <3>1, <3>2, Zenon
  <2>. QED BY <2>1, <2>2, <1>0, Zenon
<1>. QED BY <1>1, <1>2, <1>3, <1>4, <1>5, Zenon DEF Begin, Consume, Lookup, Send

\* The steps of a call keep what is known of where it stands.
LEMMA CallStep ==
  ASSUME IInv, NEW c \in Calls, (\E ids \in Requests : Begin(c, ids)) \/ Consume(c)
  PROVE  CallsInv'
<1>0. CallsInv /\ TypeOK
  BY Zenon DEF IInv, TypeOK, CallsInv
<1>1. ASSUME NEW ids \in Requests, Begin(c, ids) PROVE CallsInv'
  <2>1. ids \in SUBSET Ids
    BY LoadBalancerAssumption, Zenon
  <2>. QED BY <1>0, <1>1, <2>1, Zenon DEF CallsInv, PlaceInv, Begin
<1>2. ASSUME NEW id \in Ids, Lookup(c, id) PROVE CallsInv'
  <2>1. ExporterFor(id) \in Wrapped
    BY <1>0, <1>2, ExporterForType, Zenon DEF Lookup
  <2>. QED BY <1>0, <1>2, <2>1, Zenon DEF CallsInv, PlaceInv, Lookup
<1>3. CASE Count(c)
  BY <1>0, <1>3, Zenon DEF CallsInv, PlaceInv, Count
<1>4. CASE Fails(c)
  BY <1>0, <1>4, Zenon DEF CallsInv, PlaceInv, Fails
<1>5. ASSUME NEW x \in Wrapped, Send(c, x) PROVE CallsInv'
  BY <1>0, <1>5, Zenon DEF CallsInv, PlaceInv, Send
<1>6. CASE exportToBackend(c)
  BY <1>0, <1>6, Zenon DEF CallsInv, PlaceInv, exportToBackend
<1>. QED BY <1>1, <1>2, <1>3, <1>4, <1>5, <1>6, Zenon DEF Consume, TracesFail, LogsFail

\* Every step keeps what is known of the calls and of the counts.
LEMMA CallsInvariant ==
  ASSUME IInv, Next
  PROVE  CallsInv' /\ consumeWG' \in [Wrapped -> Nat] /\ WaitGroupExact'
<1>0. TypeOK /\ CountInv /\ CallsInv
  BY CountIsExact, Zenon DEF IInv, TypeOK, CallsInv
<1>1. signal' = signal
  BY <1>0, StopStep, Zenon
<1>2. CASE UNCHANGED <<calls, consumeWG>>
  <2>1. CallsInv' /\ consumeWG' \in [Wrapped -> Nat]
    BY <1>0, <1>2, Zenon DEF calls, CallsInv, PlaceInv, TypeOK
  <2>2. CountInv'
    BY <1>0, <1>1, <1>2, Zenon DEF calls, CountInv, Holders
  <2>. QED BY <2>1, <2>2, CountIsExactNext, Zenon
<1>3. ASSUME NEW c \in Calls, (\E ids \in Requests : Begin(c, ids)) \/ Consume(c)
      PROVE  CallsInv' /\ consumeWG' \in [Wrapped -> Nat] /\ WaitGroupExact'
  <2>1. CallsInv'
    BY <1>3, CallStep, Zenon
  <2>2. /\ \A x \in Wrapped : CountStep(x)
        /\ consumeWG' = [x \in Wrapped |-> consumeWG'[x]]
    BY <1>3, CallCounts, Zenon
  <2>3. \A x \in Wrapped : /\ consumeWG'[x] \in Nat
                           /\ consumeWG'[x] >= Cardinality(Holders(x)')
                           /\ signal' = "traces" => consumeWG'[x] = Cardinality(Holders(x)')
    BY <1>0, <1>1, <2>2, CountStepExact, Zenon
  <2>4. consumeWG' \in [Wrapped -> Nat]
    BY <2>2, <2>3, Zenon
  <2>5. CountInv'
    BY <2>3, Zenon DEF CountInv
  <2>. QED BY <2>1, <2>4, <2>5, CountIsExactNext, Zenon
<1>. QED BY <1>2, <1>3, NextCallsStep, Zenon DEF CallsStep

-----------------------------------------------------------------------------
\* The resolver passes on only what the bound allows.
LEMMA ReportStep ==
  ASSUME IInv, Next
  PROVE  ReportInv' /\ NewInv' /\ endpoints' \in SUBSET Endpoints /\ callbacks' \in BOOLEAN
<1>0. /\ endpoints \in SUBSET Endpoints /\ callbacks \in BOOLEAN /\ TypeOK /\ ReportInv /\ NewInv
      /\ \A S \in Reports : S \in SUBSET Endpoints
  BY LoadBalancerAssumption, Zenon DEF IInv, TypeOK
<1>1. NewInv'
  BY <1>0, StopStep, Zenon DEF NewInv, NoRing
<1>2. CASE StartStatic \/ StartPeriodic \/ Propagate \/ ResolverEnds
  BY <1>0, <1>1, <1>2, Zenon DEF StartStatic, StartPeriodic, Propagate, ResolverEnds, ReportInv
<1>3. ASSUME NEW S \in Reports, Resolve(S)
      PROVE  ReportInv' /\ endpoints' \in SUBSET Endpoints /\ callbacks' \in BOOLEAN
  <2>1. /\ endpoints' = S /\ callbacks' = callbacks /\ exporters' = exporters /\ created' = created
        /\ \A a \in Missing(S) : created[a] < MaxGen[a]
    BY <1>3, Zenon DEF Resolve, balancer
  <2>. QED BY <1>0, <2>1, Zenon DEF ReportInv, Missing, AddressesOf
<1>4. CASE \E c \in Calls : (\E ids \in Requests : Begin(c, ids)) \/ Consume(c)
  <2>1. UNCHANGED <<phase, endpoints, callbacks, exporters, created>>
    BY <1>4 DEF Begin, Consume, Lookup, Count, TracesFail, LogsFail, Fails, Send, exportToBackend,
                balancer
  <2>. QED BY <1>0, <1>1, <2>1, Zenon DEF ReportInv, Missing, AddressesOf
<1>5. CASE \/ \E x \in Wrapped : WrappedShutdown(x) \/ ShutdownNext(x)
           \/ ShutdownPeriodic \/ ResolverStopped \/ ShutdownEnd
  <2>1. UNCHANGED <<phase, endpoints, exporters, created>> /\ callbacks' \in {callbacks, FALSE}
    BY <1>5, Zenon DEF WrappedShutdown, ShutdownNext, ShutdownPeriodic, ResolverStopped, ShutdownEnd,
                balancer
  <2>. QED BY <1>0, <1>1, <2>1, Zenon DEF ReportInv, Missing, AddressesOf
<1>6. CASE ShutdownStatic
  BY <1>0, <1>1, <1>6, Zenon DEF ShutdownStatic, ReportInv
<1>. QED BY <1>1, <1>2, <1>3, <1>4, <1>5, <1>6, Zenon DEF Next

\* The exporter starts in the invariant.
LEMMA InitInv == Init => IInv
<1>. SUFFICES ASSUME Init PROVE IInv
  BY Zenon
<1>0. Configs \subseteq {"traces", "logs"} \X {"static", "periodic"}
  BY LoadBalancerAssumption, Zenon
<1>1. signal \in {"traces", "logs"} /\ resolver \in {"static", "periodic"}
  BY <1>0, Zenon DEF Init
<1>2. TypeOK
  <2>1. /\ exporters \in [Addresses -> Nat] /\ created \in [Addresses -> Nat]
        /\ \A a \in Addresses : exporters[a] <= created[a] /\ created[a] <= MaxGen[a]
    BY MaxGenType DEF Init
  <2>2. state \in [Wrapped -> {"new", "running", "stopping", "down"}] /\ consumeWG \in [Wrapped -> Nat]
    BY Zenon DEF Init
  <2>3. CallsInv
    BY Zenon DEF Init, CallsInv, PlaceInv
  <2>4. /\ phase \in {"new", "idle", "changed", "ended"} /\ endpoints \in SUBSET Endpoints
        /\ callbacks \in BOOLEAN /\ ring \in (SUBSET Endpoints) \cup {NoRing}
        /\ stop \in {"up", "resolver", "exporters", "done"}
    BY Zenon DEF Init
  <2>. QED BY <1>1, <2>1, <2>2, <2>3, <2>4, Zenon DEF TypeOK, CallsInv
<1>3. PlaceInv /\ ReportInv /\ NewInv
  BY Zenon DEF Init, PlaceInv, ReportInv, NewInv
<1>4. RunningIsListed /\ RingIsServed
  BY Zenon DEF Init, RunningIsListed, RingIsServed, Listed
<1>5. WaitGroupExact
  <2>1. \A x \in Wrapped : Holders(x) = {}
    BY Zenon DEF Init, Holders
  <2>2. \A x \in Wrapped : Cardinality(Holders(x)) = 0 /\ consumeWG[x] = 0
    BY <2>1, FS_EmptySet, Zenon DEF Init
  <2>. QED BY <2>2, CountIsExact DEF CountInv
<1>. QED BY <1>2, <1>3, <1>4, <1>5, Zenon DEF IInv

\* No step leaves the invariant.
LEMMA NextInv ==
  ASSUME IInv, [Next]_vars
  PROVE  IInv'
<1>1. CASE Next
  <2>1. TypeOK'
    BY <1>1, MapsInvariant, CallsInvariant, ReportStep, StopStep, Zenon
       DEF IInv, TypeOK, BalancerType, CallsInv
  <2>. QED BY <1>1, <2>1, MapsInvariant, CallsInvariant, ReportStep DEF IInv, CallsInv
<1>2. CASE UNCHANGED vars
  BY <1>2, ZenonT(40) DEF vars, config, balancer, calls, IInv, TypeOK, PlaceInv, ReportInv, NewInv,
              RunningIsListed, RingIsServed, WaitGroupExact, Missing, AddressesOf, Listed
<1>. QED BY <1>1, <1>2, Zenon

\* The types, for every instance: no wait group goes below zero, which would panic
\* in sync.WaitGroup (exportToBackend, consumeTracesByID).
THEOREM TypeCorrect == Spec => []TypeOK
<1>1. IInv => TypeOK
  BY Zenon DEF IInv
<1>. QED BY <1>1, InitInv, NextInv, PTL DEF Spec

\* The wait groups, for every number of calls and exporters (consumeWG).
THEOREM CountsAreExact == Spec => []WaitGroupExact
<1>1. IInv => WaitGroupExact
  BY Zenon DEF IInv
<1>. QED BY <1>1, InitInv, NextInv, PTL DEF Spec

\* lb.exporters and the exporters that run, for every sequence of backend lists
\* and failures (addMissingExporters, removeExtraExporters).
THEOREM RunningAreListed == Spec => []RunningIsListed
<1>1. IInv => RunningIsListed
  BY Zenon DEF IInv
<1>. QED BY <1>1, InitInv, NextInv, PTL DEF Spec

\* The ring and lb.exporters, for every way in which endpoints share an address
\* (endpointWithPort).
THEOREM RingsAreServed == Spec => []RingIsServed
<1>1. IInv => RingIsServed
  BY Zenon DEF IInv
<1>. QED BY <1>1, InitInv, NextInv, PTL DEF Spec

\* What ShutdownWaits says of one step.
WaitsStep ==
  \A x \in Wrapped : state[x] # "down" /\ state'[x] = "down" => \A c \in Calls : x \notin held[c]

\* An exporter goes down only when no call is counted in it.
LEMMA NextWaits ==
  ASSUME IInv, [Next]_vars
  PROVE  [WaitsStep]_vars
<1>. SUFFICES ASSUME Next, NEW x \in Wrapped, state[x] # "down", state'[x] = "down", NEW c \in Calls
              PROVE  x \notin held[c]
  BY Zenon DEF WaitsStep
<1>1. BalancerType /\ CountInv /\ consumeWG \in [Wrapped -> Nat]
  BY CountIsExact, Zenon DEF IInv, TypeOK, BalancerType
<1>2. ~UNCHANGED balancer
  BY Zenon DEF balancer
<1>3. ASSUME NEW S \in SUBSET Endpoints, Replace(S) PROVE FALSE
  BY <1>3, Zenon DEF Replace
<1>4. ASSUME NEW y \in Wrapped, ShutdownNext(y) PROVE FALSE
  BY <1>1, <1>4, Zenon DEF ShutdownNext, BalancerType
<1>5. PICK y \in Wrapped : WrappedShutdown(y)
  BY <1>2, <1>3, <1>4, NextMapsStep, Zenon DEF MapsStep
<1>6. y = x /\ consumeWG[x] = 0
  BY <1>1, <1>5, Zenon DEF WrappedShutdown, BalancerType
<1>7. Cardinality(Holders(x)) = 0
  BY <1>1, <1>6, HoldersFinite DEF CountInv
<1>8. Holders(x) = {}
  BY <1>7, HoldersFinite, FS_EmptySet, Zenon
<1>. QED BY <1>8, Zenon DEF Holders

\* No exporter is shut down under a call that has counted itself in, for any
\* number of calls (wrappedExporter.Shutdown).
THEOREM ShutdownsWait == Spec => ShutdownWaits
BY InitInv, NextInv, NextWaits, PTL DEF Spec, ShutdownWaits, WaitsStep
=============================================================================
