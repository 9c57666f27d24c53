---------------------------- MODULE LoadBalancer ----------------------------
(***************************************************************************)
(* The load-balancing exporter (exporter/loadbalancingexporter): the       *)
(* resolver goroutine that reports the backends, the loadBalancer that     *)
(* keeps one wrapped exporter per backend, concurrent calls of             *)
(* ConsumeTraces, ConsumeLogs or ConsumeMetrics, the goroutines that shut  *)
(* removed exporters down, and Shutdown.                                   *)
(*                                                                         *)
(* onBackendChanges and exporterAndEndpoint hold updateLock from beginning *)
(* to end and are one step each.  A ring stands for the set of endpoints   *)
(* it was built from.  A wrapped exporter is a pair: its address and how   *)
(* many were created for that address before and with it.                  *)
(***************************************************************************)
EXTENDS Integers, FiniteSets

CONSTANTS
  Configs,           \* pairs of a signal, "traces" or "logs" (metrics are as logs), and of
                     \* the resolver that finds the backends, "static" or "periodic"
  Endpoints,         \* what a resolver may report,
  Reports,           \* ... and the lists of them that it does report
  endpointWithPort,  \* the address of an endpoint: its own port or the default one
  MayFail,           \* the addresses whose exporter may fail to be created or started
  Ids, Requests,     \* the routing identifiers, and the sets of them that a call carries
  Calls,             \* the concurrent calls of Consume
  MaxGen,            \* bound: exporters created, per address
  MaxCount,          \* bound: a call begins when every wait group is below it
  EndpointFor(_, _)  \* endpointFor: the endpoint that a ring gives an identifier

Addresses == { endpointWithPort[e] : e \in Endpoints }

ASSUME LoadBalancerAssumption ==
  /\ Configs \subseteq {"traces", "logs"} \X {"static", "periodic"}
  /\ IsFiniteSet(Calls) /\ MaxGen \in [Addresses -> Nat \ {0}] /\ MaxCount \in Nat
  /\ "" \notin Endpoints /\ Reports \subseteq SUBSET Endpoints /\ Requests \subseteq SUBSET Ids
  /\ DOMAIN endpointWithPort = Endpoints

ASSUME RoutingAssumption ==
  \A S \in (SUBSET Endpoints) \ {{}}, id \in Ids : EndpointFor(S, id) \in S

VARIABLES
  signal, resolver,  \* the configuration; never changes
  phase,             \* the resolver: new, idle, changed, ended
  endpoints,         \* r.endpoints
  callbacks,         \* onChangeCallbacks has the load balancer's
  ring, exporters,   \* lb.ring; lb.exporters: the exporter of an address, 0 for none
  created,           \* exporters created so far per address
  state,             \* of each wrapped exporter: new, running, stopping, down
  consumeWG,
  pc, todo, found, held, \* a call: its place, identifiers to route, the exporter just
                         \* looked up, the exporters it has counted itself in
  sending,           \* the exporter that a call is in ConsumeTraces of
  stop               \* Shutdown: up, resolver, exporters, done

config == <<signal, resolver>>
balancer == <<ring, exporters, created, state>>
calls == <<pc, todo, found, held, sending>>
vars == <<config, phase, endpoints, callbacks, balancer, consumeWG, calls, stop>>

\* lb.ring is nil, and gives every identifier the endpoint "".
NoRing == {""}

Wrapped == UNION { {a} \X (1 .. MaxGen[a]) : a \in Addresses }

TypeOK ==
  /\ signal \in {"traces", "logs"} /\ resolver \in {"static", "periodic"}
  /\ phase \in {"new", "idle", "changed", "ended"} /\ endpoints \in SUBSET Endpoints
  /\ callbacks \in BOOLEAN
  /\ ring \in (SUBSET Endpoints) \cup {NoRing}
  /\ exporters \in [Addresses -> Nat] /\ created \in [Addresses -> Nat]
  /\ \A a \in Addresses : exporters[a] <= created[a] /\ created[a] <= MaxGen[a]
  /\ state \in [Wrapped -> {"new", "running", "stopping", "down"}]
  /\ consumeWG \in [Wrapped -> Nat]
  /\ pc \in [Calls -> {"idle", "routing", "found", "sending"}]
  /\ todo \in [Calls -> SUBSET Ids] /\ held \in [Calls -> SUBSET Wrapped]
  /\ found \in [Calls -> Wrapped \cup {<<>>}] /\ sending \in [Calls -> Wrapped \cup {<<>>}]
  /\ stop \in {"up", "resolver", "exporters", "done"}

Init ==
  /\ \E config0 \in Configs : signal = config0[1] /\ resolver = config0[2]
  /\ phase = "new" /\ endpoints = {} /\ callbacks = FALSE
  /\ ring = NoRing /\ exporters = [a \in Addresses |-> 0]
  /\ created = [a \in Addresses |-> 0] /\ state = [x \in Wrapped |-> "new"]
  /\ consumeWG = [x \in Wrapped |-> 0]
  /\ pc = [c \in Calls |-> "idle"] /\ todo = [c \in Calls |-> {}]
  /\ found = [c \in Calls |-> <<>>] /\ held = [c \in Calls |-> {}]
  /\ sending = [c \in Calls |-> <<>>] /\ stop = "up"

-----------------------------------------------------------------------------
AddressesOf(S) == { endpointWithPort[e] : e \in S }

Missing(S) == { a \in AddressesOf(S) : exporters[a] = 0 }

\* Mutant: the endpoints are compared with the addresses of the exporters.
ExtraByName(S) == { a \in Addresses : exporters[a] # 0 /\ a \notin S }

\* The exporters whose address is not among those of the endpoints.
Extra(S) == { a \in Addresses : exporters[a] # 0 /\ a \notin AddressesOf(S) }

\* Mutant: the exporters of the endpoints that stay are replaced too.
Recreate(S) ==
  \E failed \in SUBSET (AddressesOf(S) \cap MayFail) :
    LET started == AddressesOf(S) \ failed
    IN  /\ ring' = S
        /\ created' = [a \in Addresses |-> created[a] + (IF a \in started THEN 1 ELSE 0)]
        /\ exporters' = [a \in Addresses |-> IF a \in started THEN created[a] + 1
                                             ELSE IF a \in Extra(S) THEN 0 ELSE exporters[a]]
        /\ state' = [x \in Wrapped |->
             IF x[1] \in started /\ x[2] = created[x[1]] + 1 THEN "running"
             ELSE IF x[1] \in Extra(S) /\ x[2] = exporters[x[1]] THEN "stopping" ELSE state[x]]

\* A new ring: first the exporters that are missing, one by one, some of which
\* may fail, then those that are not needed any more go to a goroutine each.
Replace(S) ==
  \E failed \in SUBSET (Missing(S) \cap MayFail) :
    LET started == Missing(S) \ failed
    IN  /\ ring' = S
        /\ created' = [a \in Addresses |-> created[a] + (IF a \in started THEN 1 ELSE 0)]
        /\ exporters' = [a \in Addresses |-> IF a \in started THEN created[a] + 1
                                             ELSE IF a \in Extra(S) THEN 0 ELSE exporters[a]]
        /\ state' = [x \in Wrapped |->
             IF x[1] \in started /\ x[2] = created[x[1]] + 1 THEN "running"
             ELSE IF x[1] \in Extra(S) /\ x[2] = exporters[x[1]] THEN "stopping" ELSE state[x]]

onBackendChanges(S) == IF S = ring THEN UNCHANGED balancer ELSE Replace(S)

-----------------------------------------------------------------------------
\* Start registers the callback and resolves once: the static resolver always
\* finds its endpoints, a periodic one may fail or find none, and then runs its
\* goroutine.
StartStatic ==
  /\ resolver = "static" /\ phase = "new"
  /\ \E S \in Reports \ {{}} : endpoints' = S /\ onBackendChanges(S)
  /\ phase' = "ended" /\ callbacks' = TRUE
  /\ UNCHANGED <<config, consumeWG, calls, stop>>

StartPeriodic ==
  /\ resolver = "periodic" /\ phase = "new"
  /\ \/ UNCHANGED <<endpoints, balancer>>
     \/ \E S \in Reports \ {{}} : endpoints' = S /\ onBackendChanges(S)
  /\ phase' = "idle" /\ callbacks' = TRUE
  /\ UNCHANGED <<config, consumeWG, calls, stop>>

\* A tick of the resolver that finds another list; one that fails or finds the
\* same list changes nothing.
Resolve(S) ==
  /\ phase = "idle" /\ S # endpoints /\ \A a \in Missing(S) : created[a] < MaxGen[a]
  /\ endpoints' = S /\ phase' = "changed"
  /\ UNCHANGED <<config, callbacks, balancer, consumeWG, calls, stop>>

\* ... and passes it on, unless Shutdown has taken the callback away.
Propagate ==
  /\ phase = "changed"
  /\ IF callbacks THEN onBackendChanges(endpoints) ELSE UNCHANGED balancer
  /\ phase' = "idle"
  /\ UNCHANGED <<config, endpoints, callbacks, consumeWG, calls, stop>>

\* Mutant: the closed stopCh is seen after a change only.
ResolverEndsOnChange ==
  /\ phase = "changed" /\ stop = "resolver"
  /\ phase' = "ended"
  /\ UNCHANGED <<config, endpoints, callbacks, balancer, consumeWG, calls, stop>>

\* The goroutine takes the closed stopCh.
ResolverEnds ==
  /\ phase = "idle" /\ stop = "resolver"
  /\ phase' = "ended"
  /\ UNCHANGED <<config, endpoints, callbacks, balancer, consumeWG, calls, stop>>

-----------------------------------------------------------------------------
Begin(c, ids) ==
  /\ pc[c] = "idle" /\ phase # "new" /\ stop = "up"
  /\ \A x \in Wrapped : consumeWG[x] < MaxCount
  /\ todo' = [todo EXCEPT ![c] = ids] /\ pc' = [pc EXCEPT ![c] = "routing"]
  /\ UNCHANGED <<config, phase, endpoints, callbacks, balancer, consumeWG, found, held, sending,
                 stop>>

\* exporterAndEndpoint: the exporter that an identifier is routed to, <<>> when
\* the ring has no endpoint or its exporter is missing.
ExporterFor(id) ==
  IF ring \in {NoRing, {}} THEN <<>>
  ELSE LET a == endpointWithPort[EndpointFor(ring, id)]
       IN  IF exporters[a] = 0 THEN <<>> ELSE <<a, exporters[a]>>

Lookup(c, id) ==
  /\ pc[c] = "routing" /\ id \in todo[c] /\ ExporterFor(id) # <<>>
  /\ found' = [found EXCEPT ![c] = ExporterFor(id)]
  /\ todo' = [todo EXCEPT ![c] = @ \ {id}] /\ pc' = [pc EXCEPT ![c] = "found"]
  /\ UNCHANGED <<config, phase, endpoints, callbacks, balancer, consumeWG, held, sending, stop>>

\* Mutant: every identifier counts, not every exporter.
CountEvery(c) ==
  /\ pc[c] = "found"
  /\ consumeWG' = [consumeWG EXCEPT ![found[c]] = @ + 1]
  /\ held' = [held EXCEPT ![c] = @ \cup {found[c]}]
  /\ found' = [found EXCEPT ![c] = <<>>] /\ pc' = [pc EXCEPT ![c] = "routing"]
  /\ UNCHANGED <<config, phase, endpoints, callbacks, balancer, todo, sending, stop>>

\* consumeWG.Add(1), after updateLock was released, for an exporter that is new
\* to this call.
Count(c) ==
  /\ pc[c] = "found"
  /\ consumeWG' = IF found[c] \in held[c] THEN consumeWG
                  ELSE [consumeWG EXCEPT ![found[c]] = @ + 1]
  /\ held' = [held EXCEPT ![c] = @ \cup {found[c]}]
  /\ found' = [found EXCEPT ![c] = <<>>] /\ pc' = [pc EXCEPT ![c] = "routing"]
  /\ UNCHANGED <<config, phase, endpoints, callbacks, balancer, todo, sending, stop>>

Fails(c) ==
  /\ pc[c] = "routing" /\ todo[c] # {}
  /\ pc' = [pc EXCEPT ![c] = "idle"] /\ todo' = [todo EXCEPT ![c] = {}]
  /\ held' = [held EXCEPT ![c] = {}]
  /\ UNCHANGED <<config, phase, endpoints, callbacks, balancer, found, sending, stop>>

\* Spans whose identifiers cannot be told (routingIdentifiersFromTraces) or an
\* identifier without an exporter end the call.  The traces exporter gives back
\* what it has counted ...
TracesFail(c) ==
  /\ signal = "traces" /\ Fails(c)
  /\ consumeWG' = [x \in Wrapped |-> consumeWG[x] - (IF x \in held[c] THEN 1 ELSE 0)]

\* ... and the exporters of logs and metrics return at once; logs always have an
\* identifier.
LogsFail(c) ==
  /\ signal = "logs" /\ Fails(c) /\ \E id \in todo[c] : ExporterFor(id) = <<>>
  /\ UNCHANGED consumeWG

\* The call of the wrapped exporter's ConsumeTraces, ...
Send(c, x) ==
  /\ pc[c] = "routing" /\ todo[c] = {} /\ x \in held[c]
  /\ sending' = [sending EXCEPT ![c] = x] /\ pc' = [pc EXCEPT ![c] = "sending"]
  /\ UNCHANGED <<config, phase, endpoints, callbacks, balancer, consumeWG, todo, found, held, stop>>

\* ... and consumeWG.Done() when it has returned, well or with an error.
exportToBackend(c) ==
  /\ pc[c] = "sending"
  /\ consumeWG' = [consumeWG EXCEPT ![sending[c]] = @ - 1]
  /\ held' = [held EXCEPT ![c] = @ \ {sending[c]}]
  /\ pc' = [pc EXCEPT ![c] = IF held[c] = {sending[c]} THEN "idle" ELSE "routing"]
  /\ sending' = [sending EXCEPT ![c] = <<>>]
  /\ UNCHANGED <<config, phase, endpoints, callbacks, balancer, todo, found, stop>>

-----------------------------------------------------------------------------
\* Mutant: the exporter is shut down at once.
ShutdownAtOnce(x) ==
  /\ state[x] = "stopping"
  /\ state' = [state EXCEPT ![x] = "down"]
  /\ UNCHANGED <<config, phase, endpoints, callbacks, ring, exporters, created, consumeWG, calls,
                 stop>>

\* Mutant: nothing shuts an exporter down before the end.
ShutdownAtEnd(x) ==
  /\ state[x] = "stopping" /\ consumeWG[x] = 0 /\ stop = "exporters"
  /\ state' = [state EXCEPT ![x] = "down"]
  /\ UNCHANGED <<config, phase, endpoints, callbacks, ring, exporters, created, consumeWG, calls,
                 stop>>

\* wrappedExporter.Shutdown: consumeWG.Wait(), then the exporter's own.
WrappedShutdown(x) ==
  /\ state[x] = "stopping" /\ consumeWG[x] = 0
  /\ state' = [state EXCEPT ![x] = "down"]
  /\ UNCHANGED <<config, phase, endpoints, callbacks, ring, exporters, created, consumeWG, calls,
                 stop>>

\* Shutdown starts with that of the resolver.  The static one reports an empty
\* list, a periodic one drops the callback and waits for its goroutine.
ShutdownStatic ==
  /\ resolver = "static" /\ phase = "ended" /\ stop = "up"
  /\ endpoints' = {} /\ onBackendChanges({})
  /\ stop' = "exporters"
  /\ UNCHANGED <<config, phase, callbacks, consumeWG, calls>>

ShutdownPeriodic ==
  /\ resolver = "periodic" /\ phase # "new" /\ stop = "up"
  /\ callbacks' = FALSE /\ stop' = "resolver"
  /\ UNCHANGED <<config, phase, endpoints, balancer, consumeWG, calls>>

ResolverStopped ==
  /\ stop = "resolver" /\ phase = "ended"
  /\ stop' = "exporters"
  /\ UNCHANGED <<config, phase, endpoints, callbacks, balancer, consumeWG, calls>>

\* The exporters that are left, one after the other.
Listed == { <<a, exporters[a]>> : a \in { b \in Addresses : exporters[b] # 0 } }

ShutdownNext(x) ==
  /\ stop = "exporters" /\ x \in Listed /\ state[x] = "running"
  /\ \A y \in Listed : state[y] # "stopping"
  /\ state' = [state EXCEPT ![x] = "stopping"]
  /\ UNCHANGED <<config, phase, endpoints, callbacks, ring, exporters, created, consumeWG, calls,
                 stop>>

\* exportersShutdownWG.Wait().
ShutdownEnd ==
  /\ stop = "exporters"
  /\ \A x \in Wrapped : state[x] \in {"new", "down"}
  /\ stop' = "done"
  /\ UNCHANGED <<config, phase, endpoints, callbacks, balancer, consumeWG, calls>>

Consume(c) ==
  \/ \E id \in Ids : Lookup(c, id)
  \/ Count(c) \/ TracesFail(c) \/ LogsFail(c)
  \/ \E x \in Wrapped : Send(c, x)
  \/ exportToBackend(c)

Next ==
  \/ StartStatic \/ StartPeriodic
  \/ \E S \in Reports : Resolve(S)
  \/ Propagate \/ ResolverEnds
  \/ \E c \in Calls : (\E ids \in Requests : Begin(c, ids)) \/ Consume(c)
  \/ \E x \in Wrapped : WrappedShutdown(x) \/ ShutdownNext(x)
  \/ ShutdownStatic \/ ShutdownPeriodic \/ ResolverStopped \/ ShutdownEnd

Spec == Init /\ [][Next]_vars

\* A call goes on, a backend answers (its exporter has a timeout), the goroutines
\* run.  The resolver's select chooses among the closed channel and its ticker
\* at random, so the closed channel is taken in the end.
Fairness ==
  /\ \A c \in Calls : WF_vars(Consume(c))
  /\ \A x \in Wrapped : WF_vars(WrappedShutdown(x)) /\ WF_vars(ShutdownNext(x))
  /\ WF_vars(Propagate) /\ SF_vars(ResolverEnds)
  /\ WF_vars(ResolverStopped) /\ WF_vars(ShutdownEnd)

FairSpec == Spec /\ Fairness

-----------------------------------------------------------------------------
\* The wait group of an exporter counts the calls that hold it, so that neither
\* Shutdown misses one nor waits for one that is over; the exporters of logs and
\* metrics may leave counts behind (consumeWG.Add and Done in ConsumeTraces,
\* exportToBackend and ConsumeLogs).
WaitGroupExact ==
  \A x \in Wrapped :
    LET holders == { c \in Calls : x \in held[c] }
    IN  /\ consumeWG[x] >= Cardinality(holders)
        /\ signal = "traces" => consumeWG[x] = Cardinality(holders)

\* Every exporter that runs is in lb.exporters, where Shutdown will find it, and
\* until Shutdown comes to them those in lb.exporters run (addMissingExporters
\* and removeExtraExporters).
RunningIsListed ==
  /\ \A x \in Wrapped : state[x] = "running" => x \in Listed
  /\ stop \in {"up", "resolver"} => \A x \in Listed : state[x] = "running"

\* An endpoint of the ring has an exporter, unless that failed to start; two
\* endpoints that differ in the default port only share one, which stays as long
\* as one of them is in the ring (endpointWithPort in all three places).
RingIsServed ==
  ring # NoRing =>
    /\ \A a \in AddressesOf(ring) \ MayFail : exporters[a] # 0
    /\ \A x \in Listed : x[1] \in AddressesOf(ring)

\* An exporter is shut down when no call holds it (wrappedExporter.Shutdown).
ShutdownWaits ==
  [][\A x \in Wrapped : state[x] # "down" /\ state'[x] = "down" =>
       \A c \in Calls : x \notin held[c]]_vars

\* Shutdown of the traces exporter returns, whatever calls are under way and
\* whatever the resolver does (loadBalancer.Shutdown).
TracesShutdownEnds == signal = "traces" /\ stop # "up" ~> stop = "done"

\* An exporter of the traces whose backend has gone is shut down: again and
\* again none is waiting (removeExtraExporters, and the bound on exporters).
TracesRemovedGoDown ==
  signal = "traces" => []<>(\A x \in Wrapped : state[x] # "stopping")
=============================================================================
