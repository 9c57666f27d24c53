----------------------------- MODULE GroupByTrace -----------------------------
(***************************************************************************)
(* The group-by-trace processor (processor/groupbytraceprocessor): the     *)
(* event machine with its workers, their ring buffers and event channels,  *)
(* the trace storage, the expiry timers, the goroutines that release a     *)
(* trace, and the shutdown.                                                *)
(*                                                                         *)
(* A batch is what ConsumeTraces splits off for one trace.  The call that  *)
(* brings it, the handler that stores it, the timer that this handler may  *)
(* set and the goroutine that the timer may start are all named after it.  *)
(* Time is not modelled: a timer fires and a timeout passes at any moment. *)
(***************************************************************************)
EXTENDS Integers, Sequences, FiniteSets, Lists

CONSTANTS
  Traces, Empty,      \* the trace IDs, and the all-zero ID
  Batches, TraceOf,   \* the batches, and the trace of each
  Workers, WorkerOf,  \* the workers, and the one that a trace is hashed to
  RingSize,           \* NumTraces / NumWorkers
  QueueSize,          \* bufferSize / NumWorkers, the capacity of a channel
  Stalls              \* whether a handler that calls fire may exceed its second

ASSUME NamesAssumption ==
  /\ Empty \notin Traces /\ TraceOf \in [Batches -> Traces] /\ WorkerOf \in [Traces -> Workers]
  /\ Batches \cap {"idle", "stopped"} = {}
ASSUME SizesAssumption == RingSize \in Nat \ {0} /\ QueueSize \in Nat \ {0} /\ Stalls \in BOOLEAN

VARIABLES
  ring,      \* worker.buffer: index, ids, idToIndex
  queue,     \* worker.events
  handler,   \* what the worker is doing: waiting for an event, stopped, or
             \* waiting for the onTraceReceived of a batch to finish
  content,   \* the memory storage: the batches stored for a trace
  consumed,  \* the batches that ConsumeTraces was called with
  adding,    \* onTraceReceived has evicted a trace for this batch, and has not
             \* stored the batch yet
  timers,    \* batches whose AfterFunc is pending
  getting,   \* batches whose timer has started a markAsReleased
  calling,   \* events that a goroutine is about to fire
  sending,   \* events that remain to be sent in a call of fire, which holds a
             \* read lock on shutdownLock meanwhile
  life,      \* the shutdown
  delivered  \* how often the next consumer got a batch

store == <<ring, content>>
vars == <<ring, queue, handler, content, consumed, adding, timers, getting, calling, sending,
          life, delivered>>

NotFound == -1
Senders == {"consume", "evict", "timer", "release"} \X Batches

Received(b) == [typ |-> "received", by |-> b, trace |-> TraceOf[b], rss |-> {b}]
Expired(b) == [typ |-> "expired", by |-> b, trace |-> TraceOf[b], rss |-> {}]
Released(b, rss) == [typ |-> "released", by |-> b, trace |-> TraceOf[b], rss |-> rss]
Removed(b, t) == [typ |-> "removed", by |-> b, trace |-> t, rss |-> {}]
Events == [typ : {"received", "expired", "released", "removed"}, by : Batches, trace : Traces,
           rss : SUBSET Batches]

closed == life \in {"draining", "stopped"}

TypeOK ==
  /\ ring \in [Workers -> [index : -1 .. RingSize - 1,
                           ids : [0 .. RingSize - 1 -> Traces \cup {Empty}],
                           idToIndex : [Traces -> NotFound .. RingSize - 1]]]
  /\ queue \in [Workers -> Seq(Events)] /\ \A w \in Workers : Len(queue[w]) <= QueueSize
  /\ handler \in [Workers -> Batches \cup {"idle", "stopped"}]
  /\ content \in [Traces -> SUBSET Batches]
  /\ consumed \subseteq Batches /\ adding \subseteq Batches
  /\ timers \subseteq Batches /\ getting \subseteq Batches
  /\ calling \in [Senders -> Seq(Events)] /\ sending \in [Senders -> Seq(Events)]
  /\ life \in {"running", "locking", "draining", "stopped"}
  /\ delivered \in [Batches -> Nat]

-----------------------------------------------------------------------------
(* The ring buffer *)

BufferContains(rg, t) == rg.idToIndex[t] # NotFound

Delete(rg, t) ==
  IF BufferContains(rg, t)
  THEN [rg EXCEPT !.ids[rg.idToIndex[t]] = Empty, !.idToIndex[t] = NotFound]
  ELSE rg

Slot(rg) == (rg.index + 1) % RingSize
EvictedBy(rg) == rg.ids[Slot(rg)]

Put(rg, t) ==
  LET i == Slot(rg)
      e == EvictedBy(rg)
      d == IF e # Empty THEN Delete(rg, e) ELSE rg
  IN  [d EXCEPT !.index = i, !.ids[i] = t, !.idToIndex[t] = i]

-----------------------------------------------------------------------------
(* Firing events *)

\* ConsumeTraces and eventMachine.consume, up to the call of fire.
Consume(b) ==
  /\ b \notin consumed
  /\ consumed' = consumed \cup {b}
  /\ calling' = [calling EXCEPT ![<<"consume", b>>] = <<Received(b)>>]
  /\ UNCHANGED <<store, queue, handler, adding, timers, getting, sending, life, delivered>>

\* The function that AfterFunc was given.
TimerFires(b) ==
  /\ b \in timers
  /\ timers' = timers \ {b}
  /\ calling' = [calling EXCEPT ![<<"timer", b>>] = <<Expired(b)>>]
  /\ UNCHANGED <<store, queue, handler, consumed, adding, getting, sending, life, delivered>>

\* Mutant: the lock is taken for every event.
FireOne(s) ==
  /\ calling[s] # <<>> /\ sending[s] = <<>> /\ life # "locking"
  /\ calling' = [calling EXCEPT ![s] = Tail(@)]
  /\ sending' = [sending EXCEPT ![s] = IF closed THEN <<>> ELSE <<Head(calling[s])>>]
  /\ UNCHANGED <<store, queue, handler, consumed, adding, timers, getting, life, delivered>>

\* fire gets its read lock, for which a waiting shutdown has to be through; a
\* closed machine discards the events.  A goroutine is in one call at a time.
Fire(s) ==
  /\ calling[s] # <<>> /\ sending[s] = <<>> /\ life # "locking"
  /\ calling' = [calling EXCEPT ![s] = <<>>]
  /\ sending' = [sending EXCEPT ![s] = IF closed THEN <<>> ELSE calling[s]]
  /\ UNCHANGED <<store, queue, handler, consumed, adding, timers, getting, life, delivered>>

\* The worker of a sender: an evicted trace has the worker of the new one.
WorkerFor(s) == WorkerOf[TraceOf[s[2]]]

\* One event goes into the channel when there is room.
Send(s) ==
  LET w == WorkerFor(s)
  IN  /\ sending[s] # <<>> /\ Len(queue[w]) < QueueSize
      /\ queue' = [queue EXCEPT ![w] = Append(@, Head(sending[s]))]
      /\ sending' = [sending EXCEPT ![s] = Tail(@)]
      /\ UNCHANGED <<store, handler, consumed, adding, timers, getting, calling, life, delivered>>

-----------------------------------------------------------------------------
(* The workers *)

\* The worker takes the first event of its channel.  A worker that was in its
\* select when the machine stopped may take one more.
Take(w, typ) ==
  /\ handler[w] = "idle" /\ queue[w] # <<>> /\ Head(queue[w]).typ = typ
  /\ queue' = [queue EXCEPT ![w] = Tail(@)]

\* The worker goes back to the top of its loop.
Loop(w) ==
  handler' = [handler EXCEPT ![w] = IF life = "stopped" THEN "stopped" ELSE "idle"]

AddSpans(b) == content' = [content EXCEPT ![TraceOf[b]] = @ \cup {b}]

\* onTraceReceived for a trace that the ring holds.
ReceiveKnown(w) ==
  LET b == Head(queue[w]).by
  IN  /\ Take(w, "received") /\ BufferContains(ring[w], TraceOf[b])
      /\ AddSpans(b)
      /\ Loop(w)
      /\ UNCHANGED <<ring, consumed, adding, timers, getting, calling, sending, life, delivered>>

\* onTraceReceived for a new trace when the ring has room.
ReceiveNew(w) ==
  LET b == Head(queue[w]).by
  IN  /\ Take(w, "received") /\ ~BufferContains(ring[w], TraceOf[b])
      /\ EvictedBy(ring[w]) = Empty
      /\ ring' = [ring EXCEPT ![w] = Put(@, TraceOf[b])]
      /\ AddSpans(b)
      /\ timers' = timers \cup {b}
      /\ Loop(w)
      /\ UNCHANGED <<consumed, adding, getting, calling, sending, life, delivered>>

\* onTraceReceived for a new trace that takes the place of another one, up to
\* the call of fire that has the other one removed.
ReceiveEvict(w) ==
  LET b == Head(queue[w]).by
      e == EvictedBy(ring[w])
  IN  /\ Take(w, "received") /\ ~BufferContains(ring[w], TraceOf[b])
      /\ e # Empty
      /\ ring' = [ring EXCEPT ![w] = Put(@, TraceOf[b])]
      /\ calling' = [calling EXCEPT ![<<"evict", b>>] = <<Removed(b, e)>>]
      /\ adding' = adding \cup {b}
      /\ handler' = [handler EXCEPT ![w] = b]
      /\ UNCHANGED <<content, consumed, timers, getting, sending, life, delivered>>

\* Mutant: the trace is stored and never expires.
ReceiveEndNoTimer(b) ==
  LET w == WorkerOf[TraceOf[b]]
      s == <<"evict", b>>
  IN  /\ b \in adding /\ calling[s] = <<>> /\ sending[s] = <<>>
      /\ adding' = adding \ {b}
      /\ AddSpans(b)
      /\ IF handler[w] = b THEN Loop(w) ELSE UNCHANGED handler
      /\ UNCHANGED <<ring, queue, consumed, timers, getting, calling, sending, life, delivered>>

\* The rest of that onTraceReceived.  It also runs when the worker has stopped
\* waiting for it.
ReceiveEnd(b) ==
  LET w == WorkerOf[TraceOf[b]]
      s == <<"evict", b>>
  IN  /\ b \in adding /\ calling[s] = <<>> /\ sending[s] = <<>>
      /\ adding' = adding \ {b}
      /\ AddSpans(b)
      /\ timers' = timers \cup {b}
      /\ IF handler[w] = b THEN Loop(w) ELSE UNCHANGED handler
      /\ UNCHANGED <<ring, queue, consumed, getting, calling, sending, life, delivered>>

\* Mutant: the worker waits for its handler as long as it takes.
NoAbort(w) == FALSE /\ UNCHANGED vars

\* doWithTimeout gives up on a handler that has not finished: the worker goes
\* on, and so does the handler.
Abort(w) ==
  /\ Stalls /\ handler[w] \in Batches
  /\ Loop(w)
  /\ UNCHANGED <<store, queue, consumed, adding, timers, getting, calling, sending, life, delivered>>

\* onTraceExpired for a trace that has left the ring.
OnTraceExpiredSkip(w) ==
  /\ Take(w, "expired") /\ ~BufferContains(ring[w], Head(queue[w]).trace)
  /\ Loop(w)
  /\ UNCHANGED <<store, consumed, adding, timers, getting, calling, sending, life, delivered>>

\* onTraceExpired: the trace leaves the ring and a goroutine is started.
OnTraceExpired(w) ==
  LET e == Head(queue[w])
  IN  /\ Take(w, "expired") /\ BufferContains(ring[w], e.trace)
      /\ ring' = [ring EXCEPT ![w] = Delete(@, e.trace)]
      /\ getting' = getting \cup {e.by}
      /\ Loop(w)
      /\ UNCHANGED <<content, consumed, adding, timers, calling, sending, life, delivered>>

\* Mutant: the trace is released and stays in the storage.
MarkNotRemoved(b) ==
  LET rss == content[TraceOf[b]]
  IN  /\ b \in getting
      /\ getting' = getting \ {b}
      /\ calling' = [calling EXCEPT ![<<"release", b>>] =
                       IF rss = {} THEN <<>> ELSE <<Released(b, rss)>>]
      /\ UNCHANGED <<store, queue, handler, consumed, adding, timers, sending, life, delivered>>

\* markAsReleased copies the trace and goes on to fire its two events.
MarkAsReleased(b) ==
  LET rss == content[TraceOf[b]]
  IN  /\ b \in getting
      /\ getting' = getting \ {b}
      /\ calling' = [calling EXCEPT ![<<"release", b>>] =
                       IF rss = {} THEN <<>> ELSE <<Released(b, rss), Removed(b, TraceOf[b])>>]
      /\ UNCHANGED <<store, queue, handler, consumed, adding, timers, sending, life, delivered>>

\* onTraceReleased and the goroutine that calls the next consumer.
OnTraceReleased(w) ==
  LET rss == Head(queue[w]).rss
  IN  /\ Take(w, "released")
      /\ delivered' = [b \in Batches |-> delivered[b] + (IF b \in rss THEN 1 ELSE 0)]
      /\ Loop(w)
      /\ UNCHANGED <<store, consumed, adding, timers, getting, calling, sending, life>>

\* onTraceRemoved.
OnTraceRemoved(w) ==
  /\ Take(w, "removed")
  /\ content' = [content EXCEPT ![Head(queue[w]).trace] = {}]
  /\ Loop(w)
  /\ UNCHANGED <<ring, consumed, adding, timers, getting, calling, sending, life, delivered>>

-----------------------------------------------------------------------------
(* Shutdown *)

Live(l) ==
  /\ life' = l
  /\ UNCHANGED <<store, queue, handler, consumed, adding, timers, getting, calling, sending,
                 delivered>>

\* shutdown waits for the lock, gets it once nobody is in fire, and closes the
\* machine when the channels are empty or after ten seconds.
Shutdown == life = "running" /\ Live("locking")
LockAndClose == life = "locking" /\ (\A s \in Senders : sending[s] = <<>>) /\ Live("draining")
CloseWorkers == life = "draining" /\ Live("stopped")

\* A worker in its select sees that the machine has stopped.
Stop(w) ==
  /\ life = "stopped" /\ handler[w] = "idle"
  /\ handler' = [handler EXCEPT ![w] = "stopped"]
  /\ UNCHANGED <<store, queue, consumed, adding, timers, getting, calling, sending, life, delivered>>

-----------------------------------------------------------------------------
Init ==
  /\ ring = [w \in Workers |-> [index |-> -1, ids |-> [i \in 0 .. RingSize - 1 |-> Empty],
                                idToIndex |-> [t \in Traces |-> NotFound]]]
  /\ queue = [w \in Workers |-> <<>>] /\ handler = [w \in Workers |-> "idle"]
  /\ content = [t \in Traces |-> {}] /\ consumed = {} /\ adding = {}
  /\ timers = {} /\ getting = {}
  /\ calling = [s \in Senders |-> <<>>] /\ sending = [s \in Senders |-> <<>>]
  /\ life = "running" /\ delivered = [b \in Batches |-> 0]

Work(w) ==
  \/ ReceiveKnown(w) \/ ReceiveNew(w) \/ ReceiveEvict(w) \/ Abort(w)
  \/ OnTraceExpired(w) \/ OnTraceExpiredSkip(w) \/ OnTraceReleased(w) \/ OnTraceRemoved(w) \/ Stop(w)

Next ==
  \/ \E b \in Batches : Consume(b) \/ TimerFires(b) \/ ReceiveEnd(b) \/ MarkAsReleased(b)
  \/ \E s \in Senders : Fire(s) \/ Send(s)
  \/ \E w \in Workers : Work(w)
  \/ Shutdown \/ LockAndClose \/ CloseWorkers

Spec == Init /\ [][Next]_vars

\* Goroutines run, timers fire, and a shutdown that has begun goes on.  Nobody
\* has to send batches or shut down.  Weak fairness is enough for a goroutine
\* that waits for room in a channel, because the others send finitely often.
Fairness ==
  /\ \A b \in Batches : WF_vars(TimerFires(b)) /\ WF_vars(ReceiveEnd(b)) /\ WF_vars(MarkAsReleased(b))
  /\ \A s \in Senders : WF_vars(Fire(s)) /\ WF_vars(Send(s))
  /\ \A w \in Workers : WF_vars(Work(w))
  /\ WF_vars(LockAndClose) /\ WF_vars(CloseWorkers)

FairSpec == Spec /\ Fairness

-----------------------------------------------------------------------------
(* Properties *)

InRing(t) == BufferContains(ring[WorkerOf[t]], t)

\* An event of this type for the trace is in the channel, or on its way there.
Pending(typ, t) ==
  \/ \E s \in Senders : \E e \in Range(calling[s]) \cup Range(sending[s]) :
       e.typ = typ /\ e.trace = t
  \/ \E e \in Range(queue[WorkerOf[t]]) : e.typ = typ /\ e.trace = t

\* The slots of ringBuffer.ids and the map idToIndex are inverse to each other,
\* so that an eviction frees the slot and the entry of the same trace.
RingConsistent ==
  \A w \in Workers :
    /\ \A t \in Traces : BufferContains(ring[w], t) => ring[w].ids[ring[w].idToIndex[t]] = t
    /\ \A i \in 0 .. RingSize - 1 :
         LET t == ring[w].ids[i] IN t # Empty => ring[w].idToIndex[t] = i

\* Every trace in a ring buffer has an expiry to come, also when it was evicted
\* and came back, and when the worker gave up on the handler that put it there:
\* no trace occupies its slot for ever.
ExpiryPending ==
  ~closed => \A t \in Traces :
    InRing(t) => \/ \E b \in timers \cup adding : TraceOf[b] = t
                 \/ Pending("expired", t)

\* A trace in the storage is in the ring buffer, or is being released, or its
\* removal is on its way: with handlers that finish within their second,
\* evictions and releases leave nothing behind in the storage.
StorageOwned ==
  ~closed => \A t \in Traces :
    content[t] # {} => \/ InRing(t) \/ Pending("removed", t)
                       \/ \E b \in getting : TraceOf[b] = t

\* markAsReleased fires its two events together: once the machine is closed no
\* channel holds a released trace without the removal that belongs to it.
ReleasedIsRemoved ==
  closed => \A w \in Workers : \A i \in DOMAIN queue[w] :
    queue[w][i].typ = "released" =>
      \E j \in DOMAIN queue[w] :
        i < j /\ queue[w][j] = Removed(queue[w][i].by, queue[w][i].trace)

\* A trace does not stay in the ring buffer: it expires, or is evicted, or the
\* processor is shut down.
LeavesRing == \A t \in Traces : InRing(t) ~> (~InRing(t) \/ closed)

\* A call of ConsumeTraces returns, also when the channel is full and the
\* worker itself waits for room in it.
ConsumeReturns ==
  \A b \in Batches :
    LET s == <<"consume", b>>
    IN  calling[s] # <<>> ~> (calling[s] = <<>> /\ sending[s] = <<>>)

\* A shutdown ends with every worker stopped, even when handlers and callers
\* are blocked in fire when it asks for the lock.
ShutdownEnds == life = "locking" ~> \A w \in Workers : handler[w] = "stopped"

-----------------------------------------------------------------------------
(* What the documentation says and the code does not do *)

\* The README of the processor on wait_duration: "Spans from a trace that has
\* been released will be kept for the entire duration again."  So without
\* evictions and before a shutdown no batch that came in disappears before it
\* is delivered.
NoSpanLost ==
  ~closed => \A b \in consumed :
    \/ Pending("received", TraceOf[b]) \/ b \in content[TraceOf[b]] \/ delivered[b] > 0
    \/ \E s \in Senders : \E e \in Range(calling[s]) \cup Range(sending[s]) : b \in e.rss
    \/ \E w \in Workers : \E e \in Range(queue[w]) : b \in e.rss
=============================================================================
