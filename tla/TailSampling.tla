---------------------------- MODULE TailSampling ----------------------------
(***************************************************************************)
(* The tail-sampling processor: one shard's event loop with the traces it  *)
(* holds, the batcher that times their decisions, the decision caches, the *)
(* span storage, the work and update channels, and shutdown.  The unit of  *)
(* data is the spans of one trace in one payload.  A batch ID is modelled  *)
(* by its distance from takeID, -1 for all that were taken.                *)
(***************************************************************************)
EXTENDS Lists, FiniteSets

CONSTANTS
  Traces, Spans, TraceOf,  \* spans that arrive together, and their trace
  Roots,                   \* those with a root span
  Payloads,                \* what ConsumeTraces sends to the shard, each a list of Spans
  Configs,                 \* the configurations to be covered
  NumTraces,               \* num_traces
  NumBatches,              \* decision_wait in ticks
  RootWait,                \* decision_wait_after_root_received in ticks, -1 for unset
  WorkCap,                 \* capacity of workChan
  Policies,                \* for each update, which policies are drop policies
  Limits,                  \* for each update, maximum_trace_size_bytes, 0 for none
  MaxUpdates               \* bound: updates sent

ASSUME SamplingAssumption ==
  /\ TraceOf \in [Spans -> Traces] /\ Roots \subseteq Spans /\ Payloads \subseteq Seq(Spans)
  /\ \A p \in Payloads : \A i, j \in DOMAIN p : p[i] = p[j] => i = j
  /\ NumTraces \in Nat \ {0} /\ NumBatches \in Nat \ {0} /\ RootWait \in Nat \cup {-1}
  /\ WorkCap \in Nat \ {0} /\ Policies \in Seq(Seq(BOOLEAN)) /\ Limits \in Seq(Nat)
  /\ Len(Policies) > 0 /\ Len(Limits) > 0 /\ MaxUpdates \in Nat
  /\ Configs \subseteq [block : BOOLEAN, sampled : Nat, nonSampled : Nat, ingest : BOOLEAN,
                        firstMatch : BOOLEAN, dropPending : BOOLEAN, fallible : BOOLEAN]

VARIABLES
  cfg,              \* the configuration; never changes
  shard,            \* what only the loop touches, see ShardType
  deciding,         \* the rest of the batch that samplingPolicyOnTick works on
  work, since,      \* the rest of the payload in hand; the updates made before it was sent
  workChan,         \* payloads, each with the updates made before it was sent
  issued, applied,  \* updates sent and received: the one in the channel is not applied
  pc,               \* run, wait (for space), drain (after Stop), last, done
  closed, sent, fate

vars == <<cfg, shard, deciding, work, since, workChan, issued, applied, pc, closed, sent, fate>>

Updates == {"policies", "size"}
Versions == [policies : 1 .. Len(Policies), size : 1 .. Len(Limits)]

TraceType == [decision : {"none", "sampled", "not", "dropped"}, due : -1 .. NumBatches, size : Nat]

ShardType(held) ==
  [ traces : [held -> TraceType],      \* idToTrace
    storage : [Traces -> SUBSET Spans],
    queue : Seq(Traces),               \* deleteTraceQueue
    slots : [0 .. NumBatches - 1 -> SUBSET Traces], take : 0 .. NumBatches - 1,
    current : SUBSET Traces,
    left : -1 .. NumBatches,           \* lastBatchID - takeID, -1 before Stop
    sampled : Seq(Traces), nonSampled : Seq(Traces) ]  \* caches, the latest first

Held == DOMAIN shard.traces
Pending == { id \in Held : shard.traces[id].decision = "none" }

\* An assignment to a place of idToTrace.
Assign(m, id, t) == [x \in DOMAIN m \cup {id} |-> IF x = id THEN t ELSE m[x]]

-----------------------------------------------------------------------------
(* Policies *)

\* Mutant: the configured order is kept.
LoadInOrder(isDrop) == [i \in 1 .. Len(isDrop) |-> i]

\* The places of the policies in the configuration, drop policies first.
loadSamplingPolicies(isDrop) ==
  LET drops == SelectSeq([i \in 1 .. Len(isDrop) |-> i], LAMBDA i : isDrop[i])
      others == SelectSeq([i \in 1 .. Len(isDrop) |-> i], LAMBDA i : ~isDrop[i])
  IN  drops \o others

\* What the policies may say of a trace: a drop policy that it is dropped or not
\* sampled, the others, extensions among them, anything.
OutcomesOf(drop) ==
  {"not", "error", "dropped"} \cup (IF drop THEN {} ELSE {"sampled", "invertSampled", "invertNot"})

Evaluations(isDrop) ==
  { o \in [1 .. Len(isDrop) -> OutcomesOf(FALSE)] :
      \A i \in DOMAIN o : o[i] \in OutcomesOf(isDrop[i]) }

\* The policies up to the first whose place ends the loop, all when none does.
UpTo(order, ends) == IF ends = {} THEN order ELSE SubSeq(order, 1, Least(ends))

makeDecision(isDrop, o, firstMatch) ==
  LET order == loadSamplingPolicies(isDrop)
      ends == { i \in DOMAIN order :
                  o[order[i]] = "dropped" \/ (firstMatch /\ o[order[i]] = "sampled") }
      said == { o[i] : i \in Range(UpTo(order, ends)) }
  IN  IF "dropped" \in said THEN "dropped"
      ELSE IF "invertNot" \in said THEN "not"
      ELSE IF "sampled" \in said THEN "sampled"
      ELSE IF "invertSampled" \in said /\ "not" \notin said THEN "sampled"
      ELSE "not"

\* Only a final answer counts, and a drop policy that did not match may still do
\* so with a later span.
makeDecisionOnSpanIngest(isDrop, o) ==
  LET order == loadSamplingPolicies(isDrop)
      Undecided(i) == \E j \in 1 .. i - 1 : isDrop[order[j]] /\ o[order[j]] \notin {"dropped", "error"}
      Breaks(i) == ~isDrop[order[i]] /\ Undecided(i)
      ends == { i \in DOMAIN order : \/ Breaks(i) \/ o[order[i]] = "dropped"
                                     \/ ~isDrop[order[i]] /\ o[order[i]] = "sampled" }
      done == UpTo(order, ends)
      last == Len(done)
  IN  IF last = 0 \/ Breaks(last) THEN "pending"
      ELSE IF o[done[last]] = "dropped" THEN "dropped"
      ELSE IF ~isDrop[done[last]] /\ o[done[last]] = "sampled" THEN "sampled"
      ELSE "pending"

\* What each policies may decide with each strategy, and what the current ones may.
PossibleDecisions ==
  [ v \in 1 .. Len(Policies) |-> [ ingest \in BOOLEAN |-> [ first \in BOOLEAN |->
      { IF ingest THEN makeDecisionOnSpanIngest(Policies[v], o)
        ELSE makeDecision(Policies[v], o, first) : o \in Evaluations(Policies[v]) } ] ] ]
Decisions == PossibleDecisions[applied.policies][cfg.ingest][cfg.firstMatch]

-----------------------------------------------------------------------------
(* The batcher *)

\* The batch with an ID at the distance r: the current one or one of the ring.
CurrentDue(s) == IF s.left = -1 THEN NumBatches ELSE s.left
SlotOf(s, r) == (s.take + r) % NumBatches
BatchOf(s, r) == IF r = CurrentDue(s) THEN s.current ELSE s.slots[SlotOf(s, r)]

RemoveFromBatch(s, id, r) ==
  IF r = CurrentDue(s) THEN [s EXCEPT !.current = @ \ {id}]
  ELSE IF r \in 0 .. CurrentDue(s) - 1 THEN [s EXCEPT !.slots[SlotOf(s, r)] = @ \ {id}]
  ELSE s

\* Mutant: the trace stays in its old batch too.
MoveAndKeep(s, id) ==
  LET moved == [s.traces[id] EXCEPT !.due = RootWait]
  IN  IF RootWait >= s.traces[id].due THEN s
      ELSE [s EXCEPT !.slots[SlotOf(s, RootWait)] = @ \cup {id}, !.traces = Assign(@, id, moved)]

\* A root span brings the decision forward, never back.
MoveToEarlierBatch(s, id) ==
  LET due == s.traces[id].due
      moved == [s.traces[id] EXCEPT !.due = RootWait]
  IN  IF RootWait >= due THEN s
      ELSE [RemoveFromBatch(s, id, due) EXCEPT !.slots[SlotOf(s, RootWait)] = @ \cup {id},
                                               !.traces = Assign(@, id, moved)]

\* The batch that a tick takes, what it leaves, and whether there are more.
HasMore(s) == s.left # 0
FirstBatch(s) == IF HasMore(s) THEN s.slots[s.take] ELSE s.current

\* Mutant: the current batch does not take the place of the one that was read.
TakeOnly(s) ==
  LET passed == [ id \in DOMAIN s.traces |->
                    [s.traces[id] EXCEPT !.due = IF @ = -1 THEN -1 ELSE @ - 1] ]
  IN  IF ~HasMore(s) THEN [s EXCEPT !.current = {}]
      ELSE [s EXCEPT !.slots[s.take] = IF s.left = -1 THEN {} ELSE @, !.traces = passed,
                     !.take = (@ + 1) % NumBatches, !.left = IF @ = -1 THEN -1 ELSE @ - 1]

CloseCurrentAndTakeFirstBatch(s) ==
  LET passed == [ id \in DOMAIN s.traces |->
                    [s.traces[id] EXCEPT !.due = IF @ = -1 THEN -1 ELSE @ - 1] ]
  IN  IF ~HasMore(s) THEN [s EXCEPT !.current = {}]
      ELSE [s EXCEPT !.slots[s.take] = IF s.left = -1 THEN s.current ELSE @,
                     !.current = IF s.left = -1 THEN {} ELSE @, !.traces = passed,
                     !.take = (@ + 1) % NumBatches, !.left = IF @ = -1 THEN -1 ELSE @ - 1]

Stop(s) == [s EXCEPT !.left = NumBatches]

-----------------------------------------------------------------------------
(* Caches, storage and the traces held *)

\* Which calls of the storage return an error: those of Pebble may, those of the
\* storage in memory never do.
Failing(calls) == IF cfg.fallible THEN SUBSET calls ELSE {{}}

\* The spans that Take finds.  Pebble logs what it cannot read and leaves it out.
readByTracePrefix(s, id) == IF cfg.fallible THEN SUBSET s.storage[id] ELSE {s.storage[id]}

\* Take deletes all the spans of the trace, unless it found none.
Take(s, id, found) == IF found = {} THEN s ELSE [s EXCEPT !.storage[id] = {}]

\* Mutant: nothing makes room for the new ID.
PutMore(cache, size, id) == IF size = 0 THEN cache ELSE <<id>> \o RemoveFirst(cache, id)

\* A cache of size 0 keeps nothing; Put and Get make an ID the latest one.
Put(cache, size, id) ==
  LET c == <<id>> \o RemoveFirst(cache, id)
  IN  IF size = 0 THEN cache ELSE IF Len(c) > size THEN Front(c) ELSE c

\* The element that a trace was put on the queue with is the last of its ID.
RemoveElement(q, id) == IF Places(q, id) = {} THEN q ELSE RemoveAt(q, Greatest(Places(q, id)))

\* Mutant: the trace's element stays in deleteTraceQueue.
DropFromMap(s, id, fails) ==
  IF id \notin DOMAIN s.traces THEN s
  ELSE LET t == [s EXCEPT !.traces = [x \in DOMAIN s.traces \ {id} |-> s.traces[x]]]
       IN  IF "delete" \in fails THEN t ELSE [t EXCEPT !.storage[id] = {}]

dropTrace(s, id, fails) ==
  IF id \notin DOMAIN s.traces THEN s
  ELSE LET t == [s EXCEPT !.traces = [x \in DOMAIN s.traces \ {id} |-> s.traces[x]]]
       IN  IF "delete" \in fails THEN t
           ELSE [t EXCEPT !.storage[id] = {}, !.queue = RemoveElement(@, id)]

Decided(s, id, d) ==
  IF id \notin DOMAIN s.traces THEN s
  ELSE [s EXCEPT !.traces = Assign(@, id, [s.traces[id] EXCEPT !.decision = d])]

\* A cached trace need not be held.
releaseSampledTrace(s, id, fails) ==
  LET t == [s EXCEPT !.sampled = Put(@, cfg.sampled, id)]
  IN  IF id \in Range(t.sampled) THEN dropTrace(t, id, fails) ELSE t

\* Mutant: the trace is cached and stays.
RememberOnly(s, id, fails) == [s EXCEPT !.nonSampled = Put(@, cfg.nonSampled, id)]

releaseNotSampledTrace(s, id, fails) ==
  LET t == [s EXCEPT !.nonSampled = Put(@, cfg.nonSampled, id)]
  IN  IF id \in Range(t.nonSampled) THEN dropTrace(t, id, fails) ELSE t

Release(s, id, d, fails) ==
  IF d = "sampled" THEN releaseSampledTrace(Decided(s, id, d), id, fails)
                   ELSE releaseNotSampledTrace(Decided(s, id, d), id, fails)

\* The shard's next state.  Spans that left the storage are gone unless they were
\* forwarded, and so are those that came with the step and were not stored.
Become(s, came, forwarded) ==
  /\ shard' = s
  /\ fate' = [ b \in Spans |->
       IF b \in forwarded THEN "forwarded"
       ELSE IF b \in shard'.storage[TraceOf[b]] THEN "stored"
       ELSE IF b \in came \cup shard.storage[TraceOf[b]] THEN "gone" ELSE fate[b] ]

-----------------------------------------------------------------------------
(* The loop *)

\* Mutant: the caches are not looked at.
NeverCached(s, id) == FALSE

Cached(s, id) == id \in Range(s.sampled) \cup Range(s.nonSampled)

\* Mutant: one more.
FullLate(s, id) == id \notin DOMAIN s.traces /\ Cardinality(DOMAIN s.traces) > NumTraces

Full(s, id) == id \notin DOMAIN s.traces /\ Cardinality(DOMAIN s.traces) >= NumTraces

\* waitForSpace with block_on_overflow, nested turns of the loop without work.
Blocked == pc = "wait" /\ Cardinality(Held) >= NumTraces

\* Mutant: a loop that waits for space waits for nothing else.
SelectIdle == deciding = {} /\ pc = "run" /\ work = <<>>

\* The loop is in its select statement.
Selecting == deciding = {} /\ ((pc = "run" /\ work = <<>>) \/ Blocked)

\* waitForSpace without it: the oldest element goes, and its trace if it is held.
waitForSpace(s, fails) ==
  IF s.queue = <<>> THEN s
  ELSE LET id == Head(s.queue)
           t == dropTrace(s, id, fails)
       IN  IF id \in DOMAIN s.traces /\ "delete" \notin fails THEN t
           ELSE [t EXCEPT !.queue = Tail(@)]

\* The trace of b with b counted, in its batch.
Received(s, b) ==
  LET id == TraceOf[b]
      new == [decision |-> "none", due |-> NumBatches, size |-> 0]
      t == IF id \in DOMAIN s.traces THEN s
           ELSE [s EXCEPT !.traces = Assign(@, id, new), !.current = @ \cup {id},
                          !.queue = IF cfg.block THEN @ ELSE Append(@, id)]
      u == IF b \in Roots /\ RootWait # -1 THEN MoveToEarlierBatch(t, id) ELSE t
  IN  [u EXCEPT !.traces = Assign(@, id, [u.traces[id] EXCEPT !.size = @ + 1])]

TooLarge(t) == Limits[applied.size] > 0 /\ t.size > Limits[applied.size]

DropTooLarge(s, b, fails) ==
  LET id == TraceOf[b]
  IN  Release(RemoveFromBatch(s, id, s.traces[id].due), id, "not", fails)

Store(s, b) ==
  \E fails \in Failing({"append"}) :
    Become(IF fails # {} THEN s ELSE [s EXCEPT !.storage[TraceOf[b]] = @ \cup {b}], {b}, {})

\* A final decision with the spans found in the storage and those in hand.  Take
\* may fail to delete what it found.
Conclude(s, id, found, d, inHand) ==
  \E fails \in Failing({"take", "delete"}) :
    IF "take" \in fails /\ found # {} THEN Become(dropTrace(s, id, fails), inHand, {})
    ELSE Become(Release(Take(s, id, found), id, d, fails), inHand,
                IF d = "sampled" THEN found \cup inHand ELSE {})

processTrace(s, b) ==
  LET id == TraceOf[b]
      known == s.traces[id].decision
      open == known = "none" /\ ~TooLarge(s.traces[id])
  IN  \/ /\ known = "none" /\ TooLarge(s.traces[id])
         /\ \E fails \in Failing({"delete"}) : Become(DropTooLarge(s, b, fails), {b}, {})
      \/ /\ open /\ cfg.ingest
         /\ \E d \in Decisions :
              IF d = "pending" THEN Store(s, b)
              ELSE \E found \in readByTracePrefix(s, id) : Conclude(s, id, found, d, {b})
      \/ open /\ ~cfg.ingest /\ Store(s, b)
      \/ known = "sampled" /\ Become(s, {b}, {b})
      \/ /\ known = "not"
         /\ \E fails \in Failing({"delete"}) : Become(releaseNotSampledTrace(s, id, fails), {b}, {})
      \/ known = "dropped" /\ Become(s, {b}, {})

processCachedTrace(b) ==
  LET id == TraceOf[b]
  IN  IF id \in Range(shard.sampled)
      THEN Become([shard EXCEPT !.sampled = Put(@, cfg.sampled, id)], {b}, {b})
      ELSE /\ id \in Range(shard.nonSampled)
           /\ Become([shard EXCEPT !.nonSampled = Put(@, cfg.nonSampled, id)], {b}, {})

Init ==
  /\ cfg \in Configs
  /\ shard = [ traces |-> <<>>, storage |-> [id \in Traces |-> {}], queue |-> <<>>,
               slots |-> [i \in 0 .. NumBatches - 1 |-> {}], take |-> 0, current |-> {},
               left |-> -1, sampled |-> <<>>, nonSampled |-> <<>> ]
  /\ deciding = {} /\ work = <<>> /\ workChan = <<>>
  /\ issued = [policies |-> 1, size |-> 1] /\ applied = issued /\ since = issued
  /\ pc = "run" /\ closed = FALSE /\ sent = {} /\ fate = [b \in Spans |-> "none"]

\* ConsumeTraces sends a payload when there is room in the channel.
ConsumeTraces(p) ==
  /\ ~closed /\ Len(workChan) < WorkCap /\ Range(p) \cap sent = {}
  /\ workChan' = Append(workChan, [spans |-> p, since |-> issued])
  /\ sent' = sent \cup Range(p)
  /\ UNCHANGED <<cfg, shard, deciding, work, since, issued, applied, pc, closed, fate>>

\* SetSamplingPolicy and SetMaximumTraceSizeBytes: a channel of capacity one.
SetUpdate(k) ==
  /\ issued[k] = applied[k]
  /\ issued[k] < Len(IF k = "policies" THEN Policies ELSE Limits)
  /\ (issued.policies - 1) + (issued.size - 1) < MaxUpdates
  /\ issued' = [issued EXCEPT ![k] = @ + 1]
  /\ UNCHANGED <<cfg, shard, deciding, work, since, workChan, applied, pc, closed, sent, fate>>

\* All receivers are shut down before: nothing is sent from here on.
Shutdown ==
  /\ ~closed /\ closed' = TRUE
  /\ UNCHANGED <<cfg, shard, deciding, work, since, workChan, issued, applied, pc, sent, fate>>

\* Mutant: an update waits for its own turn of the select statement.
TakeWorkOnly ==
  /\ Selecting /\ work = <<>> /\ workChan # <<>>
  /\ work' = Head(workChan).spans /\ since' = Head(workChan).since
  /\ workChan' = Tail(workChan)
  /\ UNCHANGED <<cfg, shard, deciding, issued, applied, pc, closed, sent, fate>>

\* A payload is taken, after the updates that are in their channels.
TakeWork ==
  /\ Selecting /\ work = <<>> /\ workChan # <<>>
  /\ work' = Head(workChan).spans /\ since' = Head(workChan).since
  /\ workChan' = Tail(workChan) /\ applied' = issued
  /\ UNCHANGED <<cfg, shard, deciding, issued, pc, closed, sent, fate>>

ApplyUpdate(k) ==
  /\ Selecting /\ applied[k] < issued[k]
  /\ applied' = [applied EXCEPT ![k] = issued[k]]
  /\ UNCHANGED <<cfg, shard, deciding, work, since, workChan, issued, pc, closed, sent, fate>>

\* The next spans of the payload in hand are of a new trace: block_on_overflow ...
WaitForSpace ==
  /\ pc = "run" /\ deciding = {} /\ work # <<>> /\ cfg.block
  /\ LET id == TraceOf[Head(work)] IN ~Cached(shard, id) /\ Full(shard, id)
  /\ pc' = "wait"
  /\ UNCHANGED <<cfg, shard, deciding, work, since, workChan, issued, applied, closed, sent, fate>>

\* ... or not.  After the wait the caches are not looked at again.
ProcessNext ==
  /\ pc \in {"run", "wait"} /\ deciding = {} /\ work # <<>>
  /\ LET b == Head(work)
         id == TraceOf[b]
     IN  \/ pc = "run" /\ Cached(shard, id) /\ processCachedTrace(b)
         \/ /\ pc = "run" /\ ~Cached(shard, id) /\ (cfg.block => ~Full(shard, id))
            /\ \E s \in IF ~Full(shard, id) THEN {shard}
                      ELSE { waitForSpace(shard, fails) : fails \in Failing({"delete"}) } :
                 \E t \in {Received(s, b)} : processTrace(t, b)
         \/ pc = "wait" /\ ~Blocked /\ \E t \in {Received(shard, b)} : processTrace(t, b)
  /\ work' = Tail(work) /\ pc' = "run"
  /\ UNCHANGED <<cfg, deciding, since, workChan, issued, applied, closed, sent>>

\* Mutant: the ticker is looked at only when there is work.
TickWithWork ==
  /\ (Selecting /\ workChan # <<>>) \/ (pc = "drain" /\ deciding = {})
  /\ deciding' = FirstBatch(shard) /\ shard' = CloseCurrentAndTakeFirstBatch(shard)
  /\ pc' = IF HasMore(shard) THEN pc ELSE "last"
  /\ UNCHANGED <<cfg, work, since, workChan, issued, applied, closed, sent, fate>>

\* samplingPolicyOnTick takes a batch: on a tick, or one after the other after Stop.
Tick ==
  /\ Selecting \/ (pc = "drain" /\ deciding = {})
  /\ deciding' = FirstBatch(shard) /\ shard' = CloseCurrentAndTakeFirstBatch(shard)
  /\ pc' = IF HasMore(shard) THEN pc ELSE "last"
  /\ UNCHANGED <<cfg, work, since, workChan, issued, applied, closed, sent, fate>>

\* ... and goes through it in the order of a Go map.
Decide(id) ==
  /\ id \in deciding /\ deciding' = deciding \ {id}
  /\ \/ id \notin Pending /\ UNCHANGED <<shard, fate>>
     \/ /\ id \in Pending /\ cfg.ingest
        /\ \E fails \in Failing({"delete"}) :
             Become(dropTrace(Release(shard, id, "not", fails), id, fails), {}, {})
     \/ /\ id \in Pending /\ ~cfg.ingest
        /\ \E found \in readByTracePrefix(shard, id) :
             IF found = {} THEN UNCHANGED <<shard, fate>>
             ELSE \E d \in Decisions : Conclude(shard, id, found, d, {})
  /\ UNCHANGED <<cfg, work, since, workChan, issued, applied, pc, closed, sent>>

\* Mutant: the loop ends without a decision on what is left.
CloseAndLeave ==
  /\ Selecting /\ work = <<>> /\ workChan = <<>> /\ closed
  /\ shard' = Stop(shard) /\ pc' = "done"
  /\ UNCHANGED <<cfg, deciding, work, since, workChan, issued, applied, closed, sent, fate>>

\* workChan is closed and empty.
CloseWork ==
  /\ Selecting /\ work = <<>> /\ workChan = <<>> /\ closed
  /\ shard' = Stop(shard) /\ pc' = IF cfg.dropPending THEN "done" ELSE "drain"
  /\ UNCHANGED <<cfg, deciding, work, since, workChan, issued, applied, closed, sent, fate>>

\* Mutant: the loop waits for the traces held to go.
FinishEmpty ==
  /\ pc = "last" /\ deciding = {} /\ Held = {} /\ pc' = "done"
  /\ UNCHANGED <<cfg, shard, deciding, work, since, workChan, issued, applied, closed, sent, fate>>

Finish ==
  /\ pc = "last" /\ deciding = {} /\ pc' = "done"
  /\ UNCHANGED <<cfg, shard, deciding, work, since, workChan, issued, applied, closed, sent, fate>>

Loop ==
  \/ TakeWork \/ WaitForSpace \/ ProcessNext \/ CloseWork \/ Finish
  \/ \E id \in Traces : Decide(id)

Next ==
  \/ \E p \in Payloads : ConsumeTraces(p)
  \/ \E k \in Updates : SetUpdate(k) \/ ApplyUpdate(k)
  \/ Shutdown \/ Tick \/ Loop

\* The loop runs and its ticker ticks; what is sent and when is up to others.
Spec == Init /\ [][Next]_vars /\ WF_vars(Loop) /\ WF_vars(Tick)

-----------------------------------------------------------------------------
(* Properties *)

\* Every variable has its type, and the caches keep to their sizes.
TypeOK ==
  /\ cfg \in Configs /\ deciding \subseteq Traces
  /\ Held \subseteq Traces /\ shard \in ShardType(Held)
  /\ work \in Seq(Spans) /\ since \in Versions /\ issued \in Versions /\ applied \in Versions
  /\ workChan \in Seq([spans : Payloads, since : Versions])
  /\ Len(workChan) <= WorkCap /\ pc \in {"run", "wait", "drain", "last", "done"}
  /\ closed \in BOOLEAN /\ sent \subseteq Spans
  /\ fate \in [Spans -> {"none", "stored", "forwarded", "gone"}]
  /\ Len(shard.sampled) <= cfg.sampled /\ Len(shard.nonSampled) <= cfg.nonSampled

\* idToTrace never outgrows num_traces, whether waitForSpace evicts or waits.  A
\* storage that fails to delete leaves elements of traces that are no longer held
\* in deleteTraceQueue, and evicting those makes no room.
MemoryBounded == (cfg.fallible /\ ~cfg.block) \/ Cardinality(Held) <= NumTraces

\* deleteTraceQueue has an element for each trace held, in evict mode, and the
\* storage has spans of no other trace, so that nothing is kept for ever: what
\* waitForSpace calls impossible is so.  A pending trace has spans to decide on.
HeldEverywhere ==
  ~cfg.fallible =>
    /\ Len(shard.queue) = (IF cfg.block THEN 0 ELSE Cardinality(Held))
    /\ cfg.block \/ Range(shard.queue) = Held
    /\ \A id \in Traces : shard.storage[id] # {} => id \in Held
    /\ \A id \in Pending : shard.storage[id] # {}

\* A storage that finds no spans of a trace when its batch comes leaves it undecided.
FindsSpans == cfg.fallible => cfg.ingest

\* A trace without a decision is in the batch that its batch ID names, or in the
\* one being worked on, through ticks, moves to an earlier batch and Stop.  Only
\* a trace whose batch has come, and of which the storage found no spans then, is
\* left without (samplingPolicyOnTick goes on with the next one).
PendingIsBatched ==
  \A id \in Pending :
    \/ id \in deciding \/ pc = "done"
    \/ /\ shard.traces[id].due \in 0 .. CurrentDue(shard)
       /\ id \in BatchOf(shard, shard.traces[id].due)
    \/ ~FindsSpans /\ (shard.traces[id].due = -1 \/ pc = "last")

\* A batch never holds a trace that is held and due at another time, unless the
\* trace left and came back: with both caches and no eviction, decisions come at
\* the time they are due.
BatchedOnce ==
  cfg.block /\ ~cfg.ingest /\ ~cfg.fallible /\ cfg.sampled > 0 /\ cfg.nonSampled > 0 =>
    \A id \in Pending : \A r \in 0 .. CurrentDue(shard) :
      id \in BatchOf(shard, r) /\ pc # "last" => r = shard.traces[id].due

\* The caches never disagree, a cached trace is not held, and a trace is held after
\* its decision only when there is no cache to remember it.
DecisionRemembered ==
  /\ Range(shard.sampled) \cap Range(shard.nonSampled) = {}
  /\ \A id \in Held : ~Cached(shard, id)
  /\ \A id \in Held \ Pending :
       (IF shard.traces[id].decision = "sampled" THEN cfg.sampled ELSE cfg.nonSampled) = 0

Known(s, id) ==
  IF id \in Range(s.sampled) THEN "sampled"
  ELSE IF id \in Range(s.nonSampled) THEN "not"
  ELSE IF id \in DOMAIN s.traces THEN s.traces[id].decision ELSE "none"

\* Spans of a trace that is known to be sampled are never lost and those of one
\* that is known not to be are never forwarded, whatever is decided, evicted and
\* updated in between; and what became of spans is final.  Spans that a storage
\* did not find at the decision may go later.
FollowStep ==
  \A b \in Spans :
    /\ fate[b] \in {"forwarded", "gone"} => fate'[b] = fate[b]
    /\ Known(shard, TraceOf[b]) = "sampled" =>
         fate'[b] \in {fate[b], "forwarded"} \/ (cfg.fallible /\ fate[b] = "stored")
    /\ Known(shard, TraceOf[b]) \in {"not", "dropped"} => fate'[b] \in {fate[b], "gone"}
FollowsDecision == [][FollowStep]_vars

\* Updates that were made before a payload was sent are applied before any of its
\* spans is processed, as the comment in iter says.
UpdatedBeforeWork == work # <<>> => \A k \in Updates : since[k] <= applied[k]

\* A policy that says "dropped" wins, with each strategy, wherever it stands in the
\* configuration and whatever the others say, when it is a drop policy; any other
\* is not asked any more when one before it has said "sampled" and the first match
\* counts or decisions are made on ingest, where a drop policy that may still
\* match ends the loop too (loadSamplingPolicies, makeDecision,
\* makeDecisionOnSpanIngest).
DropWins ==
  sent = {} /\ ~closed =>
    LET isDrop == Policies[issued.policies]
    IN  \A o \in Evaluations(isDrop), i \in 1 .. Len(isDrop) : o[i] = "dropped" =>
          LET late == ~isDrop[i] /\ \E j \in 1 .. i - 1 : ~isDrop[j] /\ o[j] = "sampled"
              open == ~isDrop[i] /\ \E j \in DOMAIN o : isDrop[j] /\ o[j] = "not"
          IN  /\ makeDecision(isDrop, o, cfg.firstMatch) = "dropped" \/ (cfg.firstMatch /\ late)
              /\ makeDecisionOnSpanIngest(isDrop, o) = "dropped" \/ late \/ open

\* Shutdown leaves no trace undecided and nothing in the channel, unless pending
\* traces are to be dropped or the storage did not find their spans.
ShutdownDecides ==
  pc = "done" => /\ workChan = <<>> /\ work = <<>>
                 /\ cfg.dropPending \/ ~FindsSpans \/ Pending = {}
                 /\ \A b \in sent : fate[b] # "none"

\* What may be waited for: evicting never waits, and a loop that waits for space
\* gets some when decided traces need not be held and none stays undecided.
GetsSpace == cfg.block => cfg.sampled > 0 /\ cfg.nonSampled > 0 /\ FindsSpans

\* Every pending trace is decided or evicted in the end, unless its spans were not
\* found: what is sent is finite, so there is a time with no trace pending after
\* any time.
PendingEnds == []<>(Pending = {} \/ pc = "done" \/ ~FindsSpans)

\* A loop that waits for space gets on, and every span that was sent is met.
EverySpanMet == []<>(GetsSpace => \A b \in sent : fate[b] # "none")

\* Shutdown ends, whatever is in the channel, in the batches or waiting for space.
ShutdownEnds == closed /\ GetsSpace ~> pc = "done"
=============================================================================
