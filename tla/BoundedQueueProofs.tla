-------------------------- MODULE BoundedQueueProofs --------------------------
(***************************************************************************)
(* Proofs about BoundedQueue, for any number of requests and any limits.   *)
(*                                                                         *)
(* The four invariants of the module need each other: the counters stay in *)
(* their range because they are exact, they are exact because a waiter is  *)
(* in the list once, and no sum wraps because no waiter asks for more than *)
(* the admission limit (SizeInv).                                          *)
(***************************************************************************)
EXTENDS BoundedQueue, SeqFacts, FiniteSetTheorems, TLAPS

\* A call that passed the first test of acquireOrGetWaiter asks for no more
\* than the limit, and one that has not started has not been notified.
SizeInv ==
  \A r \in Requests :
    /\ phase[r] \in {"waiting", "canceling", "admitted"} => pending[r] <= MaxLimitAdmit
    /\ phase[r] = "new" => r \notin notified

IInv == TypeOK /\ CountersExact /\ NoRoomWasted /\ WaitersListed /\ SizeInv

-----------------------------------------------------------------------------
(* The counters *)

\* A sum below Word and a difference that is not negative do not wrap.
LEMMA NoWrap ==
  ASSUME NEW a \in Nat, NEW b \in Nat
  PROVE  /\ a + b < Word => Plus(a, b) = a + b
         /\ b <= a /\ a < Word => Minus(a, b) = a - b
BY LimitsAssumption DEF Plus, Minus

\* The bytes of finitely many requests are finitely many.
LEMMA BytesFinite ==
  ASSUME NEW p, NEW R, R \subseteq Requests
  PROVE  IsFiniteSet(Bytes(p, R)) /\ Cardinality(Bytes(p, R)) \in Nat
<1>1. IsFiniteSet(R) /\ IsFiniteSet(1 .. MaxSize)
  BY RequestsAssumption, LimitsAssumption, FS_Subset, FS_Interval
<1>2. IsFiniteSet(R \X (1 .. MaxSize))
  BY <1>1, FS_Product, Zenon
<1>3. Bytes(p, R) \in SUBSET (R \X (1 .. MaxSize))
  BY Zenon DEF Bytes
<1>. QED BY <1>2, <1>3, FS_Subset, FS_CardinalityType, Zenon

\* One more request adds the bytes it asks for.
LEMMA BytesAdd ==
  ASSUME NEW p \in [Requests -> 0 .. MaxSize], NEW R, R \subseteq Requests,
         NEW r \in Requests, r \notin R
  PROVE  Cardinality(Bytes(p, R \cup {r})) = Cardinality(Bytes(p, R)) + p[r]
<1>. DEFINE own == {r} \X (1 .. p[r])
<1>1. p[r] \in 0 .. MaxSize /\ p[r] \in Nat
  BY LimitsAssumption
<1>2. IsFiniteSet(1 .. p[r]) /\ Cardinality(1 .. p[r]) = p[r]
  BY <1>1, FS_Interval
<1>3. IsFiniteSet({r}) /\ Cardinality({r}) = 1
  BY FS_Singleton, Zenon
<1>4. IsFiniteSet(own) /\ Cardinality(own) = p[r]
  <2>1. IsFiniteSet(own) /\ Cardinality(own) = Cardinality({r}) * Cardinality(1 .. p[r])
    BY <1>2, <1>3, FS_Product, Zenon
  <2>. QED BY <2>1, <1>1, <1>2, <1>3
<1>5. Bytes(p, R \cup {r}) = Bytes(p, R) \cup own
  BY <1>1, LimitsAssumption DEF Bytes
<1>6. Bytes(p, R) \cap own = {}
  BY Zenon DEF Bytes
<1>7. Cardinality(Bytes(p, R) \cup own)
        = Cardinality(Bytes(p, R)) + Cardinality(own) - Cardinality({})
  BY <1>4, <1>6, BytesFinite, FS_Union
<1>8. Cardinality(Bytes(p, R)) \in Nat /\ Cardinality({}) = 0
  BY BytesFinite, FS_EmptySet, Zenon
<1>9. Cardinality(Bytes(p, R)) + p[r] - 0 = Cardinality(Bytes(p, R)) + p[r]
  BY <1>1, <1>8
<1>. HIDE DEF own
<1>. QED BY <1>4, <1>5, <1>7, <1>8, <1>9, Zenon

\* One request less takes its bytes away.
LEMMA BytesRemove ==
  ASSUME NEW p \in [Requests -> 0 .. MaxSize], NEW R, R \subseteq Requests, NEW r \in R
  PROVE  /\ Cardinality(Bytes(p, R \ {r})) = Cardinality(Bytes(p, R)) - p[r]
         /\ p[r] <= Cardinality(Bytes(p, R))
<1>. DEFINE Q == R \ {r}
<1>1. Q \cup {r} = R /\ Q \subseteq Requests /\ r \in Requests /\ r \notin Q
  BY Zenon
<1>2. Cardinality(Bytes(p, Q \cup {r})) = Cardinality(Bytes(p, Q)) + p[r]
  BY <1>1, BytesAdd, Zenon
<1>3. Cardinality(Bytes(p, Q)) \in Nat /\ p[r] \in Nat
  BY <1>1, BytesFinite, LimitsAssumption
<1>. QED BY <1>1, <1>2, <1>3

-----------------------------------------------------------------------------
(* The steps *)

\* What the invariant says of the list and of the holders.
LEMMA ListFacts ==
  ASSUME IInv
  PROVE  /\ Range(waiters) \subseteq Requests /\ Holders \subseteq Requests
         /\ \A x : Once(waiters, x)
         /\ waiters # <<>> => Last(waiters) \in Range(waiters)
         /\ \A r \in Range(waiters) :
              /\ r \in Requests /\ r \notin Holders /\ r \notin notified
              /\ phase[r] \in {"waiting", "canceling"}
              /\ pending[r] \in Nat /\ pending[r] <= MaxLimitAdmit
         /\ \A r \in Holders :
              r \notin Range(waiters) /\ pending[r] \in Nat /\ pending[r] <= MaxLimitAdmit
         /\ currentAdmitted \in Nat /\ currentAdmitted <= MaxLimitAdmit
         /\ currentWaiting \in Nat /\ currentWaiting <= MaxLimitWait
<1>1. waiters \in Seq(Requests) /\ pending \in [Requests -> 0 .. MaxSize]
  BY Zenon DEF IInv, TypeOK
<1>2. Range(waiters) \subseteq Requests /\ Holders \subseteq Requests
  BY <1>1, RangeType, Zenon DEF Holders
<1>3. \A x : Once(waiters, x)
  <2>1. \A x \in Requests : Once(waiters, x)
    BY Zenon DEF IInv, WaitersListed, Once
  <2>2. \A i \in DOMAIN waiters : waiters[i] \in Requests
    BY <1>2, Zenon DEF Range
  <2>. QED BY <2>1, <2>2, Zenon DEF Once
<1>4. waiters # <<>> => Last(waiters) \in Range(waiters)
  BY <1>1, <1>3, FrontFacts, Zenon
<1>5. \A r \in Requests : pending[r] \in Nat
  BY <1>1, LimitsAssumption
<1>6. \A r \in Range(waiters) :
        /\ r \in Requests /\ r \notin notified /\ phase[r] \in {"waiting", "canceling"}
        /\ pending[r] \in Nat /\ pending[r] <= MaxLimitAdmit
  BY <1>2, <1>5, Zenon DEF IInv, WaitersListed, SizeInv
<1>7. \A r \in Range(waiters) : r \notin Holders
  BY <1>6, Zenon DEF Holders
<1>8. \A r \in Holders : pending[r] \in Nat /\ pending[r] <= MaxLimitAdmit
  BY <1>2, <1>5, Zenon DEF IInv, SizeInv, Holders
<1>9. /\ currentAdmitted \in Nat /\ currentAdmitted <= MaxLimitAdmit
      /\ currentWaiting \in Nat /\ currentWaiting <= MaxLimitWait
  BY LimitsAssumption DEF IInv, TypeOK
<1>. QED BY <1>2, <1>3, <1>4, <1>6, <1>7, <1>8, <1>9, Zenon

\* A call that has not started is nowhere, and what it asks for changes no count.
LEMMA NewFacts ==
  ASSUME IInv, NEW r \in Requests, phase[r] = "new", NEW n \in 0 .. MaxSize,
         pending' = [pending EXCEPT ![r] = n]
  PROVE  /\ n \in Nat /\ pending' \in [Requests -> 0 .. MaxSize] /\ pending'[r] = n
         /\ r \notin Holders /\ r \notin Range(waiters) /\ r \notin notified
         /\ Bytes(pending', Holders) = Bytes(pending, Holders)
         /\ Bytes(pending', Range(waiters)) = Bytes(pending, Range(waiters))
         /\ \A q \in Requests : q # r => pending'[q] = pending[q]
<1>1. pending \in [Requests -> 0 .. MaxSize]
  BY Zenon DEF IInv, TypeOK
<1>2. /\ n \in Nat /\ pending' \in [Requests -> 0 .. MaxSize] /\ pending'[r] = n
      /\ \A q \in Requests : q # r => pending'[q] = pending[q]
  BY <1>1, LimitsAssumption
<1>3. r \notin Range(waiters) /\ r \notin Holders /\ r \notin notified
  BY Zenon DEF IInv, WaitersListed, Holders, SizeInv
<1>4. \A q \in Holders : pending'[q] = pending[q]
  BY <1>2, <1>3, Zenon DEF Holders
<1>5. \A q \in Range(waiters) : pending'[q] = pending[q]
  BY <1>2, <1>3, ListFacts, Zenon
<1>6. Bytes(pending', Holders) = Bytes(pending, Holders)
  BY <1>4, Zenon DEF Bytes
<1>7. Bytes(pending', Range(waiters)) = Bytes(pending, Range(waiters))
  BY <1>5, Zenon DEF Bytes
<1>. QED BY <1>2, <1>3, <1>6, <1>7, Zenon

\* A rejected call leaves everything as it is.
LEMMA RejectStep ==
  ASSUME IInv, NEW r \in Requests, NEW n \in 0 .. MaxSize, Reject(r, n)
  PROVE  IInv'
<1>1. /\ phase' = [phase EXCEPT ![r] = "rejected"] /\ phase[r] = "new"
      /\ pending' = pending
      /\ currentAdmitted' = currentAdmitted /\ currentWaiting' = currentWaiting
      /\ waiters' = waiters /\ notified' = notified /\ canceled' = canceled
      /\ admitting' = admitting
  BY Zenon DEF Reject, Goto, counters
<1>2. r \notin Holders /\ r \notin Range(waiters) /\ r \notin notified
  BY <1>1, Zenon DEF IInv, WaitersListed, Holders, SizeInv
<1>3. TypeOK'
  BY <1>1, <1>2, Zenon DEF IInv, TypeOK, Phases
<1>4. phase \in [Requests -> Phases] /\ \A q \in Requests : q # r => phase'[q] = phase[q]
  BY <1>1, Zenon DEF IInv, TypeOK
<1>5. phase'[r] = "rejected"
  BY <1>1, <1>4, Zenon
<1>6. Holders' = Holders
  BY <1>1, <1>2, <1>4, <1>5, Zenon DEF Holders
<1>7. CountersExact'
  BY <1>1, <1>2, <1>6, Zenon DEF IInv, CountersExact
<1>8. NoRoomWasted'
  BY <1>1, <1>2, ListFacts, Zenon DEF IInv, NoRoomWasted
<1>9. WaitersListed'
  BY <1>1, <1>2, <1>4, <1>5, Zenon DEF IInv, WaitersListed
<1>10. SizeInv'
  BY <1>1, <1>2, <1>4, <1>5, Zenon DEF IInv, SizeInv
<1>. QED BY <1>3, <1>7, <1>8, <1>9, <1>10, Zenon DEF IInv

\* Admission on the fast path.
LEMMA AdmitFastStep ==
  ASSUME IInv, NEW r \in Requests, NEW n \in 0 .. MaxSize, AdmitFast(r, n)
  PROVE  IInv'
<1>1. /\ phase' = [phase EXCEPT ![r] = "admitted"] /\ phase[r] = "new"
      /\ pending' = [pending EXCEPT ![r] = n] /\ n <= MaxLimitAdmit /\ Fits(n)
      /\ currentAdmitted' = Plus(currentAdmitted, n) /\ currentWaiting' = currentWaiting
      /\ waiters' = waiters /\ notified' = notified /\ canceled' = canceled
      /\ admitting' = admitting
  BY Zenon DEF AdmitFast, Goto
<1>2. /\ n \in Nat /\ pending' \in [Requests -> 0 .. MaxSize] /\ pending'[r] = n
      /\ r \notin Holders /\ r \notin Range(waiters) /\ r \notin notified
      /\ Bytes(pending', Holders) = Bytes(pending, Holders)
      /\ Bytes(pending', Range(waiters)) = Bytes(pending, Range(waiters))
      /\ \A q \in Requests : q # r => pending'[q] = pending[q]
  BY <1>1, NewFacts, Zenon
<1>3. currentAdmitted \in Nat /\ currentAdmitted <= MaxLimitAdmit /\ Holders \subseteq Requests
  BY ListFacts, Zenon
<1>4. currentAdmitted' = currentAdmitted + n
  <2>1. currentAdmitted + n < Word
    BY <1>1, <1>2, <1>3, LimitsAssumption, WordAssumption
  <2>. QED BY <2>1, <1>1, <1>2, <1>3, NoWrap
<1>5. currentAdmitted' \in 0 .. MaxLimitAdmit /\ currentAdmitted' >= currentAdmitted
  BY <1>1, <1>2, <1>3, <1>4, LimitsAssumption, SMTT(30) DEF Fits
<1>6. TypeOK'
  BY <1>1, <1>2, <1>5, Zenon DEF IInv, TypeOK, Phases
<1>7. phase \in [Requests -> Phases] /\ \A q \in Requests : q # r => phase'[q] = phase[q]
  BY <1>1, Zenon DEF IInv, TypeOK
<1>8. phase'[r] = "admitted"
  BY <1>1, <1>7, Zenon
<1>9. Holders' = Holders \cup {r}
  BY <1>1, <1>2, <1>7, <1>8, Zenon DEF Holders
<1>10. CountersExact'
  <2>1. Cardinality(Bytes(pending', Holders \cup {r})) = Cardinality(Bytes(pending', Holders)) + n
    BY <1>2, <1>3, BytesAdd, Zenon
  <2>2. currentAdmitted' = Cardinality(Bytes(pending', Holders \cup {r}))
    BY <2>1, <1>2, <1>4, Zenon DEF IInv, CountersExact
  <2>. QED BY <2>2, <1>1, <1>2, <1>9, Zenon DEF IInv, CountersExact
<1>11. NoRoomWasted'
  <2>. SUFFICES ASSUME ~admitting, waiters # <<>>
                PROVE  currentAdmitted' + pending'[Last(waiters)] > MaxLimitAdmit
    BY <1>1, Zenon DEF NoRoomWasted
  <2>1. /\ Last(waiters) \in Range(waiters) /\ pending[Last(waiters)] \in Nat
        /\ Last(waiters) \in Requests
    BY ListFacts, Zenon
  <2>2. pending'[Last(waiters)] = pending[Last(waiters)]
    BY <2>1, <1>2, Zenon
  <2>3. currentAdmitted + pending[Last(waiters)] > MaxLimitAdmit
    BY Zenon DEF IInv, NoRoomWasted
  <2>. QED BY <2>1, <2>2, <2>3, <1>3, <1>4, <1>2, LimitsAssumption, SMTT(30)
<1>12. WaitersListed'
  BY <1>1, <1>2, <1>7, <1>8, SMTT(30) DEF IInv, WaitersListed
<1>13. SizeInv'
  BY <1>1, <1>2, <1>7, <1>8, Zenon DEF IInv, SizeInv
<1>. QED BY <1>6, <1>10, <1>11, <1>12, <1>13 DEF IInv

\* A call goes to the end of the list.
LEMMA WaitStep ==
  ASSUME IInv, NEW r \in Requests, NEW n \in 0 .. MaxSize, Wait(r, n)
  PROVE  IInv'
<1>1. /\ phase' = [phase EXCEPT ![r] = "waiting"] /\ phase[r] = "new"
      /\ pending' = [pending EXCEPT ![r] = n]
      /\ n <= MaxLimitAdmit /\ ~Fits(n) /\ Plus(currentWaiting, n) <= MaxLimitWait
      /\ currentAdmitted' = currentAdmitted /\ currentWaiting' = Plus(currentWaiting, n)
      /\ waiters' = Append(waiters, r) /\ notified' = notified /\ canceled' = canceled
      /\ admitting' = admitting
  BY Zenon DEF Wait, Goto
<1>2. /\ n \in Nat /\ pending' \in [Requests -> 0 .. MaxSize] /\ pending'[r] = n
      /\ r \notin Holders /\ r \notin Range(waiters) /\ r \notin notified
      /\ Bytes(pending', Holders) = Bytes(pending, Holders)
      /\ Bytes(pending', Range(waiters)) = Bytes(pending, Range(waiters))
      /\ \A q \in Requests : q # r => pending'[q] = pending[q]
  BY <1>1, NewFacts, Zenon
<1>3. /\ currentAdmitted \in Nat /\ currentAdmitted <= MaxLimitAdmit
      /\ currentWaiting \in Nat /\ currentWaiting <= MaxLimitWait
      /\ Range(waiters) \subseteq Requests /\ \A x : Once(waiters, x)
  BY ListFacts, Zenon
<1>4. /\ waiters' \in Seq(Requests) /\ waiters' # <<>> /\ Last(waiters') = r
      /\ Range(waiters') = Range(waiters) \cup {r} /\ \A x : Once(waiters', x)
  <2>1. waiters \in Seq(Requests)
    BY Zenon DEF IInv, TypeOK
  <2>. QED BY <2>1, <1>1, <1>2, <1>3, AppendFacts
<1>5. currentWaiting' = currentWaiting + n /\ currentAdmitted + n > MaxLimitAdmit
  <2>1. currentWaiting + n < Word /\ currentAdmitted + n < Word
    BY <1>1, <1>2, <1>3, LimitsAssumption, WordAssumption, SMTT(30)
  <2>2. Plus(currentWaiting, n) = currentWaiting + n /\ Plus(currentAdmitted, n) = currentAdmitted + n
    BY <2>1, <1>2, <1>3, NoWrap, Zenon
  <2>. QED BY <2>2, <1>1, <1>2, <1>3, LimitsAssumption, SMTT(30) DEF Fits
<1>6. currentWaiting' \in 0 .. MaxLimitWait
  BY <1>1, <1>2, <1>3, <1>5, LimitsAssumption, SMTT(30)
<1>7. TypeOK'
  BY <1>1, <1>2, <1>4, <1>6, Zenon DEF IInv, TypeOK, Phases
<1>8. phase \in [Requests -> Phases] /\ \A q \in Requests : q # r => phase'[q] = phase[q]
  BY <1>1, Zenon DEF IInv, TypeOK
<1>9. phase'[r] = "waiting"
  BY <1>1, <1>8, Zenon
<1>10. Holders' = Holders
  BY <1>1, <1>2, <1>8, <1>9, SMTT(30) DEF Holders
<1>11. CountersExact'
  <2>1. Cardinality(Bytes(pending', Range(waiters) \cup {r}))
          = Cardinality(Bytes(pending', Range(waiters))) + n
    BY <1>2, <1>3, BytesAdd, Zenon
  <2>2. currentWaiting' = Cardinality(Bytes(pending', Range(waiters')))
    BY <2>1, <1>2, <1>4, <1>5, Zenon DEF IInv, CountersExact
  <2>. QED BY <2>2, <1>1, <1>2, <1>10, Zenon DEF IInv, CountersExact
<1>12. NoRoomWasted'
  BY <1>1, <1>2, <1>4, <1>5, Zenon DEF NoRoomWasted
<1>13. WaitersListed'
  BY <1>1, <1>2, <1>4, <1>8, <1>9, ZenonT(40) DEF IInv, WaitersListed, Once
<1>14. SizeInv'
  BY <1>1, <1>2, <1>8, <1>9, Zenon DEF IInv, SizeInv
<1>. QED BY <1>7, <1>11, <1>12, <1>13, <1>14, Zenon DEF IInv

\* A step that gives back what a holder has: a release, or a cancellation that
\* comes after the admission.
LEMMA GiveBackStep ==
  ASSUME IInv, NEW r \in Holders, NEW p \in {"canceled", "released"}, Goto(r, p),
         currentAdmitted' = Minus(currentAdmitted, pending[r]), currentWaiting' = currentWaiting,
         pending' = pending, waiters' = waiters, notified' = notified, canceled' = canceled,
         admitting'
  PROVE  IInv'
<1>1. /\ currentAdmitted \in Nat /\ currentAdmitted <= MaxLimitAdmit /\ Holders \subseteq Requests
      /\ pending[r] \in Nat /\ r \in Requests /\ r \notin Range(waiters)
  BY ListFacts, Zenon
<1>2. /\ Cardinality(Bytes(pending, Holders \ {r})) = currentAdmitted - pending[r]
      /\ pending[r] <= currentAdmitted
  <2>1. pending \in [Requests -> 0 .. MaxSize]
    BY Zenon DEF IInv, TypeOK
  <2>2. /\ Cardinality(Bytes(pending, Holders \ {r})) = Cardinality(Bytes(pending, Holders)) - pending[r]
        /\ pending[r] <= Cardinality(Bytes(pending, Holders))
    BY <2>1, <1>1, BytesRemove, SMTT(30)
  <2>. QED BY <2>2, Zenon DEF IInv, CountersExact
<1>3. currentAdmitted' = currentAdmitted - pending[r]
  <2>1. currentAdmitted < Word
    BY <1>1, LimitsAssumption, WordAssumption, SMTT(30)
  <2>. QED BY <2>1, <1>1, <1>2, NoWrap, Zenon
<1>4. currentAdmitted' \in 0 .. MaxLimitAdmit
  BY <1>1, <1>2, <1>3, LimitsAssumption, SMTT(30)
<1>5. TypeOK'
  BY <1>4, Zenon DEF IInv, TypeOK, Phases, Goto
<1>6. /\ \A q \in Requests : q # r => phase'[q] = phase[q]
      /\ phase'[r] = p
  BY <1>1, Zenon DEF IInv, TypeOK, Goto
<1>7. Holders' = Holders \ {r}
  BY <1>6, Zenon DEF Holders
<1>8. CountersExact'
  BY <1>2, <1>3, <1>7, Zenon DEF IInv, CountersExact
<1>9. NoRoomWasted'
  BY Zenon DEF NoRoomWasted
<1>10. WaitersListed'
  BY <1>1, <1>6 DEF IInv, WaitersListed
<1>11. SizeInv'
  BY <1>6, Zenon DEF IInv, SizeInv
<1>. QED BY <1>5, <1>8, <1>9, <1>10, <1>11, Zenon DEF IInv

\* A canceled call that was not admitted leaves the list.
LEMMA LeaveListStep ==
  ASSUME IInv, NEW r \in Requests, phase[r] = "canceling", r \notin notified, Goto(r, "canceled"),
         currentWaiting' = Minus(currentWaiting, pending[r]), currentAdmitted' = currentAdmitted,
         waiters' = RemoveFirst(waiters, r), pending' = pending, notified' = notified,
         canceled' = canceled, admitting'
  PROVE  IInv'
<1>1. r \in Range(waiters) /\ waiters \in Seq(Requests)
  BY Zenon DEF IInv, WaitersListed, TypeOK
<1>2. /\ currentWaiting \in Nat /\ currentWaiting <= MaxLimitWait /\ Range(waiters) \subseteq Requests
      /\ pending[r] \in Nat /\ r \notin Holders /\ \A x : Once(waiters, x)
  BY <1>1, ListFacts, Zenon
<1>3. /\ waiters' \in Seq(Requests) /\ Range(waiters') = Range(waiters) \ {r}
      /\ \A x : Once(waiters', x)
  <2>1. /\ waiters' \in Seq(Requests) /\ Range(waiters') \subseteq Range(waiters)
        /\ \A x \in Range(waiters) : x # r => x \in Range(waiters')
    BY <1>1, RemoveFirstFacts, Zenon
  <2>2. r \notin Range(waiters') /\ \A x : Once(waiters', x)
    BY <1>1, <1>2, RemoveFirstOnce, ZenonT(40)
  <2>. QED BY <2>1, <2>2, Zenon
<1>4. /\ Cardinality(Bytes(pending, Range(waiters'))) = currentWaiting - pending[r]
      /\ pending[r] <= currentWaiting
  <2>1. pending \in [Requests -> 0 .. MaxSize]
    BY Zenon DEF IInv, TypeOK
  <2>2. /\ Cardinality(Bytes(pending, Range(waiters) \ {r}))
             = Cardinality(Bytes(pending, Range(waiters))) - pending[r]
        /\ pending[r] <= Cardinality(Bytes(pending, Range(waiters)))
    BY <2>1, <1>1, <1>2, BytesRemove
  <2>. QED BY <2>2, <1>3, Zenon DEF IInv, CountersExact
<1>5. currentWaiting' = currentWaiting - pending[r]
  <2>1. currentWaiting < Word
    BY <1>2, LimitsAssumption, WordAssumption, SMTT(30)
  <2>. QED BY <2>1, <1>2, <1>4, NoWrap, Zenon
<1>6. currentWaiting' \in 0 .. MaxLimitWait
  BY <1>2, <1>4, <1>5, LimitsAssumption, SMTT(30)
<1>7. TypeOK'
  BY <1>3, <1>6, Zenon DEF IInv, TypeOK, Phases, Goto
<1>8. /\ \A q \in Requests : q # r => phase'[q] = phase[q]
      /\ phase'[r] = "canceled"
  BY Zenon DEF IInv, TypeOK, Goto
<1>9. Holders' = Holders
  BY <1>2, <1>8, Zenon DEF Holders
<1>10. CountersExact'
  BY <1>4, <1>5, <1>9, Zenon DEF IInv, CountersExact
<1>11. NoRoomWasted'
  BY Zenon DEF NoRoomWasted
<1>12. WaitersListed'
  BY <1>3, <1>8, Zenon DEF IInv, WaitersListed, Once
<1>13. SizeInv'
  BY <1>8, Zenon DEF IInv, SizeInv
<1>. QED BY <1>7, <1>10, <1>11, <1>12, <1>13, SMTT(30) DEF IInv

\* The select moves a call without touching the counters or the list.
LEMMA SelectStep ==
  ASSUME IInv, NEW r \in Requests, SelectNotified(r) \/ SelectDone(r)
  PROVE  IInv'
<1>1. PICK p \in {"admitted", "canceling"} :
        /\ phase' = [phase EXCEPT ![r] = p] /\ phase[r] = "waiting"
        /\ p = "admitted" => r \in notified
  BY Zenon DEF SelectNotified, SelectDone, Goto
<1>2. /\ pending' = pending /\ currentAdmitted' = currentAdmitted
      /\ currentWaiting' = currentWaiting /\ waiters' = waiters /\ notified' = notified
      /\ canceled' = canceled /\ admitting' = admitting
  BY Zenon DEF SelectNotified, SelectDone, counters
<1>3. TypeOK'
  BY <1>1, <1>2, Zenon DEF IInv, TypeOK, Phases
<1>4. /\ \A q \in Requests : q # r => phase'[q] = phase[q]
      /\ phase'[r] = p
  BY <1>1, Zenon DEF IInv, TypeOK
<1>5. Holders' = Holders
  BY <1>1, <1>2, <1>4, Zenon DEF Holders
<1>6. CountersExact' /\ NoRoomWasted'
  BY <1>2, <1>5, Zenon DEF IInv, CountersExact, NoRoomWasted
<1>7. WaitersListed'
  BY <1>1, <1>2, <1>4, SMTT(30) DEF IInv, WaitersListed
<1>8. SizeInv'
  BY <1>1, <1>2, <1>4, Zenon DEF IInv, SizeInv
<1>. QED BY <1>3, <1>6, <1>7, <1>8, Zenon DEF IInv

\* One waiter is admitted.
LEMMA AdmitNextStep ==
  ASSUME IInv, AdmitNext
  PROVE  IInv'
<1>. DEFINE r == Last(waiters)
<1>1. /\ admitting /\ waiters # <<>> /\ Fits(pending[r])
      /\ currentWaiting' = Minus(currentWaiting, pending[r])
      /\ currentAdmitted' = Plus(currentAdmitted, pending[r])
      /\ waiters' = Front(waiters) /\ notified' = notified \cup {r}
      /\ phase' = phase /\ pending' = pending /\ canceled' = canceled /\ admitting' = admitting
  BY Zenon DEF AdmitNext
<1>. HIDE DEF r
<1>2. /\ waiters \in Seq(Requests) /\ \A x : Once(waiters, x)
      /\ r \in Range(waiters) /\ Range(waiters) \subseteq Requests /\ Holders \subseteq Requests
  BY <1>1, ListFacts, Zenon DEF IInv, TypeOK, r
<1>3. /\ r \in Requests /\ r \notin Holders /\ phase[r] \in {"waiting", "canceling"}
      /\ pending[r] \in Nat /\ pending[r] <= MaxLimitAdmit
      /\ currentAdmitted \in Nat /\ currentAdmitted <= MaxLimitAdmit
      /\ currentWaiting \in Nat /\ currentWaiting <= MaxLimitWait
  BY <1>2, ListFacts, Zenon
<1>4. /\ waiters' \in Seq(Requests) /\ Range(waiters') = Range(waiters) \ {r}
      /\ \A x : Once(waiters', x)
  BY <1>1, <1>2, FrontFacts, Zenon DEF r
<1>5. pending \in [Requests -> 0 .. MaxSize]
  BY Zenon DEF IInv, TypeOK
<1>6. /\ Cardinality(Bytes(pending, Range(waiters'))) = currentWaiting - pending[r]
      /\ pending[r] <= currentWaiting
  <2>1. /\ Cardinality(Bytes(pending, Range(waiters) \ {r}))
             = Cardinality(Bytes(pending, Range(waiters))) - pending[r]
        /\ pending[r] <= Cardinality(Bytes(pending, Range(waiters)))
    BY <1>2, <1>5, BytesRemove, Zenon
  <2>. QED BY <2>1, <1>4, Zenon DEF IInv, CountersExact
<1>7. Cardinality(Bytes(pending, Holders \cup {r})) = currentAdmitted + pending[r]
  <2>1. Cardinality(Bytes(pending, Holders \cup {r}))
          = Cardinality(Bytes(pending, Holders)) + pending[r]
    BY <1>2, <1>3, <1>5, BytesAdd, Zenon
  <2>. QED BY <2>1, Zenon DEF IInv, CountersExact
<1>8. /\ currentWaiting' = currentWaiting - pending[r]
      /\ Plus(currentAdmitted, pending[r]) = currentAdmitted + pending[r]
  <2>1. currentWaiting < Word /\ currentAdmitted + pending[r] < Word
    BY <1>3, LimitsAssumption, WordAssumption, SMTT(30)
  <2>. QED BY <2>1, <1>1, <1>3, <1>6, NoWrap, Zenon
<1>9. currentWaiting' \in 0 .. MaxLimitWait /\ currentAdmitted' \in 0 .. MaxLimitAdmit
  BY <1>1, <1>3, <1>6, <1>8, LimitsAssumption, SMTT(30) DEF Fits
<1>10. TypeOK'
  BY <1>1, <1>3, <1>4, <1>9, Zenon DEF IInv, TypeOK
<1>11. Holders' = Holders \cup {r}
  BY <1>1, <1>3, Zenon DEF Holders
<1>12. CountersExact'
  BY <1>1, <1>6, <1>7, <1>8, <1>11, Zenon DEF CountersExact
<1>13. NoRoomWasted'
  BY <1>1, Zenon DEF NoRoomWasted
<1>14. WaitersListed'
  BY <1>1, <1>3, <1>4, Zenon DEF IInv, WaitersListed, Once
<1>15. SizeInv'
  BY <1>1, <1>3, Zenon DEF IInv, SizeInv
<1>. QED BY <1>10, <1>12, <1>13, <1>14, <1>15, Zenon DEF IInv

\* The loop ends when the newest waiter does not fit.
LEMMA AdmitDoneStep ==
  ASSUME IInv, AdmitDone
  PROVE  IInv'
<1>. DEFINE r == Last(waiters)
<1>1. /\ (waiters # <<>> => ~Fits(pending[r])) /\ admitting' = FALSE
      /\ phase' = phase /\ pending' = pending /\ currentAdmitted' = currentAdmitted
      /\ currentWaiting' = currentWaiting /\ waiters' = waiters /\ notified' = notified
      /\ canceled' = canceled
  BY Zenon DEF AdmitDone, counters
<1>2. TypeOK' /\ CountersExact' /\ WaitersListed' /\ SizeInv'
  BY <1>1, Zenon DEF IInv, TypeOK, CountersExact, WaitersListed, SizeInv, Holders
<1>3. ASSUME waiters # <<>> PROVE currentAdmitted + pending[r] > MaxLimitAdmit
  <2>1. /\ pending[r] \in Nat /\ pending[r] <= MaxLimitAdmit
        /\ currentAdmitted \in Nat /\ currentAdmitted <= MaxLimitAdmit
    BY <1>3, ListFacts, Zenon
  <2>2. currentAdmitted + pending[r] < Word
    BY <2>1, LimitsAssumption, WordAssumption, SMTT(30)
  <2>3. Plus(currentAdmitted, pending[r]) = currentAdmitted + pending[r]
    BY <2>1, <2>2, NoWrap, Zenon
  <2>4. ~(currentAdmitted + pending[r] <= MaxLimitAdmit)
    BY <2>3, <1>1, <1>3, Zenon DEF Fits
  <2>. QED BY <2>1, <2>4, LimitsAssumption
<1>4. NoRoomWasted'
  BY <1>1, <1>3, Zenon DEF NoRoomWasted
<1>. QED BY <1>2, <1>4, Zenon DEF IInv

\* The queue starts in the invariant.
LEMMA Initial == Init => IInv
<1>. SUFFICES ASSUME Init PROVE IInv
  BY Zenon
<1>1. TypeOK
  <2>1. waiters \in Seq(Requests)
    BY EmptySeq, Zenon DEF Init
  <2>2. 0 \in 0 .. MaxSize /\ 0 \in 0 .. MaxLimitAdmit /\ 0 \in 0 .. MaxLimitWait
    BY LimitsAssumption
  <2>. QED BY <2>1, <2>2, Zenon DEF Init, TypeOK, Phases
<1>2. waiters = <<>> /\ DOMAIN waiters = {} /\ Range(waiters) = {}
  BY DEF Init, Range
<1>3. NoRoomWasted /\ WaitersListed /\ SizeInv
  BY <1>2, Zenon DEF Init, NoRoomWasted, WaitersListed, SizeInv
<1>4. Holders = {}
  BY Zenon DEF Init, Holders
<1>5. Bytes(pending, {}) = {}
  BY Zenon DEF Bytes
<1>6. CountersExact
  BY <1>2, <1>4, <1>5, FS_EmptySet, Zenon DEF Init, CountersExact
<1>. QED BY <1>1, <1>3, <1>6, Zenon DEF IInv

\* No step leaves the invariant.
LEMMA Inductive == IInv /\ [Next]_vars => IInv'
<1>. SUFFICES ASSUME IInv, [Next]_vars PROVE IInv'
  BY Zenon
<1>1. CASE UNCHANGED vars
  BY <1>1, Zenon DEF vars, counters, IInv, TypeOK, CountersExact, NoRoomWasted, WaitersListed, SizeInv,
              Holders
<1>2. CASE AdmitNext
  BY <1>2, AdmitNextStep, Zenon
<1>3. CASE AdmitDone
  BY <1>3, AdmitDoneStep, Zenon
<1>4. ASSUME NEW r \in Requests, Acquire(r) PROVE IInv'
  BY <1>4, RejectStep, AdmitFastStep, WaitStep, Zenon DEF Acquire
<1>5. ASSUME NEW r \in Requests, ContextDone(r) PROVE IInv'
  BY <1>5, Zenon DEF ContextDone, counters, IInv, TypeOK, CountersExact, NoRoomWasted, WaitersListed,
              SizeInv, Holders
<1>6. ASSUME NEW r \in Requests, SelectNotified(r) \/ SelectDone(r) PROVE IInv'
  BY <1>6, SelectStep, Zenon
<1>7. ASSUME NEW r \in Requests, Cancel(r) PROVE IInv'
  <2>1. CASE r \in notified
    <3>1. r \in Holders
      BY <1>7, <2>1, Zenon DEF Holders, Cancel
    <3>. QED BY <3>1, <2>1, <1>7, GiveBackStep, Zenon DEF Cancel
  <2>2. CASE r \notin notified
    BY <2>2, <1>7, LeaveListStep, Zenon DEF Cancel
  <2>. QED BY <2>1, <2>2, Zenon
<1>8. ASSUME NEW r \in Requests, Release(r) PROVE IInv'
  <2>1. r \in Holders
    BY <1>8, Zenon DEF Holders, Release
  <2>. QED BY <2>1, <1>8, GiveBackStep, Zenon DEF Release
<1>. QED BY <1>1, <1>2, <1>3, <1>4, <1>5, <1>6, <1>7, <1>8, Zenon DEF Next, Resume

\* The invariant holds always.
LEMMA Invariant == Spec => []IInv
BY Initial, Inductive, PTL DEF Spec

-----------------------------------------------------------------------------
(* Results *)

\* What boundedqueue.go admits never exceeds maxLimitAdmit and what waits
\* never exceeds maxLimitWait; no unsigned counter wraps.
THEOREM LimitsRespected == Spec => []TypeOK
<1>1. IInv => TypeOK
  BY Zenon DEF IInv
<1>. QED BY <1>1, Invariant, PTL

\* Both counters equal the bytes of the requests they stand for, whatever the
\* order of admissions, releases and cancellations.
THEOREM NoByteLeaks == Spec => []CountersExact
<1>1. IInv => CountersExact
  BY Zenon DEF IInv
<1>. QED BY <1>1, Invariant, PTL

\* admitWaitersLocked is called wherever room appears: with the lock free the
\* newest waiter never fits.
THEOREM NoLostWakeup == Spec => []NoRoomWasted
<1>1. IInv => NoRoomWasted
  BY Zenon DEF IInv
<1>. QED BY <1>1, Invariant, PTL

\* A waiter is in the list until it is notified or has given up, and not
\* longer.
THEOREM ListIsExact == Spec => []WaitersListed
<1>1. IInv => WaitersListed
  BY Zenon DEF IInv
<1>. QED BY <1>1, Invariant, PTL
=============================================================================
