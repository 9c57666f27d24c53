----------------------------- MODULE BoundedQueue -----------------------------
(***************************************************************************)
(* The admission controller of the OTel-Arrow receiver                     *)
(* (internal/otelarrow/admission2): a number of concurrent calls of        *)
(* BoundedQueue.Acquire and of the ReleaseFuncs they return.               *)
(*                                                                         *)
(* Each request is one call.  Everything done under bq.lock is one step,   *)
(* except that the loop of admitWaitersLocked takes one step per waiter    *)
(* with the lock held.  The counters are uint64: they wrap at Word.        *)
(***************************************************************************)
EXTENDS Integers, Sequences, FiniteSets, Lists

CONSTANTS
  Requests,       \* the calls of Acquire
  MaxLimitAdmit,  \* bytes that may be admitted at a time
  MaxLimitWait,   \* bytes that may wait for admission
  MaxSize,        \* bound: a request asks for 0 .. MaxSize bytes
  Word            \* the counters count modulo Word (2^64 in the code)

ASSUME RequestsAssumption == IsFiniteSet(Requests)
ASSUME LimitsAssumption ==
  MaxLimitAdmit \in Nat /\ MaxLimitWait \in Nat /\ MaxSize \in Nat /\ Word \in Nat
\* No sum that the code computes wraps (the limits are far below 2^63).
ASSUME WordAssumption ==
  MaxLimitAdmit + MaxLimitAdmit < Word /\ MaxLimitWait + MaxLimitAdmit < Word

VARIABLES
  phase,            \* where each call is
  pending,          \* how many bytes it asks for
  currentAdmitted,
  currentWaiting,
  waiters,          \* bq.waiters, oldest first
  notified,         \* the waiters whose notification channel is closed
  canceled,         \* the calls whose context is done
  admitting         \* the loop of admitWaitersLocked runs and holds the lock

counters == <<currentAdmitted, currentWaiting>>
vars == <<phase, pending, counters, waiters, notified, canceled, admitting>>

Phases == {
  "new",       \* Acquire has not been called
  "waiting",   \* in the select
  "canceling", \* the select has picked ctx.Done(), the lock is not taken yet
  "admitted",  \* Acquire has returned a ReleaseFunc
  "released",  \* which has been called
  "rejected",  \* Acquire has returned an error on its fast path
  "canceled"}  \* or because its context was done

TypeOK ==
  /\ phase \in [Requests -> Phases]
  /\ pending \in [Requests -> 0 .. MaxSize]
  /\ currentAdmitted \in 0 .. MaxLimitAdmit /\ currentWaiting \in 0 .. MaxLimitWait
  /\ waiters \in Seq(Requests)
  /\ notified \subseteq Requests /\ canceled \subseteq Requests
  /\ admitting \in BOOLEAN

-----------------------------------------------------------------------------
Plus(a, b) == (a + b) % Word
Minus(a, b) == (a - b) % Word

\* Mutant: what is admitted already is not counted.
FitsAlone(n) == n <= MaxLimitAdmit

\* Whether n bytes can be admitted now.
Fits(n) == Plus(currentAdmitted, n) <= MaxLimitAdmit

Goto(r, p) == phase' = [phase EXCEPT ![r] = p]

\* acquireOrGetWaiter on its failure path: the request can never be admitted,
\* or it would have to wait and too much waits already.
Reject(r, n) ==
  /\ phase[r] = "new"
  /\ \/ n > MaxLimitAdmit
     \/ ~admitting /\ ~Fits(n) /\ Plus(currentWaiting, n) > MaxLimitWait
  /\ Goto(r, "rejected")
  /\ UNCHANGED <<pending, counters, waiters, notified, canceled, admitting>>

\* The fast success path, which does not look at the waiters.
AdmitFast(r, n) ==
  /\ phase[r] = "new" /\ ~admitting
  /\ n <= MaxLimitAdmit /\ Fits(n)
  /\ pending' = [pending EXCEPT ![r] = n]
  /\ currentAdmitted' = Plus(currentAdmitted, n)
  /\ Goto(r, "admitted")
  /\ UNCHANGED <<currentWaiting, waiters, notified, canceled, admitting>>

\* addWaiterLocked: the call goes to the end of the list and to its select.
Wait(r, n) ==
  /\ phase[r] = "new" /\ ~admitting
  /\ n <= MaxLimitAdmit /\ ~Fits(n) /\ Plus(currentWaiting, n) <= MaxLimitWait
  /\ pending' = [pending EXCEPT ![r] = n]
  /\ currentWaiting' = Plus(currentWaiting, n)
  /\ waiters' = Append(waiters, r)
  /\ Goto(r, "waiting")
  /\ UNCHANGED <<currentAdmitted, notified, canceled, admitting>>

\* The context of a call is done.  Only the select looks at it, so that a context
\* that was done earlier is one that is done as soon as the call waits.
ContextDone(r) ==
  /\ r \notin canceled /\ phase[r] = "waiting"
  /\ canceled' = canceled \cup {r}
  /\ UNCHANGED <<phase, pending, counters, waiters, notified, admitting>>

\* The select: when both channels are ready it picks either.
SelectNotified(r) ==
  /\ phase[r] = "waiting" /\ r \in notified
  /\ Goto(r, "admitted")
  /\ UNCHANGED <<pending, counters, waiters, notified, canceled, admitting>>

SelectDone(r) ==
  /\ phase[r] = "waiting" /\ r \in canceled
  /\ Goto(r, "canceling")
  /\ UNCHANGED <<pending, counters, waiters, notified, canceled, admitting>>

\* Mutant: a call that was admitted while it was canceled gives nothing back.
CancelKeepsBytes(r) ==
  /\ phase[r] = "canceling" /\ ~admitting
  /\ Goto(r, "canceled")
  /\ \/ r \in notified /\ UNCHANGED <<counters, waiters>>
     \/ /\ r \notin notified
        /\ currentWaiting' = Minus(currentWaiting, pending[r])
        /\ waiters' = RemoveFirst(waiters, r)
        /\ UNCHANGED currentAdmitted
  /\ admitting' = TRUE
  /\ UNCHANGED <<pending, notified, canceled>>

\* Mutant: a canceled waiter leaves the list and nobody else is looked at.
CancelWithoutAdmit(r) ==
  /\ phase[r] = "canceling" /\ ~admitting
  /\ Goto(r, "canceled")
  /\ \/ /\ r \in notified
        /\ currentAdmitted' = Minus(currentAdmitted, pending[r])
        /\ UNCHANGED <<currentWaiting, waiters>>
     \/ /\ r \notin notified
        /\ currentWaiting' = Minus(currentWaiting, pending[r])
        /\ waiters' = RemoveFirst(waiters, r)
        /\ UNCHANGED currentAdmitted
  /\ admitting' = (r \in notified)
  /\ UNCHANGED <<pending, notified, canceled>>

\* The canceled call gets the lock: if it was admitted meanwhile it releases
\* what it holds, if not it leaves the list; both go on to admitWaitersLocked.
Cancel(r) ==
  /\ phase[r] = "canceling" /\ ~admitting
  /\ Goto(r, "canceled")
  /\ \/ /\ r \in notified
        /\ currentAdmitted' = Minus(currentAdmitted, pending[r])
        /\ UNCHANGED <<currentWaiting, waiters>>
     \/ /\ r \notin notified
        /\ currentWaiting' = Minus(currentWaiting, pending[r])
        /\ waiters' = RemoveFirst(waiters, r)
        /\ UNCHANGED currentAdmitted
  /\ admitting' = TRUE
  /\ UNCHANGED <<pending, notified, canceled>>

\* The ReleaseFunc.
Release(r) ==
  /\ phase[r] = "admitted" /\ ~admitting
  /\ Goto(r, "released")
  /\ currentAdmitted' = Minus(currentAdmitted, pending[r])
  /\ admitting' = TRUE
  /\ UNCHANGED <<pending, currentWaiting, waiters, notified, canceled>>

\* One iteration of admitWaitersLocked: the newest waiter, if it fits.
AdmitNext ==
  LET r == Last(waiters)
  IN  /\ admitting /\ waiters # <<>> /\ Fits(pending[r])
      /\ currentWaiting' = Minus(currentWaiting, pending[r])
      /\ waiters' = Front(waiters)
      /\ currentAdmitted' = Plus(currentAdmitted, pending[r])
      /\ notified' = notified \cup {r}
      /\ UNCHANGED <<phase, pending, canceled, admitting>>

\* Nobody waits, or the newest waiter does not fit: the lock is released.
AdmitDone ==
  /\ admitting /\ (waiters # <<>> => ~Fits(pending[Last(waiters)]))
  /\ admitting' = FALSE
  /\ UNCHANGED <<phase, pending, counters, waiters, notified, canceled>>

-----------------------------------------------------------------------------
Init ==
  /\ phase = [r \in Requests |-> "new"] /\ pending = [r \in Requests |-> 0]
  /\ currentAdmitted = 0 /\ currentWaiting = 0 /\ waiters = <<>>
  /\ notified = {} /\ canceled = {} /\ admitting = FALSE

Acquire(r) == \E n \in 0 .. MaxSize : Reject(r, n) \/ AdmitFast(r, n) \/ Wait(r, n)

\* The steps of a call after acquireOrGetWaiter.
Resume(r) == SelectNotified(r) \/ SelectDone(r) \/ Cancel(r) \/ Release(r)

Next ==
  \/ AdmitNext \/ AdmitDone
  \/ \E r \in Requests : Acquire(r) \/ ContextDone(r) \/ Resume(r)

Spec == Init /\ [][Next]_vars

\* A goroutine that can go on does, one that wants the lock gets it, and the
\* holder of a ReleaseFunc calls it.  Nothing makes a context done.  Weak fairness
\* is enough for a goroutine that wants the lock, because the others take it
\* finitely often.
Fairness ==
  /\ WF_vars(AdmitNext \/ AdmitDone)
  /\ \A r \in Requests : WF_vars(Resume(r))

FairSpec == Spec /\ Fairness

-----------------------------------------------------------------------------
(* Properties *)

\* The requests that hold admitted bytes, whether Acquire has returned or not.
Holders ==
  {r \in Requests : phase[r] = "admitted"
                    \/ (phase[r] \in {"waiting", "canceling"} /\ r \in notified)}

\* The bytes that the requests in R ask for, each a pair of a request and a
\* number.
Bytes(p, R) == {b \in R \X (1 .. MaxSize) : b[2] <= p[b[1]]}

\* currentAdmitted counts the bytes of the requests that were admitted and
\* have neither released nor given up, currentWaiting those of the waiters:
\* no interleaving of releases, admissions and cancellations leaks a byte or
\* returns one twice.
CountersExact ==
  /\ currentAdmitted = Cardinality(Bytes(pending, Holders))
  /\ currentWaiting = Cardinality(Bytes(pending, Range(waiters)))

\* No lost wakeup: whenever the lock is free, the newest waiter could not be
\* admitted with what is left.
NoRoomWasted ==
  ~admitting /\ waiters # <<>> =>
    currentAdmitted + pending[Last(waiters)] > MaxLimitAdmit

\* A call that waits in its select is in the list or has been notified, and a
\* call is never both: it is woken once, by exactly one admission.
WaitersListed ==
  \A r \in Requests :
    /\ r \in Range(waiters) <=> phase[r] \in {"waiting", "canceling"} /\ r \notin notified
    /\ \A i, j \in DOMAIN waiters : waiters[i] = r /\ waiters[j] = r => i = j

\* Every call that enters the list returns, without its context being done,
\* once those that were admitted before it have released.
EveryWaiterReturns ==
  \A r \in Requests : phase[r] = "waiting" ~> phase[r] \in {"released", "canceled"}
=============================================================================
