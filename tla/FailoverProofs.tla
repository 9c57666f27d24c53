---------------------------- MODULE FailoverProofs ----------------------------
(***************************************************************************)
(* Proofs about Failover, for any number of calls and levels.              *)
(*                                                                         *)
(* That NextStableLevel does not run past the end of the list rests on the *)
(* call that increments being the only one that does (LockInv) and on the  *)
(* level having been inside the list when the call compared it (LevelInv): *)
(* a probe can only set it to a level of the list in between.              *)
(***************************************************************************)
EXTENDS Failover, TLAPS

\* A call is in HandleError exactly while it holds errTryLock.
LockInv == \A c \in Calls : pc[c] \in Locked <=> errTryLock = c

LevelInv ==
  \A c \in Calls :
    /\ pc[c] \in {"try", "report", "handle", "reset"} => idx[c] \in Levels
    /\ pc[c] = "sample" => idx[c] <= stableIndex[c]
    /\ pc[c] = "step" => currentPipeline \in Levels

IInv == TypeOK /\ LockInv /\ LevelInv /\ TokenExact

\* The connector starts in the invariant.
LEMMA Initial == Init => IInv
<1>. SUFFICES ASSUME Init PROVE IInv
  BY Zenon
<1>1. 0 \in 0 .. N /\ \A c \in Calls : pc[c] = "start"
  BY FailoverAssumption DEF Init
<1>2. TypeOK
  BY <1>1, Zenon DEF Init, TypeOK, Places
<1>3. LockInv
  BY <1>1, FailoverAssumption, Zenon DEF Init, LockInv, Locked
<1>4. LevelInv
  BY <1>1, Zenon DEF LevelInv
<1>5. TokenExact
  BY <1>1, Zenon DEF Init, TokenExact
<1>. QED BY <1>2, <1>3, <1>4, <1>5, Zenon DEF IInv

\* The steps of a call that leave the selector and the lock alone.
LEMMA QuietStep ==
  ASSUME IInv, NEW c \in Calls,
         \/ Begin(c) \/ BeginSample(c) \/ ReadStableIndex(c) \/ SampleAccepted(c)
         \/ SampleFailed(c) \/ SampleEnds(c) \/ GetCurrentConsumer(c) \/ Accepted(c)
         \/ Failed(c) \/ TryNotLocked(c)
  PROVE  IInv'
<1>. USE FailoverAssumption
<1>1. CASE Begin(c)
  BY <1>1, Zenon DEF Begin, Goto, selector, IInv, TypeOK, Places, LockInv, Locked, LevelInv, TokenExact, Levels
<1>2. CASE BeginSample(c)
  BY <1>2, Zenon DEF BeginSample, Goto, selector, IInv, TypeOK, Places, LockInv, Locked, LevelInv, TokenExact, Levels
<1>3. CASE ReadStableIndex(c)
  BY <1>3 DEF ReadStableIndex, Goto, selector, IInv, TypeOK, Places, LockInv, Locked, LevelInv, TokenExact, Levels
<1>4. CASE SampleAccepted(c)
  BY <1>4 DEF SampleAccepted, Goto, selector, IInv, TypeOK, Places, LockInv, Locked, LevelInv, TokenExact, Levels
<1>5. CASE SampleFailed(c)
  BY <1>5 DEF SampleFailed, Goto, selector, IInv, TypeOK, Places, LockInv, Locked, LevelInv, TokenExact, Levels
<1>6. CASE SampleEnds(c)
  BY <1>6, Zenon DEF SampleEnds, Goto, selector, IInv, TypeOK, Places, LockInv, Locked, LevelInv, TokenExact, Levels
<1>7. CASE GetCurrentConsumer(c)
  BY <1>7 DEF GetCurrentConsumer, Goto, selector, IInv, TypeOK, Places, LockInv, Locked, LevelInv, TokenExact, Levels
<1>8. CASE Accepted(c) \/ Failed(c)
  BY <1>8 DEF Accepted, Failed, Goto, selector, IInv, TypeOK, Places, LockInv, Locked, LevelInv, TokenExact, Levels
<1>9. CASE TryNotLocked(c)
  BY <1>9, Zenon DEF TryNotLocked, Goto, selector, IInv, TypeOK, Places, LockInv, Locked, LevelInv, TokenExact, Levels
<1>. QED BY <1>1, <1>2, <1>3, <1>4, <1>5, <1>6, <1>7, <1>8, <1>9, Zenon

\* A probe that was accepted sets a level of the list.
LEMMA ResetStep ==
  ASSUME IInv, NEW c \in Calls, ResetHealthyPipeline(c)
  PROVE  IInv'
BY FailoverAssumption, Zenon
   DEF ResetHealthyPipeline, Goto, IInv, TypeOK, Places, LockInv, Locked, LevelInv, TokenExact, Levels

\* The steps of HandleError.
LEMMA ReportStep ==
  ASSUME IInv, NEW c \in Calls,
         TryLocked(c) \/ HandleError(c) \/ NextStableLevel(c) \/ TryEnableRetry(c) \/ LaunchRetry(c)
  PROVE  IInv'
<1>. USE FailoverAssumption
<1>1. CASE TryLocked(c)
  BY <1>1, Zenon DEF TryLocked, Goto, selector, IInv, TypeOK, Places, LockInv, Locked, LevelInv, TokenExact, Levels
<1>2. CASE HandleError(c)
  BY <1>2 DEF HandleError, Goto, selector, IInv, TypeOK, Places, LockInv, Locked, LevelInv, TokenExact, Levels
<1>3. CASE NextStableLevel(c)
  BY <1>3 DEF NextStableLevel, Goto, IInv, TypeOK, Places, LockInv, Locked, LevelInv, TokenExact, Levels
<1>4. CASE TryEnableRetry(c)
  <2>1. CASE retryEnabledToken
    <3>1. /\ pc' = [pc EXCEPT ![c] = "launch"] /\ pc[c] = "enable" /\ retryEnabledToken' = FALSE
          /\ errTryLock' = errTryLock /\ currentPipeline' = currentPipeline /\ retry' = retry
          /\ notifyRetry' = notifyRetry /\ done' = done /\ idx' = idx /\ stableIndex' = stableIndex
      BY <1>4, <2>1, Zenon DEF TryEnableRetry, Goto
    <3>2. TypeOK' /\ LockInv' /\ LevelInv'
      BY <3>1, Zenon DEF IInv, TypeOK, Places, LockInv, Locked, LevelInv, Levels
    <3>3. /\ retry = "off" /\ pc'[c] = "launch"
      BY <2>1, <3>1, Zenon DEF IInv, TokenExact, TypeOK
    <3>4. TokenExact'
      BY <3>1, <3>3, Zenon DEF TokenExact
    <3>. QED BY <3>2, <3>4, Zenon DEF IInv
  <2>2. CASE ~retryEnabledToken
    <3>1. /\ pc' = [pc EXCEPT ![c] = "healthy"] /\ pc[c] = "enable" /\ retryEnabledToken' = FALSE
          /\ errTryLock' = None /\ currentPipeline' = currentPipeline /\ retry' = retry
          /\ notifyRetry' = notifyRetry /\ done' = done /\ idx' = idx /\ stableIndex' = stableIndex
      BY <1>4, <2>2, Zenon DEF TryEnableRetry, Goto
    <3>2. TypeOK' /\ LockInv' /\ LevelInv'
      BY <3>1, Zenon DEF IInv, TypeOK, Places, LockInv, Locked, LevelInv, Levels
    <3>3. \A d \in Calls : pc'[d] = "launch" <=> pc[d] = "launch"
      BY <3>1, Zenon DEF IInv, TypeOK
    <3>4. TokenExact'
      BY <2>2, <3>1, <3>3, Zenon DEF IInv, TokenExact
    <3>. QED BY <3>2, <3>4, Zenon DEF IInv
  <2>. QED BY <2>1, <2>2, Zenon
<1>5. CASE LaunchRetry(c)
  BY <1>5, Zenon DEF LaunchRetry, Goto, IInv, TypeOK, Places, LockInv, Locked, LevelInv, TokenExact, Levels
<1>. QED BY <1>1, <1>2, <1>3, <1>4, <1>5, Zenon

\* No step leaves the invariant.
LEMMA Inductive == IInv /\ [Next]_vars => IInv'
<1>. SUFFICES ASSUME IInv, [Next]_vars PROVE IInv'
  BY Zenon
<1>1. ASSUME NEW c \in Calls, Consume(c) PROVE IInv'
  BY <1>1, QuietStep, ResetStep, ReportStep, Zenon DEF Consume, Sample, Report
<1>2. CASE Tick \/ Shutdown
  <2>1. /\ currentPipeline' = currentPipeline /\ retryEnabledToken' = retryEnabledToken
        /\ retry' = retry /\ errTryLock' = errTryLock /\ pc' = pc /\ idx' = idx
        /\ stableIndex' = stableIndex
    BY <1>2, Zenon DEF Tick, Shutdown, selector
  <2>2. notifyRetry' \in BOOLEAN /\ done' \in BOOLEAN
    BY <1>2, Zenon DEF Tick, Shutdown, IInv, TypeOK
  <2>3. TypeOK'
    BY <2>1, <2>2, Zenon DEF IInv, TypeOK
  <2>. QED BY <2>1, <2>3, Zenon DEF IInv, LockInv, LevelInv, TokenExact
<1>3. CASE RetryEnds
  BY <1>3, Zenon DEF RetryEnds, IInv, TypeOK, LockInv, LevelInv, TokenExact
<1>4. CASE UNCHANGED vars
  BY <1>4, Zenon DEF vars, IInv, TypeOK, LockInv, LevelInv, TokenExact
<1>. QED BY <1>1, <1>2, <1>3, <1>4, Zenon DEF Next

\* The invariant holds always.
LEMMA Invariant == Spec => []IInv
BY Initial, Inductive, PTL DEF Spec

\* NextStableLevel never moves past the end of the priority list, however many
\* calls fail together and whatever a probe resets meanwhile.
THEOREM LevelInRange == Spec => []TypeOK
<1>1. IInv => TypeOK
  BY Zenon DEF IInv
<1>. QED BY <1>1, Invariant, PTL

\* There is one retry token: in its channel, or with the retry goroutine or
\* the call that is launching it.
THEOREM OneToken == Spec => []TokenExact
<1>1. IInv => TokenExact
  BY Zenon DEF IInv
<1>. QED BY <1>1, Invariant, PTL
=============================================================================
