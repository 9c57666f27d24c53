------------------------------- MODULE Failover -------------------------------
(***************************************************************************)
(* The failover connector (connector/failoverconnector): concurrent calls  *)
(* of Consume on one router, its PipelineSelector, and the goroutine that  *)
(* asks for a retry of the higher levels.                                  *)
(*                                                                         *)
(* Level 0 has the highest priority.  Whether a level takes the data of a  *)
(* call is left open.  Reads and writes of currentPipeline are single      *)
(* steps: HandleError reads it without the lock that its writers hold.     *)
(***************************************************************************)
EXTENDS Integers, FiniteSets

CONSTANTS
  Calls,  \* the calls of Consume
  N,      \* the number of priority levels
  None    \* nobody holds errTryLock

ASSUME FailoverAssumption == IsFiniteSet(Calls) /\ N \in Nat \ {0} /\ None \notin Calls

VARIABLES
  currentPipeline,
  notifyRetry,        \* the retry channel holds its one element
  retryEnabledToken,  \* the token channel holds its one element
  retry,              \* the retry goroutine: off, on, or canceled and still running
  errTryLock,         \* the call that holds the lock
  done,               \* the router was shut down
  pc, idx,            \* where each call is, and the level it works on
  stableIndex         \* the level that sampleRetryConsumers stops at

vars == <<currentPipeline, notifyRetry, retryEnabledToken, retry, errTryLock, done, pc, idx,
          stableIndex>>

Levels == 0 .. N - 1

Places == {
  "start", "stable", "sample", "reset",           \* sampleRetryConsumers
  "healthy", "try",                               \* consumeByHealthyPipeline
  "report", "handle", "step", "enable", "launch", \* reportConsumerError
  "accepted", "rejected"}                         \* Consume has returned

\* The places at which a call holds errTryLock.
Locked == {"handle", "step", "enable", "launch"}

TypeOK ==
  /\ currentPipeline \in 0 .. N
  /\ notifyRetry \in BOOLEAN /\ retryEnabledToken \in BOOLEAN /\ done \in BOOLEAN
  /\ retry \in {"off", "on", "canceled"}
  /\ errTryLock \in Calls \cup {None}
  /\ pc \in [Calls -> Places] /\ idx \in [Calls -> 0 .. N] /\ stableIndex \in [Calls -> 0 .. N]

-----------------------------------------------------------------------------
Goto(c, p) == pc' = [pc EXCEPT ![c] = p]

selector == <<currentPipeline, retryEnabledToken, retry>>

\* Consume: a call that finds a retry request takes it and samples the levels
\* above the one that is the current one then, the others go on.
Begin(c) ==
  /\ pc[c] = "start" /\ ~notifyRetry
  /\ Goto(c, "healthy")
  /\ UNCHANGED <<selector, notifyRetry, errTryLock, done, idx, stableIndex>>

BeginSample(c) ==
  /\ pc[c] = "start" /\ notifyRetry
  /\ notifyRetry' = FALSE
  /\ Goto(c, "stable")
  /\ UNCHANGED <<selector, errTryLock, done, idx, stableIndex>>

ReadStableIndex(c) ==
  /\ pc[c] = "stable"
  /\ stableIndex' = [stableIndex EXCEPT ![c] = currentPipeline]
  /\ idx' = [idx EXCEPT ![c] = 0]
  /\ Goto(c, "sample")
  /\ UNCHANGED <<selector, notifyRetry, errTryLock, done>>

SampleAccepted(c) ==
  /\ pc[c] = "sample" /\ idx[c] < stableIndex[c]
  /\ Goto(c, "reset")
  /\ UNCHANGED <<selector, notifyRetry, errTryLock, done, idx, stableIndex>>

SampleFailed(c) ==
  /\ pc[c] = "sample" /\ idx[c] < stableIndex[c]
  /\ idx' = [idx EXCEPT ![c] = @ + 1]
  /\ UNCHANGED <<selector, notifyRetry, errTryLock, done, pc, stableIndex>>

SampleEnds(c) ==
  /\ pc[c] = "sample" /\ idx[c] >= stableIndex[c]
  /\ Goto(c, "healthy")
  /\ UNCHANGED <<selector, notifyRetry, errTryLock, done, idx, stableIndex>>

\* Mutant: the retry goroutine is taken for stopped as soon as it is canceled.
ResetReturnsToken(c) ==
  /\ pc[c] = "reset"
  /\ currentPipeline' = idx[c]
  /\ retry' = IF idx[c] = 0 /\ retry = "on" THEN "canceled" ELSE retry
  /\ retryEnabledToken' = (retryEnabledToken \/ idx[c] = 0)
  /\ Goto(c, "accepted")
  /\ UNCHANGED <<notifyRetry, errTryLock, done, idx, stableIndex>>

\* ResetHealthyPipeline, whatever the current level is by now.
ResetHealthyPipeline(c) ==
  /\ pc[c] = "reset"
  /\ currentPipeline' = idx[c]
  /\ retry' = IF idx[c] = 0 /\ retry = "on" THEN "canceled" ELSE retry
  /\ Goto(c, "accepted")
  /\ UNCHANGED <<retryEnabledToken, notifyRetry, errTryLock, done, idx, stableIndex>>

\* consumeByHealthyPipeline reads the current level.
GetCurrentConsumer(c) ==
  /\ pc[c] = "healthy"
  /\ idx' = [idx EXCEPT ![c] = currentPipeline]
  /\ Goto(c, IF currentPipeline >= N THEN "rejected" ELSE "try")
  /\ UNCHANGED <<selector, notifyRetry, errTryLock, done, stableIndex>>

Accepted(c) ==
  /\ pc[c] = "try" /\ Goto(c, "accepted")
  /\ UNCHANGED <<selector, notifyRetry, errTryLock, done, idx, stableIndex>>

Failed(c) ==
  /\ pc[c] = "try" /\ Goto(c, "report")
  /\ UNCHANGED <<selector, notifyRetry, errTryLock, done, idx, stableIndex>>

\* TryExecute: one call at a time reports an error, the others do without.
TryLocked(c) ==
  /\ pc[c] = "report" /\ errTryLock = None
  /\ errTryLock' = c
  /\ Goto(c, "handle")
  /\ UNCHANGED <<selector, notifyRetry, done, idx, stableIndex>>

TryNotLocked(c) ==
  /\ pc[c] = "report" /\ errTryLock # None
  /\ Goto(c, "healthy")
  /\ UNCHANGED <<selector, notifyRetry, errTryLock, done, idx, stableIndex>>

\* Mutant: the reported level is not compared with the current one.
HandleAnyError(c) ==
  /\ pc[c] = "handle"
  /\ Goto(c, "step")
  /\ UNCHANGED <<selector, notifyRetry, errTryLock, done, idx, stableIndex>>

\* Mutant: the lock is kept when the level is another one.
HandleErrorKeepsLock(c) ==
  /\ pc[c] = "handle"
  /\ IF idx[c] = currentPipeline THEN Goto(c, "step") ELSE Goto(c, "healthy")
  /\ UNCHANGED <<selector, notifyRetry, errTryLock, done, idx, stableIndex>>

\* HandleError: the comparison, NextStableLevel and TryEnableRetry are three
\* steps.
HandleError(c) ==
  /\ pc[c] = "handle"
  /\ IF idx[c] = currentPipeline
     THEN Goto(c, "step") /\ UNCHANGED errTryLock
     ELSE Goto(c, "healthy") /\ errTryLock' = None
  /\ UNCHANGED <<selector, notifyRetry, done, idx, stableIndex>>

NextStableLevel(c) ==
  /\ pc[c] = "step"
  /\ currentPipeline' = currentPipeline + 1
  /\ Goto(c, "enable")
  /\ UNCHANGED <<retryEnabledToken, retry, notifyRetry, errTryLock, done, idx, stableIndex>>

TryEnableRetry(c) ==
  /\ pc[c] = "enable"
  /\ IF retryEnabledToken
     THEN Goto(c, "launch") /\ UNCHANGED errTryLock
     ELSE Goto(c, "healthy") /\ errTryLock' = None
  /\ retryEnabledToken' = FALSE
  /\ UNCHANGED <<currentPipeline, retry, notifyRetry, done, idx, stableIndex>>

\* LaunchRetry sets the cancel function and starts the goroutine.
LaunchRetry(c) ==
  /\ pc[c] = "launch"
  /\ retry' = "on"
  /\ errTryLock' = None
  /\ Goto(c, "healthy")
  /\ UNCHANGED <<currentPipeline, retryEnabledToken, notifyRetry, done, idx, stableIndex>>

\* The ticker of the retry goroutine: a request is put into the channel unless
\* there is one.  A canceled goroutine may still pick its ticker.
Tick ==
  /\ retry # "off"
  /\ notifyRetry' = TRUE
  /\ UNCHANGED <<selector, errTryLock, done, pc, idx, stableIndex>>

\* It ends when it is canceled or the router shut down, and returns the token.
RetryEnds ==
  /\ retry = "canceled" \/ (retry = "on" /\ done)
  /\ retry' = "off" /\ retryEnabledToken' = TRUE
  /\ UNCHANGED <<currentPipeline, notifyRetry, errTryLock, done, pc, idx, stableIndex>>

Shutdown ==
  /\ ~done /\ done' = TRUE
  /\ UNCHANGED <<selector, notifyRetry, errTryLock, pc, idx, stableIndex>>

-----------------------------------------------------------------------------
Init ==
  /\ currentPipeline = 0 /\ notifyRetry = FALSE /\ retryEnabledToken = TRUE
  /\ retry = "off" /\ errTryLock = None /\ done = FALSE
  /\ pc = [c \in Calls |-> "start"]
  /\ idx = [c \in Calls |-> 0] /\ stableIndex = [c \in Calls |-> 0]

Sample(c) ==
  \/ BeginSample(c) \/ ReadStableIndex(c) \/ SampleAccepted(c) \/ SampleFailed(c) \/ SampleEnds(c)
  \/ ResetHealthyPipeline(c)

Report(c) ==
  \/ TryLocked(c) \/ TryNotLocked(c) \/ HandleError(c)
  \/ NextStableLevel(c) \/ TryEnableRetry(c) \/ LaunchRetry(c)

Consume(c) ==
  Begin(c) \/ Sample(c) \/ GetCurrentConsumer(c) \/ Accepted(c) \/ Failed(c) \/ Report(c)

Next == (\E c \in Calls : Consume(c)) \/ Tick \/ RetryEnds \/ Shutdown

Spec == Init /\ [][Next]_vars

\* Every call goes on once it has begun, and a goroutine that is told to end
\* ends.  Nothing makes the ticker fire or a level take the data.
Fairness ==
  /\ \A c \in Calls : WF_vars(pc[c] # "start" /\ Consume(c))
  /\ WF_vars(RetryEnds)

FairSpec == Spec /\ Fairness

-----------------------------------------------------------------------------
(* Properties *)

\* The token is either in its channel, or with a call that is about to launch
\* the retry goroutine, or with the goroutine: there is never a second retry
\* goroutine, and returnRetryToken never blocks.
TokenExact ==
  /\ retryEnabledToken <=> retry = "off" /\ \A c \in Calls : pc[c] # "launch"
  /\ \A c \in Calls : pc[c] = "launch" => retry = "off"

\* A call that has begun returns, although it goes back to the current level
\* after every failure: the failures of all calls are counted.
ConsumeReturns == \A c \in Calls : pc[c] = "healthy" ~> pc[c] \in {"accepted", "rejected"}

-----------------------------------------------------------------------------
(* What the documentation says and the code does not do *)

\* The README of the connector: "The connector will periodically try to
\* reestablish a stable connection with the higher priority levels."  So below
\* the first level a retry goroutine is running or being started.
KeepsRetrying ==
  currentPipeline > 0 /\ ~done =>
    retry # "off" \/ \E c \in Calls : pc[c] \in {"enable", "launch"}
=============================================================================
