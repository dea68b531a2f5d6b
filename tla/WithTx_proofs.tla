---------------------------- MODULE WithTx_proofs ----------------------------
(***************************************************************************)
(* Safety of WithTx, for any number of calls and any pool limit.           *)
(***************************************************************************)
EXTENDS WithTx, TLAPS

\* Before BeginTx succeeds nothing of a transaction exists.
NotBegun(c) ==
  pc[c] \in {"idle", "begin"} =>
    server[c] = "none" /\ verdict[c] = "pending" /\ result[c] = NoError

\* A transaction that does not exist has no parts; one that does has its
\* awaiter, and its connection for as long as it is open.
Parts(c) ==
  /\ server[c] = "none" <=> awaiter[c] = "none"
  /\ server[c] = "none" => pc[c] \in {"idle", "begin", "returned"} /\ ~done[c] /\ verdict[c] = "pending"
  /\ txConn[c] <=> server[c] = "open"
  /\ ownConn[c] <=> pc[c] = "poolQuery"

\* Whoever sets done ends the transaction: the caller or the awaiter.
OneEnds(c) ==
  /\ pc[c] \in {"rollingBack", "committing"} =>
       done[c] /\ server[c] = "open" /\ awaiter[c] # "rollingBack"
  /\ awaiter[c] = "rollingBack" => done[c] /\ server[c] = "open"
  /\ server[c] = "open" /\ done[c] =>
       pc[c] \in {"rollingBack", "committing"} \/ awaiter[c] = "rollingBack"
  /\ server[c] = "open" /\ ~done[c] => awaiter[c] = "waiting"
  /\ server[c] \in {"committed", "aborted"} => done[c]
  /\ Over(c) /\ server[c] = "open" /\ ~done[c] => Ended(c)

\* The caller goes to Commit exactly with a callback's success.
Verdicts(c) ==
  /\ pc[c] \in {"fn", "poolWait", "poolQuery", "fnEnd"} => verdict[c] = "pending"
  /\ pc[c] \in {"rollback", "rollingBack"} => verdict[c] \in {"failure", "panic"}
  /\ pc[c] \in {"commit", "claim", "committing"} => verdict[c] = "success"
  /\ pc[c] = "panicked" => verdict[c] = "panic"
  /\ verdict[c] = "failure" => fnErr[c] # NoError

\* What a committed transaction and a reported success tell of each other.
Replies(c) ==
  /\ server[c] = "committed" => verdict[c] = "success" /\ Over(c)
  /\ pc[c] = "returned" /\ result[c] = NoError => server[c] = "committed"

CallInv(c) == NotBegun(c) /\ Parts(c) /\ OneEnds(c) /\ Verdicts(c) /\ Replies(c)

IInv == TypeOK /\ \A c \in Calls : CallInv(c)

-------------------------------------------------------------------------------
LEMMA ErrorsDiffer ==
  /\ NoError \in Errors /\ Opaque \in Errors /\ Canceled \in Errors /\ DeadlineExceeded \in Errors
  /\ Opaque # NoError /\ Canceled # NoError /\ DeadlineExceeded # NoError
BY DEF Errors, ErrorKinds, NoError, Opaque, Canceled, DeadlineExceeded

LEMMA CtxErrIsError == \A c : CtxErr(c) \in Errors \ {NoError}
BY ErrorsDiffer DEF CtxErr

USE DEF fnVars

LEMMA InitInv == Init => IInv
BY ErrorsDiffer DEF Init, IInv, TypeOK, PCs, CallInv, NotBegun, Parts, OneEnds, Verdicts, Replies, Over

LEMMA CallerInv ==
  ASSUME IInv, NEW c \in Calls, CallWithTx(c) \/ CallerStep(c)
  PROVE  IInv'
PROOF
<1> USE ErrorsDiffer, CtxErrIsError
<1> USE DEF IInv, TypeOK, PCs, CallInv, NotBegun, Parts, OneEnds, Verdicts, Replies, Over, Ended, Go, Return
<1>1. CASE CallWithTx(c)
  BY <1>1 DEF CallWithTx
<1>2. CASE Begin(c)
  BY <1>2 DEF Begin
<1>3. CASE BeginGivesUp(c)
  BY <1>3 DEF BeginGivesUp
<1>4. CASE BeginFails(c)
  BY <1>4 DEF BeginFails
<1>5. CASE FnAsksPool(c)
  BY <1>5 DEF FnAsksPool
<1>6. CASE PoolGrants(c)
  BY <1>6 DEF PoolGrants
<1>7. CASE PoolGivesUp(c)
  BY <1>7 DEF PoolGivesUp
<1>8. CASE QueryEnds(c)
  BY <1>8 DEF QueryEnds
<1>9. ASSUME NEW e \in FnErrors \cup SinkErrors, FnReturns(c, e)
      PROVE  IInv'
  BY <1>9, WithTxAssumption DEF FnReturns, SinkErrors
<1>10. CASE FnPanics(c)
  BY <1>10 DEF FnPanics
<1>11. CASE RollbackTooLate(c)
  BY <1>11 DEF RollbackTooLate, AfterRollback
<1>12. CASE ClaimRollback(c)
  BY <1>12 DEF ClaimRollback
<1>13. ASSUME NEW ok \in BOOLEAN, Rollback(c, ok)
       PROVE  IInv'
  BY <1>13 DEF Rollback, AfterRollback
<1>14. CASE CommitChecks(c)
  BY <1>14 DEF CommitChecks
<1>15. CASE ClaimCommit(c)
  <2>1. CASE done[c]
    BY <1>15, <2>1 DEF ClaimCommit
  <2>2. CASE ~done[c]
    <3>1. server[c] = "open" /\ awaiter[c] # "rollingBack" /\ pc[c] = "claim" /\ verdict[c] = "success"
      BY <1>15, <2>2 DEF ClaimCommit
    <3>2. /\ pc' = [pc EXCEPT ![c] = "committing"]
          /\ done' = [done EXCEPT ![c] = TRUE]
          /\ UNCHANGED <<ctx, server, awaiter, txConn, ownConn, fnVars, result>>
      BY <1>15, <2>2 DEF ClaimCommit
    <3> QED
      BY <3>1, <3>2
  <2> QED
    BY <2>1, <2>2
<1>16. ASSUME NEW fate \in {"committed", "aborted"}, NEW e \in SinkErrors, Commit(c, fate, e)
       PROVE  IInv'
  BY <1>16 DEF Commit, SinkErrors
<1> QED
  BY <1>1, <1>2, <1>3, <1>4, <1>5, <1>6, <1>7, <1>8, <1>9, <1>10, <1>11, <1>12, <1>13,
     <1>14, <1>15, <1>16 DEF CallerStep

LEMMA AwaiterInv ==
  ASSUME IInv, NEW c \in Calls, AwaiterStep(c)
  PROVE  IInv'
PROOF
<1> USE DEF IInv, TypeOK, PCs, CallInv, NotBegun, Parts, OneEnds, Verdicts, Replies, Over, Ended
<1>1. CASE Awake(c)
  BY <1>1 DEF Awake
<1>2. CASE AwaiterRollsBack(c)
  BY <1>2 DEF AwaiterRollsBack
<1> QED
  BY <1>1, <1>2 DEF AwaiterStep

LEMMA ContextInv ==
  ASSUME IInv, NEW c \in Calls, NEW why \in {"canceled", "deadline"}, EndContext(c, why)
  PROVE  IInv'
BY DEF EndContext, IInv, TypeOK, PCs, CallInv, NotBegun, Parts, OneEnds, Verdicts, Replies,
       Over, Ended

LEMMA StutterInv == IInv /\ UNCHANGED vars => IInv'
BY DEF vars, IInv, TypeOK, PCs, CallInv, NotBegun, Parts, OneEnds, Verdicts, Replies, Over, Ended

LEMMA StepInv == IInv /\ [Next]_vars => IInv'
BY CallerInv, AwaiterInv, ContextInv, StutterInv DEF Next, Quiet

LEMMA Inductive == Spec => []IInv
BY InitInv, StepInv, PTL DEF Spec

\* Every variable keeps its type: no call of WithTx leaves the protocol.
THEOREM TypeCorrect == Spec => []TypeOK
<1>1. IInv => TypeOK
  BY DEF IInv
<1> QED
  BY <1>1, Inductive, PTL

\* What WithTx leaves behind when it returns is only what its awaiter rolls
\* back, for any number of concurrent calls.
THEOREM NothingLeft == Spec => []NothingLeftBehind
<1>1. IInv => NothingLeftBehind
  BY DEF IInv, TypeOK, CallInv, Parts, OneEnds, NothingLeftBehind, Over, Ended
<1> QED
  BY <1>1, Inductive, PTL

-------------------------------------------------------------------------------
(* Cancellation *)

\* A call whose context ended before Commit looked at it never gets as far as
\* the commit itself.
Doomed(c) ==
  /\ Ended(c) /\ server[c] # "committed"
  /\ pc[c] \in {"fn", "poolWait", "poolQuery", "fnEnd", "commit",
                "rollback", "rollingBack", "returned", "panicked"}

LEMMA StaysDoomed ==
  ASSUME NEW c \in Calls, IInv, Doomed(c), [Next]_vars
  PROVE  Doomed(c)'
PROOF
<1> USE DEF Doomed, IInv, TypeOK, Ended
<1>1. ASSUME NEW d \in Calls, CallWithTx(d) \/ CallerStep(d)
      PROVE  Doomed(c)'
  <2>1. CASE d = c
    BY <1>1, <2>1 DEF CallerStep, CallWithTx, Begin, BeginGivesUp, BeginFails, FnAsksPool, PoolGrants,
       PoolGivesUp, QueryEnds, FnReturns, FnPanics, RollbackTooLate, ClaimRollback, Rollback,
       AfterRollback, CommitChecks, ClaimCommit, Commit, Go, Return
  <2>2. CASE d # c
    <3>1. pc'[c] = pc[c] /\ ctx'[c] = ctx[c] /\ server'[c] = server[c]
      BY <1>1, <2>2 DEF CallerStep, CallWithTx, Begin, BeginGivesUp, BeginFails, FnAsksPool, PoolGrants,
         PoolGivesUp, QueryEnds, FnReturns, FnPanics, RollbackTooLate, ClaimRollback, Rollback,
         AfterRollback, CommitChecks, ClaimCommit, Commit, Go, Return
    <3> QED
      BY <3>1
  <2> QED
    BY <2>1, <2>2
<1>2. ASSUME NEW d \in Calls,
             AwaiterStep(d) \/ \E why \in {"canceled", "deadline"} : EndContext(d, why)
      PROVE  Doomed(c)'
  BY <1>2 DEF AwaiterStep, Awake, AwaiterRollsBack, EndContext
<1>3. UNCHANGED vars => Doomed(c)'
  BY DEF vars
<1> QED
  BY <1>1, <1>2, <1>3 DEF Next, Quiet

\* A context that ends while the callback runs, or before Commit looks at it,
\* keeps the transaction from ever being committed.
THEOREM CancelAborts == Spec => CancelBeforeCommitAborts
PROOF
<1> SUFFICES ASSUME NEW c \in Calls
             PROVE  Spec => []( /\ pc[c] \in {"fn", "poolWait", "poolQuery", "fnEnd", "commit"}
                                /\ Ended(c)
                                => [](server[c] # "committed") )
  BY DEF CancelBeforeCommitAborts
<1>1. IInv /\ pc[c] \in {"fn", "poolWait", "poolQuery", "fnEnd", "commit"} /\ Ended(c) => Doomed(c)
  BY DEF Doomed, IInv, CallInv, Replies, Over
<1>2. IInv /\ Doomed(c) /\ [Next]_vars => Doomed(c)'
  BY StaysDoomed
<1>3. Doomed(c) => server[c] # "committed"
  BY DEF Doomed
<1> QED
  BY <1>1, <1>2, <1>3, Inductive, PTL DEF Spec

-------------------------------------------------------------------------------
(* WithTx implements AtomicTx *)

LEMMA InitPromise == Init => Promise!Init
BY DEF Init, Promise!Init, Over, Judgement, Reply

LEMMA PromiseStep ==
  ASSUME NEW c \in Calls,
         \/ Promise!Open(c) \/ Promise!Judge(c) \/ Promise!Abort(c) \/ Promise!ReplyError(c)
         \/ Promise!CommitAndReply(c) \/ Promise!AbortAndReply(c)
  PROVE  Promise!Next
BY DEF Promise!Next

\* The two ways in which a call ends, as the abstract caller sees them.
LEMMA EndsWithError ==
  ASSUME TypeOK, NEW c \in Calls, ~Over(c),
         \/ /\ pc' = [pc EXCEPT ![c] = "panicked"]
            /\ UNCHANGED result
         \/ /\ pc' = [pc EXCEPT ![c] = "returned"]
            /\ \E e \in Errors \ {NoError} : result' = [result EXCEPT ![c] = e]
  PROVE  Reply[c] = "none" /\ Reply' = [Reply EXCEPT ![c] = "error"]
PROOF
<1>1. Reply[c] = "none"
  BY DEF Reply
<1>2. Reply'[c] = "error"
  BY DEF Reply, Over, TypeOK
<1>3. \A d \in Calls \ {c} : Reply'[d] = Reply[d]
  BY DEF Reply, Over, TypeOK
<1>4. Reply' = [d \in Calls |-> Reply'[d]] /\ Reply = [d \in Calls |-> Reply[d]]
  BY DEF Reply
<1> QED
  BY <1>1, <1>2, <1>3, <1>4

LEMMA EndsWell ==
  ASSUME TypeOK, NEW c \in Calls, ~Over(c),
         pc' = [pc EXCEPT ![c] = "returned"], result' = [result EXCEPT ![c] = NoError]
  PROVE  Reply[c] = "none" /\ Reply' = [Reply EXCEPT ![c] = "ok"]
PROOF
<1>1. Reply[c] = "none"
  BY DEF Reply
<1>2. Reply'[c] = "ok"
  BY ErrorsDiffer DEF Reply, Over, TypeOK
<1>3. \A d \in Calls \ {c} : Reply'[d] = Reply[d]
  BY DEF Reply, Over, TypeOK
<1>4. Reply' = [d \in Calls |-> Reply'[d]] /\ Reply = [d \in Calls |-> Reply[d]]
  BY DEF Reply
<1> QED
  BY <1>1, <1>2, <1>3, <1>4

\* A step that leaves a call running, or stopped, leaves its reply.
LEMMA StillRunning ==
  ASSUME TypeOK, NEW c \in Calls, ~Over(c), UNCHANGED result,
         NEW p \in PCs \ {"returned", "panicked"}, pc' = [pc EXCEPT ![c] = p]
  PROVE  Reply' = Reply
BY DEF Reply, Over, TypeOK

LEMMA CallerPromise ==
  ASSUME IInv, NEW c \in Calls, CallWithTx(c) \/ CallerStep(c)
  PROVE  [Promise!Next]_(Promise!vars)
PROOF
<1> USE ErrorsDiffer, CtxErrIsError, PromiseStep
<1>0. /\ TypeOK /\ CallInv(c)
      /\ UNCHANGED verdict => UNCHANGED Judgement
      /\ ~Over(c)
  BY DEF IInv, Judgement, CallerStep, Over, CallWithTx, Begin, BeginGivesUp, BeginFails, FnAsksPool,
         PoolGrants, PoolGivesUp, QueryEnds, FnReturns, FnPanics, RollbackTooLate, ClaimRollback,
         Rollback, AfterRollback, CommitChecks, ClaimCommit, Commit, Go, Return
<1>1. CASE CallWithTx(c)
  BY <1>0, <1>1, StillRunning DEF CallWithTx, Go, PCs, Promise!vars
<1>2. CASE Begin(c)
  <2>1. Promise!Open(c)
    BY <1>0, <1>2, StillRunning DEF Begin, Go, PCs, Reply, CallInv, NotBegun, Promise!Open
  <2> QED
    BY <2>1
<1>3. CASE BeginGivesUp(c)
  <2>1. Promise!ReplyError(c)
    BY <1>0, <1>3, EndsWithError DEF BeginGivesUp, Go, Return, Promise!ReplyError
  <2> QED
    BY <2>1
<1>4. CASE BeginFails(c)
  <2>1. Promise!ReplyError(c)
    BY <1>0, <1>4, EndsWithError DEF BeginFails, Go, Return, Promise!ReplyError
  <2> QED
    BY <2>1
<1>5. CASE FnAsksPool(c)
  BY <1>0, <1>5, StillRunning DEF FnAsksPool, Go, PCs, Promise!vars
<1>6. CASE PoolGrants(c)
  BY <1>0, <1>6, StillRunning DEF PoolGrants, Go, PCs, Promise!vars
<1>7. CASE PoolGivesUp(c)
  BY <1>0, <1>7, StillRunning DEF PoolGivesUp, Go, PCs, Promise!vars
<1>8. CASE QueryEnds(c)
  BY <1>0, <1>8, StillRunning DEF QueryEnds, Go, PCs, Promise!vars
<1>9. ASSUME NEW e \in FnErrors \cup SinkErrors, FnReturns(c, e)
      PROVE  [Promise!Next]_(Promise!vars)
  <2>1. UNCHANGED Reply
    BY <1>0, <1>9, StillRunning DEF FnReturns, PCs
  <2>2. Promise!Judge(c)
    BY <1>0, <1>9, <2>1 DEF FnReturns, Judgement, TypeOK, CallInv, Parts, Verdicts, Promise!Judge
  <2> QED
    BY <2>2
<1>10. CASE FnPanics(c)
  <2>1. UNCHANGED Reply
    BY <1>0, <1>10, StillRunning DEF FnPanics, PCs
  <2>2. Promise!Judge(c)
    BY <1>0, <1>10, <2>1 DEF FnPanics, Judgement, TypeOK, CallInv, Parts, Verdicts, Promise!Judge
  <2> QED
    BY <2>2
<1>11. CASE RollbackTooLate(c)
  <2>1. verdict[c] # "panic" => Opaque \in Errors \ {NoError}
    OBVIOUS
  <2>2. Promise!ReplyError(c)
    BY <1>0, <1>11, EndsWithError DEF RollbackTooLate, AfterRollback, Go, Return, Promise!ReplyError
  <2> QED
    BY <2>2
<1>12. CASE ClaimRollback(c)
  BY <1>0, <1>12, StillRunning DEF ClaimRollback, Go, PCs, Promise!vars
<1>13. ASSUME NEW ok \in BOOLEAN, Rollback(c, ok)
       PROVE  [Promise!Next]_(Promise!vars)
  <2>1. verdict[c] # "panic" => fnErr[c] \in Errors \ {NoError}
    BY <1>0, <1>13 DEF Rollback, AfterRollback, Go, Return, CallInv, Verdicts, TypeOK
  <2>2. Promise!AbortAndReply(c)
    BY <1>0, <1>13, <2>1, EndsWithError
    DEF Rollback, AfterRollback, Go, Return, CallInv, OneEnds, Promise!AbortAndReply
  <2> QED
    BY <2>2
<1>14. CASE CommitChecks(c)
  <2>1. CASE Ended(c)
    <3>1. Promise!ReplyError(c)
      BY <1>0, <1>14, <2>1, EndsWithError DEF CommitChecks, Go, Return, Promise!ReplyError
    <3> QED
      BY <3>1
  <2>2. CASE ~Ended(c)
    BY <1>0, <1>14, <2>2, StillRunning DEF CommitChecks, Go, PCs, Promise!vars
  <2> QED
    BY <2>1, <2>2
<1>15. CASE ClaimCommit(c)
  <2>1. CASE done[c]
    <3>1. Promise!ReplyError(c)
      BY <1>0, <1>15, <2>1, EndsWithError DEF ClaimCommit, Go, Return, Promise!ReplyError
    <3> QED
      BY <3>1
  <2>2. CASE ~done[c]
    BY <1>0, <1>15, <2>2, StillRunning DEF ClaimCommit, Go, PCs, Promise!vars
  <2> QED
    BY <2>1, <2>2
<1>16. ASSUME NEW fate \in {"committed", "aborted"}, NEW e \in SinkErrors, Commit(c, fate, e)
       PROVE  [Promise!Next]_(Promise!vars)
  <2>0. server[c] = "open" /\ Judgement[c] = "success"
    BY <1>0, <1>16 DEF Commit, Go, Return, CallInv, OneEnds, Verdicts, Judgement
  <2>1. CASE e = NoError
    <3>1. Promise!CommitAndReply(c)
      BY <1>0, <1>16, <2>0, <2>1, EndsWell DEF Commit, Go, Return, Promise!CommitAndReply
    <3> QED
      BY <3>1
  <2>2. CASE e # NoError /\ fate = "committed"
    <3>1. Promise!CommitAndReply(c)
      BY <1>0, <1>16, <2>0, <2>2, EndsWithError DEF Commit, Go, Return, SinkErrors, Promise!CommitAndReply
    <3> QED
      BY <3>1
  <2>3. CASE e # NoError /\ fate = "aborted"
    <3>1. Promise!AbortAndReply(c)
      BY <1>0, <1>16, <2>0, <2>3, EndsWithError DEF Commit, Go, Return, SinkErrors, Promise!AbortAndReply
    <3> QED
      BY <3>1
  <2> QED
    BY <2>1, <2>2, <2>3
<1> QED
  BY <1>1, <1>2, <1>3, <1>4, <1>5, <1>6, <1>7, <1>8, <1>9, <1>10, <1>11, <1>12, <1>13,
     <1>14, <1>15, <1>16 DEF CallerStep

LEMMA OthersPromise ==
  ASSUME IInv, NEW c \in Calls,
         AwaiterStep(c) \/ (\E why \in {"canceled", "deadline"} : EndContext(c, why))
  PROVE  [Promise!Next]_(Promise!vars)
PROOF
<1>1. CASE Awake(c)
  BY <1>1 DEF Awake, Judgement, Reply, Over, Promise!vars
<1>2. CASE AwaiterRollsBack(c)
  <2>1. Promise!Abort(c)
    BY <1>2 DEF AwaiterRollsBack, IInv, CallInv, OneEnds, Judgement, Reply, Over, Promise!Abort
  <2> QED
    BY <2>1, PromiseStep
<1>3. ASSUME NEW why \in {"canceled", "deadline"}, EndContext(c, why)
      PROVE  [Promise!Next]_(Promise!vars)
  BY <1>3 DEF EndContext, Judgement, Reply, Over, Promise!vars
<1> QED
  BY <1>1, <1>2, <1>3 DEF AwaiterStep

\* WithTx implements AtomicTx: a commit needs a callback's success, success is
\* reported only for a commit, and no commit follows an answer.
THEOREM Implements == Spec => KeepsPromise
<1>1. IInv /\ [Next]_vars => [Promise!Next]_(Promise!vars)
  <2>1. IInv /\ UNCHANGED vars => UNCHANGED Promise!vars
    BY DEF vars, Promise!vars, Judgement, Reply, Over
  <2> QED
    BY <2>1, CallerPromise, OthersPromise DEF Next, Quiet
<1> QED
  BY <1>1, InitPromise, Inductive, PTL DEF Spec, Promise!Spec, KeepsPromise
===============================================================================
