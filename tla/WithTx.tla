-------------------------------- MODULE WithTx --------------------------------
(***************************************************************************)
(* db.WithTx called concurrently over one connection pool.  Three kinds of *)
(* process meet here: the caller, running BeginTx, the callback and then   *)
(* Commit or Rollback; database/sql's own goroutine per transaction, which *)
(* waits for the context to end and then rolls back behind the caller's    *)
(* back; and whoever ends the context.  The two that may end a transaction *)
(* race for its done flag.  database/sql is modelled from the way WithTx   *)
(* and the query helpers use it.                                           *)
(***************************************************************************)
EXTENDS HttpErrors, FiniteSets

CONSTANTS Calls,          \* calls of WithTx
          MaxOpenConns,   \* the pool's limit
          FnErrors        \* errors callbacks return of their own accord

ASSUME WithTxAssumption ==
  /\ IsFiniteSet(Calls)
  /\ MaxOpenConns \in Nat \ {0}
  /\ FnErrors \subseteq Errors \ {NoError}

VARIABLES
  pc,       \* pc[c]: where the caller is
  ctx,      \* the context: "live", "canceled" or "deadline"
  server,   \* the transaction as the database has it
  done,     \* Tx.done, claimed by whoever ends the transaction
  awaiter,  \* the goroutine that waits for the context to end
  txConn,   \* whether the transaction holds a pooled connection
  ownConn,  \* whether the callback holds one of its own, through ctx.DB
  verdict,  \* how the callback ended
  fnErr,    \* the error it returned
  result    \* the error WithTx returned

vars == <<pc, ctx, server, done, awaiter, txConn, ownConn, verdict, fnErr, result>>
fnVars == <<verdict, fnErr>>

PCs == {"idle", "begin", "fn", "poolWait", "poolQuery", "fnEnd", "rollback",
        "rollingBack", "commit", "claim", "committing", "returned", "panicked"}

Over(c) == pc[c] \in {"returned", "panicked"}
Ended(c) == ctx[c] # "live"
\* Mutant of CtxErr: context.Cause, which may be any error, for ctx.Err.
CtxCause(c) == [kind |-> "cause", code |-> 0]

CtxErr(c) == IF ctx[c] = "canceled" THEN Canceled ELSE DeadlineExceeded

InUse == Cardinality({c \in Calls : txConn[c]}) + Cardinality({c \in Calls : ownConn[c]})

\* database/sql lends no more connections than Connect allows it to.
ConnFree == InUse < MaxOpenConns

Go(c, here, there) == pc[c] = here /\ pc' = [pc EXCEPT ![c] = there]

Return(c, here, e) ==
  /\ Go(c, here, "returned")
  /\ result' = [result EXCEPT ![c] = e]

Init ==
  /\ pc = [c \in Calls |-> "idle"]
  /\ ctx = [c \in Calls |-> "live"]
  /\ server = [c \in Calls |-> "none"]
  /\ done = [c \in Calls |-> FALSE]
  /\ awaiter = [c \in Calls |-> "none"]
  /\ txConn = [c \in Calls |-> FALSE]
  /\ ownConn = [c \in Calls |-> FALSE]
  /\ verdict = [c \in Calls |-> "pending"]
  /\ fnErr = [c \in Calls |-> NoError]
  /\ result = [c \in Calls |-> NoError]

-------------------------------------------------------------------------------
(* BeginTx: take a connection, or give up with the context *)

CallWithTx(c) ==
  /\ Go(c, "idle", "begin")
  /\ UNCHANGED <<ctx, server, done, awaiter, txConn, ownConn, fnVars, result>>

Begin(c) ==
  /\ ~Ended(c) /\ ConnFree
  /\ Go(c, "begin", "fn")
  /\ server' = [server EXCEPT ![c] = "open"]
  /\ txConn' = [txConn EXCEPT ![c] = TRUE]
  /\ awaiter' = [awaiter EXCEPT ![c] = "waiting"]
  /\ UNCHANGED <<ctx, done, ownConn, fnVars, result>>

\* "failed to begin transaction: %w" keeps the context's error.
BeginGivesUp(c) ==
  /\ Ended(c)
  /\ Return(c, "begin", CtxErr(c))
  /\ UNCHANGED <<ctx, server, done, awaiter, txConn, ownConn, fnVars>>

BeginFails(c) ==
  /\ ConnFree
  /\ Return(c, "begin", Opaque)
  /\ UNCHANGED <<ctx, server, done, awaiter, txConn, ownConn, fnVars>>

-------------------------------------------------------------------------------
(* The callback.  It may also query the pool itself, with ctx.DB: once.    *)

FnAsksPool(c) ==
  /\ Go(c, "fn", "poolWait")
  /\ UNCHANGED <<ctx, server, done, awaiter, txConn, ownConn, fnVars, result>>

PoolGrants(c) ==
  /\ ~Ended(c) /\ ConnFree
  /\ Go(c, "poolWait", "poolQuery")
  /\ ownConn' = [ownConn EXCEPT ![c] = TRUE]
  /\ UNCHANGED <<ctx, server, done, awaiter, txConn, fnVars, result>>

\* Mutant of PoolGivesUp: a query without the context.
PoolWaitsOn(c) ==
  /\ Ended(c) /\ pc[c] = "poolWait"
  /\ UNCHANGED vars

PoolGivesUp(c) ==
  /\ Ended(c)
  /\ Go(c, "poolWait", "fnEnd")
  /\ UNCHANGED <<ctx, server, done, awaiter, txConn, ownConn, fnVars, result>>

\* Mutant of QueryEnds: rows.Close is forgotten.
QueryEndsRowsOpen(c) ==
  /\ Go(c, "poolQuery", "fnEnd")
  /\ UNCHANGED <<ctx, server, done, awaiter, txConn, ownConn, fnVars, result>>

\* QueryMany and QueryOne close their rows whatever the scan says.
QueryEnds(c) ==
  /\ Go(c, "poolQuery", "fnEnd")
  /\ ownConn' = [ownConn EXCEPT ![c] = FALSE]
  /\ UNCHANGED <<ctx, server, done, awaiter, txConn, fnVars, result>>

\* Mutant of FnReturns: the error is not looked at.
FnReturnsToCommit(c, e) ==
  /\ pc[c] \in {"fn", "fnEnd"}
  /\ e \in {NoError} \cup FnErrors
  /\ pc' = [pc EXCEPT ![c] = "commit"]
  /\ verdict' = [verdict EXCEPT ![c] = IF e = NoError THEN "success" ELSE "failure"]
  /\ fnErr' = [fnErr EXCEPT ![c] = e]
  /\ UNCHANGED <<ctx, server, done, awaiter, txConn, ownConn, result>>

\* A callback sees the context's error only once the context has ended, and
\* may also ignore it.
FnReturns(c, e) ==
  /\ pc[c] \in {"fn", "fnEnd"}
  /\ e \in {NoError} \cup FnErrors \cup (IF Ended(c) THEN {CtxErr(c)} ELSE {})
  /\ pc' = [pc EXCEPT ![c] = IF e = NoError THEN "commit" ELSE "rollback"]
  /\ verdict' = [verdict EXCEPT ![c] = IF e = NoError THEN "success" ELSE "failure"]
  /\ fnErr' = [fnErr EXCEPT ![c] = e]
  /\ UNCHANGED <<ctx, server, done, awaiter, txConn, ownConn, result>>

\* Mutant of FnPanics: no deferred rollback.
FnPanicsUnrecovered(c) ==
  /\ pc[c] \in {"fn", "fnEnd"}
  /\ pc' = [pc EXCEPT ![c] = "panicked"]
  /\ verdict' = [verdict EXCEPT ![c] = "panic"]
  /\ UNCHANGED <<ctx, server, done, awaiter, txConn, ownConn, fnErr, result>>

FnPanics(c) ==
  /\ pc[c] \in {"fn", "fnEnd"}
  /\ pc' = [pc EXCEPT ![c] = "rollback"]
  /\ verdict' = [verdict EXCEPT ![c] = "panic"]
  /\ UNCHANGED <<ctx, server, done, awaiter, txConn, ownConn, fnErr, result>>

-------------------------------------------------------------------------------
(* Rollback, after an error or a panic *)

\* The panic goes on whatever the rollback says; an error is returned as it
\* is after a good rollback, and as text inside another after a failed one.
AfterRollback(c, here, rolledBack) ==
  IF verdict[c] = "panic"
  THEN Go(c, here, "panicked") /\ UNCHANGED result
  ELSE Return(c, here, IF rolledBack THEN fnErr[c] ELSE Opaque)

\* sql.ErrTxDone: the awaiter was faster and may not even be through.
RollbackTooLate(c) ==
  /\ done[c]
  /\ AfterRollback(c, "rollback", FALSE)
  /\ UNCHANGED <<ctx, server, done, awaiter, txConn, ownConn, fnVars>>

ClaimRollback(c) ==
  /\ ~done[c]
  /\ Go(c, "rollback", "rollingBack")
  /\ done' = [done EXCEPT ![c] = TRUE]
  /\ UNCHANGED <<ctx, server, awaiter, txConn, ownConn, fnVars, result>>

\* If the driver reports an error the connection is dropped, and the server
\* aborts as well.
Rollback(c, ok) ==
  /\ AfterRollback(c, "rollingBack", ok)
  /\ server' = [server EXCEPT ![c] = "aborted"]
  /\ txConn' = [txConn EXCEPT ![c] = FALSE]
  /\ UNCHANGED <<ctx, done, awaiter, ownConn, fnVars>>

-------------------------------------------------------------------------------
(* Commit, after a nil error *)

\* Mutant of CommitChecks: the context is not looked at.
CommitBlindly(c) ==
  /\ Go(c, "commit", "claim")
  /\ UNCHANGED <<ctx, server, done, awaiter, txConn, ownConn, fnVars, result>>

\* An ended context refuses the commit and leaves the rollback to the awaiter.
CommitChecks(c) ==
  /\ IF Ended(c) THEN Return(c, "commit", IF done[c] THEN Opaque ELSE CtxErr(c))
                 ELSE Go(c, "commit", "claim") /\ UNCHANGED result
  /\ UNCHANGED <<ctx, server, done, awaiter, txConn, ownConn, fnVars>>

ClaimCommit(c) ==
  /\ IF done[c] THEN Return(c, "claim", Opaque) /\ UNCHANGED done
                ELSE /\ Go(c, "claim", "committing")
                     /\ done' = [done EXCEPT ![c] = TRUE]
                     /\ UNCHANGED result
  /\ UNCHANGED <<ctx, server, awaiter, txConn, ownConn, fnVars>>

\* A commit that fails may have been refused, or its answer lost.
Commit(c, fate, e) ==
  /\ fate \in {"committed", "aborted"}
  /\ e \in {NoError, Opaque} \cup (IF Ended(c) THEN {CtxErr(c)} ELSE {})
  /\ e = NoError => fate = "committed"
  /\ Return(c, "committing", e)
  /\ server' = [server EXCEPT ![c] = fate]
  /\ txConn' = [txConn EXCEPT ![c] = FALSE]
  /\ UNCHANGED <<ctx, done, awaiter, ownConn, fnVars>>

-------------------------------------------------------------------------------
(* The awaiter, and the contexts *)

Awake(c) ==
  /\ awaiter[c] = "waiting" /\ (Ended(c) \/ done[c])
  /\ awaiter' = [awaiter EXCEPT ![c] = IF done[c] THEN "gone" ELSE "rollingBack"]
  /\ done' = [done EXCEPT ![c] = TRUE]
  /\ UNCHANGED <<pc, ctx, server, txConn, ownConn, fnVars, result>>

AwaiterRollsBack(c) ==
  /\ awaiter[c] = "rollingBack"
  /\ awaiter' = [awaiter EXCEPT ![c] = "gone"]
  /\ server' = [server EXCEPT ![c] = "aborted"]
  /\ txConn' = [txConn EXCEPT ![c] = FALSE]
  /\ UNCHANGED <<pc, ctx, done, ownConn, fnVars, result>>

\* The client hangs up, or the request's timeout runs out.
EndContext(c, why) ==
  /\ ~Ended(c) /\ ~Over(c)
  /\ ctx' = [ctx EXCEPT ![c] = why]
  /\ UNCHANGED <<pc, server, done, awaiter, txConn, ownConn, fnVars, result>>

-------------------------------------------------------------------------------
SinkErrors == {NoError, Opaque, Canceled, DeadlineExceeded}

CallerStep(c) ==
  \/ Begin(c) \/ BeginGivesUp(c) \/ BeginFails(c)
  \/ FnAsksPool(c) \/ PoolGrants(c) \/ PoolGivesUp(c) \/ QueryEnds(c)
  \/ \E e \in FnErrors \cup SinkErrors : FnReturns(c, e)
  \/ FnPanics(c)
  \/ RollbackTooLate(c) \/ ClaimRollback(c)
  \/ \E ok \in BOOLEAN : Rollback(c, ok)
  \/ CommitChecks(c) \/ ClaimCommit(c)
  \/ \E fate \in {"committed", "aborted"}, e \in SinkErrors : Commit(c, fate, e)

AwaiterStep(c) == Awake(c) \/ AwaiterRollsBack(c)

Quiet == (\A c \in Calls : Over(c) /\ awaiter[c] \in {"none", "gone"}) /\ UNCHANGED vars

Next ==
  \/ \E c \in Calls : CallWithTx(c) \/ CallerStep(c) \/ AwaiterStep(c)
  \/ \E c \in Calls, why \in {"canceled", "deadline"} : EndContext(c, why)
  \/ Quiet

Spec == Init /\ [][Next]_vars

\* Goroutines that can run do run, callbacks return and the database answers.
\* Nothing makes a call arrive or a context end.
FairSpec == Spec /\ \A c \in Calls : WF_vars(CallerStep(c)) /\ WF_vars(AwaiterStep(c))

-------------------------------------------------------------------------------
(* Properties *)

TypeOK ==
  /\ pc \in [Calls -> PCs]
  /\ ctx \in [Calls -> {"live", "canceled", "deadline"}]
  /\ server \in [Calls -> {"none", "open", "committed", "aborted"}]
  /\ done \in [Calls -> BOOLEAN]
  /\ awaiter \in [Calls -> {"none", "waiting", "rollingBack", "gone"}]
  /\ txConn \in [Calls -> BOOLEAN]
  /\ ownConn \in [Calls -> BOOLEAN]
  /\ verdict \in [Calls -> {"pending", "success", "failure", "panic"}]
  /\ fnErr \in [Calls -> Errors]
  /\ result \in [Calls -> Errors]

\* When WithTx has returned or re-raised a panic, a transaction is still open,
\* and its connection still out, only if the awaiter is about to roll it back
\* (db/query.go:31-48: each way out has ended the transaction, or found its
\* context ended).
NothingLeftBehind ==
  \A c \in Calls : Over(c) /\ (server[c] = "open" \/ txConn[c] \/ ownConn[c]) =>
    /\ ~ownConn[c]
    /\ awaiter[c] = "rollingBack" \/ (awaiter[c] = "waiting" /\ Ended(c) /\ ~done[c])

\* A callback's work is committed only if the callback succeeded, success is
\* reported only for committed work, and nothing is committed behind a caller
\* that has its answer: db/query.go:38-50, against the awaiter.
Judgement == [c \in Calls |-> IF verdict[c] = "panic" THEN "failure" ELSE verdict[c]]
Reply == [c \in Calls |-> IF ~Over(c) THEN "none"
                          ELSE IF pc[c] = "returned" /\ result[c] = NoError
                               THEN "ok" ELSE "error"]
Promise == INSTANCE AtomicTx WITH fate <- server, verdict <- Judgement, reply <- Reply
KeepsPromise == Promise!Spec

\* db/query.go:22: "If the context is cancelled, the transaction will be
\* rolled back": true of a context that ends before Commit has looked at it.
CancelBeforeCommitAborts ==
  \A c \in Calls :
    []( /\ pc[c] \in {"fn", "poolWait", "poolQuery", "fnEnd", "commit"}
        /\ Ended(c)
        => [](server[c] # "committed") )

\* Every connection is out with a callback that waits for a second one.
PoolStuck ==
  /\ ~ConnFree
  /\ \A c \in Calls : txConn[c] \/ ownConn[c] => pc[c] = "poolWait"

\* A call of WithTx that does not return is one held up by callbacks that
\* use ctx.DB inside their transaction and have used up the pool.
StuckOnlyOnPool == \A c \in Calls : pc[c] = "begin" ~> Over(c) \/ PoolStuck

\* If contexts end at the latest with a timeout, every call returns, its
\* transaction is settled and its connection back, whatever callbacks do.
TimeoutsUnstick ==
  (\A c \in Calls : pc[c] = "begin" ~> Ended(c) \/ Over(c)) =>
    \A c \in Calls : pc[c] = "begin" ~> Over(c) /\ server[c] # "open" /\ ~txConn[c]

\* docs/kb/self/capabilities/database-layer.md:56-57: "A cancelled or timed-out
\* context surfaces `context.Canceled` / `context.DeadlineExceeded`": if the
\* callback returns the context's error, so does WithTx.
ContextErrorsSurface ==
  \A c \in Calls : pc[c] = "returned" /\ fnErr[c] \in {Canceled, DeadlineExceeded} =>
    result[c].kind = fnErr[c].kind
===============================================================================
