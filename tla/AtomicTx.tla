------------------------------- MODULE AtomicTx -------------------------------
(***************************************************************************)
(* What db.WithTx promises its caller, without pools, contexts or races:   *)
(* the work of a callback is committed only if the callback succeeded,     *)
(* success is reported only for committed work, and once the caller has    *)
(* its answer nothing is committed any more.                               *)
(***************************************************************************)
CONSTANT Calls

VARIABLES fate,    \* fate[c]: the transaction on the server
          verdict, \* verdict[c]: how the callback ended
          reply    \* reply[c]: what the caller of WithTx was told

vars == <<fate, verdict, reply>>

Init ==
  /\ fate = [c \in Calls |-> "none"]
  /\ verdict = [c \in Calls |-> "pending"]
  /\ reply = [c \in Calls |-> "none"]

Open(c) ==
  /\ fate[c] = "none" /\ reply[c] = "none"
  /\ fate' = [fate EXCEPT ![c] = "open"]
  /\ UNCHANGED <<verdict, reply>>

Judge(c) ==
  /\ fate[c] # "none" /\ verdict[c] = "pending"
  /\ \E v \in {"success", "failure"} : verdict' = [verdict EXCEPT ![c] = v]
  /\ UNCHANGED <<fate, reply>>

\* The connection or the context may end a transaction at any time.
Abort(c) ==
  /\ fate[c] = "open"
  /\ fate' = [fate EXCEPT ![c] = "aborted"]
  /\ UNCHANGED <<verdict, reply>>

Commit(c) ==
  /\ fate[c] = "open" /\ verdict[c] = "success" /\ reply[c] = "none"
  /\ fate' = [fate EXCEPT ![c] = "committed"]
  /\ UNCHANGED <<verdict, reply>>

ReplyOk(c) ==
  /\ fate[c] = "committed" /\ reply[c] = "none"
  /\ reply' = [reply EXCEPT ![c] = "ok"]
  /\ UNCHANGED <<fate, verdict>>

\* An error says nothing of the fate: a commit whose answer was lost may
\* have taken place, and a rollback may still be under way.
ReplyError(c) ==
  /\ reply[c] = "none"
  /\ reply' = [reply EXCEPT ![c] = "error"]
  /\ UNCHANGED <<fate, verdict>>

\* The last message of a transaction settles it and its caller at once.
CommitAndReply(c) ==
  /\ fate[c] = "open" /\ verdict[c] = "success" /\ reply[c] = "none"
  /\ fate' = [fate EXCEPT ![c] = "committed"]
  /\ \E a \in {"ok", "error"} : reply' = [reply EXCEPT ![c] = a]
  /\ UNCHANGED verdict

AbortAndReply(c) ==
  /\ fate[c] = "open" /\ reply[c] = "none"
  /\ fate' = [fate EXCEPT ![c] = "aborted"]
  /\ reply' = [reply EXCEPT ![c] = "error"]
  /\ UNCHANGED verdict

Next == \E c \in Calls :
  \/ Open(c) \/ Judge(c) \/ Abort(c) \/ Commit(c) \/ ReplyOk(c) \/ ReplyError(c)
  \/ CommitAndReply(c) \/ AbortAndReply(c)

Spec == Init /\ [][Next]_vars
===============================================================================
