-------------------------------- MODULE Lockstep --------------------------------
(***************************************************************************)
(* What the barrier of a conducted run promises, as if everybody saw       *)
(* everybody else at once: there are no logs, no folds, no pushes and no   *)
(* manifest.  Members take phase after phase; one enters a phase when all  *)
(* that are in play have settled the one before and no relay of an earlier *)
(* phase is open, and only a finished run is called complete.              *)
(***************************************************************************)
EXTENDS Naturals

CONSTANTS Members, Relays

VARIABLES
  settled,  \* settled[m]: the last phase m has settled
  busy,     \* busy[m]: the phase m is at work on, or 0
  left,     \* members that have left play, for a while or for good
  sent,     \* relays sent
  answered, \* relays answered
  over      \* whether some member is told that the run is complete

vars == <<settled, busy, left, sent, answered, over>>

Init ==
  /\ settled = [m \in Members |-> 0]
  /\ busy = [m \in Members |-> 0]
  /\ left = {} /\ sent = {} /\ answered = {}
  /\ over = FALSE

\* The promise.  A member that fell behind others may skip phases.
MayEnter(p) ==
  /\ \A n \in Members \ left : settled[n] >= p - 1
  /\ \A r \in sent : r.phase < p /\ r.from \notin left => r \in answered

Enter(m, p) ==
  /\ busy[m] = 0 /\ p > settled[m] /\ MayEnter(p)
  /\ busy' = [busy EXCEPT ![m] = p]
  /\ UNCHANGED <<settled, left, sent, answered, over>>

Finish(m) ==
  /\ busy[m] # 0
  /\ settled' = [settled EXCEPT ![m] = busy[m]]
  /\ busy' = [busy EXCEPT ![m] = 0]
  /\ UNCHANGED <<left, sent, answered, over>>

Leave(m) ==
  /\ m \notin left
  /\ busy' = [busy EXCEPT ![m] = 0]
  /\ left' = left \cup {m}
  /\ UNCHANGED <<settled, sent, answered, over>>

Ask(r) ==
  /\ r \notin sent /\ busy[r.from] = r.phase
  /\ sent' = sent \cup {r}
  /\ UNCHANGED <<settled, busy, left, answered, over>>

Answer(r) ==
  /\ r \in sent \ answered
  /\ answered' = answered \cup {r}
  /\ UNCHANGED <<settled, busy, left, sent, over>>

\* The word may also be taken back, and given again.
Tell ==
  /\ \A m \in Members : settled[m] = 4
  /\ sent \subseteq answered
  /\ over' = ~over
  /\ UNCHANGED <<settled, busy, left, sent, answered>>

Next ==
  \/ \E m \in Members : Finish(m) \/ Leave(m) \/ \E p \in 1..4 : Enter(m, p)
  \/ \E r \in Relays : Ask(r) \/ Answer(r)
  \/ Tell

Spec == Init /\ [][Next]_vars
===============================================================================
