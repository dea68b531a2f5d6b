-------------------------------- MODULE Conduct --------------------------------
(***************************************************************************)
(* One run of scripts/conduct-board.sh: a parent work item, its children   *)
(* in other repositories, and the barrier that lets them advance a phase   *)
(* at a time.  Nobody sees anybody else's state: workers append to their   *)
(* own work.jsonl, the board folds those logs one read at a time while     *)
(* they grow, and pushes the barrier it derived into each child's          *)
(* relays.jsonl, where the worker finds it later.  An append-only log is   *)
(* represented by what the board folds from it.  The parent's own worker   *)
(* finds the barrier in its manifest, which the board and wrender.sh both  *)
(* replace.  The workers and the delivery of relays are outside this       *)
(* repository and are modelled from what the board and rlog.sh say.        *)
(***************************************************************************)
EXTENDS Naturals, Sequences, FiniteSets

CONSTANTS
  Rows,              \* the members in the board's order, the parent's own row first
  Relays,            \* the relays of the run: from, to, slug, phase and kind
  SettledElsewhere,  \* slugs that some other run's work logs have as resolved
  Decisions,         \* what a human may decide of an escalated member
  Watch,             \* whether the board runs as "--watch --write"
  MaxTroubles        \* bound: escalations, failed pushes, interrupts, slow renderers

Members == {Rows[i] : i \in DOMAIN Rows}
Prime == Rows[1]

ASSUME ConductAssumption ==
  /\ Rows \in Seq(Members) /\ Len(Rows) > 1
  /\ \A i, j \in DOMAIN Rows : Rows[i] = Rows[j] => i = j
  /\ \A r \in Relays : r.from \in Members /\ r.to \in Members /\ r.kind \in {"ask", "e2e"}
  /\ \A r \in Relays : r.phase \in 1..4 /\ (r.kind = "e2e" => r.phase = 4)
  /\ Decisions \subseteq {"resumed", "cancelled"}
  /\ Watch \in BOOLEAN
  /\ MaxTroubles \in Nat

\* requirements, planning, implementation, validation; 0 is before the first.
Phases == 1..4

VARIABLES
  done,       \* done[m]: the phase of m's last phase_done
  started,    \* started[m]: the phase m's worker is in or has settled last
  status,     \* status[m]: of m's last status_changed or escalated event
  escalated,  \* members with an escalated event
  sent,       \* relays with a relay_sent in their sender's log
  received,   \* relays with a relay_received in their target's log
  resolved,   \* relays with a relay_resolved in their target's log
  barrier,    \* barrier[m]: last barrier_advanced, or the parent's manifest block
  at,         \* where the board is
  row,        \* the row it is at
  seen,       \* what it has folded so far
  pushed,     \* whether this pass has pushed anything
  carried,    \* <<b>>: a renderer of the parent's manifest holds block b
  faults      \* failed pushes, interrupts and slow renderers so far

logs == <<done, started, status, escalated, sent, received, resolved>>
board == <<barrier, at, row, seen, pushed, carried, faults>>
vars == <<logs, board>>

Spared == Cardinality(escalated) + faults < MaxTroubles

Tokens == [phase : Phases, state : {"open", "held", "complete"}]
Token(p, s) == [phase |-> p, state |-> s]
Slugs == SettledElsewhere \cup {r.slug : r \in Relays}
Sightings == [ slugs : SUBSET Slugs,
               ord : 0..4, base : 0..4 \cup {99}, open : BOOLEAN, esc : BOOLEAN ]
Unseen == [slugs |-> {}, ord |-> 0, base |-> 99, open |-> FALSE, esc |-> FALSE]

NoBarrier == Token(0, "none")
Kickoff == Token(1, "open")

Init ==
  /\ done = [m \in Members |-> 0]
  /\ started = [m \in Members |-> 0]
  /\ status = [m \in Members |-> "active"]
  /\ escalated = {}
  /\ sent = {} /\ received = {} /\ resolved = {}
  /\ barrier = [m \in Members |-> NoBarrier]
  /\ at = "idle" /\ row = 1
  /\ seen = Unseen
  /\ pushed = FALSE
  /\ carried = <<>>
  /\ faults = 0

-------------------------------------------------------------------------------
(* The workers, one to a member, writing work.jsonl through wlog.sh *)

Working(m) == status[m] = "active" /\ started[m] > done[m]

\* A worker without any barrier_advanced takes it to be the kickoff.
Told(m) == IF barrier[m] = NoBarrier THEN Kickoff ELSE barrier[m]

\* "open": work on the barrier's phase unless it is settled; else stop.
Start(m) ==
  /\ status[m] = "active" /\ ~Working(m)
  /\ Told(m).state = "open" /\ Told(m).phase > done[m]
  /\ started' = [started EXCEPT ![m] = Told(m).phase]
  /\ UNCHANGED <<done, status, escalated, sent, received, resolved, board>>

Send(r) ==
  /\ r \notin sent /\ Working(r.from) /\ started[r.from] = r.phase
  /\ sent' = sent \cup {r}
  /\ UNCHANGED <<done, started, status, escalated, received, resolved, board>>

\* A child settles validation once it has relayed its e2e-needs.
Settle(m) ==
  /\ Working(m)
  /\ started[m] = 4 => \A r \in Relays : r.from = m /\ r.kind = "e2e" => r \in sent
  /\ done' = [done EXCEPT ![m] = started[m]]
  /\ UNCHANGED <<started, status, escalated, sent, received, resolved, board>>

\* "act": an inbound ask is answered whatever the barrier says.
Resolve(r) ==
  /\ r \in received \ resolved /\ status[r.to] = "active"
  /\ resolved' = resolved \cup {r}
  /\ UNCHANGED <<done, started, status, escalated, sent, received, board>>

\* A member may escalate between phases too, and after it has settled them all.
Escalate(m) ==
  /\ status[m] = "active" /\ m \notin escalated /\ Spared
  /\ escalated' = escalated \cup {m}
  /\ status' = [status EXCEPT ![m] = "escalated"]
  /\ started' = [started EXCEPT ![m] = done[m]]
  /\ UNCHANGED <<done, sent, received, resolved, board>>

\* Only a human's status_changed ends an escalation.
Decide(m, decision) ==
  /\ status[m] = "escalated"
  /\ status' = [status EXCEPT ![m] = IF decision = "resumed" THEN "active" ELSE decision]
  /\ UNCHANGED <<done, started, escalated, sent, received, resolved, board>>

\* The conductor's sync delivers a relay into its target's relays.jsonl.
Deliver(r) ==
  /\ r \in sent \ received
  /\ received' = received \cup {r}
  /\ UNCHANGED <<done, started, status, escalated, sent, resolved, board>>

-------------------------------------------------------------------------------
(* The board: conduct-board.sh --write *)

ResolvedSlugs == SettledElsewhere \cup {r.slug : r \in resolved}

\* The settled slugs of all work logs are read once, before any row.
Begin ==
  /\ at = "idle"
  /\ at' = "phase"
  /\ seen' = [Unseen EXCEPT !.slugs = ResolvedSlugs]
  /\ UNCHANGED <<barrier, row, pushed, carried, faults, logs>>

\* Mutant of ReadPhase: the last phase_started is taken for phase_done.
ReadPhaseStarted ==
  /\ at = "phase"
  /\ at' = "status"
  /\ seen' = [seen EXCEPT !.ord = started[Rows[row]]]
  /\ UNCHANGED <<barrier, row, pushed, carried, faults, logs>>

ReadPhase ==
  /\ at = "phase"
  /\ at' = "status"
  /\ seen' = [seen EXCEPT !.ord = done[Rows[row]]]
  /\ UNCHANGED <<barrier, row, pushed, carried, faults, logs>>

Least(a, b) == IF a < b THEN a ELSE b

\* Mutant of ReadStatus: the last row in play is taken for the least.
ReadStatusLastRow ==
  /\ at = "status"
  /\ at' = "relays"
  /\ seen' = IF status[Rows[row]] = "escalated" THEN [seen EXCEPT !.esc = TRUE, !.ord = 0]
             ELSE [seen EXCEPT !.base = seen.ord, !.ord = 0]
  /\ UNCHANGED <<barrier, row, pushed, carried, faults, logs>>

\* An escalated row is out of play: it does not enter the minimum.
ReadStatus ==
  /\ at = "status"
  /\ at' = "relays"
  /\ seen' = IF status[Rows[row]] = "escalated" THEN [seen EXCEPT !.esc = TRUE, !.ord = 0]
             ELSE [seen EXCEPT !.base = Least(@, seen.ord), !.ord = 0]
  /\ UNCHANGED <<barrier, row, pushed, carried, faults, logs>>

\* The legs of relays a member's two logs hold; a slug resolved anywhere
\* closes both legs of its relay.

\* Mutant of Legs: relays.jsonl is folded, relay_sent is not.
LegsReceivedOnly(m) == {r \in received : r.to = m}

Legs(m) == {r \in sent : r.from = m} \cup {r \in received : r.to = m}

OpenLegs(m) == {r \in Legs(m) : r.slug \notin seen.slugs}

\* The inbound and the outbound legs are counted one after the other; as both
\* only grow, one of the two moments has what both counts say together.
ReadRelays ==
  /\ at = "relays"
  /\ seen' = [seen EXCEPT !.open = @ \/ OpenLegs(Rows[row]) # {}]
  /\ IF row < Len(Rows) THEN at' = "phase" /\ row' = row + 1
                        ELSE at' = "inject" /\ UNCHANGED row
  /\ UNCHANGED <<barrier, pushed, carried, faults, logs>>

\* With every row escalated the barrier is back at the kickoff.
Base == IF seen.base = 99 THEN 0 ELSE seen.base
Target == Least(Base + 1, 5)

\* Mutant of Verdict: an escalated member does not hold up completion.
VerdictIgnoresEscalated ==
  CASE Base >= 4 /\ ~seen.open -> Token(4, "complete")
    [] seen.open              -> Token(Least(Target, 4), "held")
    [] OTHER                  -> Token(Target, "open")

\* Mutant of Verdict: a held barrier names the phase that is settled.
VerdictHeldAtBase ==
  CASE Base >= 4 /\ ~seen.open /\ ~seen.esc -> Token(4, "complete")
    [] seen.open /\ Base > 0                -> Token(Base, "held")
    [] seen.open /\ Base = 0                -> Token(1, "held")
    [] Base >= 4 /\ ~seen.open /\ seen.esc  -> Token(4, "held")
    [] OTHER                                -> Token(Target, "open")

\* Mutant of Verdict: a held barrier may name the phase after validation.
VerdictUncapped ==
  CASE Base >= 4 /\ ~seen.open /\ ~seen.esc -> Token(4, "complete")
    [] seen.open                            -> Token(Target, "held")
    [] Base >= 4 /\ ~seen.open /\ seen.esc  -> Token(4, "held")
    [] OTHER                                -> Token(Target, "open")

Verdict ==
  CASE Base >= 4 /\ ~seen.open /\ ~seen.esc -> Token(4, "complete")
    [] seen.open                            -> Token(Least(Target, 4), "held")
    [] Base >= 4 /\ ~seen.open /\ seen.esc  -> Token(4, "held")
    [] OTHER                                -> Token(Target, "open")

\* The block in the parent's manifest, which the parent's own worker reads.
Inject ==
  /\ at = "inject"
  /\ at' = "push" /\ row' = 2
  /\ barrier' = [barrier EXCEPT ![Prime] = Verdict]
  /\ UNCHANGED <<seen, pushed, carried, faults, logs>>

NextRow ==
  IF row < Len(Rows) THEN at' = "push" /\ row' = row + 1
                     ELSE at' = "end" /\ UNCHANGED row

\* Mutant of Push: what is new is looked for in the phase alone.
PushByPhase ==
  /\ at = "push"
  /\ barrier' = [barrier EXCEPT ![Rows[row]] = IF @.phase = Verdict.phase THEN @ ELSE Verdict]
  /\ pushed' = (pushed \/ barrier[Rows[row]].phase # Verdict.phase)
  /\ NextRow
  /\ UNCHANGED <<seen, carried, faults, logs>>

\* barrier_advanced is appended only where it says something new.
Push ==
  /\ at = "push"
  /\ barrier' = [barrier EXCEPT ![Rows[row]] = Verdict]
  /\ pushed' = (pushed \/ barrier[Rows[row]] # Verdict)
  /\ NextRow
  /\ UNCHANGED <<seen, carried, faults, logs>>

\* A failing rlog.sh is passed over without a word.
PushFails ==
  /\ at = "push" /\ barrier[Rows[row]] # Verdict
  /\ Spared /\ faults' = faults + 1
  /\ NextRow
  /\ UNCHANGED <<barrier, seen, pushed, carried, logs>>

Stop(where) ==
  /\ at' = where /\ row' = 1
  /\ seen' = Unseen
  /\ pushed' = FALSE

\* After a push, render's last command is a false test: under "set -e" the
\* script ends there, which only the watching loop notices.
End ==
  /\ at = "end"
  /\ Stop(IF Watch /\ pushed THEN "gone" ELSE "idle")
  /\ UNCHANGED <<barrier, carried, faults, logs>>

Interrupt ==
  /\ at \notin {"idle", "gone"}
  /\ Spared /\ faults' = faults + 1
  /\ Stop(IF Watch THEN "gone" ELSE "idle")
  /\ UNCHANGED <<barrier, carried, logs>>

-------------------------------------------------------------------------------
(* wrender.sh on the parent's manifest, run after an event was appended.  A
   run that the board does not cut in on keeps the block, and is no step here;
   a slow one keeps the block it read, or its absence, and mv has the last word. *)

RenderReads ==
  /\ carried = <<>>
  /\ Spared /\ faults' = faults + 1
  /\ carried' = <<barrier[Prime]>>
  /\ UNCHANGED <<barrier, at, row, seen, pushed, logs>>

RenderWrites ==
  /\ carried # <<>>
  /\ barrier' = [barrier EXCEPT ![Prime] = carried[1]]
  /\ carried' = <<>>
  /\ UNCHANGED <<at, row, seen, pushed, faults, logs>>

-------------------------------------------------------------------------------
Work(m) ==
  \/ Start(m) \/ Settle(m)
  \/ \E r \in Relays : r.from = m /\ Send(r)
  \/ \E r \in Relays : r.to = m /\ Resolve(r)
Sync == \E r \in Relays : Deliver(r)
Human == \E m \in Members, decision \in Decisions : Decide(m, decision)
Board == Begin \/ ReadPhase \/ ReadStatus \/ ReadRelays \/ Inject \/ Push \/ End

Next ==
  \/ \E m \in Members : Work(m) \/ Escalate(m)
  \/ Sync \/ Human \/ Board \/ PushFails \/ Interrupt
  \/ RenderReads \/ RenderWrites

Spec == Init /\ [][Next]_vars

\* Workers go on with what they may do, the conductor syncs and re-runs the
\* board, and someone decides of what is escalated.  Nothing need escalate
\* or fail, and a slow renderer may write at any time or be killed.
FairSpec ==
  /\ Spec
  /\ \A m \in Members : WF_vars(Work(m))
  /\ WF_vars(Sync) /\ WF_vars(Human) /\ WF_vars(Board)

-------------------------------------------------------------------------------
(* Properties *)

TypeOK ==
  /\ done \in [Members -> 0..4]
  /\ started \in [Members -> 0..4]
  /\ status \in [Members -> {"active", "escalated", "cancelled"}]
  /\ escalated \subseteq Members
  /\ resolved \subseteq received /\ received \subseteq sent /\ sent \subseteq Relays
  /\ barrier \in [Members -> {NoBarrier} \cup Tokens]
  /\ at \in {"idle", "phase", "status", "relays", "inject", "push", "end", "gone"}
  /\ row \in 1..Len(Rows)
  /\ seen \in Sightings
  /\ pushed \in BOOLEAN
  /\ carried \in {<<>>} \cup {<<b>> : b \in {NoBarrier} \cup Tokens}
  /\ faults \in 0..MaxTroubles

\* scripts/conduct-board.sh:17: no member starts phase P+1 until every member
\* has settled phase P, though the board reads logs that grow while it reads
\* and workers act on what it pushed a while ago.  A member that was ever
\* escalated is excepted: the others went on without it.
BarrierHolds ==
  \A m, n \in Members : Working(m) /\ n \notin escalated => done[n] >= started[m] - 1

\* scripts/conduct-board.sh:18 "AND there are zero open relays": whoever is at
\* work on a phase has behind it no unanswered relay of an earlier one, though
\* open relays are counted leg by leg while they are sent, delivered and
\* answered, against slugs read before.  Relays of the same phase may be open,
\* and those of a member that was ever escalated.
AnsweredBeforeNextPhase ==
  \A m \in Members, r \in sent :
    Working(m) /\ r.phase < started[m] /\ r.from \notin escalated => r \in resolved

\* No member that stayed in play ever skips a phase, or settles one twice
\* (scripts/conduct-board.sh:397: the target is one above the least).
SettlesInTurn ==
  [][\A m \in Members \ escalated : done'[m] # done[m] => done'[m] = done[m] + 1]_vars

\* A barrier never moves back to an earlier phase under a worker's feet, until
\* somebody escalates (scripts/conduct-board.sh:365-436, fold by fold); only
\* the parent's may, when a renderer of its manifest was slow.
BarrierOnlyAdvances ==
  [][escalated = {} =>
       \A m \in Members : m # Prime \/ carried = <<>> =>
                            barrier'[m].phase >= barrier[m].phase]_vars

Complete == \E m \in Members : barrier[m].state = "complete"

\* Whoever is told that the run is complete can rely on it: every member has
\* settled validation, the once escalated too, so no escalation from before
\* that is left to decide (scripts/conduct-board.sh:36-38, 428).
CompleteMeansValidated == Complete => \A m \in Members : done[m] = 4

\* The run is complete only when every relay sent in it has been answered in
\* it.  scripts/conduct-board.sh:231: "Slugs are descriptive and effectively
\* unique per run, so a global union is the faithful, level-agnostic reading
\* of A1."
CompleteMeansAnswered == Complete => sent \subseteq resolved

\* scripts/conduct-board.sh:14-18: to the members, the run is one in which they
\* see one another: the folds, pushes, manifest blocks and the order they
\* happen to come in do not show, escalations or not.
AtWork == [m \in Members |-> IF Working(m) THEN started[m] ELSE 0]
Promise == INSTANCE Lockstep WITH settled <- done, busy <- AtWork, left <- escalated,
                                  answered <- resolved, over <- Complete
KeepsStep == Promise!Spec

\* A run comes to its end.  scripts/conduct-board.sh:503: "decide the
\* escalated child(ren): resume (status_changed) or cancel — then the run can
\* complete."  EveryoneIsTold says more where it holds.
RunCompletes == <>Complete

\* In the end every member has been told of completion and finds it where it
\* looks for the barrier, whatever pushes failed without a word, and though
\* wrender.sh "PRESERVES that region verbatim" (scripts/wrender.sh:38) as it
\* was when it began, which may undo what the board has written since.
EveryoneIsTold == <>[](\A m \in Members : barrier[m].state = "complete")

\* scripts/conduct-board.sh:56: "--watch    refresh every 5s (Ctrl-C to exit)":
\* without an interrupt the watching board never stops refreshing.
WatchGoesOn == at = "gone" => faults > 0
===============================================================================
