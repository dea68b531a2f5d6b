---------------------------- MODULE Lockstep_proofs ----------------------------
(***************************************************************************)
(* The relays of Conduct, and that Conduct implements Lockstep, for any    *)
(* number of members and any relays whose slugs are their own.             *)
(***************************************************************************)
EXTENDS Conduct_proofs

\* scripts/conduct-board.sh:231: "Slugs are descriptive and effectively unique
\* per run": without it a relay passes for answered when another one is.
UniqueSlugs ==
  \A r, q \in Relays : r.slug \notin SettledElsewhere /\ (r.slug = q.slug => r = q)

\* The rows whose relays the board has counted.
Heard(i) ==
  \/ at \in {"phase", "status", "relays"} /\ i < row
  \/ at \in {"inject", "push", "end"}

\* A count of no open relays is right of the phases below the minimum: their
\* senders have gone on and send no more of them.
Counted ==
  /\ seen.slugs \subseteq ResolvedSlugs
  /\ \A i \in 1..Len(Rows), r \in sent :
       /\ Heard(i) /\ ~seen.open /\ r.from = Rows[i]
       /\ r.from \notin escalated \/ ~seen.esc
       /\ r.phase <= seen.base
       => r \in resolved

\* What a worker that finds b may rely on, now and from now on.
Quiet(b) ==
  /\ b.state = "open" =>
       \A r \in sent : r.phase < b.phase /\ r.from \notin escalated => r \in resolved
  /\ b.state = "complete" => sent \subseteq resolved

AllQuiet ==
  /\ \A m \in Members : Quiet(barrier[m])
  /\ carried # <<>> => Quiet(carried[1])

JInv == IInv /\ Counted /\ AllQuiet /\ AnsweredBeforeNextPhase

-------------------------------------------------------------------------------
LEMMA RelayType ==
  \A r \in Relays : r.phase \in 1..4 /\ r.from \in Members /\ r.to \in Members
BY ConductAssumption

LEMMA Ranges ==
  TypeOK => /\ \A m \in Members : done[m] \in 0..4 /\ started[m] \in 0..4
            /\ sent \subseteq Relays /\ resolved \subseteq sent
            /\ \A m \in Members : barrier[m] \in {NoBarrier} \cup Tokens
BY DEF TypeOK

LEMMA InitCounted == Init => Counted /\ AllQuiet /\ AnsweredBeforeNextPhase
<1> SUFFICES ASSUME Init PROVE Counted /\ AllQuiet /\ AnsweredBeforeNextPhase OBVIOUS
<1>1. seen.slugs = {} BY DEF Init, Unseen
<1>2. Counted BY <1>1 DEF Init, Counted
<1>3. AllQuiet BY DEF Init, AllQuiet, Quiet, NoBarrier, Token
<1>4. AnsweredBeforeNextPhase BY DEF Init, AnsweredBeforeNextPhase
<1> QED BY <1>2, <1>3, <1>4

-------------------------------------------------------------------------------
(* Steps of the workers, the sync and the human *)

\* Whatever only adds answers and escalations leaves counts and barriers right.
LEMMA CountsStay ==
  ASSUME JInv, UNCHANGED <<board, sent>>, resolved \subseteq resolved', escalated \subseteq escalated'
  PROVE  Counted' /\ AllQuiet'
<1>1. barrier' = barrier /\ carried' = carried /\ at' = at /\ row' = row /\ seen' = seen /\ sent' = sent
  BY DEF board
<1>2. ResolvedSlugs \subseteq ResolvedSlugs' BY DEF ResolvedSlugs
<1>3. Counted' BY <1>1, <1>2 DEF JInv, Counted, Heard
<1>4. \A b : Quiet(b) => Quiet(b)' BY <1>1 DEF Quiet
<1>5. AllQuiet' BY <1>1, <1>4 DEF JInv, AllQuiet, Quiet
<1> QED BY <1>3, <1>5

LEMMA StartQuiet ==
  ASSUME JInv, NEW m \in Members, Start(m) PROVE AnsweredBeforeNextPhase'
<1>1. /\ UNCHANGED <<done, status, escalated, sent, resolved>>
      /\ started' = [started EXCEPT ![m] = Told(m).phase] /\ Told(m).state = "open"
  BY DEF Start
<1> SUFFICES ASSUME NEW k \in Members, NEW r \in sent, Working(k)', r.phase < started'[k],
                    r.from \notin escalated
             PROVE  r \in resolved
  BY <1>1 DEF AnsweredBeforeNextPhase
<1>2. CASE k = m
  <2>1. started'[k] = Told(m).phase BY <1>1, <1>2 DEF JInv, IInv, TypeOK
  <2>2. Told(m) # Kickoff => Told(m) = barrier[m] BY DEF Told
  <2>3. Told(m) # Kickoff
    <3>1. r.phase \in 1..4 BY RelayType, Ranges DEF JInv, IInv
    <3> QED BY <2>1, <3>1 DEF Kickoff, Token
  <2>4. Quiet(Told(m)) BY <2>2, <2>3 DEF JInv, AllQuiet
  <2> QED BY <1>1, <2>1, <2>4 DEF Quiet
<1>3. CASE k # m
  <2>1. started'[k] = started[k] BY <1>1, <1>3 DEF JInv, IInv, TypeOK
  <2> QED BY <1>1, <2>1 DEF JInv, AnsweredBeforeNextPhase, Working
<1> QED BY <1>2, <1>3

LEMMA SettleQuiet ==
  ASSUME JInv, NEW m \in Members, Settle(m) PROVE AnsweredBeforeNextPhase'
<1>1. \A k \in Members : Working(k)' => Working(k)
  BY DEF Settle, Working, JInv, IInv, TypeOK
<1> QED BY <1>1 DEF Settle, JInv, AnsweredBeforeNextPhase

LEMMA EscalateQuiet ==
  ASSUME JInv, NEW m \in Members, Escalate(m) PROVE AnsweredBeforeNextPhase'
<1>1. \A k \in Members : Working(k)' => Working(k) /\ started'[k] = started[k]
  BY DEF Escalate, Working, JInv, IInv, TypeOK
<1> QED BY <1>1 DEF Escalate, JInv, AnsweredBeforeNextPhase

LEMMA DecideQuiet ==
  ASSUME JInv, NEW m \in Members, NEW decision \in Decisions, Decide(m, decision)
  PROVE  AnsweredBeforeNextPhase'
<1>1. \A k \in Members : Working(k)' => Working(k)
  BY DEF Decide, Working, JInv, IInv, TypeOK, OutOfPlay
<1> QED BY <1>1 DEF Decide, JInv, AnsweredBeforeNextPhase

LEMMA AnswerQuiet ==
  ASSUME JInv, NEW r \in Relays, Resolve(r) \/ Deliver(r)
  PROVE  AnsweredBeforeNextPhase' /\ resolved \subseteq resolved'
BY DEF Resolve, Deliver, Working, JInv, AnsweredBeforeNextPhase

\* Nobody sends a relay of a phase that its sender has settled.
LEMMA SentIsAhead ==
  ASSUME IInv, NEW r \in Relays, Send(r)
  PROVE  /\ r.phase > done[r.from] /\ r.phase \in 1..4
         /\ r.from \in Members /\ done[r.from] \in 0..4
BY RelayType, Ranges DEF Send, Working, IInv

LEMMA SendQuiet ==
  ASSUME JInv, NEW r \in Relays, Send(r)
  PROVE  Counted' /\ AllQuiet' /\ AnsweredBeforeNextPhase'
<1>1. UNCHANGED <<done, started, status, escalated, resolved>> /\ sent' = sent \cup {r}
      /\ barrier' = barrier /\ carried' = carried /\ at' = at /\ row' = row /\ seen' = seen
  BY DEF Send, board
<1>2. /\ r.phase > done[r.from] /\ r.phase \in 1..4
      /\ r.from \in Members /\ done[r.from] \in 0..4
  BY SentIsAhead DEF JInv
<1>3. Counted'
  <2>1. ResolvedSlugs' = ResolvedSlugs BY <1>1 DEF ResolvedSlugs
  <2>2. ASSUME NEW i \in 1..Len(Rows), Heard(i), r.from = Rows[i],
               r.from \notin escalated \/ ~seen.esc
        PROVE  ~(r.phase <= seen.base)
    <3>1. Judged(i) BY <2>2, RowsAreMembers DEF Heard, Judged, JInv, IInv, TypeOK
    <3>2. seen.base <= done[r.from] BY <2>2, <3>1, RowsAreMembers DEF JInv, IInv, Folded
    <3>3. seen.base \in 0..4 \cup {99} BY SightingType DEF JInv, IInv
    <3> QED BY <1>2, <3>2, <3>3
  <2> QED BY <1>1, <2>1, <2>2 DEF JInv, Counted, Heard
<1>4. ASSUME NEW b \in {NoBarrier} \cup Tokens, Right(b), Quiet(b) PROVE Quiet(b)'
  <2>1. b.phase \in 0..4 BY DEF NoBarrier, Token, Tokens, Phases
  <2>2. b.state = "open" /\ r.from \notin escalated => ~(r.phase < b.phase)
    BY <1>2, <1>4, <2>1 DEF Right
  <2>3. b.state # "complete" BY <1>2, <1>4 DEF Right
  <2> QED BY <1>1, <1>4, <2>2, <2>3 DEF Quiet
<1>5. AllQuiet'
  <2>1. \A m \in Members : Quiet(barrier[m])'
    BY <1>1, <1>4, Ranges DEF JInv, IInv, Barriers, AllQuiet, Quiet
  <2>2. (carried # <<>> => Quiet(carried[1]))'
    BY <1>1, <1>4, CarriedType DEF JInv, IInv, Barriers, AllQuiet, Quiet
  <2> QED BY <2>1, <2>2 DEF AllQuiet
<1>6. AnsweredBeforeNextPhase'
  <2>1. ASSUME NEW k \in Members, Working(k), r.from \notin escalated
        PROVE  ~(r.phase < started[k])
    <3>1. done[r.from] >= started[k] - 1 BY <1>2, <2>1 DEF JInv, IInv, BarrierHolds
    <3>2. started[k] \in 0..4 BY Ranges DEF JInv, IInv
    <3> QED BY <1>2, <3>1, <3>2
  <2> QED BY <1>1, <2>1 DEF JInv, AnsweredBeforeNextPhase, Working
<1> QED BY <1>3, <1>5, <1>6

-------------------------------------------------------------------------------
(* Steps of the board and of the renderer *)

LEMMA BoardKeepsAnswers ==
  ASSUME JInv, UNCHANGED logs PROVE AnsweredBeforeNextPhase'
BY DEF JInv, logs, AnsweredBeforeNextPhase, Working

LEMMA BarriersStayQuiet ==
  ASSUME JInv, UNCHANGED <<logs, barrier, carried>> PROVE AllQuiet'
BY DEF JInv, logs, AllQuiet, Quiet

\* Where the sender's log shows no open leg, its relays are answered.
LEMMA NoLegsNoRelays ==
  ASSUME UniqueSlugs, JInv, NEW m \in Members, OpenLegs(m) = {},
         NEW r \in sent, r.from = m
  PROVE  r \in resolved
<1>1. sent \subseteq Relays /\ resolved \subseteq Relays /\ r \in Relays
  BY Ranges DEF JInv, IInv
<1>2. r \in Legs(m) BY DEF Legs
<1>3. r.slug \in ResolvedSlugs BY <1>2 DEF OpenLegs, JInv, Counted
<1>4. PICK q \in resolved : q.slug = r.slug
  BY <1>1, <1>3 DEF ResolvedSlugs, UniqueSlugs
<1> QED BY <1>1, <1>4 DEF UniqueSlugs

LEMMA ReadingCounts ==
  ASSUME UniqueSlugs, JInv, Begin \/ ReadPhase \/ ReadStatus \/ ReadRelays
  PROVE  Counted' /\ AllQuiet' /\ AnsweredBeforeNextPhase'
<1>1. UNCHANGED <<logs, barrier, carried>> BY DEF Begin, ReadPhase, ReadStatus, ReadRelays
<1>2. AllQuiet' /\ AnsweredBeforeNextPhase' BY <1>1, BoardKeepsAnswers, BarriersStayQuiet
<1>3. sent' = sent /\ resolved' = resolved /\ escalated' = escalated BY <1>1 DEF logs
<1>4. ResolvedSlugs' = ResolvedSlugs BY <1>3 DEF ResolvedSlugs
<1>5. seen \in Sightings /\ row \in 1..Len(Rows) BY DEF JInv, IInv, TypeOK
<1>6. CASE Begin
  <2>1. seen'.slugs = ResolvedSlugs BY <1>6 DEF Begin, Unseen
  <2>2. at' = "phase" /\ row' = 1 BY <1>6 DEF Begin, JInv, IInv, Folded
  <2>3. \A i \in 1..Len(Rows) : ~Heard(i)' BY <2>2, RowsAreMembers DEF Heard
  <2> QED BY <1>2, <1>4, <2>1, <2>3 DEF Counted
<1>7. CASE ReadPhase
  <2>1. /\ at = "phase" /\ at' = "status" /\ row' = row
        /\ seen' = [seen EXCEPT !.ord = done[Rows[row]]]
    BY <1>7 DEF ReadPhase
  <2>2. /\ seen'.slugs = seen.slugs /\ seen'.open = seen.open
        /\ seen'.esc = seen.esc /\ seen'.base = seen.base
    BY <2>1, <1>5 DEF Sightings
  <2> QED BY <1>2, <1>3, <1>4, <2>1, <2>2 DEF JInv, Counted, Heard
<1>8. CASE ReadStatus
  <2>1. /\ at = "status" /\ at' = "relays" /\ row' = row BY <1>8 DEF ReadStatus
  <2>2. /\ seen'.slugs = seen.slugs /\ seen'.open = seen.open
        /\ seen.esc => seen'.esc
        /\ seen'.base \in 0..4 \cup {99} /\ seen'.base <= seen.base
    BY <1>5, <1>8, SightingType DEF ReadStatus, Sightings, Least, JInv, IInv
  <2>3. seen.base \in 0..4 \cup {99} BY SightingType DEF JInv, IInv
  <2>4. ASSUME NEW i \in 1..Len(Rows), NEW r \in sent,
               Heard(i)', ~seen'.open, r.from = Rows[i],
               r.from \notin escalated \/ ~seen'.esc, r.phase <= seen'.base
        PROVE  r \in resolved
    <3>1. Heard(i) BY <2>1, <2>4 DEF Heard
    <3>2. r.phase <= seen.base
      <4>1. r.phase \in 1..4 BY RelayType, Ranges DEF JInv, IInv
      <4> QED BY <2>2, <2>3, <2>4, <4>1
    <3> QED BY <2>2, <2>4, <3>1, <3>2 DEF JInv, Counted
  <2>5. seen'.slugs \subseteq ResolvedSlugs' BY <1>4, <2>2 DEF JInv, Counted
  <2>6. Counted' BY <1>3, <2>4, <2>5 DEF Counted
  <2> QED BY <1>2, <2>6
<1>9. CASE ReadRelays
  <2>1. /\ at = "relays" /\ seen' = [seen EXCEPT !.open = @ \/ OpenLegs(Rows[row]) # {}]
        /\ \/ row < Len(Rows) /\ at' = "phase" /\ row' = row + 1
           \/ row = Len(Rows) /\ at' = "inject" /\ row' = row
    BY <1>5, <1>9, RowsAreMembers DEF ReadRelays
  <2>2. /\ seen'.slugs = seen.slugs /\ seen'.esc = seen.esc /\ seen'.base = seen.base
        /\ seen'.open = (seen.open \/ OpenLegs(Rows[row]) # {})
    BY <2>1, <1>5 DEF Sightings
  <2>3. ASSUME NEW i \in 1..Len(Rows), NEW r \in sent,
               Heard(i)', ~seen'.open, r.from = Rows[i],
               r.from \notin escalated \/ ~seen'.esc, r.phase <= seen'.base
        PROVE  r \in resolved
    <3>1. CASE i = row
      <4>1. OpenLegs(Rows[row]) = {} /\ Rows[row] \in Members BY <2>2, <2>3, <1>5, RowsAreMembers
      <4> QED BY <2>3, <3>1, <4>1, NoLegsNoRelays
    <3>2. CASE i # row
      <4>1. Heard(i) BY <2>1, <2>3, <3>2, <1>5, RowsAreMembers DEF Heard
      <4> QED BY <2>2, <2>3, <4>1 DEF JInv, Counted
    <3> QED BY <3>1, <3>2
  <2>4. seen'.slugs \subseteq ResolvedSlugs' BY <1>4, <2>2 DEF JInv, Counted
  <2>5. Counted' BY <1>3, <2>3, <2>4 DEF Counted
  <2> QED BY <1>2, <2>5
<1> QED BY <1>6, <1>7, <1>8, <1>9

LEMMA VerdictIsQuiet ==
  ASSUME JInv, at \in {"inject", "push"} PROVE Quiet(Verdict)
<1>1. Base \in 0..4 /\ Target \in 1..5 /\ seen.base \in 0..4 \cup {99}
  BY BaseType, SightingType DEF JInv, IInv
<1>2. ASSUME NEW r \in sent, ~seen.open, r.from \notin escalated \/ ~seen.esc, r.phase <= seen.base
      PROVE  r \in resolved
  <2>1. r.from \in Members BY RelayType, Ranges DEF JInv, IInv
  <2>2. PICK i \in 1..Len(Rows) : Rows[i] = r.from BY <2>1, RowsAreMembers
  <2> QED BY <1>2, <2>2 DEF JInv, Counted, Heard
<1>3. \A r \in sent : r.phase \in 1..4 BY RelayType, Ranges DEF JInv, IInv
<1>4. CASE Verdict.state = "open"
  <2>1. ~seen.open /\ Verdict = Token(Target, "open")
    BY <1>4 DEF Verdict, Token
  <2>2. ASSUME NEW r \in sent, r.phase < Target, r.from \notin escalated PROVE r \in resolved
    <3>1. r.phase <= Base BY <1>1, <1>3, <2>2 DEF Target, Least
    <3>2. r.phase <= seen.base BY <1>1, <1>3, <3>1 DEF Base
    <3> QED BY <1>2, <2>1, <2>2, <3>2
  <2> QED BY <2>1, <2>2 DEF Quiet, Token
<1>5. CASE Verdict.state = "complete"
  <2>1. Base >= 4 /\ ~seen.open /\ ~seen.esc BY <1>5 DEF Verdict, Token
  <2>2. seen.base = 4 BY <1>1, <2>1 DEF Base
  <2> QED BY <1>2, <1>3, <1>5, <2>1, <2>2 DEF Quiet
<1> QED BY <1>4, <1>5 DEF Quiet

LEMMA PushingCounts ==
  ASSUME JInv, Inject \/ Push \/ PushFails
  PROVE  Counted' /\ AllQuiet' /\ AnsweredBeforeNextPhase'
<1>1. UNCHANGED <<logs, seen, carried>> /\ at \in {"inject", "push"} /\ at' \in {"push", "end"}
  BY DEF Inject, Push, PushFails, NextRow
<1>2. sent' = sent /\ resolved' = resolved /\ escalated' = escalated BY <1>1 DEF logs
<1>3. Counted' BY <1>1, <1>2 DEF JInv, Counted, Heard, ResolvedSlugs
<1>4. AnsweredBeforeNextPhase' BY <1>1, BoardKeepsAnswers
<1>5. \A b : Quiet(b)' <=> Quiet(b) BY <1>2 DEF Quiet
<1>6. \A k \in Members : barrier'[k] \in {barrier[k], Verdict}
  BY DEF Inject, Push, PushFails, JInv, IInv, TypeOK
<1>7. Quiet(Verdict) BY <1>1, VerdictIsQuiet
<1>8. \A k \in Members : Quiet(barrier'[k]) BY <1>6, <1>7 DEF JInv, AllQuiet
<1>9. AllQuiet' BY <1>1, <1>2, <1>8 DEF JInv, AllQuiet, Quiet
<1> QED BY <1>3, <1>4, <1>9

LEMMA StoppingCounts ==
  ASSUME JInv, End \/ Interrupt
  PROVE  Counted' /\ AllQuiet' /\ AnsweredBeforeNextPhase'
<1>1. UNCHANGED <<logs, barrier, carried>> BY DEF End, Interrupt
<1>2. AllQuiet' /\ AnsweredBeforeNextPhase' BY <1>1, BoardKeepsAnswers, BarriersStayQuiet
<1>3. at' \in {"idle", "gone"} /\ seen' = Unseen BY DEF End, Interrupt, Stop
<1>4. Counted' BY <1>3 DEF Counted, Heard, Unseen
<1> QED BY <1>2, <1>4

LEMMA RenderCounts ==
  ASSUME JInv, RenderReads \/ RenderWrites
  PROVE  Counted' /\ AllQuiet' /\ AnsweredBeforeNextPhase'
<1>1. UNCHANGED <<logs, at, row, seen, pushed>> BY DEF RenderReads, RenderWrites
<1>2. sent' = sent /\ resolved' = resolved /\ escalated' = escalated BY <1>1 DEF logs
<1>3. Counted' BY <1>1, <1>2 DEF JInv, Counted, Heard, ResolvedSlugs
<1>4. AnsweredBeforeNextPhase' BY <1>1, BoardKeepsAnswers
<1>5. CASE RenderReads
  <2>1. barrier' = barrier /\ carried' = <<barrier[Prime]>> BY <1>5 DEF RenderReads
  <2>2. carried'[1] = barrier[Prime] BY <2>1
  <2>3. AllQuiet' BY <1>2, <2>1, <2>2, RowsAreMembers DEF JInv, AllQuiet, Quiet
  <2> QED BY <1>3, <1>4, <2>3
<1>6. CASE RenderWrites
  <2>1. barrier' = [barrier EXCEPT ![Prime] = carried[1]] /\ carried' = <<>> /\ carried # <<>>
    BY <1>6 DEF RenderWrites
  <2>2. \A k \in Members : barrier'[k] = IF k = Prime THEN carried[1] ELSE barrier[k]
    BY <2>1 DEF JInv, IInv, TypeOK
  <2>3. AllQuiet' BY <1>2, <2>1, <2>2 DEF JInv, AllQuiet, Quiet
  <2> QED BY <1>3, <1>4, <2>3
<1> QED BY <1>5, <1>6

LEMMA NextJInv == ASSUME UniqueSlugs PROVE JInv /\ [Next]_vars => JInv'
<1> SUFFICES ASSUME JInv, [Next]_vars PROVE Counted' /\ AllQuiet' /\ AnsweredBeforeNextPhase'
  BY NextInv DEF JInv
<1>1. CASE Next
  <2>1. ASSUME NEW m \in Members, Start(m) PROVE Counted' /\ AllQuiet' /\ AnsweredBeforeNextPhase'
    BY <2>1, StartQuiet, CountsStay DEF Start
  <2>2. ASSUME NEW m \in Members, Settle(m) PROVE Counted' /\ AllQuiet' /\ AnsweredBeforeNextPhase'
    BY <2>2, SettleQuiet, CountsStay DEF Settle
  <2>3. ASSUME NEW r \in Relays, Resolve(r) \/ Deliver(r)
        PROVE  Counted' /\ AllQuiet' /\ AnsweredBeforeNextPhase'
    BY <2>3, AnswerQuiet, CountsStay DEF Resolve, Deliver
  <2>4. ASSUME NEW m \in Members, Work(m) PROVE Counted' /\ AllQuiet' /\ AnsweredBeforeNextPhase'
    BY <2>1, <2>2, <2>3, <2>4, SendQuiet DEF Work
  <2>5. ASSUME NEW m \in Members, Escalate(m) PROVE Counted' /\ AllQuiet' /\ AnsweredBeforeNextPhase'
    BY <2>5, EscalateQuiet, CountsStay DEF Escalate
  <2>6. CASE Human BY <2>6, DecideQuiet, CountsStay DEF Human, Decide
  <2>7. CASE Sync BY <2>3, <2>7 DEF Sync
  <2>8. CASE Board BY <2>8, ReadingCounts, PushingCounts, StoppingCounts DEF Board
  <2>9. CASE PushFails \/ Interrupt \/ RenderReads \/ RenderWrites
    BY <2>9, PushingCounts, StoppingCounts, RenderCounts
  <2> QED BY <1>1, <2>4, <2>5, <2>6, <2>7, <2>8, <2>9 DEF Next
<1>2. CASE UNCHANGED vars
  <2>1. UNCHANGED <<board, sent, resolved, escalated, logs>> BY <1>2 DEF vars, logs
  <2> QED BY <2>1, CountsStay, BoardKeepsAnswers
<1> QED BY <1>1, <1>2

-------------------------------------------------------------------------------
(* Steps of Conduct as steps of Lockstep *)

LEMMA InitPromise == Init => Promise!Init
<1> SUFFICES ASSUME Init PROVE Promise!Init OBVIOUS
<1>1. \A m \in Members : ~Working(m) /\ barrier[m].state # "complete"
  BY DEF Init, Working, NoBarrier, Token
<1>2. AtWork = [m \in Members |-> 0] BY <1>1 DEF AtWork
<1>3. Complete = FALSE BY <1>1 DEF Complete
<1> QED BY <1>2, <1>3 DEF Init, Promise!Init

\* What the members do is all that Lockstep sees, but for the word of the end.
LEMMA SameWord ==
  ASSUME UNCHANGED board PROVE Complete' = Complete
BY DEF board, Complete

LEMMA SameWork ==
  ASSUME UNCHANGED <<done, started, status>> PROVE AtWork' = AtWork
BY DEF AtWork, Working

LEMMA StartEnters ==
  ASSUME JInv, NEW m \in Members, Start(m) PROVE Promise!Next
<1> DEFINE p == Told(m).phase
<1>1. /\ UNCHANGED <<done, status, escalated, sent, resolved>> /\ Complete' = Complete
      /\ status[m] = "active" /\ ~Working(m) /\ Told(m).state = "open" /\ p > done[m]
      /\ started' = [started EXCEPT ![m] = p]
  BY SameWord DEF Start
<1>2. p \in 1..4 /\ \A n \in Members \ escalated : done[n] >= p - 1
  BY <1>1, ToldIsRight DEF JInv, IInv, Tokens, Phases
<1>3. ASSUME NEW r \in sent, r.phase < p, r.from \notin escalated PROVE r \in resolved
  <2>1. r.phase \in 1..4 BY RelayType, Ranges DEF JInv, IInv
  <2>2. Told(m) = barrier[m] BY <1>3, <2>1 DEF Told, Kickoff, Token
  <2>3. Quiet(barrier[m]) BY DEF JInv, AllQuiet
  <2> QED BY <1>1, <1>3, <2>2, <2>3 DEF Quiet
<1>4. AtWork[m] = 0 /\ AtWork' = [AtWork EXCEPT ![m] = p]
  <2>1. \A k \in Members : started'[k] = IF k = m THEN p ELSE started[k]
    BY <1>1 DEF JInv, IInv, TypeOK
  <2>2. \A k \in Members : Working(k)' <=> (k = m \/ Working(k))
    BY <1>1, <2>1 DEF Working
  <2> QED BY <1>1, <2>1, <2>2 DEF AtWork
<1>5. Promise!Enter(m, p)
  BY <1>1, <1>2, <1>3, <1>4 DEF Promise!Enter, Promise!MayEnter
<1> QED BY <1>2, <1>5 DEF Promise!Next

LEMMA SettleFinishes ==
  ASSUME JInv, NEW m \in Members, Settle(m) PROVE Promise!Next
<1>1. /\ UNCHANGED <<started, status, escalated, sent, resolved>> /\ Complete' = Complete
      /\ Working(m) /\ done' = [done EXCEPT ![m] = started[m]]
  BY SameWord DEF Settle
<1>2. \A k \in Members : /\ done'[k] = (IF k = m THEN started[m] ELSE done[k])
                         /\ done[k] \in 0..4 /\ started[k] \in 0..4
  BY <1>1 DEF JInv, IInv, TypeOK
<1>3. \A k \in Members : Working(k)' <=> (k # m /\ Working(k))
  BY <1>1, <1>2 DEF Working
<1>4. AtWork[m] = started[m] /\ AtWork[m] # 0 /\ AtWork' = [AtWork EXCEPT ![m] = 0]
  <2>1. AtWork[m] = started[m] BY <1>1 DEF AtWork
  <2>2. started[m] # 0 BY <1>1, <1>2 DEF Working
  <2>3. AtWork' = [AtWork EXCEPT ![m] = 0] BY <1>1, <1>3 DEF AtWork
  <2> QED BY <2>1, <2>2, <2>3
<1>5. Promise!Finish(m) BY <1>1, <1>4 DEF Promise!Finish
<1> QED BY <1>5 DEF Promise!Next

LEMMA EscalateLeaves ==
  ASSUME JInv, NEW m \in Members, Escalate(m) PROVE Promise!Next
<1>1. /\ UNCHANGED <<done, sent, resolved>> /\ Complete' = Complete
      /\ m \notin escalated /\ escalated' = escalated \cup {m}
      /\ status' = [status EXCEPT ![m] = "escalated"]
      /\ started' = [started EXCEPT ![m] = done[m]]
  BY SameWord DEF Escalate
<1>2. \A k \in Members : /\ k # m => status'[k] = status[k] /\ started'[k] = started[k]
                         /\ status'[m] = "escalated"
                         /\ done[k] \in 0..4 /\ started[k] \in 0..4
  BY <1>1 DEF JInv, IInv, TypeOK
<1>3. \A k \in Members : Working(k)' <=> (k # m /\ Working(k))
  BY <1>1, <1>2 DEF Working
<1>4. AtWork' = [AtWork EXCEPT ![m] = 0] BY <1>2, <1>3 DEF AtWork
<1>5. Promise!Leave(m) BY <1>1, <1>4 DEF Promise!Leave
<1> QED BY <1>5 DEF Promise!Next

\* A decision puts nobody back to work: who comes back waits for a barrier.
LEMMA DecideStutters ==
  ASSUME JInv, NEW m \in Members, NEW decision \in Decisions, Decide(m, decision)
  PROVE  UNCHANGED Promise!vars
<1>1. UNCHANGED <<done, started, escalated, sent, resolved>> /\ Complete' = Complete
  BY SameWord DEF Decide
<1>2. \A k \in Members : Working(k)' <=> Working(k)
  BY DEF Decide, Working, JInv, IInv, TypeOK, OutOfPlay
<1>3. AtWork' = AtWork BY <1>1, <1>2 DEF AtWork
<1> QED BY <1>1, <1>3 DEF Promise!vars

LEMMA RelaySteps ==
  ASSUME JInv, NEW r \in Relays, Send(r) \/ Resolve(r) \/ Deliver(r)
  PROVE  [Promise!Next]_(Promise!vars)
<1>1. UNCHANGED <<done, started, status, escalated>> /\ Complete' = Complete /\ AtWork' = AtWork
  BY SameWord, SameWork DEF Send, Resolve, Deliver
<1>2. CASE Send(r)
  <2>1. AtWork[r.from] = r.phase BY <1>2, RelayType DEF Send, AtWork
  <2>2. Promise!Ask(r) BY <1>1, <1>2, <2>1 DEF Send, Promise!Ask
  <2> QED BY <2>2 DEF Promise!Next
<1>3. CASE Resolve(r)
  <2>1. r \in sent BY <1>3 DEF Resolve, JInv, IInv, TypeOK
  <2>2. Promise!Answer(r) BY <1>1, <1>3, <2>1 DEF Resolve, Promise!Answer
  <2> QED BY <2>2 DEF Promise!Next
<1>4. CASE Deliver(r) BY <1>1, <1>4 DEF Deliver, Promise!vars
<1> QED BY <1>2, <1>3, <1>4

\* The word of the end is given, and taken back, only at the end.
LEMMA WordAtTheEnd ==
  ASSUME JInv, Complete
  PROVE  (\A m \in Members : done[m] = 4) /\ sent \subseteq resolved
BY DEF JInv, IInv, Barriers, Right, AllQuiet, Quiet, Complete

LEMMA BoardTells ==
  ASSUME JInv, JInv', UNCHANGED logs PROVE [Promise!Next]_(Promise!vars)
<1>1. UNCHANGED <<done, started, status, escalated, sent, resolved>> /\ AtWork' = AtWork
  BY SameWork DEF logs
<1>2. Complete \in BOOLEAN /\ Complete' \in BOOLEAN BY DEF Complete
<1>3. CASE Complete' = Complete BY <1>1, <1>3 DEF Promise!vars
<1>4. CASE Complete' # Complete
  <2>1. (\A m \in Members : done[m] = 4) /\ sent \subseteq resolved
    <3>1. CASE Complete BY <3>1, WordAtTheEnd
    <3>2. CASE Complete'
      <4>1. (\A m \in Members : done'[m] = 4) /\ sent' \subseteq resolved'
        BY <3>2 DEF JInv, IInv, Barriers, Right, AllQuiet, Quiet, Complete
      <4> QED BY <1>1, <4>1
    <3> QED BY <1>2, <1>4, <3>1, <3>2
  <2>2. Complete' = ~Complete BY <1>2, <1>4
  <2>3. Promise!Tell BY <1>1, <2>1, <2>2 DEF Promise!Tell
  <2> QED BY <2>3 DEF Promise!Next
<1> QED BY <1>3, <1>4

LEMMA StepsKept ==
  ASSUME UniqueSlugs PROVE JInv /\ [Next]_vars => [Promise!Next]_(Promise!vars)
<1> SUFFICES ASSUME JInv, [Next]_vars PROVE [Promise!Next]_(Promise!vars) OBVIOUS
<1>0. JInv' BY NextJInv
<1>1. CASE Next
  <2>1. ASSUME NEW m \in Members, Work(m) PROVE [Promise!Next]_(Promise!vars)
    BY <2>1, StartEnters, SettleFinishes, RelaySteps DEF Work
  <2>2. ASSUME NEW m \in Members, Escalate(m) PROVE [Promise!Next]_(Promise!vars)
    BY <2>2, EscalateLeaves
  <2>3. CASE Sync BY <2>3, RelaySteps DEF Sync
  <2>4. CASE Human BY <2>4, DecideStutters DEF Human
  <2>5. CASE Board \/ PushFails \/ Interrupt \/ RenderReads \/ RenderWrites
    <3>1. UNCHANGED logs
      BY <2>5 DEF Board, Begin, ReadPhase, ReadStatus, ReadRelays, Inject, Push, PushFails,
                  End, Interrupt, RenderReads, RenderWrites
    <3> QED BY <1>0, <3>1, BoardTells
  <2> QED BY <1>1, <2>1, <2>2, <2>3, <2>4, <2>5 DEF Next
<1>2. CASE UNCHANGED vars
  <2>1. UNCHANGED logs BY <1>2 DEF vars
  <2> QED BY <1>0, <2>1, BoardTells
<1> QED BY <1>1, <1>2

-------------------------------------------------------------------------------
(* Theorems *)

LEMMA RelaysInductive == ASSUME UniqueSlugs PROVE Spec => []JInv
<1>1. Init => JInv BY InitInv, InitCounted DEF JInv
<1>2. JInv /\ [Next]_vars => JInv' BY NextJInv
<1> QED BY <1>1, <1>2, PTL DEF Spec

\* Whoever is at work on a phase has no unanswered relay of an earlier one
\* behind it, for any relays with slugs of their own
\* (scripts/conduct-board.sh:18, 153-167).
THEOREM AnsweredFirst == ASSUME UniqueSlugs PROVE Spec => []AnsweredBeforeNextPhase
BY RelaysInductive, PTL DEF JInv

\* A run that is said to be complete has answered every relay sent in it
\* (scripts/conduct-board.sh:231, 428).
THEOREM CompleteIsAnswered == ASSUME UniqueSlugs PROVE Spec => []CompleteMeansAnswered
<1>1. JInv => CompleteMeansAnswered BY DEF JInv, AllQuiet, Quiet, CompleteMeansAnswered, Complete
<1> QED BY <1>1, RelaysInductive, PTL

\* Conduct implements Lockstep: to its members the run is one in which they
\* see one another, whatever the logs, folds and pushes do in between
\* (scripts/conduct-board.sh:14-18).
THEOREM Implements == ASSUME UniqueSlugs PROVE Spec => KeepsStep
BY InitPromise, StepsKept, RelaysInductive, PTL DEF Spec, Promise!Spec, KeepsStep
===============================================================================
