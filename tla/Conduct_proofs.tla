---------------------------- MODULE Conduct_proofs ----------------------------
(***************************************************************************)
(* The barrier of Conduct, for any number of members and any relays.       *)
(***************************************************************************)
EXTENDS Conduct, FiniteSetTheorems, SequenceTheorems, TLAPS

\* The rows whose phase and status the board has taken into its minimum.
Judged(i) ==
  \/ at \in {"phase", "status"} /\ i < row
  \/ at = "relays" /\ i <= row
  \/ at \in {"inject", "push", "end"}

\* The minimum the board has so far is one of phases settled for good: logs
\* that grow while it reads, and members that escalate, do not spoil it.
Folded ==
  /\ at = "idle" => row = 1
  /\ at = "status" => seen.ord <= done[Rows[row]]
  /\ \A i \in DOMAIN Rows :
       Judged(i) /\ (Rows[i] \notin escalated \/ ~seen.esc) => seen.base <= done[Rows[i]]

\* What a worker that finds b may act on, now and from now on.
Right(b) ==
  /\ b.state = "open" => \A n \in Members \ escalated : done[n] >= b.phase - 1
  /\ b.state = "complete" => \A n \in Members : done[n] = 4

\* Every barrier that is still being read was and remains right, and so is
\* the one a renderer of the parent's manifest may put back.
Barriers ==
  /\ \A m \in Members : Right(barrier[m])
  /\ carried # <<>> => Right(carried[1])

\* A member leaves play by way of an escalation, and is then on no phase.
OutOfPlay ==
  \A m \in Members : status[m] # "active" => m \in escalated /\ started[m] = done[m]

IInv == TypeOK /\ Folded /\ Barriers /\ OutOfPlay /\ BarrierHolds

-------------------------------------------------------------------------------
LEMMA RowsAreMembers == /\ Rows \in Seq(Members) /\ Len(Rows) \in Nat /\ Len(Rows) > 1
                        /\ DOMAIN Rows = 1..Len(Rows)
                        /\ \A i \in 1..Len(Rows) : Rows[i] \in Members
                        /\ \A m \in Members : \E i \in 1..Len(Rows) : Rows[i] = m
                        /\ Prime \in Members
BY ConductAssumption DEF Members, Prime

LEMMA RowAfterRow == /\ 1 \in 1..Len(Rows) /\ 2 \in 1..Len(Rows)
                     /\ \A i \in 1..Len(Rows) : i < Len(Rows) => i + 1 \in 1..Len(Rows)
<1>1. Len(Rows) \in Nat /\ Len(Rows) > 1 BY RowsAreMembers
<1> QED BY <1>1

LEMMA SightingType ==
  TypeOK => /\ seen.base \in 0..4 \cup {99} /\ seen.ord \in 0..4
            /\ seen.open \in BOOLEAN /\ seen.esc \in BOOLEAN
BY DEF TypeOK, Sightings

LEMMA BaseType == TypeOK => Base \in 0..4 /\ Target \in 1..5
BY SightingType DEF Base, Target, Least

LEMMA CarriedType ==
  TypeOK /\ carried # <<>> => carried[1] \in {NoBarrier} \cup Tokens /\ Len(carried) = 1
BY DEF TypeOK

\* A worker that finds no barrier does what the kickoff lets it do.
LEMMA ToldIsRight ==
  ASSUME TypeOK, Barriers, NEW m \in Members
  PROVE  /\ Told(m) \in Tokens
         /\ Told(m).state = "open" =>
              \A n \in Members \ escalated : done[n] >= Told(m).phase - 1
<1>1. CASE barrier[m] = NoBarrier
  BY <1>1 DEF Told, Kickoff, Token, Tokens, Phases, TypeOK
<1>2. CASE barrier[m] # NoBarrier
  BY <1>2 DEF Told, Barriers, Right, TypeOK
<1> QED BY <1>1, <1>2

\* What the board makes of a finished fold is true of the members now.
LEMMA VerdictIsRight ==
  ASSUME TypeOK, Folded, at \in {"inject", "push"}
  PROVE  /\ Verdict \in Tokens
         /\ Right(Verdict)
<1> USE DEF Right
<1>1. Base \in 0..4 /\ Target \in 1..5 BY BaseType
<1>2. \A i \in 1..Len(Rows) : Rows[i] \notin escalated \/ ~seen.esc => seen.base <= done[Rows[i]]
  BY RowsAreMembers DEF Folded, Judged
<1>3. \A n \in Members : n \notin escalated \/ ~seen.esc => seen.base <= done[n]
  BY <1>2, RowsAreMembers
<1>4. CASE Base >= 4 /\ ~seen.open /\ ~seen.esc
  <2>1. Verdict = Token(4, "complete") BY <1>4 DEF Verdict
  <2>2. seen.base = 4 BY <1>4, <1>1 DEF Base
  <2>3. \A n \in Members : done[n] = 4 BY <1>3, <1>4, <2>2 DEF TypeOK
  <2> QED BY <2>1, <2>3 DEF Token, Tokens, Phases
<1>5. CASE seen.open
  <2>1. Verdict = Token(Least(Target, 4), "held") BY <1>5 DEF Verdict
  <2>2. Least(Target, 4) \in 1..4 BY <1>1 DEF Least
  <2> QED BY <2>1, <2>2 DEF Token, Tokens, Phases
<1>6. CASE Base >= 4 /\ ~seen.open /\ seen.esc
  <2>1. Verdict = Token(4, "held") BY <1>6 DEF Verdict
  <2> QED BY <2>1 DEF Token, Tokens, Phases
<1>7. CASE ~(Base >= 4) /\ ~seen.open
  <2>1. Verdict = Token(Target, "open") BY <1>7 DEF Verdict
  <2>2. Target = Base + 1 /\ Target \in 1..4 BY <1>1, <1>7 DEF Target, Least
  <2>3. \A n \in Members \ escalated : done[n] >= Base
    BY <1>3, <1>1, SightingType DEF Base, TypeOK
  <2> QED BY <2>1, <2>2, <2>3, <1>1 DEF Token, Tokens, Phases, TypeOK
<1>8. seen.open \in BOOLEAN /\ seen.esc \in BOOLEAN BY SightingType
<1> QED BY <1>4, <1>5, <1>6, <1>7, <1>8

-------------------------------------------------------------------------------
LEMMA InitInv == Init => IInv
<1> SUFFICES ASSUME Init PROVE IInv OBVIOUS
<1> USE RowsAreMembers
<1>1. TypeOK
  <2>1. MaxTroubles \in Nat BY ConductAssumption
  <2>2. seen \in Sightings BY DEF Init, Unseen, Sightings
  <2>3. barrier \in [Members -> {NoBarrier} \cup Tokens] BY DEF Init
  <2>4. row \in 1..Len(Rows) BY DEF Init
  <2>5. faults \in 0..MaxTroubles BY <2>1 DEF Init
  <2>6. /\ done \in [Members -> 0..4] /\ started \in [Members -> 0..4]
        /\ status \in [Members -> {"active", "escalated", "cancelled"}]
    BY DEF Init
  <2>7. escalated \subseteq Members /\ resolved \subseteq received /\ received \subseteq sent
        /\ sent \subseteq Relays /\ pushed \in BOOLEAN /\ carried = <<>>
        /\ at \in {"idle", "phase", "status", "relays", "inject", "push", "end", "gone"}
    BY DEF Init
  <2> QED BY <2>2, <2>3, <2>4, <2>5, <2>6, <2>7, Zenon DEF TypeOK
<1>2. Folded /\ OutOfPlay /\ BarrierHolds
  BY DEF Init, Folded, Judged, OutOfPlay, BarrierHolds, Working
<1>3. Barriers
  BY DEF Init, Barriers, Right, NoBarrier, Token
<1> QED BY <1>1, <1>2, <1>3 DEF IInv

-------------------------------------------------------------------------------
(* One lemma for each process: what it changes and what that spoils. *)

\* What a step of a worker, of the sync or of a human may do to the others'
\* view: phases only rise, and escalations are not undone.
LEMMA LogsOnlyGrow ==
  /\ IInv /\ UNCHANGED board
  /\ TypeOK' /\ OutOfPlay' /\ BarrierHolds'
  /\ \A m \in Members : done'[m] >= done[m]
  /\ escalated \subseteq escalated'
  => IInv'
<1> SUFFICES ASSUME IInv, UNCHANGED board, TypeOK', OutOfPlay', BarrierHolds',
                    \A m \in Members : done'[m] >= done[m],
                    escalated \subseteq escalated'
             PROVE  IInv'
  OBVIOUS
<1>0. barrier' = barrier /\ carried' = carried /\ at' = at /\ row' = row /\ seen' = seen
  BY DEF board
<1>1. Folded'
  <2>1. \A m \in Members : done[m] \in 0..4 /\ done'[m] \in 0..4 BY DEF IInv, TypeOK
  <2>2. seen.base \in 0..4 \cup {99} /\ seen.ord \in 0..4 BY SightingType DEF IInv
  <2>3. row \in 1..Len(Rows) /\ Rows[row] \in Members BY RowsAreMembers DEF IInv, TypeOK
  <2>4. at' = "status" => seen'.ord <= done'[Rows[row']]
    <3>1. at = "status" => seen.ord <= done[Rows[row]] BY DEF IInv, Folded
    <3> QED BY <1>0, <2>1, <2>2, <2>3, <3>1
  <2>5. ASSUME NEW i \in 1..Len(Rows), Judged(i)', (Rows[i] \notin escalated \/ ~seen.esc)'
        PROVE  seen'.base <= done'[Rows[i]]
    <3>1. Judged(i) BY <2>5, <1>0 DEF Judged
    <3>2. Rows[i] \notin escalated \/ ~seen.esc BY <2>5, <1>0
    <3>3. seen.base <= done[Rows[i]] BY <3>1, <3>2, RowsAreMembers DEF IInv, Folded
    <3>4. Rows[i] \in Members BY RowsAreMembers
    <3> QED BY <1>0, <2>1, <2>2, <3>3, <3>4
  <2>6. at' = "idle" => row' = 1 BY <1>0 DEF IInv, Folded
  <2> QED BY <2>4, <2>5, <2>6, RowsAreMembers DEF Folded
<1>2. Barriers'
  <2>1. \A n \in Members : done[n] \in 0..4 /\ done'[n] \in 0..4 BY DEF TypeOK, IInv
  <2>2. ASSUME NEW b \in {NoBarrier} \cup Tokens, Right(b)
        PROVE  /\ b.state = "open" => \A n \in Members \ escalated' : done'[n] >= b.phase - 1
               /\ b.state = "complete" => \A n \in Members : done'[n] = 4
    <3>1. b.phase \in Nat BY DEF NoBarrier, Token, Tokens, Phases
    <3> QED BY <2>1, <2>2, <3>1 DEF Right
  <2>3. \A m \in Members : barrier[m] \in {NoBarrier} \cup Tokens /\ Right(barrier[m])
    BY DEF IInv, TypeOK, Barriers
  <2>4. carried # <<>> => carried[1] \in {NoBarrier} \cup Tokens /\ Right(carried[1])
    BY CarriedType DEF IInv, Barriers
  <2>5. \A m \in Members : Right(barrier[m])' BY <1>0, <2>2, <2>3 DEF Right
  <2>6. (carried # <<>> => Right(carried[1]))' BY <1>0, <2>2, <2>4 DEF Right
  <2> QED BY <2>5, <2>6 DEF Barriers
<1> QED BY <1>1, <1>2 DEF IInv

LEMMA StartInv == ASSUME IInv, NEW m \in Members, Start(m) PROVE IInv'
<1> USE DEF IInv, Start
<1>1. TypeOK'
  <2>1. Told(m).phase \in 1..4 BY ToldIsRight DEF Tokens, Phases
  <2> QED BY <2>1 DEF TypeOK, board
<1>2. OutOfPlay' BY DEF OutOfPlay
<1>3. BarrierHolds'
  <2> SUFFICES ASSUME NEW k \in Members, NEW n \in Members, Working(k)', n \notin escalated
               PROVE  done[n] >= started'[k] - 1
    BY DEF BarrierHolds
  <2>1. CASE k = m
    <3>1. started'[k] = Told(m).phase BY <2>1 DEF TypeOK
    <3> QED BY <3>1, ToldIsRight
  <2>2. CASE k # m
    <3>1. started'[k] = started[k] BY <2>2 DEF TypeOK
    <3> QED BY <3>1, <2>2 DEF BarrierHolds, Working
  <2> QED BY <2>1, <2>2
<1>4. \A k \in Members : done'[k] >= done[k] BY DEF TypeOK
<1> QED BY <1>1, <1>2, <1>3, <1>4, LogsOnlyGrow

LEMMA SettleInv == ASSUME IInv, NEW m \in Members, Settle(m) PROVE IInv'
<1> USE DEF IInv, Settle, Working
<1>1. TypeOK' BY DEF TypeOK, board
<1>2. OutOfPlay' BY DEF OutOfPlay, TypeOK
<1>3. \A k \in Members : done'[k] >= done[k] BY DEF TypeOK
<1>4. BarrierHolds'
  <2> SUFFICES ASSUME NEW k \in Members, NEW n \in Members, Working(k)', n \notin escalated
               PROVE  done'[n] >= started[k] - 1
    BY DEF BarrierHolds
  <2>1. k # m BY DEF TypeOK
  <2>2. done'[k] = done[k] BY <2>1 DEF TypeOK
  <2>3. done[n] >= started[k] - 1 BY <2>2 DEF BarrierHolds
  <2> QED BY <2>3, <1>3 DEF TypeOK
<1> QED BY <1>1, <1>2, <1>3, <1>4, LogsOnlyGrow

LEMMA EscalateInv == ASSUME IInv, NEW m \in Members, Escalate(m) PROVE IInv'
<1> USE DEF IInv, Escalate, Working
<1>1. TypeOK' BY DEF TypeOK, board
<1>2. OutOfPlay' BY DEF OutOfPlay, TypeOK
<1>3. \A k \in Members : done'[k] >= done[k] BY DEF TypeOK
<1>4. BarrierHolds' BY DEF BarrierHolds, TypeOK
<1> QED BY <1>1, <1>2, <1>3, <1>4, LogsOnlyGrow

LEMMA DecideInv ==
  ASSUME IInv, NEW m \in Members, NEW decision \in Decisions, Decide(m, decision) PROVE IInv'
<1> USE DEF IInv, Decide
<1>1. TypeOK' BY ConductAssumption DEF TypeOK, board
<1>2. OutOfPlay' BY DEF OutOfPlay, TypeOK
<1>3. \A k \in Members : done'[k] >= done[k] BY DEF TypeOK
<1>4. BarrierHolds'
  <2> SUFFICES ASSUME NEW k \in Members, NEW n \in Members, Working(k)', n \notin escalated
               PROVE  done[n] >= started[k] - 1
    BY DEF BarrierHolds
  <2>1. CASE k = m BY <2>1 DEF OutOfPlay, Working, TypeOK
  <2>2. CASE k # m BY <2>2 DEF BarrierHolds, Working, TypeOK
  <2> QED BY <2>1, <2>2
<1> QED BY <1>1, <1>2, <1>3, <1>4, LogsOnlyGrow
LEMMA RelayInv ==
  ASSUME IInv, NEW r \in Relays, Send(r) \/ Resolve(r) \/ Deliver(r) PROVE IInv'
<1> USE DEF IInv, Send, Resolve, Deliver
<1>1. TypeOK' BY DEF TypeOK, board
<1>2. UNCHANGED <<done, started, status, escalated, board>> OBVIOUS
<1>3. OutOfPlay' BY <1>2 DEF OutOfPlay
<1>4. BarrierHolds' BY <1>2 DEF BarrierHolds, Working
<1>5. \A k \in Members : done'[k] >= done[k] BY <1>2 DEF TypeOK
<1> QED BY <1>1, <1>2, <1>3, <1>4, <1>5, LogsOnlyGrow

\* MaxTroubles bounds the failed pushes and the interrupts, too.
LEMMA SparedIsRoom ==
  ASSUME TypeOK, Spared PROVE faults + 1 \in 0..MaxTroubles
<1>1. Cardinality(escalated) \in Nat
  <2>1. IsFiniteSet(Members)
    <3>1. IsFiniteSet(1..Len(Rows)) BY RowsAreMembers, FS_Interval
    <3>2. Rows \in Surjection(1..Len(Rows), Members) BY RowsAreMembers DEF Surjection
    <3> QED BY <3>1, <3>2, FS_Surjection
  <2>2. IsFiniteSet(escalated) BY <2>1, FS_Subset DEF TypeOK
  <2> QED BY <2>2, FS_CardinalityType
<1>2. MaxTroubles \in Nat BY ConductAssumption
<1> QED BY <1>1, <1>2 DEF Spared, TypeOK

\* What the board does to the members is to push barriers.
LEMMA BoardKeepsMembers ==
  ASSUME IInv, UNCHANGED logs PROVE OutOfPlay' /\ BarrierHolds'
BY DEF IInv, logs, OutOfPlay, BarrierHolds, Working

LEMMA BarriersStay ==
  ASSUME IInv, UNCHANGED <<logs, barrier, carried>> PROVE Barriers'
BY DEF IInv, logs, Barriers, Right

LEMMA ReadingInv ==
  ASSUME IInv, Begin \/ ReadPhase \/ ReadStatus \/ ReadRelays PROVE IInv'
<1> USE RowsAreMembers
<1>1. UNCHANGED <<logs, barrier, pushed, carried, faults>>
  BY DEF Begin, ReadPhase, ReadStatus, ReadRelays
<1>2. OutOfPlay' /\ BarrierHolds' /\ Barriers' BY <1>1, BoardKeepsMembers, BarriersStay
<1>3. \A m \in Members : done[m] \in 0..4 BY DEF IInv, TypeOK
<1>4. row \in 1..Len(Rows) /\ Rows[row] \in Members BY DEF IInv, TypeOK
<1>5. done' = done /\ escalated' = escalated BY <1>1 DEF logs
<1>6. seen \in Sightings /\ seen.base \in 0..4 \cup {99} /\ seen.ord \in 0..4
  BY SightingType DEF IInv, TypeOK
<1>7. CASE Begin
  <2>1. seen' \in Sightings
    <3>1. resolved \subseteq Relays BY DEF IInv, TypeOK
    <3>2. ResolvedSlugs \in SUBSET Slugs
      BY <3>1 DEF ResolvedSlugs, Slugs
    <3>3. seen' = [Unseen EXCEPT !.slugs = ResolvedSlugs] BY <1>7 DEF Begin
    <3>4. seen' = [slugs |-> ResolvedSlugs, ord |-> 0, base |-> 99, open |-> FALSE, esc |-> FALSE]
      BY <3>3 DEF Unseen
    <3> QED BY <3>2, <3>4 DEF Sightings
  <2>2. TypeOK' BY <2>1, <1>1, <1>7 DEF Begin, IInv, TypeOK, logs
  <2>3. row = 1 /\ row' = 1 /\ at' = "phase" BY <1>7 DEF Begin, IInv, Folded
  <2>4. Folded' BY <2>3 DEF Folded, Judged
  <2> QED BY <2>2, <2>4, <1>2 DEF IInv
<1>8. CASE ReadPhase
  <2>1. seen' \in Sightings BY <1>8, <1>3, <1>4, <1>6 DEF ReadPhase, Sightings
  <2>2. TypeOK' BY <2>1, <1>1, <1>8 DEF ReadPhase, IInv, TypeOK, logs
  <2>3. seen'.ord = done[Rows[row]] /\ seen'.base = seen.base /\ seen'.esc = seen.esc
    BY <1>8, <1>6 DEF ReadPhase, Sightings
  <2>4. row' = row /\ at = "phase" /\ at' = "status" BY <1>8 DEF ReadPhase
  <2>5. seen'.ord <= done'[Rows[row']] BY <2>3, <2>4, <1>3, <1>4, <1>5
  <2>6. Folded' BY <2>3, <2>4, <2>5, <1>5 DEF IInv, Folded, Judged
  <2> QED BY <2>2, <2>6, <1>2 DEF IInv
<1>9. CASE ReadStatus
  <2>1. row' = row /\ at = "status" /\ at' = "relays" BY <1>9 DEF ReadStatus
  <2>2. CASE status[Rows[row]] = "escalated"
    <3>1. seen' = [seen EXCEPT !.esc = TRUE, !.ord = 0] BY <1>9, <2>2 DEF ReadStatus
    <3>0. seen' = [slugs |-> seen.slugs, ord |-> 0, base |-> seen.base, open |-> seen.open,
                   esc |-> TRUE]
      BY <3>1, <1>6 DEF Sightings
    <3>2. seen' \in Sightings /\ seen'.esc /\ seen'.base = seen.base
      BY <3>0, <1>6 DEF Sightings
    <3>3. TypeOK' BY <2>1, <3>2, <1>1 DEF IInv, TypeOK, logs
    <3>4. Rows[row] \in escalated BY <2>2, <1>4 DEF IInv, OutOfPlay
    <3>5. ASSUME NEW i \in 1..Len(Rows), Judged(i)', (Rows[i] \notin escalated \/ ~seen.esc)'
          PROVE  seen'.base <= done'[Rows[i]]
      <4>1. Rows[i] \notin escalated BY <3>5, <3>2, <1>5
      <4>2. i < row BY <4>1, <3>4, <3>5, <2>1, <1>4 DEF Judged
      <4>3. Judged(i) BY <4>2, <2>1 DEF Judged
      <4> QED BY <4>1, <4>3, <3>2, <1>5 DEF IInv, Folded
    <3>6. Folded' BY <3>5, <2>1 DEF Folded
    <3> QED BY <3>3, <3>6, <1>2 DEF IInv
  <2>3. CASE status[Rows[row]] # "escalated"
    <3>1. seen' = [seen EXCEPT !.base = Least(@, seen.ord), !.ord = 0]
      BY <1>9, <2>3 DEF ReadStatus
    <3>2. Least(seen.base, seen.ord) \in 0..4 /\ Least(seen.base, seen.ord) <= seen.ord
          /\ Least(seen.base, seen.ord) <= seen.base
      BY <1>6 DEF Least
    <3>0. seen' = [slugs |-> seen.slugs, ord |-> 0, base |-> Least(seen.base, seen.ord),
                   open |-> seen.open, esc |-> seen.esc]
      BY <3>1, <1>6 DEF Sightings
    <3>3. seen' \in Sightings /\ seen'.esc = seen.esc
          /\ seen'.base \in 0..4 /\ seen'.base <= seen.ord /\ seen'.base <= seen.base
      BY <3>0, <3>2, <1>6 DEF Sightings
    <3>4. TypeOK' BY <2>1, <3>3, <1>1 DEF IInv, TypeOK, logs
    <3>5. ASSUME NEW i \in 1..Len(Rows), Judged(i)', (Rows[i] \notin escalated \/ ~seen.esc)'
          PROVE  seen'.base <= done'[Rows[i]]
      <4>1. Rows[i] \in Members OBVIOUS
      <4>2. CASE i = row
        <5>1. seen.ord <= done[Rows[row]] BY <2>1 DEF IInv, Folded
        <5>2. done[Rows[row]] \in 0..4 /\ done'[Rows[i]] = done[Rows[row]]
          BY <4>1, <4>2, <1>3, <1>5
        <5>3. seen'.base \in 0..4 /\ seen'.base <= seen.ord /\ seen.ord \in 0..4 BY <3>3, <1>6
        <5> HIDE RowsAreMembers
        <5> QED BY <5>1, <5>2, <5>3
      <4>3. CASE i # row
        <5>1. Judged(i) BY <4>3, <3>5, <2>1, <1>4 DEF Judged
        <5>2. seen.base <= done[Rows[i]] BY <5>1, <3>5, <3>3, <1>5 DEF IInv, Folded
        <5> QED BY <5>2, <4>1, <3>3, <1>3, <1>5, <1>6
      <4> QED BY <4>2, <4>3
    <3>6. Folded' BY <3>5, <2>1 DEF Folded
    <3> QED BY <3>4, <3>6, <1>2 DEF IInv
  <2> QED BY <2>2, <2>3
<1>10. CASE ReadRelays
  <2>1. seen' = [seen EXCEPT !.open = @ \/ OpenLegs(Rows[row]) # {}] /\ at = "relays"
    BY <1>10 DEF ReadRelays
  <2>2. seen' \in Sightings /\ seen'.base = seen.base /\ seen'.esc = seen.esc
    BY <2>1, <1>6 DEF Sightings
  <2>3. \/ row < Len(Rows) /\ at' = "phase" /\ row' = row + 1
        \/ row = Len(Rows) /\ at' = "inject" /\ row' = row
    BY <1>10, <1>4 DEF ReadRelays
  <2>4. TypeOK'
    <3>1. row' \in 1..Len(Rows) BY <2>3, <1>4, RowAfterRow, Zenon
    <3> QED BY <2>2, <2>3, <3>1, <1>1 DEF IInv, TypeOK, logs
  <2>5. \A i \in 1..Len(Rows) : Judged(i)' => Judged(i)
    BY <2>1, <2>3, <1>4 DEF Judged
  <2>6. Folded' BY <2>2, <2>3, <2>5, <1>5 DEF IInv, Folded
  <2> QED BY <2>4, <2>6, <1>2 DEF IInv
<1> QED BY <1>7, <1>8, <1>9, <1>10

\* Pushing: the verdict stays right while row after row is told of it.
LEMMA PushingInv ==
  ASSUME IInv, Inject \/ Push \/ PushFails PROVE IInv'
<1>1. UNCHANGED <<logs, seen, carried>> /\ at \in {"inject", "push"} /\ at' \in {"push", "end"}
  BY DEF Inject, Push, PushFails, NextRow
<1>2. OutOfPlay' /\ BarrierHolds' BY <1>1, BoardKeepsMembers
<1>3. row \in 1..Len(Rows) /\ Rows[row] \in Members /\ Prime \in Members
  BY RowsAreMembers DEF IInv, TypeOK
<1>4. Verdict \in Tokens /\ Right(Verdict)
  BY <1>1, VerdictIsRight DEF IInv
<1>5. row' \in 1..Len(Rows)
  <2>1. CASE Inject BY <2>1, RowAfterRow DEF Inject
  <2>2. CASE Push \/ PushFails
    <3>1. row' = row \/ (row < Len(Rows) /\ row' = row + 1) BY <2>2 DEF Push, PushFails, NextRow
    <3> QED BY <3>1, <1>3, RowAfterRow, Zenon
  <2> QED BY <2>1, <2>2, <1>1 DEF Push, PushFails
<1>6. pushed' \in BOOLEAN BY DEF Inject, Push, PushFails, IInv, TypeOK
<1>7. faults' \in 0..MaxTroubles
  <2>1. MaxTroubles \in Nat /\ faults \in 0..MaxTroubles BY ConductAssumption DEF IInv, TypeOK
  <2>2. CASE UNCHANGED faults BY <2>1, <2>2
  <2>3. CASE PushFails BY <2>1, <2>3, SparedIsRoom DEF PushFails, IInv
  <2> QED BY <2>2, <2>3 DEF Inject, Push, PushFails
<1>8. barrier' = barrier \/ \E m \in Members : barrier' = [barrier EXCEPT ![m] = Verdict]
  BY <1>3 DEF Inject, Push, PushFails
<1>9. barrier' \in [Members -> {NoBarrier} \cup Tokens] BY <1>4, <1>8 DEF IInv, TypeOK
<1>10. TypeOK' BY <1>1, <1>5, <1>6, <1>7, <1>9 DEF IInv, TypeOK, logs
<1>11. Folded'
  <2>1. \A i \in 1..Len(Rows) : Judged(i) BY <1>1 DEF Judged
  <2> QED BY <2>1, <1>1, RowsAreMembers DEF IInv, Folded, logs
<1>12. Barriers'
  <2>1. CASE barrier' = barrier BY <2>1, <1>1, BarriersStay
  <2>2. ASSUME NEW m \in Members, barrier' = [barrier EXCEPT ![m] = Verdict] PROVE Barriers'
    <3>1. done' = done /\ escalated' = escalated /\ carried' = carried BY <1>1 DEF logs
    <3>2. \A k \in Members : barrier'[k] = IF k = m THEN Verdict ELSE barrier[k]
      BY <2>2 DEF IInv, TypeOK
    <3> QED BY <1>4, <3>1, <3>2 DEF IInv, Barriers, Right
  <2> QED BY <1>8, <2>1, <2>2
<1> QED BY <1>2, <1>10, <1>11, <1>12 DEF IInv

LEMMA StoppingInv ==
  ASSUME IInv, End \/ Interrupt PROVE IInv'
<1>1. UNCHANGED <<logs, barrier, carried>> BY DEF End, Interrupt
<1>2. OutOfPlay' /\ BarrierHolds' /\ Barriers' BY <1>1, BoardKeepsMembers, BarriersStay
<1>3. at' \in {"idle", "gone"} /\ row' = 1 /\ seen' = Unseen /\ pushed' = FALSE
  BY DEF End, Interrupt, Stop
<1>4. faults' \in 0..MaxTroubles
  <2>1. MaxTroubles \in Nat /\ faults \in 0..MaxTroubles BY ConductAssumption DEF IInv, TypeOK
  <2>2. CASE End BY <2>1, <2>2 DEF End
  <2>3. CASE Interrupt BY <2>1, <2>3, SparedIsRoom DEF Interrupt, IInv
  <2> QED BY <2>2, <2>3
<1>5. Unseen \in Sightings BY DEF Unseen, Sightings
<1>6. TypeOK' BY <1>1, <1>3, <1>4, <1>5, RowAfterRow DEF IInv, TypeOK, logs
<1>7. Folded' BY <1>3 DEF Folded, Judged
<1> QED BY <1>2, <1>6, <1>7 DEF IInv

\* A slow renderer puts back a block that was right when it was read.
LEMMA RenderInv ==
  ASSUME IInv, RenderReads \/ RenderWrites PROVE IInv'
<1>1. UNCHANGED <<logs, at, row, seen, pushed>> BY DEF RenderReads, RenderWrites
<1>2. OutOfPlay' /\ BarrierHolds' BY <1>1, BoardKeepsMembers
<1>3. Folded' BY <1>1 DEF IInv, Folded, Judged, logs
<1>4. CASE RenderReads
  <2>1. barrier' = barrier /\ carried' = <<barrier[Prime]>> /\ faults' \in 0..MaxTroubles
    BY <1>4, SparedIsRoom DEF RenderReads, IInv
  <2>2. barrier[Prime] \in {NoBarrier} \cup Tokens BY RowsAreMembers DEF IInv, TypeOK
  <2>3. TypeOK' BY <1>1, <2>1, <2>2 DEF IInv, TypeOK, logs
  <2>4. Barriers'
    <3>1. carried'[1] = barrier[Prime] BY <2>1
    <3> QED BY <1>1, <2>1, <3>1, RowsAreMembers DEF IInv, Barriers, Right, logs
  <2> QED BY <1>2, <1>3, <2>3, <2>4 DEF IInv
<1>5. CASE RenderWrites
  <2>1. barrier' = [barrier EXCEPT ![Prime] = carried[1]] /\ carried' = <<>> /\ faults' = faults
    BY <1>5 DEF RenderWrites
  <2>2. carried[1] \in {NoBarrier} \cup Tokens /\ Right(carried[1])
    BY <1>5, CarriedType DEF RenderWrites, IInv, Barriers
  <2>3. barrier' \in [Members -> {NoBarrier} \cup Tokens] BY <2>1, <2>2 DEF IInv, TypeOK
  <2>4. TypeOK' BY <1>1, <2>1, <2>3 DEF IInv, TypeOK, logs
  <2>5. Barriers'
    <3>1. \A k \in Members : barrier'[k] = IF k = Prime THEN carried[1] ELSE barrier[k]
      BY <2>1 DEF IInv, TypeOK
    <3> QED BY <1>1, <2>1, <2>2, <3>1 DEF IInv, Barriers, Right, logs
  <2> QED BY <1>2, <1>3, <2>4, <2>5 DEF IInv
<1> QED BY <1>4, <1>5

LEMMA NextInv == IInv /\ [Next]_vars => IInv'
<1> SUFFICES ASSUME IInv, [Next]_vars PROVE IInv' OBVIOUS
<1>1. CASE Next
  <2>1. ASSUME NEW m \in Members, Work(m) PROVE IInv'
    BY <2>1, StartInv, SettleInv, RelayInv DEF Work
  <2>2. ASSUME NEW m \in Members, Escalate(m) PROVE IInv' BY <2>2, EscalateInv
  <2>3. CASE Sync BY <2>3, RelayInv DEF Sync
  <2>4. CASE Human BY <2>4, DecideInv DEF Human
  <2>5. CASE Board BY <2>5, ReadingInv, PushingInv, StoppingInv DEF Board
  <2>6. CASE PushFails \/ Interrupt BY <2>6, PushingInv, StoppingInv
  <2>7. CASE RenderReads \/ RenderWrites BY <2>7, RenderInv
  <2> QED BY <1>1, <2>1, <2>2, <2>3, <2>4, <2>5, <2>6, <2>7 DEF Next
<1>2. CASE UNCHANGED vars
  <2>1. UNCHANGED <<logs, board>> BY <1>2 DEF vars
  <2>2. OutOfPlay' /\ BarrierHolds' BY <2>1, BoardKeepsMembers
  <2>3. TypeOK' BY <2>1 DEF IInv, TypeOK, logs, board
  <2>4. \A m \in Members : done'[m] >= done[m] BY <2>1 DEF IInv, TypeOK, logs
  <2> QED BY <2>1, <2>2, <2>3, <2>4, LogsOnlyGrow DEF logs
<1> QED BY <1>1, <1>2

-------------------------------------------------------------------------------
(* Theorems *)

\* IInv is inductive.
THEOREM Inductive == Spec => []IInv
BY InitInv, NextInv, PTL DEF Spec

\* The board and the logs keep their types, for any run.
THEOREM TypeCorrect == Spec => []TypeOK
BY Inductive, PTL DEF IInv

\* Nobody is more than a phase ahead of anybody in play, for any number of
\* repositories and any relays among them: the fold of logs that grow while
\* they are read is good enough (scripts/conduct-board.sh:17, 365-436).
THEOREM BarrierKept == Spec => []BarrierHolds
BY Inductive, PTL DEF IInv

\* A member in play settles the phases in turn (scripts/conduct-board.sh:397).
THEOREM InTurn == Spec => SettlesInTurn
<1>1. IInv /\ [Next]_vars
      => [\A m \in Members \ escalated : done'[m] # done[m] => done'[m] = done[m] + 1]_vars
  <2> SUFFICES ASSUME IInv, Next, NEW m \in Members \ escalated, done'[m] # done[m]
               PROVE  done'[m] = done[m] + 1
    OBVIOUS
  <2>1. PICK k \in Members : Settle(k)
    BY DEF Next, Work, Start, Send, Resolve, Escalate, Sync, Deliver, Human, Decide, Board,
           Begin, ReadPhase, ReadStatus, ReadRelays, Inject, Push, PushFails, End, Interrupt, RenderReads,
           RenderWrites, logs
  <2>2. done[m] \in 0..4 /\ started[m] \in 0..4 BY DEF IInv, TypeOK
  <2>3. k = m /\ done'[m] = started[m] BY <2>1 DEF Settle, IInv, TypeOK
  <2>4. Working(m) BY <2>1, <2>3 DEF Settle
  <2>5. done[m] >= started[m] - 1 BY <2>4 DEF IInv, BarrierHolds
  <2> QED BY <2>2, <2>3, <2>4, <2>5 DEF Working
<1> QED BY <1>1, Inductive, PTL DEF Spec, SettlesInTurn

\* A run that is said to be complete is: all have settled validation, the
\* once escalated too (scripts/conduct-board.sh:36-38, 428).
THEOREM CompleteIsValidated == Spec => []CompleteMeansValidated
<1>1. IInv => CompleteMeansValidated
  BY DEF IInv, Barriers, Right, CompleteMeansValidated, Complete, TypeOK
<1> QED BY <1>1, Inductive, PTL

-------------------------------------------------------------------------------
(* Barriers that only advance.  A pass may tell a member of an earlier phase *)
(* than an earlier pass did only if somebody fell back or was left out of    *)
(* the minimum; while nobody escalates, what a pass has folded so far is not *)
(* behind any barrier that is still being read.                              *)

\* b is at most one phase ahead of every member and of what the board has folded.
NotAhead(b) ==
  /\ \A n \in Members : b.phase <= done[n] + 1
  /\ b.phase <= seen.base + 1
  /\ at = "status" => b.phase <= seen.ord + 1

Unhurried ==
  escalated = {} =>
    /\ ~seen.esc
    /\ \A i \in DOMAIN Rows : Judged(i) => seen.base # 99
    /\ \A m \in Members : NotAhead(barrier[m])
    /\ carried # <<>> => NotAhead(carried[1])

LEMMA BarrierPhase ==
  TypeOK => /\ \A m \in Members : barrier[m].phase \in 0..4
            /\ carried # <<>> => carried[1].phase \in 0..4
BY CarriedType DEF TypeOK, NoBarrier, Token, Tokens, Phases

LEMMA InitUnhurried == Init => Unhurried
<1> SUFFICES ASSUME Init PROVE Unhurried OBVIOUS
<1>1. seen.esc = FALSE /\ seen.base = 99 /\ at = "idle" /\ row = 1 /\ carried = <<>>
  BY DEF Init, Unseen
<1>2. \A m \in Members : done[m] = 0 /\ barrier[m].phase = 0 BY DEF Init, NoBarrier, Token
<1>3. \A i \in DOMAIN Rows : ~Judged(i) BY <1>1 DEF Judged
<1> QED BY <1>1, <1>2, <1>3 DEF Unhurried, NotAhead

\* Workers, the sync and a human: phases rise, and escalations are kept.
LEMMA LogsUnhurried ==
  ASSUME IInv, Unhurried, UNCHANGED board,
         \A m \in Members : done[m] \in 0..4 /\ done'[m] \in 0..4 /\ done'[m] >= done[m],
         escalated \subseteq escalated'
  PROVE  Unhurried'
<1> SUFFICES ASSUME escalated' = {} PROVE Unhurried' BY DEF Unhurried
<1>1. escalated = {} OBVIOUS
<1>2. barrier' = barrier /\ carried' = carried /\ at' = at /\ row' = row /\ seen' = seen
  BY DEF board
<1>3. \A m \in Members : barrier[m].phase \in 0..4 BY BarrierPhase DEF IInv
<1>4. carried # <<>> => carried[1].phase \in 0..4 BY BarrierPhase DEF IInv
<1>5. \A m \in Members : NotAhead(barrier[m])' BY <1>1, <1>2, <1>3 DEF Unhurried, NotAhead
<1>6. carried # <<>> => NotAhead(carried[1])' BY <1>1, <1>2, <1>4 DEF Unhurried, NotAhead
<1>7. \A i \in DOMAIN Rows : Judged(i)' => Judged(i) BY <1>2 DEF Judged
<1> QED BY <1>1, <1>2, <1>5, <1>6, <1>7 DEF Unhurried

LEMMA WorkersUnhurried ==
  ASSUME IInv, Unhurried,
         (\E m \in Members : Work(m) \/ Escalate(m)) \/ Sync \/ Human
  PROVE  Unhurried'
<1> USE DEF IInv, TypeOK
<1>1. \A m \in Members : done[m] \in 0..4 /\ started[m] \in 0..4 OBVIOUS
<1>2. UNCHANGED board
  BY DEF Work, Start, Settle, Send, Resolve, Escalate, Sync, Deliver, Human, Decide
<1>3. escalated \subseteq escalated'
  BY DEF Work, Start, Settle, Send, Resolve, Escalate, Sync, Deliver, Human, Decide
<1>4. \A m \in Members : done'[m] \in 0..4 /\ done'[m] >= done[m]
  <2>1. ASSUME NEW m \in Members, Settle(m) PROVE <1>4
    BY <1>1, <2>1 DEF Settle, Working
  <2>2. CASE done' = done BY <1>1, <2>2
  <2> QED BY <2>1, <2>2
       DEF Work, Start, Send, Resolve, Escalate, Sync, Deliver, Human, Decide
<1> QED BY <1>1, <1>2, <1>3, <1>4, LogsUnhurried

\* Reading a row: its phase is one less than every barrier's, or more.
LEMMA ReadingUnhurried ==
  ASSUME IInv, Unhurried, Begin \/ ReadPhase \/ ReadStatus \/ ReadRelays
  PROVE  Unhurried'
<1> SUFFICES ASSUME escalated' = {} PROVE Unhurried' BY DEF Unhurried
<1>1. UNCHANGED <<logs, barrier, carried>>
  BY DEF Begin, ReadPhase, ReadStatus, ReadRelays
<1>2. done' = done /\ escalated = {} /\ barrier' = barrier /\ carried' = carried
  BY <1>1 DEF logs
<1>3. /\ \A m \in Members : barrier[m].phase \in 0..4
      /\ carried # <<>> => carried[1].phase \in 0..4
  BY BarrierPhase DEF IInv
<1>4. row \in 1..Len(Rows) /\ Rows[row] \in Members BY RowsAreMembers DEF IInv, TypeOK
<1>5. seen \in Sightings /\ seen.base \in 0..4 \cup {99} /\ seen.ord \in 0..4
  BY SightingType DEF IInv, TypeOK
<1>6. \A m \in Members : done[m] \in 0..4 BY DEF IInv, TypeOK
<1>7. SUFFICES /\ ~seen'.esc
               /\ \A i \in DOMAIN Rows : Judged(i)' => seen'.base # 99
               /\ \A b : (b.phase \in 0..4 /\ NotAhead(b)) =>
                           /\ b.phase <= seen'.base + 1
                           /\ at' = "status" => b.phase <= seen'.ord + 1
  BY <1>2, <1>3 DEF Unhurried, NotAhead
<1>8. CASE Begin
  <2>1. seen' = [Unseen EXCEPT !.slugs = ResolvedSlugs] /\ at' = "phase" /\ row' = row
    BY <1>8 DEF Begin
  <2>2. seen'.base = 99 /\ seen'.esc = FALSE BY <2>1 DEF Unseen
  <2>3. row = 1 BY <1>8 DEF Begin, IInv, Folded
  <2>4. \A i \in DOMAIN Rows : ~Judged(i)' BY <2>1, <2>3, RowsAreMembers DEF Judged
  <2> QED BY <2>1, <2>2, <2>4
<1>9. CASE ReadPhase
  <2>1. seen'.ord = done[Rows[row]] /\ seen'.base = seen.base /\ seen'.esc = seen.esc
    BY <1>9, <1>5 DEF ReadPhase, Sightings
  <2>2. row' = row /\ at = "phase" /\ at' = "status" BY <1>9 DEF ReadPhase
  <2>3. \A i \in DOMAIN Rows : Judged(i)' => Judged(i) BY <2>2 DEF Judged
  <2> QED BY <2>1, <2>3, <1>2, <1>4 DEF Unhurried, NotAhead
<1>10. CASE ReadStatus
  <2>1. row' = row /\ at = "status" /\ at' = "relays" BY <1>10 DEF ReadStatus
  <2>2. status[Rows[row]] # "escalated"
    BY <1>2, <1>4 DEF IInv, OutOfPlay
  <2>3. seen' = [seen EXCEPT !.base = Least(@, seen.ord), !.ord = 0]
    BY <1>10, <2>2 DEF ReadStatus
  <2>4. seen'.base = Least(seen.base, seen.ord) /\ seen'.esc = seen.esc
    BY <2>3, <1>5 DEF Sightings
  <2>5. /\ seen'.base \in 0..4
        /\ seen'.base = seen.base \/ seen'.base = seen.ord
    BY <2>4, <1>5 DEF Least
  <2> QED BY <2>1, <2>4, <2>5, <1>2 DEF Unhurried, NotAhead
<1>11. CASE ReadRelays
  <2>1. seen' = [seen EXCEPT !.open = @ \/ OpenLegs(Rows[row]) # {}] /\ at = "relays"
    BY <1>11 DEF ReadRelays
  <2>2. seen'.base = seen.base /\ seen'.esc = seen.esc BY <2>1, <1>5 DEF Sightings
  <2>3. at' \in {"phase", "inject"} BY <1>11 DEF ReadRelays
  <2>4. Judged(row) BY <2>1, <1>4 DEF Judged
  <2>5. seen.base # 99 BY <2>4, <1>2, <1>4, RowsAreMembers DEF Unhurried
  <2> QED BY <2>2, <2>3, <2>5, <1>2 DEF Unhurried, NotAhead
<1> QED BY <1>8, <1>9, <1>10, <1>11

\* While nobody escalates, the verdict of a finished fold is a phase ahead of
\* its minimum, or the last.
LEMMA VerdictIsNext ==
  ASSUME IInv, Unhurried, escalated = {}, at \in {"inject", "push"}
  PROVE  /\ Verdict.phase \in 1..4
         /\ seen.base \in 0..4
         /\ Verdict.phase = Least(seen.base + 1, 4)
<1>1. Verdict \in Tokens BY VerdictIsRight DEF IInv
<1>2. Judged(1) /\ 1 \in DOMAIN Rows BY RowsAreMembers DEF Judged
<1>3. seen.base \in 0..4 /\ ~seen.esc /\ seen.open \in BOOLEAN
  BY <1>2, SightingType DEF IInv, Unhurried
<1>4. Base = seen.base BY <1>3 DEF Base
<1>5. Least(Target, 4) = Least(seen.base + 1, 4) BY <1>3, <1>4 DEF Target, Least
<1>6. CASE Base >= 4 /\ ~seen.open
  <2>1. Verdict = Token(4, "complete") BY <1>6, <1>3 DEF Verdict
  <2> QED BY <2>1, <1>1, <1>3, <1>4, <1>6 DEF Token, Least
<1>7. CASE seen.open
  <2>1. Verdict = Token(Least(Target, 4), "held") BY <1>7 DEF Verdict
  <2> QED BY <2>1, <1>3, <1>5 DEF Token, Least
<1>8. CASE ~(Base >= 4) /\ ~seen.open
  <2>1. Verdict = Token(Target, "open") BY <1>8 DEF Verdict
  <2> QED BY <2>1, <1>3, <1>4, <1>8 DEF Token, Least, Target
<1> QED BY <1>3, <1>6, <1>7, <1>8

LEMMA PushingUnhurried ==
  ASSUME IInv, Unhurried, Inject \/ Push \/ PushFails
  PROVE  Unhurried'
<1> SUFFICES ASSUME escalated' = {} PROVE Unhurried' BY DEF Unhurried
<1>1. UNCHANGED <<logs, seen, carried>> /\ at \in {"inject", "push"} /\ at' \in {"push", "end"}
  BY DEF Inject, Push, PushFails, NextRow
<1>2. done' = done /\ escalated = {} /\ seen' = seen /\ carried' = carried BY <1>1 DEF logs
<1>3. \A i \in DOMAIN Rows : Judged(i) BY <1>1 DEF Judged
<1>4. Rows[row] \in Members /\ Prime \in Members BY RowsAreMembers DEF IInv, TypeOK
<1>5. NotAhead(Verdict)
  <2>1. /\ Verdict.phase \in 1..4 /\ seen.base \in 0..4
        /\ Verdict.phase = Least(seen.base + 1, 4)
    BY <1>1, <1>2, VerdictIsNext
  <2>2. Verdict.phase <= seen.base + 1 BY <2>1 DEF Least
  <2>3. \A n \in Members : seen.base <= done[n]
    BY <1>2, <1>3, RowsAreMembers DEF IInv, Folded
  <2>4. \A n \in Members : done[n] \in 0..4 BY DEF IInv, TypeOK
  <2>5. \A n \in Members : Verdict.phase <= done[n] + 1 BY <2>1, <2>2, <2>3, <2>4
  <2> QED BY <1>1, <2>2, <2>5 DEF NotAhead
<1>6. \A m \in Members : barrier'[m] = barrier[m] \/ barrier'[m] = Verdict
  BY <1>4 DEF Inject, Push, PushFails, IInv, TypeOK
<1>7. \A b : NotAhead(b) =>
         /\ \A n \in Members : b.phase <= done'[n] + 1
         /\ b.phase <= seen'.base + 1
         /\ at' # "status"
  BY <1>1, <1>2 DEF NotAhead
<1>8. \A m \in Members : NotAhead(barrier'[m])
  BY <1>2, <1>5, <1>6 DEF Unhurried
<1>9. \A m \in Members : NotAhead(barrier[m])' BY <1>7, <1>8 DEF NotAhead
<1>10. carried' # <<>> => NotAhead(carried[1])' BY <1>2, <1>7 DEF Unhurried, NotAhead
<1> QED BY <1>2, <1>3, <1>9, <1>10 DEF Unhurried

LEMMA RestUnhurried ==
  ASSUME IInv, Unhurried, End \/ Interrupt \/ RenderReads \/ RenderWrites
  PROVE  Unhurried'
<1> SUFFICES ASSUME escalated' = {} PROVE Unhurried' BY DEF Unhurried
<1>1. UNCHANGED logs BY DEF End, Interrupt, RenderReads, RenderWrites
<1>2. done' = done /\ escalated = {} BY <1>1 DEF logs
<1>3. /\ \A m \in Members : barrier[m].phase \in 0..4
      /\ carried # <<>> => carried[1].phase \in 0..4
  BY BarrierPhase DEF IInv
<1>4. CASE End \/ Interrupt
  <2>1. UNCHANGED <<barrier, carried>> /\ at' \in {"idle", "gone"} /\ seen' = Unseen
    BY <1>4 DEF End, Interrupt, Stop
  <2>2. seen'.base = 99 /\ seen'.esc = FALSE BY <2>1 DEF Unseen
  <2>3. \A i \in DOMAIN Rows : ~Judged(i)' BY <2>1 DEF Judged
  <2>4. \A m \in Members : NotAhead(barrier[m])'
    BY <1>2, <1>3, <2>1, <2>2 DEF Unhurried, NotAhead
  <2>5. carried # <<>> => NotAhead(carried[1])'
    BY <1>2, <1>3, <2>1, <2>2 DEF Unhurried, NotAhead
  <2> QED BY <2>1, <2>2, <2>3, <2>4, <2>5 DEF Unhurried
<1>5. CASE RenderReads \/ RenderWrites
  <2>1. UNCHANGED <<at, row, seen>> BY <1>5 DEF RenderReads, RenderWrites
  <2>2. \A m \in Members :
           \/ barrier'[m] = barrier[m]
           \/ carried # <<>> /\ barrier'[m] = carried[1]
    BY <1>5, RowsAreMembers DEF RenderReads, RenderWrites, IInv, TypeOK
  <2>3. carried' # <<>> => carried'[1] = barrier[Prime]
    BY <1>5 DEF RenderReads, RenderWrites
  <2>4. \A b : NotAhead(b) =>
           /\ \A n \in Members : b.phase <= done'[n] + 1
           /\ b.phase <= seen'.base + 1
           /\ at' = "status" => b.phase <= seen'.ord + 1
    BY <1>2, <2>1 DEF NotAhead
  <2>5. \A m \in Members : NotAhead(barrier'[m]) BY <1>2, <2>2 DEF Unhurried
  <2>6. \A m \in Members : NotAhead(barrier[m])' BY <2>4, <2>5 DEF NotAhead
  <2>7. carried' # <<>> => NotAhead(carried'[1])
    BY <1>2, <2>3, RowsAreMembers DEF Unhurried
  <2>8. carried' # <<>> => NotAhead(carried[1])' BY <2>4, <2>7 DEF NotAhead
  <2>9. \A i \in DOMAIN Rows : Judged(i)' => Judged(i) BY <2>1 DEF Judged
  <2> QED BY <1>2, <2>1, <2>6, <2>8, <2>9 DEF Unhurried
<1> QED BY <1>4, <1>5

LEMMA NextUnhurried == IInv /\ Unhurried /\ [Next]_vars => Unhurried'
<1> SUFFICES ASSUME IInv, Unhurried, [Next]_vars PROVE Unhurried' OBVIOUS
<1>1. CASE Next
  BY <1>1, WorkersUnhurried, ReadingUnhurried, PushingUnhurried, RestUnhurried
  DEF Next, Board
<1>2. CASE UNCHANGED vars
  <2>1. UNCHANGED board /\ done' = done /\ escalated' = escalated BY <1>2 DEF vars, logs
  <2>2. \A m \in Members : done[m] \in 0..4 BY DEF IInv, TypeOK
  <2>3. \A m \in Members : done[m] \in 0..4 /\ done'[m] \in 0..4 /\ done'[m] >= done[m]
    BY <2>1, <2>2
  <2> QED BY <2>1, <2>3, LogsUnhurried
<1> QED BY <1>1, <1>2

\* While nobody escalates, no member is ever told to go back to an earlier
\* phase, whatever pushes fail and whoever interrupts the board, except by a
\* slow renderer (scripts/conduct-board.sh:365-436).
THEOREM OnlyAdvances == Spec => BarrierOnlyAdvances
<1>1. IInv /\ Unhurried /\ [Next]_vars
      => [escalated = {} =>
            \A m \in Members : m # Prime \/ carried = <<>> =>
                                 barrier'[m].phase >= barrier[m].phase]_vars
  <2> SUFFICES ASSUME IInv, Unhurried, Next, escalated = {},
                      NEW m \in Members, m # Prime \/ carried = <<>>
               PROVE  barrier'[m].phase >= barrier[m].phase
    OBVIOUS
  <2>1. barrier[m].phase \in 0..4 BY BarrierPhase DEF IInv
  <2>2. CASE Inject \/ Push
    <3>1. at \in {"inject", "push"} BY <2>2 DEF Inject, Push
    <3>2. /\ Verdict.phase \in 1..4 /\ seen.base \in 0..4
          /\ Verdict.phase = Least(seen.base + 1, 4)
      BY <3>1, VerdictIsNext
    <3>3. barrier[m].phase <= seen.base + 1 BY DEF Unhurried, NotAhead
    <3>4. Verdict.phase >= barrier[m].phase BY <2>1, <3>2, <3>3 DEF Least
    <3>5. barrier'[m] = barrier[m] \/ barrier'[m] = Verdict
      BY <2>2 DEF Inject, Push, IInv, TypeOK
    <3> QED BY <2>1, <3>4, <3>5
  <2>3. CASE RenderWrites
    <3>1. m # Prime BY <2>3 DEF RenderWrites
    <3>2. barrier'[m] = barrier[m] BY <2>3, <3>1 DEF RenderWrites, IInv, TypeOK
    <3> QED BY <2>1, <3>2
  <2>4. CASE barrier' = barrier BY <2>1, <2>4
  <2> QED
    BY <2>2, <2>3, <2>4
    DEF Next, Work, Start, Send, Settle, Resolve, Escalate, Sync, Deliver, Human, Decide, Board,
        Begin, ReadPhase, ReadStatus, ReadRelays, PushFails, End, Interrupt, RenderReads,
        logs, board
<1> QED BY <1>1, Inductive, InitUnhurried, NextUnhurried, PTL DEF Spec, BarrierOnlyAdvances
===============================================================================
