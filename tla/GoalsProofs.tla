---------------------------- MODULE GoalsProofs ----------------------------
(***************************************************************************)
(* What holds of a goal for any limits, any number of orders and faults:   *)
(* its types, and, of a daemon that ticks alone, that it has one run in    *)
(* flight, keeps to its limit and pays for a run once.                     *)
(***************************************************************************)
EXTENDS Goals, FiniteSetTheorems, TLAPS

(* What happened is counted. *)
HistRec == [orders : Nat, deaths : Nat, failed : Nat, endings : Nat]

(* A pass that rests has nothing in hand, one that still collects has at   *)
(* most one entry, and one that settles, stops or has just started a run   *)
(* knows which and why.                                                    *)
Sound(q) ==
    /\ q.pc = "idle" => q.left = 0
    /\ q.pc \in {"idle", "paused", "settling"} =>
          q.left <= 1 /\ q.run = NoRun /\ q.verdict = "none" /\ q.stop = "none"
    /\ q.pc = "stop" => q.stop # "none"
    /\ q.pc \in {"check", "advance", "limits", "stop", "spawned"} => q.run # NoRun

(* The inductive invariant the types rest on. *)
TypeInv == TypeOK /\ hist \in HistRec /\ \A t \in Tickers : Sound(pass[t])

(* The steps of a pass that leave the row, its facts and the runs alone. *)
Thinking(t) ==
    \/ LookAtPaused(t) \/ NothingPaused(t) \/ Look(t)
    \/ \E verdict \in Verdicts : CheckDone(t, verdict)
    \/ ReadLimits(t)
    \/ \E passes \in BOOLEAN : AskFirst(t, passes)

(***************************************************************************)
(* A pass that moves on within its record keeps the types of all passes.   *)
(***************************************************************************)
LEMMA PassMoves ==
    ASSUME TypeInv, NEW t \in Tickers, Len(runs') = Len(runs),
           NEW q \in PassRec, Sound(q), pass' = [pass EXCEPT ![t] = q]
    PROVE  pass' \in [Tickers -> PassRec'] /\ \A s \in Tickers : Sound(pass'[s])
<1>1. PassRec' = PassRec
  BY DEF PassRec
<1>2. pass \in [Tickers -> PassRec] /\ \A s \in Tickers : Sound(pass[s])
  BY DEF TypeInv, TypeOK
<1>3. pass' \in [Tickers -> PassRec]
  BY <1>2
<1>4. \A s \in Tickers : Sound(pass'[s])
  BY <1>2
<1>5. QED
  BY <1>1, <1>3, <1>4

LEMMA RestingFits ==
    ASSUME TypeInv
    PROVE  Resting \in PassRec /\ Sound(Resting)
<1>1. Len(runs) \in Nat
  BY DEF TypeInv, TypeOK
<1>2. QED
  BY <1>1 DEF Resting, PassRec, Phases, Verdicts, Sound, NoRun

(***************************************************************************)
(* Whatever goal is read, should_stop answers with an end or with none.    *)
(***************************************************************************)
LEMMA StopAnswers ==
    ASSUME NEW g PROVE ShouldStop(g) \in Ended \cup {"none"}
BY DEF ShouldStop, Ended

(***************************************************************************)
(* Counting one thing more leaves the counts counts.                       *)
(***************************************************************************)
LEMMA HistCounts ==
    ASSUME hist \in HistRec
    PROVE  /\ [hist EXCEPT !.orders = @ + 1] \in HistRec
           /\ [hist EXCEPT !.deaths = @ + 1] \in HistRec
           /\ [hist EXCEPT !.failed = @ + 1] \in HistRec
           /\ [hist EXCEPT !.endings = @ + IF Exists THEN 1 ELSE 0] \in HistRec
BY DEF HistRec

LEMMA ThinkingTyped ==
    ASSUME TypeInv, NEW t \in Tickers, Thinking(t)
    PROVE  TypeInv'
<1> USE DEF At, NoRun
<1>1. /\ pass[t] \in PassRec /\ Sound(pass[t])
      /\ pass \in [Tickers -> PassRec]
      /\ runs \in Seq(RunStatus) /\ Len(runs) \in Nat
      /\ current \in 0..Len(runs)
  BY DEF TypeInv, TypeOK
<1>2. UNCHANGED <<goal, current, printed, runs, charged, hist>>
  BY DEF Thinking, LookAtPaused, NothingPaused, Look, CheckDone, ReadLimits, AskFirst
<1>3. \E q \in PassRec : Sound(q) /\ pass' = [pass EXCEPT ![t] = q]
  <2>1. CASE LookAtPaused(t)
    <3> DEFINE q == [pass[t] EXCEPT !.pc = "settling"]
    <3>1. pass' = [pass EXCEPT ![t] = q]
      BY <2>1 DEF LookAtPaused
    <3>2. pass[t].left <= 1
      BY <1>1, <2>1 DEF Sound, LookAtPaused, Resting
    <3>3. q \in PassRec
      BY <1>1 DEF PassRec, Phases
    <3>4. pass[t].pc \in {"idle", "paused"}
      BY <2>1 DEF LookAtPaused
    <3>6. Sound(q)
      BY <1>1, <3>2, <3>4 DEF PassRec, Sound
    <3>5. QED
      BY <3>1, <3>3, <3>6
  <2>2. CASE NothingPaused(t)
    <3> DEFINE q == [pass[t] EXCEPT !.pc = "look"]
    <3>1. pass' = [pass EXCEPT ![t] = q]
      BY <2>2 DEF NothingPaused
    <3>2. q \in PassRec /\ Sound(q)
      BY <1>1 DEF PassRec, Phases, Sound
    <3>3. QED
      BY <3>1, <3>2
  <2>3. CASE Look(t)
    <3> DEFINE pc == IF current = NoRun THEN "reread"
                     ELSE IF runs[current] = "running" THEN "release" ELSE "check"
               q  == [pass[t] EXCEPT !.run = current, !.pc = pc]
    <3>1. pass' = [pass EXCEPT ![t] = q]
      BY <2>3 DEF Look
    <3>2. q \in PassRec /\ Sound(q)
      BY <1>1 DEF PassRec, Phases, Sound
    <3>3. QED
      BY <3>1, <3>2
  <2>4. ASSUME NEW verdict \in Verdicts, CheckDone(t, verdict)
        PROVE  \E q \in PassRec : Sound(q) /\ pass' = [pass EXCEPT ![t] = q]
    <3> DEFINE q == [pass[t] EXCEPT !.pc = "advance", !.verdict = verdict]
    <3>1. pass' = [pass EXCEPT ![t] = q]
      BY <2>4 DEF CheckDone
    <3>2. q \in PassRec /\ Sound(q)
      BY <1>1, <2>4 DEF PassRec, Phases, Sound, CheckDone
    <3>3. QED
      BY <3>1, <3>2
  <2>5. CASE ReadLimits(t)
    <3> DEFINE stop == ShouldStop(goal)
               pc == IF stop # "none" THEN "stop"
                     ELSE IF pass[t].verdict = "passes" THEN "satisfy"
                     ELSE IF goal.state \in Ended THEN "release" ELSE "reread"
               q == [pass[t] EXCEPT !.stop = stop, !.pc = pc]
    <3>1. pass' = [pass EXCEPT ![t] = IF ~Exists THEN Resting ELSE q]
      BY <2>5 DEF ReadLimits
    <3>2. q \in PassRec /\ Sound(q)
      <4>1. stop \in Ended \cup {"none"}
        BY StopAnswers
      <4> HIDE DEF stop
      <4>2. QED
        BY <1>1, <2>5, <4>1 DEF PassRec, Phases, Sound, ReadLimits
    <3>3. QED
      BY <3>1, <3>2, RestingFits
  <2>6. ASSUME NEW passes \in BOOLEAN, AskFirst(t, passes)
        PROVE  \E q \in PassRec : Sound(q) /\ pass' = [pass EXCEPT ![t] = q]
    <3> DEFINE q == [pass[t] EXCEPT !.pc = IF passes THEN "satisfy" ELSE "decide"]
    <3>1. pass' = [pass EXCEPT ![t] = q]
      BY <2>6 DEF AskFirst
    <3>2. q \in PassRec /\ Sound(q)
      BY <1>1 DEF PassRec, Phases, Sound
    <3>3. QED
      BY <3>1, <3>2
  <2>7. QED
    BY <2>1, <2>2, <2>3, <2>4, <2>5, <2>6 DEF Thinking
<1>4. pass' \in [Tickers -> PassRec'] /\ \A s \in Tickers : Sound(pass'[s])
  BY <1>2, <1>3, PassMoves
<1>5. QED
  BY <1>2, <1>4 DEF TypeInv, TypeOK

(***************************************************************************)
(* The row stays a row whatever state it is set to.                        *)
(***************************************************************************)
LEMMA SetStateTyped ==
    ASSUME TypeInv, NEW state \in Ended \cup {"running", "paused"}, SetState(state)
    PROVE  goal' \in GoalRec /\ (goal'.lapsed => goal'.claim # NoTicker)
<1>1. goal \in GoalRec /\ (goal.lapsed => goal.claim # NoTicker)
  BY DEF TypeInv, TypeOK
<1>2. QED
  BY <1>1 DEF SetState, Unclaimed, GoalRec

(***************************************************************************)
(* A pass that changes the row or the facts, and not the runs.             *)
(***************************************************************************)
Writing(t) ==
    \/ ClaimDue(t) \/ ClaimPaused(t) \/ Advance(t) \/ WriteStop(t) \/ WriteSatisfied(t)
    \/ Reread(t) \/ Retire(t) \/ StopBeforeSpawn(t) \/ SpawnFails(t) \/ RecordCurrent(t)
    \/ Release(t) \/ Die(t)

(* What a person and the clock do. *)
Around ==
    \/ \E state \in Orders : PersonSets(state)
    \/ RunGoalNow \/ DeleteGoal \/ InstantComes \/ LeaseLapses

LEMMA WritingTyped ==
    ASSUME TypeInv, NEW t \in Tickers, Writing(t)
    PROVE  TypeInv'
<1> USE GoalsAssumption DEF At, NoRun
<1>1. /\ pass[t] \in PassRec /\ Sound(pass[t])
      /\ pass \in [Tickers -> PassRec]
      /\ runs \in Seq(RunStatus) /\ Len(runs) \in Nat
      /\ charged \in Seq(Nat) /\ Len(charged) = Len(runs)
      /\ current \in 0..Len(runs) /\ printed \in BOOLEAN
      /\ goal \in GoalRec /\ (goal.lapsed => goal.claim # NoTicker)
      /\ hist \in HistRec
  BY DEF TypeInv, TypeOK
<1>2. UNCHANGED runs
  BY DEF Writing, ClaimDue, ClaimPaused, Advance, WriteStop, WriteSatisfied, Reread,
         Retire, StopBeforeSpawn, SpawnFails, RecordCurrent, Release, Die
<1>3. Resting \in PassRec /\ Sound(Resting)
  BY RestingFits
<1> DEFINE Fits == /\ goal' \in GoalRec /\ (goal'.lapsed => goal'.claim # NoTicker)
                   /\ current' \in 0..Len(runs) /\ printed' \in BOOLEAN
                   /\ charged' \in Seq(Nat) /\ Len(charged') = Len(runs)
                   /\ hist' \in HistRec
           Moves == \E q \in PassRec : Sound(q) /\ pass' = [pass EXCEPT ![t] = q]
<1>4. Fits /\ Moves
  <2>1. CASE ClaimDue(t)
    <3> DEFINE q == [pass[t] EXCEPT !.pc = "paused", !.left = 1]
    <3>1. pass' = [pass EXCEPT ![t] = q]
      BY <2>1 DEF ClaimDue
    <3>2. q \in PassRec
      <4>1. 1 \in 0..2 /\ "paused" \in Phases
        BY DEF Phases
      <4>2. QED
        BY <1>1, <4>1 DEF PassRec
    <3>3. Sound(q)
      BY <1>1, <2>1 DEF PassRec, Sound, ClaimDue
    <3>4. Fits
      BY <1>1, <2>1 DEF ClaimDue, Taken, GoalRec
    <3>5. QED
      BY <3>1, <3>2, <3>3, <3>4
  <2>2. CASE ClaimPaused(t)
    <3> DEFINE won == goal.state = "paused" /\ Free
               left == pass[t].left + IF won THEN 1 ELSE 0
               pc == IF left > 0 THEN "look" ELSE "idle"
               q == [pass[t] EXCEPT !.left = left, !.pc = pc]
    <3>1. pass' = [pass EXCEPT ![t] = q]
      BY <2>2 DEF ClaimPaused
    <3>2. q \in PassRec
      <4>1. pass[t].left \in 0..1
        BY <1>1, <2>2 DEF ClaimPaused, Sound, PassRec
      <4>2. left \in 0..2
        BY <4>1
      <4> HIDE DEF left
      <4>3. QED
        BY <1>1, <4>2 DEF PassRec, Phases
    <3>3. Sound(q)
      BY <1>1, <2>2 DEF ClaimPaused, PassRec, Sound
    <3>4. Fits
      BY <1>1, <2>2 DEF ClaimPaused, Taken, GoalRec
    <3>5. QED
      BY <3>1, <3>2, <3>3, <3>4
  <2>3. CASE Advance(t)
    <3> DEFINE q == [pass[t] EXCEPT !.pc = "limits"]
    <3>1. pass' = [pass EXCEPT ![t] = IF Exists THEN q ELSE Resting]
      BY <2>3 DEF Advance
    <3>2. q \in PassRec /\ Sound(q)
      BY <1>1, <2>3 DEF Advance, PassRec, Phases, Sound
    <3>3. goal' \in GoalRec /\ (goal'.lapsed => goal'.claim # NoTicker)
      <4>1. CASE ~Exists
        BY <1>1, <2>3, <4>1 DEF Advance
      <4>2. CASE Exists
        <5> DEFINE cost == IF runs[pass[t].run] \in {"adrift", "lost"} THEN 0 ELSE 1
                   none == IF Progressed(pass[t].verdict) THEN 0 ELSE goal.noProgress + 1
        <5>1. cost \in Nat /\ none \in Nat
          BY <1>1 DEF GoalRec
        <5>2. goal' = [Unclaimed(goal) EXCEPT
                         !.iteration = goal.iteration + 1, !.spent = goal.spent + cost,
                         !.noProgress = none, !.due = FALSE]
          BY <1>1, <2>3, <4>2 DEF Advance, Unclaimed, GoalRec
        <5>3. goal.iteration + 1 \in Nat /\ goal.spent + cost \in Nat
          BY <1>1, <5>1 DEF GoalRec
        <5> HIDE DEF cost, none
        <5>4. QED
          BY <1>1, <5>1, <5>2, <5>3 DEF Unclaimed, GoalRec
      <4>3. QED
        BY <4>1, <4>2
    <3>4. UNCHANGED <<current, hist>> /\ printed' \in BOOLEAN
      BY <1>1, <2>3 DEF Advance
    <3>5. charged' \in Seq(Nat) /\ Len(charged') = Len(runs)
      <4>1. pass[t].run \in 1..Len(charged)
        BY <1>1, <2>3 DEF Advance, Sound, PassRec
      <4>2. charged' = [charged EXCEPT ![pass[t].run] = @ + 1] \/ charged' = charged
        BY <2>3 DEF Advance
      <4>3. charged[pass[t].run] + 1 \in Nat
        BY <1>1, <4>1
      <4> DEFINE n == charged[pass[t].run] + 1
      <4>4. charged' = [charged EXCEPT ![pass[t].run] = n] \/ charged' = charged
        BY <4>2
      <4> HIDE DEF n
      <4>5. [charged EXCEPT ![pass[t].run] = n] \in Seq(Nat)
        BY <1>1, <4>1, <4>3 DEF n
      <4>6. Len([charged EXCEPT ![pass[t].run] = n]) = Len(charged)
        BY <1>1
      <4>7. QED
        BY <1>1, <4>4, <4>5, <4>6
    <3>6. Fits
      BY <1>1, <3>3, <3>4, <3>5
    <3>7. QED
      BY <1>3, <3>1, <3>2, <3>6
  <2>4. CASE WriteStop(t)
    <3> DEFINE q == [pass[t] EXCEPT !.pc = IF pass[t].verdict = "passes" THEN "satisfy"
                                                                         ELSE "release"]
    <3>1. pass' = [pass EXCEPT ![t] = q]
      BY <2>4 DEF WriteStop
    <3>2. q \in PassRec /\ Sound(q)
      BY <1>1 DEF PassRec, Phases, Sound
    <3>3. pass[t].stop \in Ended
      BY <1>1, <2>4 DEF WriteStop, PassRec, Sound
    <3>4. goal' \in GoalRec /\ (goal'.lapsed => goal'.claim # NoTicker)
      BY <2>4, <3>3, SetStateTyped DEF WriteStop, EndIn
    <3>5. Fits
      <4>1. hist' \in HistRec
        BY <1>1, <2>4, HistCounts DEF WriteStop, EndIn
      <4>2. QED
        BY <1>1, <2>4, <3>4, <4>1 DEF WriteStop
    <3>6. QED
      BY <3>1, <3>2, <3>5
  <2>5. CASE WriteSatisfied(t)
    <3> DEFINE q == [pass[t] EXCEPT !.pc = "release"]
    <3>1. pass' = [pass EXCEPT ![t] = q]
      BY <2>5 DEF WriteSatisfied
    <3>2. q \in PassRec /\ Sound(q)
      BY <1>1 DEF PassRec, Phases, Sound
    <3>3. goal' \in GoalRec /\ (goal'.lapsed => goal'.claim # NoTicker)
      BY <2>5, SetStateTyped DEF WriteSatisfied, EndIn, Ended
    <3>4. Fits
      <4>1. hist' \in HistRec
        BY <1>1, <2>5, HistCounts DEF WriteSatisfied, EndIn
      <4>2. QED
        BY <1>1, <2>5, <3>3, <4>1 DEF WriteSatisfied
    <3>5. QED
      BY <3>1, <3>2, <3>4
  <2>6. CASE Reread(t)
    <3> DEFINE stop == IF Exists THEN ShouldStop(goal) ELSE "none"
               pc == CASE goal.state = "running" /\ pass[t].run = NoRun -> "ask"
                       [] goal.state = "running" /\ pass[t].run # NoRun -> "decide"
                       [] goal.state = "gone" \/ pass[t].run = NoRun    -> "release"
                       [] OTHER                                         -> "retire"
               q == [pass[t] EXCEPT !.stop = stop, !.pc = pc]
    <3>1. pass' = [pass EXCEPT ![t] = q]
      <4>1. pass' = [pass EXCEPT ![t].stop = stop, ![t].pc = pc]
        BY <2>6, Zenon DEF Reread
      <4> HIDE DEF stop, pc
      <4>2. QED
        BY <1>1, <4>1 DEF PassRec
    <3>2. q \in PassRec /\ Sound(q)
      <4>1. stop \in Ended \cup {"none"}
        BY StopAnswers
      <4>2. pc \in {"ask", "decide", "release", "retire"}
        OBVIOUS
      <4> HIDE DEF stop, pc
      <4>3. QED
        BY <1>1, <4>1, <4>2 DEF PassRec, Phases, Sound
    <3>3. Fits
      BY <1>1, <2>6 DEF Reread
    <3>4. QED
      BY <3>1, <3>2, <3>3
  <2>7. CASE StopBeforeSpawn(t)
    <3> DEFINE q == [pass[t] EXCEPT !.pc = "release"]
    <3>1. pass' = [pass EXCEPT ![t] = q]
      BY <2>7 DEF StopBeforeSpawn
    <3>2. q \in PassRec /\ Sound(q)
      BY <1>1 DEF PassRec, Phases, Sound
    <3>3. pass[t].stop \in Ended
      BY <1>1, <2>7 DEF StopBeforeSpawn, PassRec
    <3>4. goal' \in GoalRec /\ (goal'.lapsed => goal'.claim # NoTicker)
      BY <2>7, <3>3, SetStateTyped DEF StopBeforeSpawn, EndIn
    <3>5. Fits
      <4>1. hist' \in HistRec
        BY <1>1, <2>7, HistCounts DEF StopBeforeSpawn, EndIn
      <4>2. QED
        BY <1>1, <2>7, <3>4, <4>1 DEF StopBeforeSpawn
    <3>6. QED
      BY <3>1, <3>2, <3>5
  <2>8. CASE SpawnFails(t)
    <3> DEFINE q == [pass[t] EXCEPT !.pc = "release"]
    <3>1. pass' = [pass EXCEPT ![t] = q]
      BY <2>8 DEF SpawnFails
    <3>2. q \in PassRec /\ Sound(q)
      BY <1>1 DEF PassRec, Phases, Sound
    <3>3. Fits
      BY <1>1, <2>8, HistCounts DEF SpawnFails
    <3>4. QED
      BY <3>1, <3>2, <3>3
  <2>9. CASE RecordCurrent(t)
    <3> DEFINE q == [pass[t] EXCEPT !.pc = "release"]
    <3>1. pass' = [pass EXCEPT ![t] = q]
      BY <2>9 DEF RecordCurrent
    <3>2. q \in PassRec /\ Sound(q)
      BY <1>1 DEF PassRec, Phases, Sound
    <3>3. Fits
      BY <1>1, <2>9 DEF RecordCurrent, PassRec
    <3>4. QED
      BY <3>1, <3>2, <3>3
  <2>10. CASE Release(t)
    <3> DEFINE q == [Resting EXCEPT !.pc = "look", !.left = pass[t].left - 1]
    <3>1. pass' = [pass EXCEPT ![t] = IF pass[t].left > 1 THEN q ELSE Resting]
      BY <2>10 DEF Release
    <3>2. pass[t].left > 1 => q \in PassRec /\ Sound(q)
      <4>1. pass[t].left > 1 => pass[t].left - 1 \in 0..2
        BY <1>1 DEF PassRec
      <4>2. q.pc = "look"
        BY DEF Resting
      <4>3. pass[t].left > 1 => q \in PassRec
        BY <1>3, <4>1 DEF PassRec, Phases
      <4> HIDE DEF q
      <4>4. QED
        BY <4>2, <4>3 DEF Sound
    <3>3. Fits
      BY <1>1, <2>10 DEF Release, Unclaimed, GoalRec
    <3>4. QED
      BY <1>3, <3>1, <3>2, <3>3
  <2>11. CASE Die(t)
    <3>1. Fits
      BY <1>1, <2>11, HistCounts DEF Die
    <3>2. Moves
      BY <1>3, <2>11 DEF Die
    <3>3. QED
      BY <3>1, <3>2
  <2>12. CASE Retire(t)
    <3> DEFINE q == [pass[t] EXCEPT !.pc = "release"]
    <3>1. pass' = [pass EXCEPT ![t] = q]
      BY <2>12 DEF Retire
    <3>2. q \in PassRec /\ Sound(q)
      BY <1>1 DEF PassRec, Phases, Sound
    <3>3. current' \in 0..Len(runs)
      BY <1>1, <2>12 DEF Retire
    <3>4. Fits
      BY <1>1, <2>12, <3>3 DEF Retire
    <3>5. QED
      BY <3>1, <3>2, <3>4
  <2>13. QED
    BY <2>1, <2>2, <2>3, <2>4, <2>5, <2>6, <2>7, <2>8, <2>9, <2>10, <2>11, <2>12 DEF Writing
<1>5. pass' \in [Tickers -> PassRec'] /\ \A s \in Tickers : Sound(pass'[s])
  BY <1>2, <1>4, PassMoves
<1>6. QED
  BY <1>1, <1>2, <1>4, <1>5 DEF TypeInv, TypeOK

LEMMA AroundTyped ==
    ASSUME TypeInv, Around
    PROVE  TypeInv'
<1>1. /\ pass \in [Tickers -> PassRec] /\ \A s \in Tickers : Sound(pass[s])
      /\ current \in 0..Len(runs) /\ printed \in BOOLEAN /\ Len(runs) \in Nat
      /\ goal \in GoalRec /\ (goal.lapsed => goal.claim # NoTicker)
      /\ hist \in HistRec
  BY DEF TypeInv, TypeOK
<1>2. UNCHANGED <<runs, charged, pass>>
  BY DEF Around, PersonSets, RunGoalNow, DeleteGoal, InstantComes, LeaseLapses
<1>3. PassRec' = PassRec
  BY <1>2 DEF PassRec
<1>4. /\ goal' \in GoalRec /\ (goal'.lapsed => goal'.claim # NoTicker)
      /\ current' \in 0..Len(runs) /\ printed' \in BOOLEAN /\ hist' \in HistRec
  <2>1. ASSUME NEW state \in Orders, PersonSets(state)
        PROVE  goal' \in GoalRec /\ (goal'.lapsed => goal'.claim # NoTicker)
    BY <2>1, SetStateTyped, GoalsAssumption DEF PersonSets
  <2>2. ASSUME NEW state \in Orders, PersonSets(state)
        PROVE  UNCHANGED <<current, printed>> /\ hist' \in HistRec
    BY <1>1, <2>2, HistCounts DEF PersonSets, Ordered
  <2>3. CASE RunGoalNow
    <3>1. goal' \in GoalRec /\ (goal'.lapsed => goal'.claim # NoTicker)
      BY <1>1, <2>3 DEF RunGoalNow, GoalRec
    <3>2. QED
      BY <1>1, <2>3, <3>1, HistCounts DEF RunGoalNow, Ordered
  <2>4. CASE DeleteGoal
    <3>1. goal' \in GoalRec /\ (goal'.lapsed => goal'.claim # NoTicker)
      BY <1>1, <2>4 DEF DeleteGoal, Unclaimed, GoalRec
    <3>2. current' = 0 /\ printed' \in BOOLEAN
      BY <2>4 DEF DeleteGoal, NoRun
    <3>5. current' \in 0..Len(runs)
      BY <1>1, <3>2
    <3>3. hist' \in HistRec
      BY <1>1, <2>4, HistCounts DEF DeleteGoal, Ordered
    <3>4. QED
      BY <3>1, <3>2, <3>3, <3>5
  <2>5. CASE InstantComes
    BY <1>1, <2>5 DEF InstantComes, GoalRec
  <2>6. CASE LeaseLapses
    BY <1>1, <2>6 DEF LeaseLapses, GoalRec
  <2>7. QED
    BY <1>1, <2>1, <2>2, <2>3, <2>4, <2>5, <2>6 DEF Around
<1>5. QED
  BY <1>1, <1>2, <1>3, <1>4 DEF TypeInv, TypeOK

LEMMA SpawnTyped ==
    ASSUME TypeInv, NEW t \in Tickers, Spawn(t)
    PROVE  TypeInv'
<1>1. /\ pass[t] \in PassRec /\ pass \in [Tickers -> PassRec]
      /\ \A s \in Tickers : Sound(pass[s])
      /\ runs \in Seq(RunStatus) /\ Len(runs) \in Nat
      /\ charged \in Seq(Nat) /\ Len(charged) = Len(runs)
      /\ current \in 0..Len(runs)
  BY DEF TypeInv, TypeOK
<1>2. /\ runs' \in Seq(RunStatus) /\ Len(runs') = Len(runs) + 1
      /\ charged' \in Seq(Nat) /\ Len(charged') = Len(runs')
      /\ current \in 0..Len(runs')
  BY <1>1 DEF Spawn, RunStatus
<1> DEFINE q == [pass[t] EXCEPT !.pc = "spawned", !.run = Len(runs) + 1]
<1>3. pass' = [pass EXCEPT ![t] = q]
  BY DEF Spawn
<1>4. \A p \in PassRec : p \in PassRec'
  BY <1>1, <1>2 DEF PassRec
<1>5. q \in PassRec' /\ Sound(q)
  <2>1. Len(runs) + 1 \in 0..Len(runs') /\ Len(runs) + 1 # NoRun
    BY <1>1, <1>2 DEF NoRun
  <2>2. q.pc = "spawned" /\ q.run # NoRun
    BY <1>1, <2>1 DEF PassRec
  <2>3. q \in PassRec'
    BY <1>1, <2>1 DEF PassRec, Phases
  <2>4. Sound(q)
    <3> HIDE DEF q
    <3>1. QED
      BY <2>2 DEF Sound
  <2>5. QED
    BY <2>3, <2>4
<1>6. pass' \in [Tickers -> PassRec']
  <2> HIDE DEF q
  <2> DEFINE P == PassRec'
  <2>1. pass \in [Tickers -> P] /\ q \in P
    BY <1>1, <1>4, <1>5
  <2> HIDE DEF P
  <2>2. [pass EXCEPT ![t] = q] \in [Tickers -> P]
    BY <2>1
  <2>3. QED
    BY <1>3, <2>2 DEF P
<1>7. \A s \in Tickers : Sound(pass'[s])
  <2> HIDE DEF q
  <2>1. QED
    BY <1>1, <1>3, <1>5
<1>8. QED
  BY <1>2, <1>6, <1>7 DEF Spawn, TypeInv, TypeOK

(* A run ends, or can no longer be read.                                   *)
RunTurns(r) == RunEnds(r) \/ LoseRun(r)

LEMMA RunTurnsTyped ==
    ASSUME TypeInv, NEW r \in DOMAIN runs, RunTurns(r)
    PROVE  TypeInv'
<1>1. runs \in Seq(RunStatus)
  BY DEF TypeInv, TypeOK
<1>2. runs' \in Seq(RunStatus) /\ Len(runs') = Len(runs)
  BY <1>1 DEF RunTurns, RunEnds, LoseRun, RunStatus
<1>3. PassRec' = PassRec
  BY <1>2 DEF PassRec
<1>4. QED
  BY <1>2, <1>3 DEF RunTurns, RunEnds, LoseRun, TypeInv, TypeOK

LEMMA NextParts ==
    Next => \/ \E t \in Tickers : Thinking(t) \/ Writing(t) \/ Spawn(t)
            \/ Around
            \/ \E r \in DOMAIN runs : RunTurns(r)
BY DEF Next, PassStep, Thinking, Writing, Around, RunTurns

LEMMA TypeStep == TypeInv /\ [Next]_vars => TypeInv'
<1> SUFFICES ASSUME TypeInv, [Next]_vars PROVE TypeInv'
  OBVIOUS
<1>1. CASE Next
  BY <1>1, NextParts, ThinkingTyped, WritingTyped, SpawnTyped, AroundTyped, RunTurnsTyped
<1>2. CASE UNCHANGED vars
  BY <1>2 DEF vars, TypeInv, TypeOK, PassRec
<1>3. QED
  BY <1>1, <1>2

LEMMA TypeInit == Init => TypeInv
<1> SUFFICES ASSUME Init PROVE TypeInv
  OBVIOUS
<1>1. goal \in GoalRec /\ ~goal.lapsed
  BY GoalsAssumption DEF Init, GoalRec, Ended
<1>2. runs \in Seq(RunStatus) /\ charged \in Seq(Nat)
  BY DEF Init
<1>3. Len(runs) = 0 /\ Len(charged) = 0
  BY DEF Init
<1>9. current = 0 /\ printed \in BOOLEAN
  BY DEF Init, NoRun
<1>8. current \in 0..Len(runs)
  BY <1>3, <1>9
<1>4. Resting \in PassRec /\ Sound(Resting)
  BY <1>3 DEF Resting, PassRec, Phases, Verdicts, Sound, NoRun
<1>5. hist \in HistRec
  BY DEF Init, HistRec
<1>6. pass \in [Tickers -> PassRec] /\ \A t \in Tickers : Sound(pass[t])
  BY <1>4 DEF Init
<1>7. QED
  BY <1>1, <1>2, <1>3, <1>8, <1>9, <1>5, <1>6 DEF TypeInv, TypeOK

(***************************************************************************)
(* Every variable of a goal keeps to its vocabulary: a lease that passed   *)
(* is the lease of a claim, and the current run is one that was started,   *)
(* for any number of tickers and any limits.                               *)
(***************************************************************************)
THEOREM TypeCorrect == Spec => []TypeOK
<1>1. TypeInv => TypeOK
  BY DEF TypeInv
<1>2. TypeInv /\ [Next]_vars => TypeInv'
  BY TypeStep
<1>3. QED
  BY <1>1, <1>2, TypeInit, PTL DEF Spec

-----------------------------------------------------------------------------
(***************************************************************************)
(* One ticker alone.                                                       *)
(***************************************************************************)
LEMMA Alone ==
    ASSUME Cardinality(Tickers) = 1, NEW s \in Tickers, NEW t \in Tickers
    PROVE  s = t
<1>1. PICK x : Tickers = {x}
  BY GoalsAssumption, FS_Singleton
<1>2. QED
  BY <1>1

(* Where a pass has nothing of its own in the goal's row or among its runs *)
(* yet, where it settles a run, and where it starts the next.              *)
Between == {"idle", "paused", "settling", "look", "release"}
Settling == {"check", "advance", "limits", "stop", "satisfy", "reread", "retire"}
Starting == {"ask", "decide"}

Working == {r \in DOMAIN runs : runs[r] = "running"}
Going(r) == r # NoRun /\ runs[r] = "running"

(* A pass that has nothing going that it can read: the run it looked at is *)
(* no such run, or the pointer tells of none, or the one it started is     *)
(* none any more.                                                          *)
Clear(t) ==
    \/ pass[t].pc \in Starting
    \/ Exists /\ pass[t].pc \in Settling
    \/ Exists /\ pass[t].pc \in Between /\ ~Going(current)
    \/ At(t, "spawned") /\ ~Going(pass[t].run)

(* Runs in flight: one, and one more for each pass that died; none but     *)
(* those when the pass has nothing going.                                  *)
FlightInv ==
    /\ Cardinality(Working) <= 1 + hist.deaths
    /\ \A t \in Tickers : Clear(t) => Cardinality(Working) <= hist.deaths

LEMMA WorkingFinite ==
    ASSUME TypeInv
    PROVE  IsFiniteSet(Working) /\ Cardinality(Working) \in Nat
<1>1. Working \subseteq 1..Len(runs) /\ Len(runs) \in Nat
  BY DEF TypeInv, TypeOK, Working
<1>2. IsFiniteSet(1..Len(runs))
  BY <1>1, FS_Interval
<1>3. QED
  BY <1>1, <1>2, FS_Subset, FS_CardinalityType

(***************************************************************************)
(* The steps of a pass that neither start a run nor end the pass: whatever *)
(* they make clear was clear before.                                       *)
(***************************************************************************)
LEMMA ClearStays ==
    ASSUME TypeInv, NEW t \in Tickers, PassStep(t), ~Spawn(t), Clear(t)'
    PROVE  Clear(t)
<1>1. /\ pass[t] \in PassRec /\ pass \in [Tickers -> PassRec]
      /\ goal \in GoalRec
  BY DEF TypeInv, TypeOK
<1> USE <1>1 DEF At, Exists, Starting, Settling, Between, Clear, Going, PassRec
<1>2. CASE ClaimDue(t)
  BY <1>2 DEF ClaimDue, Taken, GoalRec
<1>3. CASE LookAtPaused(t)
  BY <1>3 DEF LookAtPaused
<1>4. CASE NothingPaused(t)
  BY <1>4 DEF NothingPaused
<1>5. CASE ClaimPaused(t)
  BY <1>5 DEF ClaimPaused, Taken, GoalRec
<1>6. CASE Look(t)
  BY <1>6 DEF Look
<1>7. ASSUME NEW verdict \in Verdicts, CheckDone(t, verdict) PROVE Clear(t)
  BY <1>7 DEF CheckDone
<1>8. CASE Advance(t)
  BY <1>8 DEF Advance, Resting, GoalRec
<1>9. CASE ReadLimits(t)
  BY <1>9 DEF ReadLimits, Resting
<1>10. CASE WriteStop(t)
  BY <1>10 DEF WriteStop, EndIn, SetState, GoalRec
<1>11. CASE WriteSatisfied(t)
  BY <1>11 DEF WriteSatisfied, EndIn, SetState, GoalRec
<1>12. CASE Reread(t)
  BY <1>12 DEF Reread
<1>18. CASE Retire(t)
  BY <1>18 DEF Retire
<1>13. ASSUME NEW passes \in BOOLEAN, AskFirst(t, passes) PROVE Clear(t)
  BY <1>13 DEF AskFirst
<1>14. CASE StopBeforeSpawn(t)
  BY <1>14 DEF StopBeforeSpawn, EndIn, SetState, GoalRec
<1>15. CASE RecordCurrent(t)
  BY <1>15 DEF RecordCurrent
<1>16. CASE Release(t)
  BY <1>16 DEF Release, Unclaimed, Resting, GoalRec
<1>17. QED
  BY <1>2, <1>3, <1>4, <1>5, <1>6, <1>7, <1>8, <1>9, <1>10, <1>11, <1>12, <1>13,
     <1>14, <1>15, <1>16, <1>18 DEF PassStep

(***************************************************************************)
(* What of the counts and the runs the steps leave alone.                  *)
(***************************************************************************)
LEMMA PassKeeps ==
    ASSUME TypeInv, NEW t \in Tickers, PassStep(t)
    PROVE  /\ hist'.deaths = hist.deaths
           /\ Spawn(t) \/ UNCHANGED runs
<1>1. hist \in HistRec
  BY DEF TypeInv
<1>2. QED
  BY <1>1 DEF PassStep, ClaimDue, LookAtPaused, NothingPaused, ClaimPaused, Look, CheckDone,
     Advance, ReadLimits, WriteStop, WriteSatisfied, Reread, Retire, AskFirst,
     StopBeforeSpawn, Spawn, RecordCurrent, Release, EndIn, HistRec

LEMMA AroundKeeps ==
    ASSUME TypeInv, Around
    PROVE  /\ hist'.deaths = hist.deaths
           /\ UNCHANGED <<runs, charged, pass>>
           /\ Exists' => Exists /\ current' = current
           /\ goal'.iteration = goal.iteration /\ goal'.max = goal.max
           /\ current' = current \/ current' = NoRun
<1>1. hist \in HistRec /\ goal \in GoalRec
  BY DEF TypeInv, TypeOK
<1>2. QED
  BY ZenonT(40), <1>1 DEF Around, PersonSets, RunGoalNow, DeleteGoal, InstantComes, LeaseLapses, Ordered,
     SetState, Unclaimed, Exists, HistRec, GoalRec

LEMMA FlightStep ==
    ASSUME Cardinality(Tickers) = 1
    PROVE  TypeInv /\ FlightInv /\ [Next]_vars => FlightInv'
<1> SUFFICES ASSUME TypeInv, FlightInv, [Next]_vars PROVE FlightInv'
  OBVIOUS
<1> DEFINE n == Cardinality(Working)
<1>1. IsFiniteSet(Working) /\ n \in Nat /\ hist.deaths \in Nat
  BY WorkingFinite DEF TypeInv, HistRec
<1>2. /\ runs \in Seq(RunStatus) /\ Len(runs) \in Nat
      /\ pass \in [Tickers -> PassRec]
  BY DEF TypeInv, TypeOK
<1>3. ASSUME NEW t \in Tickers, Spawn(t) PROVE FlightInv'
  <2>1. n <= hist.deaths
    BY <1>3 DEF FlightInv, Clear, Spawn, At, Starting
  <2>2. Working' = Working \cup {Len(runs) + 1} /\ Len(runs) + 1 \notin Working
    BY <1>2, <1>3 DEF Spawn, Working
  <2>3. n' = n + 1
    BY <1>1, <2>2, FS_AddElement
  <2>4. pass'[t].pc = "spawned" /\ pass'[t].run = Len(runs) + 1
    BY <1>2, <1>3 DEF Spawn, PassRec
  <2>5. runs'[Len(runs) + 1] = "running" /\ Len(runs) + 1 # NoRun
    BY <1>2, <1>3 DEF Spawn, NoRun
  <2>6. ~Clear(t)'
    BY <2>4, <2>5 DEF Clear, At, Starting, Settling, Between, Going
  <2>7. \A s \in Tickers : s = t
    BY <1>3, Alone
  <2>8. UNCHANGED hist
    BY <1>3 DEF Spawn
  <2>9. QED
    BY <1>1, <2>1, <2>3, <2>6, <2>7, <2>8 DEF FlightInv
<1>4. ASSUME NEW t \in Tickers, PassStep(t), ~Spawn(t) PROVE FlightInv'
  <2>1. hist'.deaths = hist.deaths /\ Working' = Working
    BY <1>4, PassKeeps DEF Working
  <2>2. \A s \in Tickers : s = t
    BY <1>4, Alone
  <2>3. Clear(t)' => Clear(t)
    BY <1>4, ClearStays
  <2>4. QED
    BY <2>1, <2>2, <2>3 DEF FlightInv
<1>5. ASSUME NEW t \in Tickers, SpawnFails(t) PROVE FlightInv'
  <2>1. hist'.deaths = hist.deaths /\ Working' = Working /\ UNCHANGED <<goal, current, runs>>
    BY <1>5 DEF SpawnFails, Working, TypeInv, HistRec
  <2>2. \A s \in Tickers : s = t
    BY <1>5, Alone
  <2>3. Clear(t)
    BY <1>5 DEF SpawnFails, Clear, At, Starting
  <2>4. QED
    BY <2>1, <2>2, <2>3 DEF FlightInv
<1>6. ASSUME NEW t \in Tickers, Die(t) PROVE FlightInv'
  <2>1. hist'.deaths = hist.deaths + 1 /\ Working' = Working
    BY <1>6 DEF Die, Working, TypeInv, HistRec
  <2>2. QED
    BY <1>1, <2>1 DEF FlightInv
<1>7. CASE Around
  <2>1. hist'.deaths = hist.deaths /\ Working' = Working /\ UNCHANGED <<runs, pass>>
    BY <1>7, AroundKeeps DEF Working
  <2>2. \A t \in Tickers : Clear(t)' => Clear(t)
    BY <1>7, <2>1, AroundKeeps DEF Clear, At, Going
  <2>3. QED
    BY <2>1, <2>2 DEF FlightInv
<1>8. ASSUME NEW r \in DOMAIN runs, RunTurns(r) PROVE FlightInv'
  <2>1. UNCHANGED <<goal, current, pass, hist>>
    BY <1>8 DEF RunTurns, RunEnds, LoseRun
  <2>2. CASE r \in Working
    <3>1. Working' = Working \ {r}
      BY <1>2, <1>8, <2>2 DEF RunTurns, RunEnds, LoseRun, Working
    <3>2. n' = n - 1
      BY <1>1, <2>2, <3>1, FS_RemoveElement
    <3>3. QED
      BY <1>1, <2>1, <3>2 DEF FlightInv
  <2>3. CASE r \notin Working
    <3>1. \A x \in DOMAIN runs : runs'[x] = "running" <=> runs[x] = "running"
      BY <1>2, <1>8, <2>3 DEF RunTurns, RunEnds, LoseRun, Working
    <3>2. DOMAIN runs' = DOMAIN runs
      BY <1>2, <1>8 DEF RunTurns, RunEnds, LoseRun
    <3>3. Working' = Working
      BY <3>1, <3>2 DEF Working
    <3>4. current \in 0..Len(runs) /\ \A t \in Tickers : pass[t].run \in 0..Len(runs)
      BY <1>2 DEF TypeInv, TypeOK, PassRec
    <3>5. \A x \in 0..Len(runs) : Going(x)' <=> Going(x)
      BY <1>2, <3>1 DEF Going, NoRun
    <3>6. \A t \in Tickers : Clear(t)' <=> Clear(t)
      BY <2>1, <3>4, <3>5 DEF Clear, Exists, At
    <3>7. QED
      BY <2>1, <3>3, <3>6 DEF FlightInv
  <2>4. QED
    BY <2>2, <2>3
<1>9. CASE UNCHANGED vars
  BY <1>9 DEF vars, FlightInv, Clear, At, Exists, Going, Working
<1>10. QED
  BY <1>3, <1>4, <1>5, <1>6, <1>7, <1>8, <1>9 DEF Next, Around, RunTurns

(***************************************************************************)
(* A goal has one run in flight that its ticker can read, whatever a       *)
(* person orders between the steps of a pass and for any limits: a pass    *)
(* that dies after it started a run and before it wrote it down costs one  *)
(* more, and a run the process has lost from its memory is beside it.      *)
(***************************************************************************)
THEOREM OneInFlightCorrect == Spec => []OneInFlight
<1>1. CASE Cardinality(Tickers) = 1
  <2>1. Init => FlightInv
    <3> SUFFICES ASSUME Init PROVE FlightInv
      OBVIOUS
    <3>1. Working = {} /\ hist.deaths = 0
      BY DEF Init, Working
    <3>2. Cardinality(Working) = 0
      BY <3>1, FS_EmptySet
    <3>3. QED
      BY <3>1, <3>2 DEF FlightInv
  <2>2. TypeInv /\ FlightInv /\ [Next]_vars => FlightInv'
    BY <1>1, FlightStep
  <2>3. FlightInv => OneInFlight
    BY DEF FlightInv, OneInFlight, Working
  <2>4. QED
    BY <2>1, <2>2, <2>3, TypeInit, TypeStep, PTL DEF Spec
<1>2. CASE Cardinality(Tickers) # 1
  <2>1. OneInFlight
    BY <1>2 DEF OneInFlight
  <2>2. QED
    BY <2>1, PTL
<1>3. QED
  BY <1>1, <1>2

-----------------------------------------------------------------------------
(* Where every run that was started is in the row's count of iterations.   *)
Counted(t) ==
    \/ pass[t].pc \in Starting
    \/ Exists /\ pass[t].pc \in {"limits", "stop", "satisfy", "reread", "retire"}
    \/ Exists /\ pass[t].pc \in Between /\ current = NoRun

(* A pass that has found no reason to stop.                                *)
MaySpawn(t) == pass[t].pc \in Starting /\ pass[t].stop = "none"

(* Runs started, against the iterations counted and the limit of them: one *)
(* is ahead of the count while it is in flight, and one for each death.    *)
LimitInv ==
    /\ Len(runs) <= goal.max + hist.deaths
    /\ Len(runs) <= goal.iteration + 1 + hist.deaths
    /\ \A t \in Tickers :
        /\ Counted(t) => Len(runs) <= goal.iteration + hist.deaths
        /\ MaySpawn(t) => goal.iteration < goal.max

(***************************************************************************)
(* A pass reaches the places where all is counted only from such a place,  *)
(* or by charging the run; and it finds no reason to stop only below the   *)
(* limit.                                                                  *)
(***************************************************************************)
LEMMA CountStays ==
    ASSUME TypeInv, NEW t \in Tickers, PassStep(t), ~Spawn(t)
    PROVE  \/ /\ Advance(t) /\ ~MaySpawn(t)'
              /\ goal'.max = goal.max /\ goal'.iteration = goal.iteration + 1
           \/ /\ goal'.max = goal.max /\ goal'.iteration = goal.iteration
              /\ Counted(t)' => Counted(t)
              /\ MaySpawn(t)' => MaySpawn(t) \/ goal.iteration < goal.max
<1>1. /\ pass[t] \in PassRec /\ pass \in [Tickers -> PassRec]
      /\ Sound(pass[t]) /\ goal \in GoalRec
  BY DEF TypeInv, TypeOK
<1>2. MaxIterations \in Nat
  BY GoalsAssumption
<1> DEFINE Grew == /\ Advance(t) /\ ~MaySpawn(t)'
                   /\ goal'.max = goal.max /\ goal'.iteration = goal.iteration + 1
           Kept == /\ goal'.max = goal.max /\ goal'.iteration = goal.iteration
                   /\ Counted(t)' => Counted(t)
                   /\ MaySpawn(t)' => MaySpawn(t) \/ goal.iteration < goal.max
<1> USE <1>1, <1>2 DEF At, Exists, Starting, Between, Counted, MaySpawn, PassRec
<1>3. CASE ClaimDue(t)
  BY <1>3 DEF ClaimDue, Taken, GoalRec
<1>4. CASE LookAtPaused(t)
  BY <1>4 DEF LookAtPaused
<1>5. CASE NothingPaused(t)
  BY <1>5 DEF NothingPaused
<1>6. CASE ClaimPaused(t)
  BY <1>6 DEF ClaimPaused, Taken, GoalRec
<1>7. CASE Look(t)
  BY <1>7 DEF Look
<1>8. ASSUME NEW verdict \in Verdicts, CheckDone(t, verdict) PROVE Kept
  BY <1>8 DEF CheckDone
<1>9. CASE Advance(t)
  <2>1. CASE Exists
    <3>1. goal'.max = goal.max /\ goal'.iteration = goal.iteration + 1
      BY <1>9, <2>1 DEF Advance, Unclaimed, GoalRec
    <3>2. pass'[t].pc = "limits"
      BY <1>9, <2>1 DEF Advance
    <3>3. QED
      BY <1>9, <3>1, <3>2
  <2>2. CASE ~Exists
    BY <1>9, <2>2 DEF Advance, Resting
  <2>3. QED
    BY <2>1, <2>2
<1>10. CASE ReadLimits(t)
  BY <1>10 DEF ReadLimits, Resting
<1>11. CASE WriteStop(t)
  BY <1>11 DEF WriteStop, EndIn, SetState, Unclaimed, GoalRec
<1>12. CASE WriteSatisfied(t)
  BY <1>12 DEF WriteSatisfied, EndIn, SetState, Unclaimed, GoalRec
<1>13. CASE Reread(t)
  <2>1. UNCHANGED goal
    BY <1>13 DEF Reread
  <2>2. Counted(t)' => Counted(t)
    BY <1>13 DEF Reread
  <2>3. MaySpawn(t)' => Exists /\ ShouldStop(goal) = "none"
    BY <1>13 DEF Reread
  <2>4. ShouldStop(goal) = "none" => goal.iteration < goal.max
    BY DEF ShouldStop, GoalRec
  <2>5. QED
    BY <2>1, <2>2, <2>3, <2>4
<1>19. CASE Retire(t)
  BY <1>19 DEF Retire
<1>14. ASSUME NEW passes \in BOOLEAN, AskFirst(t, passes) PROVE Kept
  BY <1>14 DEF AskFirst
<1>15. CASE StopBeforeSpawn(t)
  BY <1>15 DEF StopBeforeSpawn, EndIn, SetState, Unclaimed, GoalRec
<1>16. CASE RecordCurrent(t)
  BY <1>16 DEF RecordCurrent, Sound
<1>17. CASE Release(t)
  BY <1>17 DEF Release, Unclaimed, Resting, GoalRec
<1>18. QED
  BY <1>3, <1>4, <1>5, <1>6, <1>7, <1>8, <1>9, <1>10, <1>11, <1>12, <1>13,
     <1>14, <1>15, <1>16, <1>17, <1>19 DEF PassStep

LEMMA LimitStep ==
    ASSUME Cardinality(Tickers) = 1
    PROVE  TypeInv /\ LimitInv /\ [Next]_vars => LimitInv'
<1> SUFFICES ASSUME TypeInv, LimitInv, [Next]_vars PROVE LimitInv'
  OBVIOUS
<1>1. /\ Len(runs) \in Nat /\ hist.deaths \in Nat
      /\ goal.iteration \in Nat /\ goal.max \in Nat
  BY GoalsAssumption DEF TypeInv, TypeOK, HistRec, GoalRec
<1>2. pass \in [Tickers -> PassRec] /\ runs \in Seq(RunStatus)
  BY DEF TypeInv, TypeOK
<1>3. ASSUME NEW t \in Tickers, Spawn(t) PROVE LimitInv'
  <2>1. Counted(t) /\ MaySpawn(t)
    BY <1>3 DEF Spawn, At, Counted, MaySpawn, Starting
  <2>2. Len(runs') = Len(runs) + 1 /\ UNCHANGED <<goal, hist>>
    BY <1>2, <1>3 DEF Spawn
  <2>3. ~Counted(t)' /\ ~MaySpawn(t)'
    BY <1>2, <1>3 DEF Spawn, PassRec, Counted, MaySpawn, Starting, Between
  <2>4. \A s \in Tickers : s = t
    BY <1>3, Alone
  <2>5. QED
    BY <1>1, <2>1, <2>2, <2>3, <2>4 DEF LimitInv
<1>4. ASSUME NEW t \in Tickers, PassStep(t), ~Spawn(t) PROVE LimitInv'
  <2>1. hist'.deaths = hist.deaths /\ UNCHANGED runs
    BY <1>4, PassKeeps
  <2>2. \A s \in Tickers : s = t
    BY <1>4, Alone
  <2>3. CASE /\ Advance(t) /\ ~MaySpawn(t)'
             /\ goal'.max = goal.max /\ goal'.iteration = goal.iteration + 1
    BY <1>1, <2>1, <2>2, <2>3 DEF LimitInv
  <2>4. CASE /\ goal'.max = goal.max /\ goal'.iteration = goal.iteration
             /\ Counted(t)' => Counted(t)
             /\ MaySpawn(t)' => MaySpawn(t) \/ goal.iteration < goal.max
    BY <1>1, <2>1, <2>2, <2>4 DEF LimitInv
  <2>5. QED
    BY <1>4, <2>3, <2>4, CountStays
<1>5. ASSUME NEW t \in Tickers, SpawnFails(t) PROVE LimitInv'
  <2>1. hist'.deaths = hist.deaths /\ UNCHANGED <<goal, current, runs>>
    BY <1>5 DEF SpawnFails, TypeInv, HistRec
  <2>2. \A s \in Tickers : s = t
    BY <1>5, Alone
  <2>3. Counted(t) /\ ~MaySpawn(t)'
    BY <1>2, <1>5 DEF SpawnFails, Counted, At, Starting, MaySpawn, PassRec
  <2>4. QED
    BY <2>1, <2>2, <2>3 DEF LimitInv
<1>6. ASSUME NEW t \in Tickers, Die(t) PROVE LimitInv'
  <2>1. hist'.deaths = hist.deaths + 1 /\ UNCHANGED <<goal, runs>>
    BY <1>6 DEF Die, TypeInv, HistRec
  <2>2. pass'[t] = Resting /\ \A s \in Tickers : s = t
    BY <1>2, <1>6, Alone DEF Die
  <2>3. \A s \in Tickers : ~MaySpawn(s)'
    BY <2>2 DEF MaySpawn, Starting, Resting
  <2>4. QED
    BY <1>1, <2>1, <2>3 DEF LimitInv
<1>7. CASE Around
  <2>1. \A t \in Tickers : (Counted(t)' => Counted(t)) /\ (MaySpawn(t)' => MaySpawn(t))
    BY <1>7, AroundKeeps DEF Counted, MaySpawn
  <2>2. QED
    BY <1>7, <2>1, AroundKeeps DEF LimitInv
<1>8. ASSUME NEW r \in DOMAIN runs, RunTurns(r) PROVE LimitInv'
  <2>1. Len(runs') = Len(runs) /\ UNCHANGED <<goal, current, pass, hist>>
    BY <1>2, <1>8 DEF RunTurns, RunEnds, LoseRun
  <2>2. QED
    BY <2>1 DEF LimitInv, Counted, MaySpawn, Exists
<1>9. CASE UNCHANGED vars
  BY <1>9 DEF vars, LimitInv, Counted, MaySpawn, Exists
<1>10. QED
  BY <1>3, <1>4, <1>5, <1>6, <1>7, <1>8, <1>9 DEF Next, Around, RunTurns

(***************************************************************************)
(* No order, pause, resume or lost run gets a goal more iterations than    *)
(* its limit, for any limit and any number of orders: a goal that may not  *)
(* iterate at all starts none. Only a pass that dies with a run it has not *)
(* written down makes room for one more.                                   *)
(***************************************************************************)
THEOREM LimitCorrect == Spec => []LimitHolds
<1>1. CASE Cardinality(Tickers) = 1
  <2>1. Init => LimitInv
    <3> SUFFICES ASSUME Init PROVE LimitInv
      OBVIOUS
    <3>1. Len(runs) = 0 /\ goal.max \in Nat /\ goal.iteration = 0 /\ hist.deaths = 0
      BY GoalsAssumption DEF Init
    <3>2. \A t \in Tickers : ~MaySpawn(t)
      BY DEF Init, MaySpawn, Starting, Resting
    <3>3. QED
      BY <3>1, <3>2 DEF LimitInv
  <2>2. TypeInv /\ LimitInv /\ [Next]_vars => LimitInv'
    BY <1>1, LimitStep
  <2>3. LimitInv => LimitHolds
    BY DEF LimitInv, LimitHolds
  <2>4. QED
    BY <2>1, <2>2, <2>3, TypeInit, TypeStep, PTL DEF Spec
<1>2. CASE Cardinality(Tickers) # 1
  <2>1. LimitHolds
    BY <1>2 DEF LimitHolds
  <2>2. QED
    BY <2>1, PTL
<1>3. QED
  BY <1>1, <1>2

-----------------------------------------------------------------------------
(* No pass died, no spawn failed, and the goal was not ended.              *)
Calm == hist.deaths = 0 /\ hist.failed = 0 /\ hist.endings = 0

(* The run a pass is about to look at, or to charge, has not been charged. *)
Unpaid(t) ==
    /\ pass[t].pc \in Between /\ current # NoRun => charged[current] = 0
    /\ pass[t].pc \in {"check", "advance"} => charged[pass[t].run] = 0

(* A run just started is unpaid, and a pass without a run found none.      *)
Fresh(t) ==
    /\ At(t, "spawned") => charged[pass[t].run] = 0
    /\ pass[t].pc \in {"reread", "ask"} /\ pass[t].run = NoRun => current = NoRun

PaidInv ==
    Calm => /\ \A r \in DOMAIN charged : charged[r] <= 1
            /\ Exists => goal.state \in {"running", "paused"}
            /\ \A t \in Tickers : (Exists => Unpaid(t)) /\ Fresh(t)

LEMMA PaidStays ==
    ASSUME TypeInv, NEW t \in Tickers, PassStep(t), ~Spawn(t), Calm', Calm,
           Exists => goal.state \in {"running", "paused"},
           Exists => Unpaid(t), Fresh(t),
           \A r \in DOMAIN charged : charged[r] <= 1
    PROVE  /\ \A r \in DOMAIN charged' : charged'[r] <= 1
           /\ Exists' => goal'.state \in {"running", "paused"}
           /\ Exists' => Unpaid(t)'
           /\ Fresh(t)'
<1>1. /\ pass[t] \in PassRec /\ pass \in [Tickers -> PassRec]
      /\ Sound(pass[t]) /\ goal \in GoalRec /\ hist \in HistRec
      /\ charged \in Seq(Nat) /\ Len(charged) = Len(runs) /\ Len(runs) \in Nat
      /\ runs \in Seq(RunStatus)
  BY DEF TypeInv, TypeOK
<1> DEFINE Good == /\ \A r \in DOMAIN charged' : charged'[r] <= 1
                   /\ Exists' => goal'.state \in {"running", "paused"}
                   /\ Exists' => Unpaid(t)'
                   /\ Fresh(t)'
<1> USE <1>1 DEF At, Exists, Between, Unpaid, Fresh, PassRec, NoRun
<1>2. CASE ClaimDue(t)
  BY <1>2 DEF ClaimDue, Taken, GoalRec
<1>3. CASE LookAtPaused(t)
  BY <1>3 DEF LookAtPaused
<1>4. CASE NothingPaused(t)
  BY <1>4 DEF NothingPaused
<1>5. CASE ClaimPaused(t)
  BY <1>5 DEF ClaimPaused, Taken, GoalRec
<1>6. CASE Look(t)
  BY <1>6 DEF Look
<1>7. ASSUME NEW verdict \in Verdicts, CheckDone(t, verdict) PROVE Good
  BY <1>7 DEF CheckDone
<1>8. CASE Advance(t)
  <2>1. CASE Exists
    <3>1. pass'[t].pc = "limits" /\ goal'.state = goal.state
      <4>1. pass'[t].pc = "limits"
        BY <1>8, <2>1 DEF Advance
      <4>2. goal'.state = goal.state
        BY <1>8, <2>1 DEF Advance, Unclaimed, GoalRec
      <4>3. QED
        BY <4>1, <4>2
    <3>2. pass[t].run \in 1..Len(charged) /\ charged[pass[t].run] = 0
      BY <1>8, <2>1 DEF Advance, Sound
    <3>3. charged' = [charged EXCEPT ![pass[t].run] = 1]
      BY <1>8, <2>1, <3>2 DEF Advance
    <3>4. \A r \in DOMAIN charged' : charged'[r] <= 1
      BY <3>2, <3>3
    <3>5. QED
      BY <2>1, <3>1, <3>4
  <2>2. CASE ~Exists
    BY <1>8, <2>2 DEF Advance, Resting
  <2>3. QED
    BY <2>1, <2>2
<1>9. CASE ReadLimits(t)
  BY <1>9 DEF ReadLimits, Resting, Sound, Ended
<1>10. CASE WriteStop(t)
  <2>1. ~Exists /\ UNCHANGED <<goal, charged>>
    BY <1>10 DEF WriteStop, EndIn, SetState, Calm, HistRec
  <2>2. QED
    BY <1>10, <2>1 DEF WriteStop
<1>11. CASE WriteSatisfied(t)
  <2>1. ~Exists /\ UNCHANGED <<goal, charged>>
    BY <1>11 DEF WriteSatisfied, EndIn, SetState, Calm, HistRec
  <2>2. QED
    BY <1>11, <2>1 DEF WriteSatisfied
<1>12. CASE Reread(t)
  BY <1>12 DEF Reread
<1>18. CASE Retire(t)
  BY <1>18 DEF Retire
<1>13. ASSUME NEW passes \in BOOLEAN, AskFirst(t, passes) PROVE Good
  BY <1>13 DEF AskFirst
<1>14. CASE StopBeforeSpawn(t)
  <2>1. ~Exists /\ UNCHANGED <<goal, charged>>
    BY <1>14 DEF StopBeforeSpawn, EndIn, SetState, Calm, HistRec
  <2>2. QED
    BY <1>14, <2>1 DEF StopBeforeSpawn
<1>15. CASE RecordCurrent(t)
  BY <1>15 DEF RecordCurrent
<1>16. CASE Release(t)
  BY <1>16 DEF Release, Unclaimed, Resting, GoalRec
<1>17. QED
  BY <1>2, <1>3, <1>4, <1>5, <1>6, <1>7, <1>8, <1>9, <1>10, <1>11, <1>12, <1>13,
     <1>14, <1>15, <1>16, <1>18 DEF PassStep

LEMMA CalmWas ==
    ASSUME TypeInv, Next, Calm' PROVE Calm
<1>1. hist \in HistRec
  BY DEF TypeInv
<1>2. \/ UNCHANGED hist
      \/ hist' = [hist EXCEPT !.orders = @ + 1]
      \/ hist' = [hist EXCEPT !.deaths = @ + 1]
      \/ hist' = [hist EXCEPT !.failed = @ + 1]
      \/ hist' = [hist EXCEPT !.endings = @ + IF Exists THEN 1 ELSE 0]
  BY DEF Next, PassStep, ClaimDue, LookAtPaused, NothingPaused, ClaimPaused, Look, CheckDone,
     Advance, ReadLimits, WriteStop, WriteSatisfied, Reread, Retire, AskFirst,
     StopBeforeSpawn, Spawn, RecordCurrent, Release, EndIn, SpawnFails, Die, PersonSets, RunGoalNow,
     DeleteGoal, Ordered, RunEnds, LoseRun, InstantComes, LeaseLapses
<1>3. QED
  BY <1>1, <1>2 DEF Calm, HistRec

LEMMA PaidStep ==
    ASSUME Cardinality(Tickers) = 1
    PROVE  TypeInv /\ PaidInv /\ [Next]_vars => PaidInv'
<1> SUFFICES ASSUME TypeInv, PaidInv, [Next]_vars PROVE PaidInv'
  OBVIOUS
<1>1. CASE UNCHANGED vars
  BY <1>1 DEF vars, PaidInv, Calm, Unpaid, Fresh, Exists, At
<1>2. CASE Next /\ ~Calm'
  BY <1>2 DEF PaidInv
<1>3. CASE Next /\ Calm'
  <2>1. /\ Calm
        /\ \A r \in DOMAIN charged : charged[r] <= 1
        /\ Exists => goal.state \in {"running", "paused"}
        /\ \A t \in Tickers : (Exists => Unpaid(t)) /\ Fresh(t)
    BY <1>3, CalmWas DEF PaidInv
  <2>2. /\ pass \in [Tickers -> PassRec] /\ goal \in GoalRec /\ hist \in HistRec
        /\ charged \in Seq(Nat) /\ Len(charged) = Len(runs) /\ Len(runs) \in Nat
        /\ current \in 0..Len(runs)
    BY DEF TypeInv, TypeOK
  <2>3. ASSUME NEW t \in Tickers, PassStep(t), ~Spawn(t) PROVE PaidInv'
    <3>1. \A s \in Tickers : s = t
      BY <2>3, Alone
    <3>2. QED
      BY <1>3, <2>1, <2>3, <3>1, PaidStays DEF PaidInv
  <2>4. ASSUME NEW t \in Tickers, Spawn(t) PROVE PaidInv'
    <3>1. \A s \in Tickers : s = t
      BY <2>4, Alone
    <3>2. pass'[t].pc = "spawned" /\ pass'[t].run = Len(charged) + 1
      BY <2>2, <2>4 DEF Spawn, PassRec
    <3>3. charged' = Append(charged, 0) /\ UNCHANGED goal
      BY <2>4 DEF Spawn
    <3>4. /\ \A r \in DOMAIN charged' : charged'[r] <= 1
          /\ charged'[Len(charged) + 1] = 0
      BY <2>1, <2>2, <3>3
    <3>5. Unpaid(t)' /\ Fresh(t)'
      BY <3>2, <3>4 DEF Unpaid, Fresh, Between, At
    <3>6. QED
      BY <2>1, <3>1, <3>3, <3>4, <3>5 DEF PaidInv, Exists
  <2>5. ASSUME NEW t \in Tickers, SpawnFails(t) \/ Die(t) PROVE PaidInv'
    <3>1. ~Calm'
      BY <2>2, <2>5 DEF SpawnFails, Die, Calm, HistRec
    <3>2. QED
      BY <3>1 DEF PaidInv
  <2>6. CASE Around
    <3>1. Exists' => goal'.state \in {"running", "paused"}
      BY ZenonT(40), <2>1, <2>2, <2>6, GoalsAssumption DEF Around, PersonSets, RunGoalNow, DeleteGoal,
         InstantComes, LeaseLapses, SetState, Unclaimed, Exists, GoalRec
    <3>2. \A t \in Tickers : (Exists' => Unpaid(t)') /\ Fresh(t)'
      BY <2>1, <2>6, AroundKeeps DEF Unpaid, Fresh, At
    <3>3. QED
      BY <2>1, <2>6, <3>1, <3>2, AroundKeeps DEF PaidInv
  <2>7. ASSUME NEW r \in DOMAIN runs, RunTurns(r) PROVE PaidInv'
    BY <2>1, <2>7 DEF RunTurns, RunEnds, LoseRun, PaidInv, Unpaid, Fresh, Exists, At
  <2>8. QED
    BY <1>3, <2>3, <2>4, <2>5, <2>6, <2>7 DEF Next, Around, RunTurns
<1>4. QED
  BY <1>1, <1>2, <1>3

(***************************************************************************)
(* As long as no pass dies, no spawn fails and the goal has not ended, a   *)
(* run is charged to its goal once, however often the goal is paused and   *)
(* resumed around and within its passes.                                   *)
(***************************************************************************)
THEOREM PaidOnceCorrect == Spec => []PaidOnce
<1>1. CASE Cardinality(Tickers) = 1
  <2>1. Init => PaidInv
    BY DEF Init, PaidInv, Unpaid, Fresh, At, Resting, NoRun
  <2>2. TypeInv /\ PaidInv /\ [Next]_vars => PaidInv'
    BY <1>1, PaidStep
  <2>3. PaidInv => PaidOnce
    BY DEF PaidInv, PaidOnce, Calm
  <2>4. QED
    BY <2>1, <2>2, <2>3, TypeInit, TypeStep, PTL DEF Spec
<1>2. CASE Cardinality(Tickers) # 1
  <2>1. PaidOnce
    BY <1>2 DEF PaidOnce
  <2>2. QED
    BY <2>1, PTL
<1>3. QED
  BY <1>1, <1>2
=============================================================================
