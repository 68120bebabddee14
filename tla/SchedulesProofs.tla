-------------------------- MODULE SchedulesProofs --------------------------
(***************************************************************************)
(* What holds of a schedule for any policies, lease, grace, replay cap and *)
(* breaker, any number of instants, tickers, orders and faults: the types, *)
(* that no run is passed by before it ended, that no failure is counted    *)
(* twice, that the circuit stays broken, and, of a daemon that ticks       *)
(* alone, that an instant starts one run.                                  *)
(***************************************************************************)
EXTENDS Schedules, FiniteSetTheorems, SequenceTheorems, TLAPS

Statuses == {"running", "completed", "failed", "killed"}
Outcomes == {"ran", "skipped_overlap", "skipped_misfire", "replaced",
             "replace_failed", "spawn_failed", "abandoned"}

RowRec == [state : {"armed", "paused", "broken"}, next : Nat, last : -1..MaxTime,
           failures : Nat, settled : Nat, claim : Tickers \cup {NoTicker}, lease : Nat]
FireRec == [run : Nat, due : Int, at : 0..MaxTime, outcome : Outcomes]
DecisionRec == [kind : {"run", "hold", "replace"}, due : (-Grace)..MaxTime, stop : Nat,
                outcome : {"ran", "skipped_overlap", "skipped_misfire"}]
SeenRec == [next : Nat, last : -1..MaxTime]
PassRec == [pc : {"idle", "claimed", "steps", "spawned", "release"}, at : 0..MaxTime,
            seen : SeenRec, steps : SUBSET DecisionRec, run : Nat, failed : BOOLEAN,
            count : Nat, mark : Nat]

(* What a pass has in hand is there: it was claimed for an instant that    *)
(* had come, it stops and records runs that were started, a run it started *)
(* is one of its steps, and its mark is a row of the ledger.               *)
Sound(q) ==
    /\ q.at <= now
    /\ q.pc = "claimed" => q.seen.next <= q.at
    /\ q.run <= Len(runs) /\ q.mark <= Len(fires)
    /\ \A d \in q.steps : /\ d.stop <= Len(runs)
                          /\ d.kind = "replace" => d.stop # NoRun
                          /\ d.kind = "hold" => d.outcome # "ran"
    /\ q.pc = "spawned" => q.run # NoRun /\ q.steps # {}

ClockOK ==
    /\ now \in 0..MaxTime
    /\ misfire \in {"fire_once", "skip", "fire_all"} /\ overlap \in {"skip", "replace", "allow"}
    /\ orders \in Nat /\ faults \in Nat

RowOK ==
    /\ row \in RowRec
    /\ row.settled <= Len(fires)
    /\ row.claim # NoTicker => row.lease <= now + Lease
    /\ row.last <= now

FiresOK == fires \in Seq(FireRec) /\ \A i \in DOMAIN fires : fires[i].run <= Len(runs)

RunsOK == runs \in Seq(Statuses)

PassOK == pass \in [Tickers -> PassRec] /\ \A t \in Tickers : Sound(pass[t])

(* The inductive invariant the types rest on. *)
TypeInv == ClockOK /\ RowOK /\ FiresOK /\ RunsOK /\ PassOK

(***************************************************************************)
(* The operators: the ends of a bounded set, the next step of a pass, the  *)
(* backoff and the walk.                                                   *)
(***************************************************************************)
LEMMA LeastInt ==
    ASSUME NEW a \in Int, NEW S \in SUBSET Int, S # {}, \A x \in S : a <= x
    PROVE  \E x \in S : \A y \in S : x <= y
<1> DEFINE T == {x - a : x \in S}
<1>1. T \in SUBSET Nat /\ T # {}
  <2>1. \A x \in S : x - a \in Nat
    OBVIOUS
  <2>2. T # {}
    OBVIOUS
  <2>3. QED
    BY <2>1, <2>2
<1>2. IsWellFoundedOn(OpToRel(<, Nat), Nat)
  BY NatLessThanWellFounded
<1>3. PICK n \in T : \A m \in T : ~(<<m, n>> \in OpToRel(<, Nat))
  <2> HIDE DEF T
  <2>1. QED
    BY <1>1, <1>2, WFMin
<1>4. \A m \in T : n <= m
  <2> SUFFICES ASSUME NEW m \in T PROVE n <= m
    OBVIOUS
  <2> HIDE DEF T
  <2>1. n \in Nat /\ m \in Nat
    BY <1>1
  <2>2. m < n => <<m, n>> \in OpToRel(<, Nat)
    BY <2>1 DEF OpToRel
  <2>3. ~(m < n)
    BY <1>3, <2>2
  <2>4. QED
    BY <2>1, <2>3
<1>5. PICK x \in S : n = x - a
  BY <1>3
<1>6. \A y \in S : x - a <= y - a
  BY <1>4, <1>5
<1>7. QED
  BY <1>6

LEMMA Extremes ==
    ASSUME NEW a \in Int, NEW b \in Int, NEW S \in SUBSET (a..b), S # {}
    PROVE  /\ Max(S) \in S /\ \A y \in S : y <= Max(S)
           /\ Min(S) \in S /\ \A y \in S : Min(S) <= y
<1>1. \E x \in S : \A y \in S : x <= y
  <2>1. S \in SUBSET Int /\ \A x \in S : a <= x
    OBVIOUS
  <2>2. QED
    BY <2>1, LeastInt
<1>2. \E x \in S : \A y \in S : x >= y
  <2> DEFINE T == {-x : x \in S}
  <2>1. T \in SUBSET Int /\ T # {} /\ \A x \in T : -b <= x
    <3>1. \A x \in S : -x \in Int /\ -b <= -x
      OBVIOUS
    <3>2. T # {}
      OBVIOUS
    <3>3. QED
      BY <3>1, <3>2
  <2>2. PICK z \in T : \A y \in T : z <= y
    <3> HIDE DEF T
    <3>1. -b \in Int
      OBVIOUS
    <3>2. QED
      BY <2>1, <3>1, LeastInt
  <2>3. PICK x \in S : z = -x
    BY <2>2
  <2>4. \A y \in S : -x <= -y
    BY <2>2, <2>3
  <2>5. QED
    BY <2>4
<1>3. QED
  BY <1>1, <1>2 DEF Max, Min

LEMMA SeqOver ==
    ASSUME NEW S, NEW F, NEW s \in Seq(S), \A i \in 1..Len(s) : s[i] \in F
    PROVE  s \in Seq(F)
<1>1. Len(s) \in Nat /\ s \in [1..Len(s) -> F]
  OBVIOUS
<1>2. [1..Len(s) -> F] \in {[1..n -> F] : n \in Nat}
  BY <1>1
<1>3. s \in UNION {[1..n -> F] : n \in Nat}
  BY <1>1, <1>2, Zenon
<1>4. QED
  BY <1>3, SeqDef, Zenon

LEMMA StepIs ==
    ASSUME NEW t \in Tickers, pass[t] \in PassRec, pass[t].steps # {}
    PROVE  /\ Step(t) \in pass[t].steps
           /\ \A e \in pass[t].steps : Step(t).due <= e.due
<1> DEFINE dues == {d.due : d \in pass[t].steps}
<1>1. pass[t].steps \in SUBSET DecisionRec
  BY DEF PassRec
<1>2. dues \in SUBSET ((-Grace)..MaxTime) /\ dues # {}
  BY <1>1 DEF DecisionRec
<1>3. -Grace \in Int /\ MaxTime \in Int
  BY SchedulesAssumption
<1>4. PICK x \in dues : \A y \in dues : x <= y
  <2> HIDE DEF dues
  <2>1. dues \in SUBSET Int /\ \A y \in dues : -Grace <= y
    BY <1>2, <1>3
  <2>2. QED
    BY <1>2, <1>3, <2>1, LeastInt
<1>5. \E d \in pass[t].steps : \A e \in pass[t].steps : d.due <= e.due
  BY <1>4
<1>6. QED
  BY <1>5 DEF Step

LEMMA BackoffNat == ASSUME NEW n \in Nat PROVE Backoff(n) \in Nat
<1>1. CASE n <= 0
  BY <1>1 DEF Backoff
<1>2. CASE n > 0
  <2>1. Min({n, 16}) \in {n, 16} /\ \A y \in {n, 16} : Min({n, 16}) <= y
    <3>1. {n, 16} \in SUBSET (0..(n + 16)) /\ n + 16 \in Int /\ {n, 16} # {}
      OBVIOUS
    <3> DEFINE T == {n, 16}
    <3>2. T \in SUBSET (0..(n + 16)) /\ n + 16 \in Int /\ T # {} /\ 0 \in Int
      BY <3>1
    <3> HIDE DEF T
    <3>3. Min(T) \in T /\ \A y \in T : Min(T) <= y
      BY <3>2, Extremes
    <3>4. QED
      BY <3>3 DEF T
  <2>2. Min({n, 16}) \in 1..16
    BY <1>2, <2>1
  <2> DEFINE m == Min({n, 16})
  <2>3. 2 ^ m \in Nat
    <3>1. m \in 1..16
      BY <2>2
    <3> HIDE DEF m
    <3>2. m \in {1, 2, 3, 4, 5, 6, 7, 8, 9, 10, 11, 12, 13, 14, 15, 16}
      BY <3>1
    <3>3. /\ 2 ^ 1 \in Nat /\ 2 ^ 2 \in Nat /\ 2 ^ 3 \in Nat /\ 2 ^ 4 \in Nat
          /\ 2 ^ 5 \in Nat /\ 2 ^ 6 \in Nat /\ 2 ^ 7 \in Nat /\ 2 ^ 8 \in Nat
      BY SMT
    <3>4. /\ 2 ^ 9 \in Nat /\ 2 ^ 10 \in Nat /\ 2 ^ 11 \in Nat /\ 2 ^ 12 \in Nat
          /\ 2 ^ 13 \in Nat /\ 2 ^ 14 \in Nat /\ 2 ^ 15 \in Nat /\ 2 ^ 16 \in Nat
      BY SMT
    <3>5. QED
      BY Zenon, <3>2, <3>3, <3>4
  <2> HIDE DEF m
  <2>4. Min({2 ^ m, BackoffCap}) \in {2 ^ m, BackoffCap}
    <3> DEFINE x == 2 ^ m
               T == {x, BackoffCap}
    <3>1. x \in Nat
      BY <2>3
    <3> HIDE DEF x
    <3>2. T \in SUBSET (0..(x + 60)) /\ x + 60 \in Int /\ T # {} /\ 0 \in Int
      BY <3>1 DEF BackoffCap
    <3> HIDE DEF T
    <3>3. Min(T) \in T
      BY <3>2, Extremes
    <3>4. QED
      BY <3>3 DEF T, x
  <2>5. Backoff(n) = Min({2 ^ m, BackoffCap})
    BY <1>2 DEF Backoff, m
  <2>6. QED
    BY <2>3, <2>4, <2>5 DEF BackoffCap
<1>3. QED
  BY <1>1, <1>2


(***************************************************************************)
(* The types.                                                              *)
(***************************************************************************)
LEMMA TypeInvGives == TypeInv => TypeOK
<1> SUFFICES ASSUME TypeInv PROVE TypeOK
  OBVIOUS
<1> USE DEF TypeInv, ClockOK, RowOK, FiresOK, RunsOK, PassOK
<1>1. Len(runs) \in Nat /\ Len(fires) \in Nat
  OBVIOUS
<1>2. row \in [state : {"armed", "paused", "broken"}, next : Nat, last : -1..MaxTime,
               failures : Nat, settled : 0..Len(fires),
               claim : Tickers \cup {NoTicker}, lease : Nat]
  BY <1>1 DEF RowRec
<1>3. fires \in Seq([run : 0..Len(runs), due : Int, at : 0..MaxTime, outcome : Outcomes])
  <2> DEFINE F == [run : 0..Len(runs), due : Int, at : 0..MaxTime, outcome : Outcomes]
  <2>1. \A i \in 1..Len(fires) : fires[i] \in FireRec /\ fires[i].run <= Len(runs)
    OBVIOUS
  <2>2. \A f \in FireRec : f.run <= Len(runs) => f \in F
    BY <1>1 DEF FireRec
  <2>3. \A i \in 1..Len(fires) : fires[i] \in F
    BY <2>1, <2>2
  <2> HIDE DEF F
  <2>4. fires \in Seq(FireRec)
    OBVIOUS
  <2>5. fires \in Seq(F)
    BY <2>3, <2>4, SeqOver
  <2>6. QED
    BY <2>5 DEF F
<1>4. ASSUME NEW t \in Tickers
      PROVE  /\ pass[t].pc \in {"idle", "claimed", "steps", "spawned", "release"}
             /\ pass[t].steps \subseteq Decisions
             /\ pass[t].run \in 0..Len(runs)
  <2>1. pass[t] \in PassRec /\ Sound(pass[t])
    OBVIOUS
  <2>2. \A d \in pass[t].steps : d \in DecisionRec /\ d.stop <= Len(runs)
    BY <2>1 DEF PassRec, Sound
  <2>3. \A d \in DecisionRec : d.stop <= Len(runs) => d \in Decisions
    BY <1>1, SchedulesAssumption DEF DecisionRec, Decisions
  <2>4. QED
    BY <1>1, <2>1, <2>2, <2>3 DEF PassRec, Sound
<1>5. QED
  BY <1>2, <1>3, <1>4 DEF TypeOK, Outcomes, Statuses

LEMMA RestingTyped == Resting \in PassRec
<1>1. 0 \in 0..MaxTime /\ -1 \in (-1)..MaxTime
  BY SchedulesAssumption
<1>2. [next |-> 0, last |-> Never] \in SeenRec
  BY <1>1 DEF SeenRec, Never
<1>3. QED
  BY <1>1, <1>2 DEF Resting, PassRec, NoRun

LEMMA InitTyped == Init => TypeInv
<1> SUFFICES ASSUME Init PROVE TypeInv
  OBVIOUS
<1>1. ClockOK
  BY SchedulesAssumption DEF Init, ClockOK
<1>2. RowOK
  BY SchedulesAssumption DEF Init, RowOK, RowRec, NextFire, Never
<1>3. FiresOK /\ RunsOK
  BY DEF Init, FiresOK, RunsOK
<1>4. PassOK
  BY RestingTyped, SchedulesAssumption DEF Init, PassOK, Sound, Resting, NoRun
<1>5. QED
  BY <1>1, <1>2, <1>3, <1>4 DEF TypeInv

(* Runs are started and end, and an ending is never taken back. *)
RunsGrow ==
    /\ runs' \in Seq(Statuses)
    /\ Len(runs) <= Len(runs')
    /\ \A r \in 1..Len(runs) : runs[r] # "running" => runs'[r] = runs[r]

(* The ledger is only added to. *)
FiresGrow ==
    /\ fires' \in Seq(FireRec)
    /\ Len(fires) <= Len(fires')
    /\ \A i \in 1..Len(fires) : fires'[i] = fires[i]

(* A row of the ledger is written. *)
Written(run, outcome, due) ==
    /\ fires' \in Seq(FireRec)
    /\ Len(fires') = Len(fires) + 1
    /\ \A i \in 1..Len(fires) : fires'[i] = fires[i]
    /\ /\ fires'[Len(fires) + 1].run = run
       /\ fires'[Len(fires) + 1].outcome = outcome
       /\ fires'[Len(fires) + 1].due = due

LEMMA RecordWrites ==
    ASSUME TypeInv, NEW run \in Nat, NEW outcome \in Outcomes, NEW due \in Int,
           NEW at \in 0..MaxTime, RecordFire(run, outcome, due, at)
    PROVE  Written(run, outcome, due)
<1> DEFINE new == [run |-> run, outcome |-> outcome, due |-> due, at |-> at]
<1>1. new \in FireRec
  BY DEF FireRec
<1>2. /\ new.run = run /\ new.outcome = outcome /\ new.due = due
  OBVIOUS
<1>3. fires \in Seq(FireRec) /\ fires' = Append(fires, new)
  BY DEF TypeInv, FiresOK, RecordFire
<1> HIDE DEF new
<1>4. fires' \in Seq(FireRec) /\ Len(fires') = Len(fires) + 1
  BY <1>1, <1>3
<1>5. \A i \in 1..Len(fires) : fires'[i] = fires[i]
  BY <1>1, <1>3
<1>6. fires'[Len(fires) + 1] = new
  BY <1>1, <1>3
<1>7. QED
  BY <1>2, <1>4, <1>5, <1>6 DEF Written

LEMMA RunsStep == TypeInv /\ Next => RunsGrow
<1> SUFFICES ASSUME TypeInv, Next PROVE RunsGrow
  OBVIOUS
<1>1. runs \in Seq(Statuses) /\ Len(runs) \in Nat
  BY DEF TypeInv, RunsOK
<1>2. CASE UNCHANGED runs
  BY <1>1, <1>2 DEF RunsGrow
<1>3. ASSUME NEW r \in DOMAIN runs, NEW s \in Statuses, runs[r] = "running",
             runs' = [runs EXCEPT ![r] = s]
      PROVE  RunsGrow
  BY <1>1, <1>3 DEF RunsGrow
<1>4. CASE runs' = Append(runs, "running")
  <2>1. "running" \in Statuses
    BY DEF Statuses
  <2>2. QED
    BY <1>1, <1>4, <2>1 DEF RunsGrow
<1>5. ASSUME NEW t \in Tickers, NEW stopped \in BOOLEAN, CarryOutReplace(t, stopped)
      PROVE  RunsGrow
  <2>1. pass[t] \in PassRec /\ Sound(pass[t]) /\ pass[t].steps # {} /\ Step(t).kind = "replace"
    BY <1>5 DEF TypeInv, PassOK, CarryOutReplace, Due
  <2>2. Step(t) \in pass[t].steps
    BY <2>1, StepIs
  <2>3. Step(t).stop \in DOMAIN runs
    BY <1>1, <2>1, <2>2 DEF Sound, PassRec, DecisionRec, NoRun
  <2>4. QED
    BY <1>2, <1>3, <1>5, <2>3 DEF CarryOutReplace, StopPredecessor, Statuses
<1>6. ASSUME NEW t \in Tickers, NEW told \in BOOLEAN, RecordFails(t, told)
      PROVE  RunsGrow
  <2>1. CASE ~Due(t, "replace")
    BY <1>2, <1>6, <2>1 DEF RecordFails
  <2>2. CASE Due(t, "replace")
    <3>1. pass[t] \in PassRec /\ Sound(pass[t]) /\ pass[t].steps # {} /\ Step(t).kind = "replace"
      BY <2>2 DEF TypeInv, PassOK, Due
    <3>2. Step(t) \in pass[t].steps
      BY <3>1, StepIs
    <3>3. Step(t).stop \in DOMAIN runs
      BY <1>1, <3>1, <3>2 DEF Sound, PassRec, DecisionRec, NoRun
    <3>4. QED
      BY <1>2, <1>3, <1>6, <2>2, <3>3 DEF RecordFails, StopPredecessor, Statuses
  <2>3. QED
    BY <2>1, <2>2
<1>7. QED
  BY <1>2, <1>3, <1>4, <1>5, <1>6
  DEF Next, Tick, Claim, Plan, CarryOutHold, SpawnRun, SpawnFails, RecordRan, ReleaseRead,
      ReleaseWrite, Crash, SetState, RunNow, RunEnds, TimePasses, Statuses


(***************************************************************************)
(* What a pass decides.                                                    *)
(***************************************************************************)
LEMMA MissedIs ==
    ASSUME NEW s \in SeenRec, NEW at \in 0..MaxTime
    PROVE  /\ Missed(s, at) \in SUBSET ((-Grace)..at)
           /\ \A d \in Missed(s, at) : d = s.next \/ s.last = Never \/ s.last < d
<1>1. s.next \in Nat /\ s.last \in (-1)..MaxTime /\ Grace \in Nat \ {0} /\ MaxTime \in Nat
  BY SchedulesAssumption DEF SeenRec
<1>2. QED
  BY <1>1 DEF Missed, Never

(* The decisions for missed instants: one each, and a run to stop is there. *)
Decisive(steps, missed) ==
    /\ \A d \in steps : /\ d \in DecisionRec
                        /\ d.due \in missed
                        /\ d.stop <= Len(runs)
                        /\ d.kind = "replace" => d.stop # NoRun
                        /\ d.kind = "hold" => d.outcome # "ran"
    /\ \A d, e \in steps : d.due = e.due => d = e

LEMMA DecideIs ==
    ASSUME TypeInv, NEW at \in 0..MaxTime, NEW missed \in SUBSET ((-Grace)..at),
           NEW running \in 0..Len(runs)
    PROVE  Decisive(Decide(missed, running), missed)
<1>1. /\ misfire \in {"fire_once", "skip", "fire_all"} /\ overlap \in {"skip", "replace", "allow"}
      /\ Len(runs) \in Nat
  BY DEF TypeInv, ClockOK, RunsOK
<1>2. Grace \in Nat /\ MaxTime \in Nat
  BY SchedulesAssumption
<1>3. \A d \in missed : d \in (-Grace)..MaxTime
  BY <1>2
<1>4. CASE missed = {}
  BY <1>4 DEF Decide, Decisive
<1>5. CASE missed # {}
  <2>1. Max(missed) \in missed
    <3>1. -Grace \in Int /\ at \in Int
      BY <1>2
    <3>2. QED
      BY <1>5, <3>1, Extremes
  <2> DEFINE top == Max(missed)
  <2>2. top \in missed
    BY <2>1
  <2> HIDE DEF top
  <2>3. \A d \in missed : Run(d) \in DecisionRec /\ Hold(d, "skipped_overlap") \in DecisionRec
                             /\ Hold(d, "skipped_misfire") \in DecisionRec
    BY <1>3 DEF Run, Hold, DecisionRec, NoRun
  <2>4. \A d \in missed : Replace(d, running) \in DecisionRec
    BY <1>1, <1>3 DEF Replace, DecisionRec
  <2>5. ASSUME NEW d
         PROVE  /\ Run(d).due = d /\ Run(d).stop = 0 /\ Run(d).kind = "run"
                /\ \A o : /\ Hold(d, o).due = d /\ Hold(d, o).stop = 0
                          /\ Hold(d, o).kind = "hold" /\ Hold(d, o).outcome = o
                /\ Replace(d, running).due = d /\ Replace(d, running).stop = running
                /\ Replace(d, running).kind = "replace"
    BY DEF Run, Hold, Replace, NoRun
  <2>6. CASE running # NoRun /\ overlap = "skip"
    <3>1. Decide(missed, running) = {Hold(top, "skipped_overlap")}
      BY <1>5, <2>6 DEF Decide, top
    <3>2. QED
      BY <1>1, <2>2, <2>3, <2>5, <3>1 DEF Decisive
  <2>7. CASE running # NoRun /\ overlap = "replace"
    <3>1. Decide(missed, running) = {Replace(top, running)}
      BY <1>5, <2>7 DEF Decide, top
    <3>2. QED
      BY <1>1, <2>2, <2>4, <2>5, <2>7, <3>1 DEF Decisive
  <2>8. CASE ~(running # NoRun /\ overlap \in {"skip", "replace"})
    <3>1. CASE misfire = "fire_once"
      <4>1. Decide(missed, running) = {Run(top)}
        BY <1>5, <2>8, <3>1 DEF Decide, top
      <4>2. QED
        BY <1>1, <2>2, <2>3, <2>5, <4>1 DEF Decisive
    <3>2. CASE misfire = "skip"
      <4>1. Decide(missed, running) =
              {Run(top)} \cup {Hold(d, "skipped_misfire") : d \in missed \ {top}}
        BY <1>5, <2>8, <3>2 DEF Decide, top
      <4>2. QED
        BY <1>1, <2>2, <2>3, <2>5, <4>1 DEF Decisive
    <3>3. CASE misfire = "fire_all"
      <4>1. Decide(missed, running) = {Run(d) : d \in Oldest(missed)}
        BY <1>5, <2>8, <3>3 DEF Decide
      <4>2. Oldest(missed) \subseteq missed
        BY DEF Oldest
      <4>3. QED
        BY <1>1, <2>3, <2>5, <4>1, <4>2 DEF Decisive
    <3>4. QED
      BY <1>1, <3>1, <3>2, <3>3
  <2>9. QED
    BY <2>6, <2>7, <2>8
<1>6. QED
  BY <1>4, <1>5

(* A pass comes to its steps with one decision for each of some of the     *)
(* missed instants, and may write down what it passed over.                *)
Planned(t, steps) ==
    /\ Decisive(steps, Missed(pass[t].seen, pass[t].at))
    /\ pass' = [pass EXCEPT ![t].pc = "steps", ![t].steps = steps]
    /\ UNCHANGED <<now, misfire, overlap, row, runs, orders, faults>>
    /\ \/ UNCHANGED fires
       \/ \E due \in Int : Written(NoRun, "skipped_misfire", due)

LEMMA PlanIs ==
    ASSUME TypeInv, NEW t \in Tickers, Plan(t)
    PROVE  \E steps : Planned(t, steps)
<1>1. pass[t].seen \in SeenRec /\ pass[t].at \in 0..MaxTime
  BY DEF TypeInv, PassOK, PassRec
<1>2. /\ fires \in Seq(FireRec) /\ \A i \in DOMAIN fires : fires[i].run <= Len(runs)
      /\ Len(runs) \in Nat
  BY DEF TypeInv, FiresOK, RunsOK
<1> DEFINE missed == Missed(pass[t].seen, pass[t].at)
           running == IF RunningRuns = {} THEN NoRun ELSE Max(RunningRuns)
           steps == Decide(missed, running)
<1>3. missed \in SUBSET ((-Grace)..pass[t].at)
  BY <1>1, MissedIs
<1>4. running \in 0..Len(runs)
  <2>1. RunningRuns \in SUBSET (1..Len(runs))
    <3>1. \A i \in DOMAIN fires : fires[i] \in FireRec
      BY <1>2
    <3>2. \A i \in DOMAIN fires : fires[i].run \in Nat
      BY <3>1 DEF FireRec
    <3>3. \A i \in DOMAIN fires : fires[i].run # NoRun => fires[i].run \in 1..Len(runs)
      BY <1>2, <3>2 DEF NoRun
    <3>4. \A x \in RunningRuns : \E i \in DOMAIN fires : x = fires[i].run /\ x # NoRun
      BY DEF RunningRuns, Recent
    <3>5. QED
      BY <3>3, <3>4
  <2>2. RunningRuns # {} => Max(RunningRuns) \in RunningRuns
    <3>1. 1 \in Int /\ Len(runs) \in Int
      BY <1>2
    <3>2. QED
      BY <2>1, <3>1, Extremes
  <2>3. QED
    BY <1>2, <2>1, <2>2 DEF NoRun
<1>5. /\ pass' = [pass EXCEPT ![t].pc = "steps", ![t].steps = steps]
      /\ fires' = fires \o CaughtUp(missed, steps, pass[t].at)
      /\ UNCHANGED <<now, misfire, overlap, row, runs, orders, faults>>
  BY DEF Plan
<1> HIDE DEF missed, running, steps
<1>6. Decisive(steps, missed)
  BY <1>1, <1>3, <1>4, DecideIs DEF steps
<1>7. UNCHANGED fires \/ \E due \in Int : Written(NoRun, "skipped_misfire", due)
  <2>1. CASE CaughtUp(missed, steps, pass[t].at) = <<>>
    BY <1>2, <1>5, <2>1
  <2>2. CASE CaughtUp(missed, steps, pass[t].at) # <<>>
    <3> DEFINE due == Min(missed)
               new == [run |-> NoRun, outcome |-> "skipped_misfire", due |-> due, at |-> pass[t].at]
    <3>1. CaughtUp(missed, steps, pass[t].at) = <<new>> /\ \E d \in steps : TRUE
      BY <2>2 DEF CaughtUp
    <3>2. missed # {}
      BY <1>6, <3>1 DEF Decisive
    <3>3. due \in Int
      <4>1. -Grace \in Int /\ pass[t].at \in Int
        BY <1>1, SchedulesAssumption
      <4>2. Min(missed) \in missed
        BY <1>3, <3>2, <4>1, Extremes
      <4>3. missed \in SUBSET Int
        BY <1>3, <4>1
      <4>4. QED
        BY <4>2, <4>3
    <3> HIDE DEF due
    <3>4. new \in FireRec
      BY <1>1, <3>3 DEF FireRec, NoRun, Outcomes
    <3>5. fires' = Append(fires, new)
      <4> HIDE DEF new
      <4>1. fires' = fires \o <<new>>
        BY <1>5, <3>1
      <4>2. QED
        BY <1>2, <3>4, <4>1
    <3>6. RecordFire(NoRun, "skipped_misfire", due, pass[t].at)
      BY <3>5 DEF RecordFire
    <3>7. Written(NoRun, "skipped_misfire", due)
      BY <1>1, <3>3, <3>6, RecordWrites DEF NoRun, Outcomes
    <3>8. QED
      BY <3>3, <3>7
  <2>3. QED
    BY <2>1, <2>2
<1>8. Planned(t, steps)
  BY <1>5, <1>6, <1>7 DEF Planned, missed
<1>9. QED
  BY <1>8


(***************************************************************************)
(* What a step writes down.                                                *)
(***************************************************************************)
(* The step in hand is a decision of the pass. *)
InHand(t) ==
    /\ Step(t) \in pass[t].steps /\ Step(t) \in DecisionRec
    /\ Step(t).stop <= Len(runs)
    /\ Step(t).kind = "replace" => Step(t).stop # NoRun
    /\ Step(t).kind = "hold" => Step(t).outcome # "ran"
    /\ Step(t).due \in (-Grace)..MaxTime

LEMMA StepInHand ==
    ASSUME TypeInv, NEW t \in Tickers, pass[t].steps # {}
    PROVE  InHand(t)
<1>1. pass[t] \in PassRec /\ Sound(pass[t])
  BY DEF TypeInv, PassOK
<1>2. Step(t) \in pass[t].steps
  BY <1>1, StepIs
<1>3. pass[t].steps \in SUBSET DecisionRec
  BY <1>1 DEF PassRec
<1>4. Step(t) \in DecisionRec
  BY <1>2, <1>3
<1>5. QED
  BY <1>1, <1>2, <1>4 DEF InHand, Sound, DecisionRec

LEMMA PassWrites ==
    ASSUME TypeInv, NEW t \in Tickers
    PROVE  /\ Claim(t) => UNCHANGED fires \/ Written(NoRun, "abandoned", row.lease)
           /\ CarryOutHold(t) => /\ InHand(t)
                                 /\ Written(NoRun, Step(t).outcome, Step(t).due)
           /\ \A stopped \in BOOLEAN : CarryOutReplace(t, stopped) =>
                 /\ InHand(t)
                 /\ \/ Written(NoRun, "replaced", Step(t).due)
                    \/ Written(NoRun, "replace_failed", Step(t).due)
           /\ SpawnFails(t) => InHand(t) /\ Written(NoRun, "spawn_failed", Step(t).due)
           /\ RecordRan(t) => /\ InHand(t) /\ pass[t].run \in 1..Len(runs)
                              /\ Written(pass[t].run, "ran", Step(t).due)
           /\ \A told \in BOOLEAN : RecordFails(t, told) =>
                 /\ InHand(t)
                 /\ UNCHANGED fires \/ Written(NoRun, "spawn_failed", Step(t).due)
<1>1. pass[t] \in PassRec /\ Sound(pass[t]) /\ Len(runs) \in Nat
  BY DEF TypeInv, PassOK, RunsOK
<1>2. pass[t].at \in 0..MaxTime /\ pass[t].run \in Nat
  BY <1>1 DEF PassRec
<1>3. Grace \in Nat /\ MaxTime \in Nat
  BY SchedulesAssumption
<1>4. InHand(t) => Step(t).due \in Int /\ Step(t).outcome \in Outcomes
  BY <1>3 DEF InHand, DecisionRec, Outcomes
<1>5. Claim(t) => UNCHANGED fires \/ Written(NoRun, "abandoned", row.lease)
  <2>1. now \in 0..MaxTime /\ row.lease \in Int
    BY DEF TypeInv, ClockOK, RowOK, RowRec
  <2>2. "abandoned" \in Outcomes /\ NoRun \in Nat
    BY DEF Outcomes, NoRun
  <2>3. RecordFire(NoRun, "abandoned", row.lease, now) => Written(NoRun, "abandoned", row.lease)
    BY <2>1, <2>2, RecordWrites
  <2>4. QED
    BY <2>3 DEF Claim
<1>6. NoRun \in Nat
  BY DEF NoRun
<1>7. ASSUME CarryOutHold(t)
      PROVE  InHand(t) /\ Written(NoRun, Step(t).outcome, Step(t).due)
  <2>1. pass[t].steps # {} /\ RecordFire(NoRun, Step(t).outcome, Step(t).due, pass[t].at)
    BY <1>7 DEF CarryOutHold, Due
  <2>2. InHand(t)
    BY <2>1, StepInHand
  <2>3. QED
    BY <1>2, <1>4, <1>6, <2>1, <2>2, RecordWrites
<1>8. ASSUME NEW stopped \in BOOLEAN, CarryOutReplace(t, stopped)
      PROVE  /\ InHand(t)
             /\ \/ Written(NoRun, "replaced", Step(t).due)
                \/ Written(NoRun, "replace_failed", Step(t).due)
  <2>1. /\ pass[t].steps # {}
        /\ \/ RecordFire(NoRun, "replaced", Step(t).due, pass[t].at)
           \/ RecordFire(NoRun, "replace_failed", Step(t).due, pass[t].at)
    BY <1>8 DEF CarryOutReplace, Due
  <2>2. InHand(t)
    BY <2>1, StepInHand
  <2>3. "replaced" \in Outcomes /\ "replace_failed" \in Outcomes
    BY DEF Outcomes
  <2>4. QED
    BY <1>2, <1>4, <1>6, <2>1, <2>2, <2>3, RecordWrites
<1>9. ASSUME SpawnFails(t)
      PROVE  InHand(t) /\ Written(NoRun, "spawn_failed", Step(t).due)
  <2>1. pass[t].steps # {} /\ RecordFire(NoRun, "spawn_failed", Step(t).due, pass[t].at)
    BY <1>9 DEF SpawnFails, Due
  <2>2. InHand(t)
    BY <2>1, StepInHand
  <2>3. "spawn_failed" \in Outcomes
    BY DEF Outcomes
  <2>4. QED
    BY <1>2, <1>4, <1>6, <2>1, <2>2, <2>3, RecordWrites
<1>10. ASSUME RecordRan(t)
       PROVE  /\ InHand(t) /\ pass[t].run \in 1..Len(runs)
              /\ Written(pass[t].run, "ran", Step(t).due)
  <2>1. /\ pass[t].steps # {} /\ pass[t].run # NoRun /\ pass[t].run <= Len(runs)
        /\ RecordFire(pass[t].run, "ran", Step(t).due, pass[t].at)
    BY <1>1, <1>10 DEF RecordRan, At, Sound
  <2>2. InHand(t)
    BY <2>1, StepInHand
  <2>3. "ran" \in Outcomes
    BY DEF Outcomes
  <2>4. pass[t].run \in 1..Len(runs)
    BY <1>1, <1>2, <2>1 DEF NoRun
  <2>5. QED
    BY <1>2, <1>4, <2>1, <2>2, <2>3, <2>4, RecordWrites
<1>11. ASSUME NEW told \in BOOLEAN, RecordFails(t, told)
       PROVE  /\ InHand(t)
              /\ UNCHANGED fires \/ Written(NoRun, "spawn_failed", Step(t).due)
  <2>1. pass[t].steps # {}
    BY <1>1, <1>11 DEF RecordFails, Due, At, Sound
  <2>2. UNCHANGED fires \/ RecordFire(NoRun, "spawn_failed", Step(t).due, pass[t].at)
    BY <1>11 DEF RecordFails
  <2>3. InHand(t)
    BY <2>1, StepInHand
  <2>4. "spawn_failed" \in Outcomes
    BY DEF Outcomes
  <2>5. QED
    BY <1>2, <1>4, <1>6, <2>2, <2>3, <2>4, RecordWrites
<1>12. QED
  BY <1>5, <1>7, <1>8, <1>9, <1>10, <1>11

(* A step writes one row of the ledger or none, and of a run that is there. *)
WritesOne ==
    \/ UNCHANGED fires
    \/ \E run \in 0..Len(runs), outcome \in Outcomes, due \in Int : Written(run, outcome, due)

LEMMA FiresStep == TypeInv /\ Next => WritesOne
<1> SUFFICES ASSUME TypeInv, Next PROVE WritesOne
  OBVIOUS
<1>1. Len(runs) \in Nat /\ NoRun \in 0..Len(runs)
  BY DEF TypeInv, RunsOK, NoRun
<1>2. ASSUME NEW outcome \in Outcomes, NEW due \in Int, Written(NoRun, outcome, due)
      PROVE  WritesOne
  BY <1>1, <1>2 DEF WritesOne
<1>3. Grace \in Nat /\ MaxTime \in Nat
  BY SchedulesAssumption
<1>4. ASSUME NEW t, InHand(t) PROVE Step(t).due \in Int /\ Step(t).outcome \in Outcomes
  BY <1>3, <1>4 DEF InHand, DecisionRec, Outcomes
<1>5. /\ "abandoned" \in Outcomes /\ "replaced" \in Outcomes /\ "replace_failed" \in Outcomes
      /\ "spawn_failed" \in Outcomes /\ "skipped_misfire" \in Outcomes /\ "ran" \in Outcomes
  BY DEF Outcomes
<1>6. ASSUME NEW t \in Tickers, Claim(t) PROVE WritesOne
  <2>1. row.lease \in Int
    BY DEF TypeInv, RowOK, RowRec
  <2>2. QED
    BY <1>2, <1>5, <1>6, <2>1, PassWrites DEF WritesOne
<1>7. ASSUME NEW t \in Tickers, Plan(t) PROVE WritesOne
  <2>1. PICK steps : Planned(t, steps)
    BY <1>7, PlanIs
  <2>2. UNCHANGED fires \/ \E due \in Int : Written(NoRun, "skipped_misfire", due)
    BY <2>1 DEF Planned
  <2>3. QED
    BY <1>2, <1>5, <2>2 DEF WritesOne
<1>8. ASSUME NEW t \in Tickers, CarryOutHold(t) PROVE WritesOne
  BY <1>2, <1>4, <1>8, PassWrites
<1>9. ASSUME NEW t \in Tickers, NEW stopped \in BOOLEAN, CarryOutReplace(t, stopped)
      PROVE  WritesOne
  BY <1>2, <1>4, <1>5, <1>9, PassWrites
<1>10. ASSUME NEW t \in Tickers, SpawnFails(t) PROVE WritesOne
  BY <1>2, <1>4, <1>5, <1>10, PassWrites
<1>11. ASSUME NEW t \in Tickers, RecordRan(t) PROVE WritesOne
  <2>1. pass[t].run \in 0..Len(runs) /\ Step(t).due \in Int
    BY <1>1, <1>4, <1>11, PassWrites
  <2>2. Written(pass[t].run, "ran", Step(t).due)
    BY <1>11, PassWrites
  <2>3. QED
    BY <1>5, <2>1, <2>2 DEF WritesOne
<1>12. CASE UNCHANGED fires
  BY <1>12 DEF WritesOne
<1>13. ASSUME NEW t \in Tickers, NEW told \in BOOLEAN, RecordFails(t, told) PROVE WritesOne
  BY <1>2, <1>4, <1>5, <1>12, <1>13, PassWrites
<1>14. QED
  BY <1>6, <1>7, <1>8, <1>9, <1>10, <1>11, <1>12, <1>13
  DEF Next, Tick, SpawnRun, ReleaseRead, ReleaseWrite, Crash, SetState, RunNow, RunEnds, TimePasses


(***************************************************************************)
(* What a release reads.                                                   *)
(***************************************************************************)
LEMMA RowsFinite ==
    ASSUME NEW n \in Nat, NEW S \in SUBSET (1..n)
    PROVE  IsFiniteSet(S) /\ Cardinality(S) \in Nat
<1>1. IsFiniteSet(1..n)
  BY FS_Interval
<1>2. IsFiniteSet(S)
  BY <1>1, FS_Subset
<1>3. QED
  BY <1>2, FS_CardinalityType

LEMMA WalkedNat ==
    ASSUME TypeInv, NEW previous \in Nat, NEW judged \in SUBSET (1..Len(fires))
    PROVE  Walked(previous, judged) \in Nat
<1>1. Len(fires) \in Nat
  BY DEF TypeInv, FiresOK
<1> DEFINE good == Ended(judged, "completed")
           bad == {i \in Ended(judged, "failed") : \A g \in good : g < i}
<1>2. bad \in SUBSET (1..Len(fires))
  BY DEF Ended
<1>3. Walked(previous, judged) = (IF good = {} THEN previous ELSE 0) + Cardinality(bad)
  BY DEF Walked
<1> HIDE DEF good, bad
<1>4. Cardinality(bad) \in Nat
  BY <1>1, <1>2, RowsFinite
<1>5. QED
  BY <1>3, <1>4

LEMMA SettleNat ==
    ASSUME TypeInv, NEW previous \in Nat, NEW started \in SUBSET (1..Len(fires)),
           NEW failed \in BOOLEAN
    PROVE  Settle(previous, started, failed) \in Nat
<1>1. Judged(started) \in SUBSET (1..Len(fires))
  BY DEF Judged
<1>2. Walked(previous, Judged(started)) \in Nat
  BY <1>1, WalkedNat
<1>3. \/ Settle(previous, started, failed) = Walked(previous, Judged(started))
      \/ Settle(previous, started, failed) = Walked(previous, Judged(started)) + 1
      \/ Settle(previous, started, failed) = 0
  BY DEF Settle
<1>4. QED
  BY <1>2, <1>3

(* A release reads up to the last run it judged, which is a row of the     *)
(* ledger, and judges no run after one that is still going.                *)
LEMMA ReadUpToIs ==
    ASSUME TypeInv, NEW from \in 0..Len(fires)
    PROVE  LET judged == Judged(StartedSince(from))
           IN  /\ judged \in SUBSET (1..Len(fires))
               /\ ReadUpTo(from, judged) \in from..Len(fires)
               /\ \A i \in judged : i <= ReadUpTo(from, judged)
               /\ \A i \in 1..ReadUpTo(from, judged) :
                     i > from /\ fires[i].run # NoRun => runs[fires[i].run] # "running"
<1> DEFINE judged == Judged(StartedSince(from))
<1>1. Len(fires) \in Nat /\ DOMAIN fires = 1..Len(fires)
  BY DEF TypeInv, FiresOK
<1>2. judged \in SUBSET (1..Len(fires)) /\ \A i \in judged : i > from
  BY <1>1 DEF Judged, StartedSince
<1>3. \A i \in judged, j \in 1..Len(fires) :
         j > from /\ j <= i /\ fires[j].run # NoRun => runs[fires[j].run] # "running"
  BY <1>1 DEF Judged, StartedSince
<1> HIDE DEF judged
<1>4. CASE judged = {}
  BY <1>1, <1>4 DEF ReadUpTo, judged
<1>5. CASE judged # {}
  <2>1. 1 \in Int /\ Len(fires) \in Int
    BY <1>1
  <2>2. Max(judged) \in judged /\ \A i \in judged : i <= Max(judged)
    BY <1>2, <1>5, <2>1, Extremes
  <2>3. ReadUpTo(from, judged) = Max(judged)
    BY <1>5 DEF ReadUpTo
  <2> DEFINE top == Max(judged)
  <2>4. top \in judged /\ top \in 1..Len(fires) /\ top > from
    BY <1>2, <2>2
  <2>5. \A i \in judged : i <= top
    BY <2>2
  <2> HIDE DEF top
  <2>6. /\ top \in from..Len(fires)
        /\ \A i \in 1..top : i > from /\ fires[i].run # NoRun => runs[fires[i].run] # "running"
    BY <1>1, <1>3, <2>4
  <2>7. QED
    BY <1>2, <2>3, <2>5, <2>6 DEF top, judged
<1>6. QED
  BY <1>4, <1>5

(***************************************************************************)
(* The invariant of the types, part by part.                               *)
(***************************************************************************)
LEMMA ClockStep == TypeInv /\ Next => ClockOK' /\ now <= now' /\ faults <= faults'
<1> SUFFICES ASSUME TypeInv, Next PROVE ClockOK' /\ now <= now' /\ faults <= faults'
  OBVIOUS
<1>1. ClockOK /\ MaxTime \in Nat
  BY SchedulesAssumption DEF TypeInv
<1>2. CASE UNCHANGED <<now, misfire, overlap, orders, faults>>
  BY <1>1, <1>2 DEF ClockOK
<1>3. CASE TimePasses
  BY <1>1, <1>3 DEF TimePasses, ClockOK
<1>4. ASSUME NEW t \in Tickers, Crash(t) PROVE ClockOK' /\ now <= now' /\ faults <= faults'
  BY <1>1, <1>4 DEF Crash, ClockOK
<1>5. ASSUME NEW state, SetState(state) PROVE ClockOK' /\ now <= now' /\ faults <= faults'
  BY <1>1, <1>5 DEF SetState, ClockOK
<1>6. CASE RunNow
  BY <1>1, <1>6 DEF RunNow, ClockOK
<1>7. ASSUME NEW t \in Tickers, NEW told \in BOOLEAN, RecordFails(t, told)
      PROVE  ClockOK' /\ now <= now' /\ faults <= faults'
  BY <1>1, <1>7 DEF RecordFails, ClockOK
<1>8. QED
  BY <1>2, <1>3, <1>4, <1>5, <1>6, <1>7
  DEF Next, Tick, Claim, Plan, CarryOutHold, CarryOutReplace, SpawnRun, SpawnFails, RecordRan,
      ReleaseRead, ReleaseWrite, RunEnds

LEMMA LedgerStep == TypeInv /\ Next => FiresOK' /\ RunsOK' /\ FiresGrow
<1> SUFFICES ASSUME TypeInv, Next PROVE FiresOK' /\ RunsOK' /\ FiresGrow
  OBVIOUS
<1>1. WritesOne /\ RunsGrow
  BY FiresStep, RunsStep
<1>2. /\ fires \in Seq(FireRec) /\ Len(fires) \in Nat
      /\ \A i \in 1..Len(fires) : fires[i].run <= Len(runs) /\ fires[i] \in FireRec
      /\ Len(runs) \in Nat
  BY DEF TypeInv, FiresOK, RunsOK
<1>3. Len(runs') \in Nat /\ Len(runs) <= Len(runs')
  BY <1>1 DEF RunsGrow
<1>4. \A i \in 1..Len(fires) : fires[i].run \in Nat
  BY <1>2 DEF FireRec
<1>5. CASE UNCHANGED fires
  BY <1>1, <1>2, <1>3, <1>4, <1>5 DEF FiresOK, FiresGrow, RunsOK, RunsGrow
<1>6. ASSUME NEW run \in 0..Len(runs), NEW outcome \in Outcomes, NEW due \in Int,
             Written(run, outcome, due)
      PROVE  FiresOK' /\ FiresGrow
  <2>1. FiresGrow
    BY <1>2, <1>6 DEF Written, FiresGrow
  <2>2. \A i \in 1..Len(fires') : fires'[i].run <= Len(runs')
    BY <1>2, <1>3, <1>4, <1>6 DEF Written
  <2>3. QED
    BY <1>6, <2>1, <2>2 DEF Written, FiresOK
<1>7. RunsOK'
  BY <1>1 DEF RunsGrow, RunsOK
<1>8. QED
  BY <1>1, <1>5, <1>6, <1>7 DEF WritesOne

LEMMA RowStep == TypeInv /\ Next => RowOK'
<1> SUFFICES ASSUME TypeInv, Next PROVE RowOK'
  OBVIOUS
<1>1. /\ row \in RowRec /\ row.settled <= Len(fires) /\ row.last <= now
      /\ row.claim # NoTicker => row.lease <= now + Lease
  BY DEF TypeInv, RowOK
<1>2. /\ now \in 0..MaxTime /\ now' \in 0..MaxTime /\ now <= now'
      /\ Len(fires) \in Nat /\ Len(fires') \in Nat /\ Len(fires) <= Len(fires')
      /\ MaxTime \in Nat /\ Lease \in Nat
  BY ClockStep, LedgerStep, SchedulesAssumption
  DEF TypeInv, ClockOK, FiresOK, FiresGrow
<1>3. CASE UNCHANGED row
  BY <1>1, <1>2, <1>3 DEF RowOK, RowRec
<1>4. ASSUME NEW t \in Tickers, Claim(t) PROVE RowOK'
  <2>1. row' = [row EXCEPT !.claim = t, !.lease = now + Lease] /\ now' = now
    BY <1>4 DEF Claim
  <2>2. now + Lease \in Nat /\ t \in Tickers \cup {NoTicker}
    BY <1>2
  <2>3. row' \in RowRec
    BY <1>1, <2>1, <2>2 DEF RowRec
  <2>4. row'.settled = row.settled /\ row'.last = row.last /\ row'.lease = now + Lease
    BY <1>1, <2>1 DEF RowRec
  <2>5. row.settled \in Nat
    BY <1>1 DEF RowRec
  <2>6. QED
    BY <1>1, <1>2, <2>1, <2>3, <2>4, <2>5 DEF RowOK
<1>5. ASSUME NEW t \in Tickers, ReleaseWrite(t) PROVE RowOK'
  <2> DEFINE p == pass[t]
  <2>1. p \in PassRec /\ Sound(p)
    BY DEF TypeInv, PassOK
  <2>2. p.at \in 0..MaxTime /\ p.at <= now /\ p.count \in Nat /\ p.mark \in Nat
        /\ p.mark <= Len(fires)
    BY <2>1 DEF PassRec, Sound
  <2>3. NextFire(p.at + Backoff(p.count)) \in Nat
    <3>1. Backoff(p.count) \in Nat
      BY <2>2, BackoffNat
    <3>2. QED
      BY <2>2, <3>1 DEF NextFire
  <2>4. row' = [row EXCEPT !.claim = NoTicker, !.lease = 0,
                           !.last = p.at, !.next = NextFire(p.at + Backoff(p.count)),
                           !.failures = p.count, !.settled = p.mark,
                           !.state = IF Broken(p.count) THEN "broken" ELSE @]
    BY <1>5 DEF ReleaseWrite
  <2>5. now' = now /\ fires' = fires
    BY <1>5 DEF ReleaseWrite
  <2> HIDE DEF p
  <2>6. p.at \in (-1)..MaxTime /\ 0 \in Nat /\ NoTicker \in Tickers \cup {NoTicker}
    BY <2>2
  <2>7. \A broken \in BOOLEAN : (IF broken THEN "broken" ELSE row.state) \in {"armed", "paused", "broken"}
    BY <1>1 DEF RowRec
  <2>8. Broken(p.count) \in BOOLEAN
    BY DEF Broken
  <2> DEFINE next == NextFire(p.at + Backoff(p.count))
             state == IF Broken(p.count) THEN "broken" ELSE row.state
  <2>9. next \in Nat /\ state \in {"armed", "paused", "broken"}
    BY <2>3, <2>7, <2>8
  <2>10. row' = [row EXCEPT !.claim = NoTicker, !.lease = 0, !.last = p.at, !.next = next,
                            !.failures = p.count, !.settled = p.mark, !.state = state]
    BY <2>4
  <2> HIDE DEF next, state
  <2>11. row' \in RowRec
    BY <1>1, <2>2, <2>6, <2>9, <2>10 DEF RowRec
  <2>12. row'.settled = p.mark /\ row'.last = p.at /\ row'.claim = NoTicker
    BY <1>1, <2>10 DEF RowRec
  <2>13. QED
    BY <1>2, <2>2, <2>5, <2>11, <2>12 DEF RowOK
<1>6. ASSUME NEW state \in {"armed", "paused"}, SetState(state) PROVE RowOK'
  <2> DEFINE failures == IF state = "armed" THEN 0 ELSE row.failures
             next == IF state = "armed" THEN NextFire(now) ELSE row.next
  <2>1. /\ row' = [row EXCEPT !.state = state, !.claim = NoTicker, !.lease = 0,
                              !.failures = failures, !.next = next]
        /\ now' = now /\ fires' = fires
    BY <1>6 DEF SetState
  <2>2. failures \in Nat /\ next \in Nat
    BY <1>1, <1>2 DEF RowRec, NextFire
  <2> HIDE DEF failures, next
  <2>3. row' \in RowRec
    BY <1>1, <2>1, <2>2 DEF RowRec
  <2>4. row'.settled = row.settled /\ row'.last = row.last /\ row'.claim = NoTicker
    BY <1>1, <2>1 DEF RowRec
  <2>5. QED
    BY <1>1, <2>1, <2>3, <2>4 DEF RowOK
<1>7. CASE RunNow
  BY <1>1, <1>2, <1>7 DEF RunNow, RowOK, RowRec
<1>8. QED
  BY <1>3, <1>4, <1>5, <1>6, <1>7
  DEF Next, Tick, Plan, CarryOutHold, CarryOutReplace, SpawnRun, SpawnFails, RecordRan,
      RecordFails, ReleaseRead, Crash, RunEnds, TimePasses


(* What a pass has in hand stays there, whatever the others do. *)
LEMMA PassKept ==
    ASSUME TypeInv, now \in Int, now' \in Int, now <= now', RunsGrow, FiresGrow,
           NEW t \in Tickers, NEW q \in PassRec, q = pass[t]
    PROVE  /\ q.at <= now'
           /\ q.pc = "claimed" => q.seen.next <= q.at
           /\ q.run <= Len(runs') /\ q.mark <= Len(fires')
           /\ \A d \in q.steps : /\ d.stop <= Len(runs')
                                 /\ d.kind = "replace" => d.stop # NoRun
                                 /\ d.kind = "hold" => d.outcome # "ran"
           /\ q.pc = "spawned" => q.run # NoRun /\ q.steps # {}
<1>1. Sound(q)
  BY DEF TypeInv, PassOK
<1>2. /\ Len(runs) \in Nat /\ Len(runs') \in Nat /\ Len(runs) <= Len(runs')
      /\ Len(fires) \in Nat /\ Len(fires') \in Nat /\ Len(fires) <= Len(fires')
  BY DEF TypeInv, RunsOK, FiresOK, RunsGrow, FiresGrow
<1>3. q.at \in Int /\ q.run \in Nat /\ q.mark \in Nat /\ q.steps \in SUBSET DecisionRec
  BY DEF PassRec
<1>4. q.at <= now' /\ q.run <= Len(runs') /\ q.mark <= Len(fires')
  BY <1>1, <1>2, <1>3 DEF Sound
<1>5. ASSUME NEW d \in q.steps PROVE d.stop <= Len(runs')
  <2>1. d \in DecisionRec /\ d.stop <= Len(runs)
    BY <1>1, <1>3 DEF Sound
  <2>2. d.stop \in Nat
    BY <2>1 DEF DecisionRec
  <2>3. QED
    BY <1>2, <2>1, <2>2
<1>6. QED
  BY <1>1, <1>4, <1>5 DEF Sound

(* The record of the ticker that moves, after the step. *)
Moves(t, q) == pass' = [pass EXCEPT ![t] = q] /\ q \in PassRec

LEMMA PassStep == TypeInv /\ Next => PassOK'
<1> SUFFICES ASSUME TypeInv, Next PROVE PassOK'
  OBVIOUS
<1>1. now \in Int /\ now' \in Int /\ now <= now' /\ RunsGrow /\ FiresGrow
  BY ClockStep, RunsStep, LedgerStep DEF TypeInv, ClockOK
<1>2. pass \in [Tickers -> PassRec] /\ \A t \in Tickers : Sound(pass[t])
  BY DEF TypeInv, PassOK
<1>3. /\ Len(runs) \in Nat /\ Len(runs') \in Nat /\ Len(runs) <= Len(runs')
      /\ Len(fires) \in Nat /\ Len(fires') \in Nat /\ Len(fires) <= Len(fires')
  BY <1>1 DEF TypeInv, RunsOK, FiresOK, RunsGrow, FiresGrow
<1>4. ASSUME NEW s \in Tickers, pass'[s] = pass[s] PROVE Sound(pass[s])'
  <2>1. pass[s] \in PassRec
    BY <1>2
  <2>2. QED
    BY <1>1, <1>4, <2>1, PassKept DEF Sound
<1>5. CASE UNCHANGED pass
  BY <1>2, <1>4, <1>5 DEF PassOK
<1>6. ASSUME NEW t \in Tickers, NEW q, Moves(t, q),
             /\ q.at <= now'
             /\ q.pc = "claimed" => q.seen.next <= q.at
             /\ q.run <= Len(runs') /\ q.mark <= Len(fires')
             /\ \A d \in q.steps : /\ d.stop <= Len(runs')
                                   /\ d.kind = "replace" => d.stop # NoRun
                                   /\ d.kind = "hold" => d.outcome # "ran"
             /\ q.pc = "spawned" => q.run # NoRun /\ q.steps # {}
      PROVE  PassOK'
  <2>1. pass' \in [Tickers -> PassRec] /\ pass'[t] = q
    BY <1>2, <1>6 DEF Moves
  <2>2. Sound(pass[t])'
    BY <1>6, <2>1 DEF Sound
  <2>3. ASSUME NEW s \in Tickers, s # t PROVE Sound(pass[s])'
    BY <1>2, <1>4, <1>6, <2>3 DEF Moves
  <2>4. QED
    BY <2>1, <2>2, <2>3 DEF PassOK
<1>7. /\ NoRun = 0 /\ NoRun \in Nat
      /\ Resting \in PassRec /\ Resting.at = 0 /\ Resting.pc = "idle" /\ Resting.run = 0
      /\ Resting.mark = 0 /\ Resting.steps = {}
  BY RestingTyped DEF Resting, NoRun
<1>8. ASSUME NEW t \in Tickers, pass' = [pass EXCEPT ![t] = Resting] PROVE PassOK'
  <2>1. 0 <= now'
    BY <1>1, ClockStep DEF TypeInv, ClockOK
  <2>2. Moves(t, Resting)
    BY <1>7, <1>8 DEF Moves
  <2>3. QED
    BY <1>3, <1>6, <1>7, <2>1, <2>2
<1>9. ASSUME NEW t \in Tickers, Claim(t) PROVE PassOK'
  <2> DEFINE seen == [next |-> row.next, last |-> row.last]
             q == [Resting EXCEPT !.pc = "claimed", !.at = now, !.seen = seen]
  <2>1. row.next \in Nat /\ row.last \in (-1)..MaxTime /\ now \in 0..MaxTime /\ row.next <= now
    BY <1>9 DEF TypeInv, RowOK, RowRec, ClockOK, Claim
  <2>2. seen \in SeenRec /\ seen.next = row.next
    BY <2>1 DEF SeenRec
  <2>3. pass' = [pass EXCEPT ![t] = q] /\ now' = now
    BY <1>9 DEF Claim
  <2> HIDE DEF seen
  <2>4. q \in PassRec
    BY <1>7, <2>1, <2>2 DEF PassRec
  <2>5. /\ q.at = now /\ q.pc = "claimed" /\ q.seen = seen /\ q.run = 0 /\ q.mark = 0
        /\ q.steps = {}
    BY DEF Resting, NoRun
  <2> HIDE DEF q
  <2>6. Moves(t, q)
    BY <2>3, <2>4 DEF Moves
  <2>7. QED
    BY <1>1, <1>3, <1>6, <2>1, <2>2, <2>3, <2>5, <2>6
<1>10. ASSUME NEW t \in Tickers
       PROVE  /\ pass[t] \in PassRec /\ Sound(pass[t])
              /\ pass[t].at \in Int /\ pass[t].at <= now' /\ pass[t].run <= Len(runs')
              /\ pass[t].mark <= Len(fires') /\ pass[t].steps \in SUBSET DecisionRec
              /\ \A d \in pass[t].steps : /\ d.stop <= Len(runs')
                                          /\ d.kind = "replace" => d.stop # NoRun
                                          /\ d.kind = "hold" => d.outcome # "ran"
  <2>1. pass[t] \in PassRec
    BY <1>2
  <2>2. QED
    BY <1>1, <1>2, <2>1, PassKept DEF PassRec
<1>11. ASSUME NEW t \in Tickers, Plan(t) PROVE PassOK'
  <2>1. PICK steps : Planned(t, steps)
    BY <1>11, PlanIs
  <2> DEFINE q == [pass[t] EXCEPT !.pc = "steps", !.steps = steps]
  <2>2. \A d \in steps : /\ d \in DecisionRec /\ d.stop <= Len(runs)
                         /\ d.kind = "replace" => d.stop # NoRun
                         /\ d.kind = "hold" => d.outcome # "ran"
    BY <2>1 DEF Planned, Decisive
  <2>3. runs' = runs /\ pass' = [pass EXCEPT ![t] = q]
    BY <1>2, <2>1 DEF Planned
  <2>4. steps \in SUBSET DecisionRec
    BY <2>2
  <2>5. q \in PassRec
    BY <1>10, <2>4 DEF PassRec
  <2>6. /\ q.at = pass[t].at /\ q.pc = "steps" /\ q.run = pass[t].run
        /\ q.mark = pass[t].mark /\ q.steps = steps
    BY <1>10 DEF PassRec
  <2> HIDE DEF q
  <2>7. Moves(t, q)
    BY <2>3, <2>5 DEF Moves
  <2>8. QED
    BY <1>6, <1>10, <2>2, <2>3, <2>6, <2>7
<1>12. ASSUME NEW t \in Tickers, NEW failed \in BOOLEAN,
              pass' = [pass EXCEPT ![t] = [pass[t] EXCEPT !.pc = "steps",
                          !.steps = pass[t].steps \ {Step(t)}, !.run = NoRun, !.failed = failed]]
       PROVE  PassOK'
  <2> DEFINE steps == pass[t].steps \ {Step(t)}
             q == [pass[t] EXCEPT !.pc = "steps", !.steps = steps, !.run = NoRun,
                                  !.failed = failed]
  <2>1. steps \in SUBSET DecisionRec /\ \A d \in steps : d \in pass[t].steps
    BY <1>10
  <2> HIDE DEF steps
  <2>2. q \in PassRec
    BY <1>7, <1>10, <2>1 DEF PassRec
  <2>3. /\ q.at = pass[t].at /\ q.pc = "steps" /\ q.run = 0
        /\ q.mark = pass[t].mark /\ q.steps = steps
    BY <1>7, <1>10 DEF PassRec
  <2>4. pass' = [pass EXCEPT ![t] = q]
    BY <1>12 DEF steps
  <2> HIDE DEF q
  <2>5. Moves(t, q)
    BY <2>2, <2>4 DEF Moves
  <2>6. QED
    BY <1>3, <1>6, <1>10, <2>1, <2>3, <2>5
<1>13. ASSUME NEW t \in Tickers, pass' = [pass EXCEPT ![t] = NextStep(t)] PROVE PassOK'
  <2>1. pass[t].failed \in BOOLEAN
    BY <1>10 DEF PassRec
  <2>2. NextStep(t) = [pass[t] EXCEPT !.pc = "steps", !.steps = pass[t].steps \ {Step(t)},
                                      !.run = NoRun, !.failed = pass[t].failed]
    BY <1>10 DEF NextStep, PassRec
  <2>3. QED
    BY <1>12, <1>13, <2>1, <2>2
<1>14. ASSUME NEW t \in Tickers, SpawnFails(t) PROVE PassOK'
  <2>1. [NextStep(t) EXCEPT !.failed = TRUE] =
           [pass[t] EXCEPT !.pc = "steps", !.steps = pass[t].steps \ {Step(t)},
                           !.run = NoRun, !.failed = TRUE]
    BY <1>10 DEF NextStep, PassRec
  <2>2. QED
    BY <1>12, <1>14, <2>1 DEF SpawnFails
<1>15. ASSUME NEW t \in Tickers, NEW told \in BOOLEAN, RecordFails(t, told) PROVE PassOK'
  <2>1. [NextStep(t) EXCEPT !.failed = TRUE] =
           [pass[t] EXCEPT !.pc = "steps", !.steps = pass[t].steps \ {Step(t)},
                           !.run = NoRun, !.failed = TRUE]
    BY <1>10 DEF NextStep, PassRec
  <2>2. QED
    BY <1>12, <1>15, <2>1 DEF RecordFails
<1>16. ASSUME NEW t \in Tickers, NEW stopped \in BOOLEAN, CarryOutReplace(t, stopped)
       PROVE  PassOK'
  <2> DEFINE new == Run(Step(t).due)
             steps == (pass[t].steps \ {Step(t)}) \cup {new}
             q == [pass[t] EXCEPT !.steps = steps]
  <2>1. InHand(t) /\ pass[t].pc = "steps"
    BY <1>16, PassWrites DEF CarryOutReplace, Due, At
  <2>2. new \in DecisionRec /\ new.stop = 0 /\ new.kind = "run"
    BY <2>1 DEF InHand, Run, DecisionRec, NoRun
  <2> HIDE DEF new
  <2>3. steps \in SUBSET DecisionRec /\ \A d \in steps : d \in pass[t].steps \/ d = new
    BY <1>10, <2>2
  <2> HIDE DEF steps
  <2>4. q \in PassRec
    BY <1>10, <2>3 DEF PassRec
  <2>5. /\ q.at = pass[t].at /\ q.pc = "steps" /\ q.run = pass[t].run
        /\ q.mark = pass[t].mark /\ q.steps = steps
    BY <1>10, <2>1 DEF PassRec
  <2>6. pass' = [pass EXCEPT ![t] = q]
    BY <1>2, <1>16 DEF CarryOutReplace, steps, new
  <2> HIDE DEF q
  <2>7. Moves(t, q)
    BY <2>4, <2>6 DEF Moves
  <2>8. \A d \in steps : /\ d.stop <= Len(runs')
                         /\ d.kind = "replace" => d.stop # NoRun
                         /\ d.kind = "hold" => d.outcome # "ran"
    BY <1>3, <1>10, <2>2, <2>3
  <2>9. QED
    BY <1>6, <1>10, <2>5, <2>7, <2>8
<1>17. ASSUME NEW t \in Tickers, SpawnRun(t) PROVE PassOK'
  <2> DEFINE new == Len(runs) + 1
             q == [pass[t] EXCEPT !.pc = "spawned", !.run = new]
  <2>1. pass[t].steps # {} /\ runs' = Append(runs, "running") /\ pass' = [pass EXCEPT ![t] = q]
    BY <1>2, <1>17 DEF SpawnRun, Due
  <2>2. new \in Nat /\ Len(runs') = new /\ new # NoRun
    BY <1>3, <1>7, <2>1 DEF TypeInv, RunsOK
  <2> HIDE DEF new
  <2>3. q \in PassRec
    BY <1>10, <2>2 DEF PassRec
  <2>4. /\ q.at = pass[t].at /\ q.pc = "spawned" /\ q.run = new
        /\ q.mark = pass[t].mark /\ q.steps = pass[t].steps
    BY <1>10 DEF PassRec
  <2> HIDE DEF q
  <2>5. Moves(t, q)
    BY <2>1, <2>3 DEF Moves
  <2>6. QED
    BY <1>6, <1>10, <2>1, <2>2, <2>4, <2>5
<1>18. ASSUME NEW t \in Tickers, ReleaseRead(t) PROVE PassOK'
  <2> DEFINE count == Settle(row.failures, StartedSince(row.settled), pass[t].failed)
             mark == ReadUpTo(row.settled, Judged(StartedSince(row.settled)))
             q == [pass[t] EXCEPT !.pc = "release", !.count = count, !.mark = mark]
  <2>1. row.failures \in Nat /\ row.settled \in 0..Len(fires) /\ pass[t].failed \in BOOLEAN
    BY <1>3, <1>10 DEF TypeInv, RowOK, RowRec, PassRec
  <2>2. StartedSince(row.settled) \in SUBSET (1..Len(fires))
    BY DEF StartedSince, TypeInv, FiresOK
  <2>3. count \in Nat
    BY <2>1, <2>2, SettleNat
  <2>4. mark \in Nat /\ mark <= Len(fires)
    BY <1>3, <2>1, ReadUpToIs
  <2>5. pass' = [pass EXCEPT ![t] = q] /\ fires' = fires
    BY <1>2, <1>18 DEF ReleaseRead
  <2> HIDE DEF count, mark
  <2>6. q \in PassRec
    BY <1>10, <2>3, <2>4 DEF PassRec
  <2>7. /\ q.at = pass[t].at /\ q.pc = "release" /\ q.run = pass[t].run
        /\ q.mark = mark /\ q.steps = pass[t].steps
    BY <1>10 DEF PassRec
  <2> HIDE DEF q
  <2>8. Moves(t, q)
    BY <2>5, <2>6 DEF Moves
  <2>9. QED
    BY <1>6, <1>10, <2>4, <2>5, <2>7, <2>8
<1>19. QED
  BY <1>5, <1>8, <1>9, <1>11, <1>13, <1>14, <1>15, <1>16, <1>17, <1>18
  DEF Next, Tick, CarryOutHold, RecordRan, ReleaseWrite, Crash, SetState, RunNow, RunEnds,
      TimePasses

LEMMA TypeStep == TypeInv /\ [Next]_vars => TypeInv'
<1> SUFFICES ASSUME TypeInv, [Next]_vars PROVE TypeInv'
  OBVIOUS
<1>1. CASE UNCHANGED vars
  BY <1>1 DEF vars, TypeInv, ClockOK, RowOK, FiresOK, RunsOK, PassOK, Sound
<1>2. CASE Next
  BY <1>2, ClockStep, LedgerStep, RowStep, PassStep DEF TypeInv
<1>3. QED
  BY <1>1, <1>2

(* Types hold of every schedule, and: a claim's lease is never further     *)
(* ahead than its span, and every row of the ledger names a run that was   *)
(* started.                                                                *)
THEOREM TypeCorrect == Spec => []TypeOK
<1>1. Spec => []TypeInv
  BY InitTyped, TypeStep, PTL DEF Spec
<1>2. QED
  BY <1>1, TypeInvGives, PTL


(***************************************************************************)
(* How a step moves the passes: what of the one that takes it, and that    *)
(* the others keep theirs.                                                 *)
(***************************************************************************)
Others(t) == \A s \in Tickers : s # t => pass'[s] = pass[s]
Same(t) == pass'[t].at = pass[t].at /\ pass'[t].failed = pass[t].failed

LEMMA PassMoves ==
    ASSUME TypeInv, NEW t \in Tickers
    PROVE  /\ Claim(t) => /\ Others(t) /\ pass'[t].pc = "claimed" /\ ~pass'[t].failed
                          /\ pass'[t].at = now /\ pass'[t].seen.next = row.next
                          /\ pass'[t].seen.last = row.last
           /\ Plan(t) => Others(t) /\ Same(t) /\ pass'[t].pc = "steps"
           /\ CarryOutHold(t) \/ RecordRan(t) =>
                 /\ Others(t) /\ Same(t) /\ pass'[t].pc = "steps"
                 /\ pass'[t].steps = pass[t].steps \ {Step(t)}
           /\ \A stopped \in BOOLEAN : CarryOutReplace(t, stopped) =>
                 /\ Others(t) /\ Same(t) /\ pass[t].pc = "steps" /\ pass'[t].pc = "steps"
                 /\ pass'[t].steps = (pass[t].steps \ {Step(t)}) \cup {Run(Step(t).due)}
           /\ SpawnRun(t) => /\ Others(t) /\ Same(t) /\ pass[t].pc = "steps"
                             /\ pass'[t].pc = "spawned" /\ pass'[t].steps = pass[t].steps
           /\ SpawnFails(t) => /\ Others(t) /\ pass[t].pc = "steps" /\ pass'[t].pc = "steps"
                               /\ pass'[t].failed /\ pass'[t].at = pass[t].at
                               /\ pass'[t].steps = pass[t].steps \ {Step(t)}
           /\ \A told \in BOOLEAN : RecordFails(t, told) =>
                 /\ Others(t) /\ pass[t].pc \in {"steps", "spawned"} /\ pass'[t].pc = "steps"
                 /\ pass'[t].failed /\ pass'[t].at = pass[t].at
                 /\ pass'[t].steps = pass[t].steps \ {Step(t)}
           /\ ReleaseRead(t) => /\ Others(t) /\ Same(t) /\ pass[t].pc = "steps"
                                /\ pass'[t].pc = "release" /\ pass'[t].steps = pass[t].steps
           /\ ReleaseWrite(t) \/ Crash(t) => /\ Others(t) /\ pass'[t].pc = "idle"
                                             /\ ~pass'[t].failed
<1>1. pass \in [Tickers -> PassRec] /\ pass[t] \in PassRec
  BY DEF TypeInv, PassOK
<1>2. ASSUME NEW q, pass' = [pass EXCEPT ![t] = q] PROVE Others(t) /\ pass'[t] = q
  BY <1>1, <1>2 DEF Others
<1>3. Resting.pc = "idle" /\ ~Resting.failed
  BY DEF Resting
<1>4. Claim(t) => /\ Others(t) /\ pass'[t].pc = "claimed" /\ ~pass'[t].failed
                  /\ pass'[t].at = now /\ pass'[t].seen.next = row.next
                  /\ pass'[t].seen.last = row.last
  <2> SUFFICES ASSUME Claim(t)
               PROVE  /\ Others(t) /\ pass'[t].pc = "claimed" /\ ~pass'[t].failed
                      /\ pass'[t].at = now /\ pass'[t].seen.next = row.next
                      /\ pass'[t].seen.last = row.last
    OBVIOUS
  <2> DEFINE seen == [next |-> row.next, last |-> row.last]
             q == [Resting EXCEPT !.pc = "claimed", !.at = now, !.seen = seen]
  <2>1. pass' = [pass EXCEPT ![t] = q] /\ seen.next = row.next /\ seen.last = row.last
    BY DEF Claim
  <2> HIDE DEF seen
  <2>2. q.pc = "claimed" /\ ~q.failed /\ q.at = now /\ q.seen = seen
    BY DEF Resting
  <2> HIDE DEF q
  <2>3. QED
    BY <1>2, <2>1, <2>2
<1>5. Plan(t) => Others(t) /\ Same(t) /\ pass'[t].pc = "steps"
  <2> SUFFICES ASSUME Plan(t) PROVE Others(t) /\ Same(t) /\ pass'[t].pc = "steps"
    OBVIOUS
  <2>1. PICK steps : Planned(t, steps)
    BY PlanIs
  <2>2. pass' = [pass EXCEPT ![t] = [pass[t] EXCEPT !.pc = "steps", !.steps = steps]]
    BY <1>1, <2>1 DEF Planned
  <2>3. QED
    BY <1>1, <1>2, <2>2 DEF Same, PassRec
<1>6. /\ NextStep(t).pc = "steps" /\ NextStep(t).at = pass[t].at
      /\ NextStep(t).failed = pass[t].failed /\ NextStep(t).steps = pass[t].steps \ {Step(t)}
  BY <1>1 DEF NextStep, PassRec
<1>7. CarryOutHold(t) \/ RecordRan(t) =>
         /\ Others(t) /\ Same(t) /\ pass'[t].pc = "steps"
         /\ pass'[t].steps = pass[t].steps \ {Step(t)}
  BY <1>2, <1>6 DEF CarryOutHold, RecordRan, Same
<1>8. ASSUME NEW stopped \in BOOLEAN, CarryOutReplace(t, stopped)
      PROVE  /\ Others(t) /\ Same(t) /\ pass[t].pc = "steps" /\ pass'[t].pc = "steps"
             /\ pass'[t].steps = (pass[t].steps \ {Step(t)}) \cup {Run(Step(t).due)}
  <2> DEFINE steps == (pass[t].steps \ {Step(t)}) \cup {Run(Step(t).due)}
  <2>1. pass' = [pass EXCEPT ![t] = [pass[t] EXCEPT !.steps = steps]] /\ pass[t].pc = "steps"
    BY <1>1, <1>8 DEF CarryOutReplace, Due, At
  <2> HIDE DEF steps
  <2>2. /\ Others(t) /\ Same(t) /\ pass[t].pc = "steps" /\ pass'[t].pc = "steps"
        /\ pass'[t].steps = steps
    BY <1>1, <1>2, <2>1 DEF Same, PassRec
  <2>3. QED
    BY <2>2 DEF steps
<1>9. SpawnRun(t) => /\ Others(t) /\ Same(t) /\ pass[t].pc = "steps"
                     /\ pass'[t].pc = "spawned" /\ pass'[t].steps = pass[t].steps
  <2> SUFFICES ASSUME SpawnRun(t)
               PROVE  /\ Others(t) /\ Same(t) /\ pass[t].pc = "steps"
                      /\ pass'[t].pc = "spawned" /\ pass'[t].steps = pass[t].steps
    OBVIOUS
  <2> DEFINE new == Len(runs) + 1
  <2>1. /\ pass' = [pass EXCEPT ![t] = [pass[t] EXCEPT !.pc = "spawned", !.run = new]]
        /\ pass[t].pc = "steps"
    BY <1>1 DEF SpawnRun, Due, At
  <2> HIDE DEF new
  <2>2. QED
    BY <1>1, <1>2, <2>1 DEF Same, PassRec
<1>10. SpawnFails(t) => /\ Others(t) /\ pass[t].pc = "steps" /\ pass'[t].pc = "steps"
                        /\ pass'[t].failed /\ pass'[t].at = pass[t].at
                        /\ pass'[t].steps = pass[t].steps \ {Step(t)}
  <2> SUFFICES ASSUME SpawnFails(t)
               PROVE  /\ Others(t) /\ pass[t].pc = "steps" /\ pass'[t].pc = "steps"
                      /\ pass'[t].failed /\ pass'[t].at = pass[t].at
                      /\ pass'[t].steps = pass[t].steps \ {Step(t)}
    OBVIOUS
  <2> DEFINE q == [NextStep(t) EXCEPT !.failed = TRUE]
  <2>1. /\ q.pc = "steps" /\ q.at = pass[t].at /\ q.failed
        /\ q.steps = pass[t].steps \ {Step(t)}
    BY <1>1, <1>6 DEF NextStep, PassRec
  <2>2. pass' = [pass EXCEPT ![t] = q] /\ pass[t].pc = "steps"
    BY DEF SpawnFails, Due, At
  <2> HIDE DEF q
  <2>3. Others(t) /\ pass'[t] = q
    BY <1>2, <2>2
  <2>4. QED
    BY <2>1, <2>2, <2>3
<1>11. ReleaseRead(t) => /\ Others(t) /\ Same(t) /\ pass[t].pc = "steps"
                         /\ pass'[t].pc = "release" /\ pass'[t].steps = pass[t].steps
  <2> SUFFICES ASSUME ReleaseRead(t)
               PROVE  /\ Others(t) /\ Same(t) /\ pass[t].pc = "steps"
                      /\ pass'[t].pc = "release" /\ pass'[t].steps = pass[t].steps
    OBVIOUS
  <2> DEFINE count == Settle(row.failures, StartedSince(row.settled), pass[t].failed)
             mark == ReadUpTo(row.settled, Judged(StartedSince(row.settled)))
  <2>1. /\ pass' = [pass EXCEPT ![t] = [pass[t] EXCEPT !.pc = "release", !.count = count,
                                                       !.mark = mark]]
        /\ pass[t].pc = "steps"
    BY <1>1 DEF ReleaseRead, At
  <2> HIDE DEF count, mark
  <2>2. QED
    BY <1>1, <1>2, <2>1 DEF Same, PassRec
<1>12. ReleaseWrite(t) \/ Crash(t) => Others(t) /\ pass'[t].pc = "idle" /\ ~pass'[t].failed
  BY <1>2, <1>3 DEF ReleaseWrite, Crash
<1>13. ASSUME NEW told \in BOOLEAN, RecordFails(t, told)
       PROVE  /\ Others(t) /\ pass[t].pc \in {"steps", "spawned"} /\ pass'[t].pc = "steps"
              /\ pass'[t].failed /\ pass'[t].at = pass[t].at
              /\ pass'[t].steps = pass[t].steps \ {Step(t)}
  <2> DEFINE q == [NextStep(t) EXCEPT !.failed = TRUE]
  <2>1. /\ q.pc = "steps" /\ q.at = pass[t].at /\ q.failed
        /\ q.steps = pass[t].steps \ {Step(t)}
    BY <1>1, <1>6 DEF NextStep, PassRec
  <2>2. pass' = [pass EXCEPT ![t] = q] /\ pass[t].pc \in {"steps", "spawned"}
    BY <1>13 DEF RecordFails, Due, At
  <2> HIDE DEF q
  <2>3. Others(t) /\ pass'[t] = q
    BY <1>2, <2>2
  <2>4. QED
    BY <2>1, <2>2, <2>3
<1>14. QED
  BY <1>4, <1>5, <1>7, <1>8, <1>9, <1>10, <1>11, <1>12, <1>13

(***************************************************************************)
(* The circuit breaker.                                                    *)
(***************************************************************************)
LEMMA BreakerStep == TypeInv /\ BreakerHolds /\ [Next]_vars => BreakerHolds'
<1> SUFFICES ASSUME TypeInv, BreakerHolds, [Next]_vars PROVE BreakerHolds'
  OBVIOUS
<1>1. row \in RowRec /\ BreakAfter \in Nat \ {0}
  BY SchedulesAssumption DEF TypeInv, RowOK
<1>2. CASE UNCHANGED row
  BY <1>2 DEF BreakerHolds
<1>3. ASSUME NEW t \in Tickers, Claim(t) PROVE BreakerHolds'
  BY <1>1, <1>3 DEF Claim, BreakerHolds, RowRec
<1>4. ASSUME NEW t \in Tickers, ReleaseWrite(t) PROVE BreakerHolds'
  <2>1. pass[t].count \in Nat
    BY DEF TypeInv, PassOK, PassRec
  <2>2. /\ row'.failures = pass[t].count
        /\ row'.state = IF Broken(pass[t].count) THEN "broken" ELSE row.state
    BY <1>1, <1>4 DEF ReleaseWrite, RowRec
  <2>3. QED
    BY <1>1, <2>1, <2>2 DEF BreakerHolds, Broken
<1>5. ASSUME NEW state \in {"armed", "paused"}, SetState(state) PROVE BreakerHolds'
  <2>1. row'.state = state /\ (state = "armed" => row'.failures = 0)
    BY <1>1, <1>5 DEF SetState, RowRec
  <2>2. QED
    BY <1>1, <2>1 DEF BreakerHolds
<1>6. CASE RunNow
  BY <1>1, <1>6 DEF RunNow, BreakerHolds, RowRec
<1>7. QED
  BY <1>2, <1>3, <1>4, <1>5, <1>6
  DEF Next, Tick, Plan, CarryOutHold, CarryOutReplace, SpawnRun, SpawnFails, RecordRan,
      RecordFails, ReleaseRead, Crash, RunEnds, TimePasses, vars

(* An armed schedule has fewer failures than break the circuit, whoever    *)
(* armed, paused or released it in between, with any number of tickers.    *)
THEOREM BreakerCorrect == Spec => []BreakerHolds
<1>1. Init => BreakerHolds
  BY SchedulesAssumption DEF Init, BreakerHolds
<1>2. QED
  BY <1>1, InitTyped, TypeStep, BreakerStep, PTL DEF Spec

(***************************************************************************)
(* What is passed by is over.                                              *)
(***************************************************************************)
(* Every run up to that row of the ledger is over. *)
Passed(n) == \A i \in 1..n : fires[i].run # NoRun => runs[fires[i].run] # "running"

(* What a release is about to write is passed by already, whatever another *)
(* release writes first.                                                   *)
SettledInv ==
    /\ Passed(row.settled)
    /\ \A t \in Tickers : At(t, "release") => Passed(pass[t].mark)

(* A run that is over stays over, and a row names the run it named. *)
LEMMA OverKept ==
    ASSUME TypeInv, Next, NEW i \in 1..Len(fires), fires[i].run # NoRun
    PROVE  /\ fires'[i] = fires[i]
           /\ runs[fires[i].run] # "running" => runs'[fires'[i].run] = runs[fires[i].run]
<1>1. FiresGrow /\ RunsGrow
  BY LedgerStep, RunsStep
<1>2. fires[i] \in FireRec /\ fires[i].run <= Len(runs) /\ Len(runs) \in Nat
  BY DEF TypeInv, FiresOK, RunsOK
<1>3. fires[i].run \in 1..Len(runs)
  BY <1>2 DEF FireRec, NoRun
<1>4. QED
  BY <1>1, <1>3 DEF FiresGrow, RunsGrow

LEMMA PassedKept ==
    ASSUME TypeInv, Next, NEW n \in Nat, n <= Len(fires), Passed(n)
    PROVE  \A i \in 1..n : fires'[i].run # NoRun => runs'[fires'[i].run] # "running"
<1> SUFFICES ASSUME NEW i \in 1..n, fires'[i].run # NoRun
             PROVE  runs'[fires'[i].run] # "running"
  OBVIOUS
<1>1. i \in 1..Len(fires)
  BY DEF TypeInv, FiresOK
<1>2. fires'[i] = fires[i]
  BY <1>1, LedgerStep DEF FiresGrow
<1>3. QED
  BY <1>1, <1>2, OverKept DEF Passed

LEMMA SettledStep == TypeInv /\ SettledInv /\ [Next]_vars => SettledInv'
<1> SUFFICES ASSUME TypeInv, SettledInv, [Next]_vars PROVE SettledInv'
  OBVIOUS
<1>1. CASE UNCHANGED vars
  BY <1>1 DEF vars, SettledInv, Passed, At
<1>2. ASSUME Next PROVE SettledInv'
  <2>1. /\ row.settled \in Nat /\ row.settled <= Len(fires) /\ Passed(row.settled)
        /\ row \in RowRec
    BY DEF TypeInv, RowOK, RowRec, SettledInv
  <2>2. ASSUME NEW s \in Tickers, pass[s].pc = "release"
        PROVE  pass[s].mark \in Nat /\ pass[s].mark <= Len(fires) /\ Passed(pass[s].mark)
    BY <2>2 DEF TypeInv, PassOK, PassRec, Sound, SettledInv, At
  <2>3. ASSUME row'.settled = row.settled PROVE Passed(row.settled)'
    BY <1>2, <2>1, <2>3, PassedKept DEF Passed
  <2>4. ASSUME NEW s \in Tickers, pass[s].pc = "release", pass'[s].mark = pass[s].mark
        PROVE  Passed(pass[s].mark)'
    BY <1>2, <2>2, <2>4, PassedKept DEF Passed
  <2>5. pass \in [Tickers -> PassRec]
    BY DEF TypeInv, PassOK
  <2>6. ASSUME NEW t \in Tickers, ReleaseWrite(t) PROVE SettledInv'
    <3>1. /\ pass[t].pc = "release" /\ row'.settled = pass[t].mark
          /\ pass' = [pass EXCEPT ![t] = Resting]
      BY <2>1, <2>6 DEF ReleaseWrite, At, RowRec
    <3>2. Passed(row.settled)'
      BY <1>2, <2>2, <3>1, PassedKept DEF Passed
    <3>3. \A s \in Tickers : pass'[s].pc = "release" => pass[s].pc = "release"
                                                     /\ pass'[s].mark = pass[s].mark
      BY <2>5, <3>1 DEF Resting
    <3>4. QED
      BY <2>4, <3>2, <3>3 DEF SettledInv, At
  <2>7. ASSUME NEW t \in Tickers, ReleaseRead(t) PROVE SettledInv'
    <3> DEFINE mark == ReadUpTo(row.settled, Judged(StartedSince(row.settled)))
    <3>1. UNCHANGED <<row, fires, runs>>
      BY <2>7 DEF ReleaseRead
    <3>2. /\ pass'[t].mark = mark
          /\ \A s \in Tickers : s # t => pass'[s] = pass[s]
      BY <2>5, <2>7 DEF ReleaseRead, PassRec
    <3>3. row.settled \in 0..Len(fires) /\ Len(fires) \in Nat
      BY <2>1 DEF TypeInv, FiresOK
    <3>4. /\ mark \in row.settled..Len(fires)
          /\ \A i \in 1..mark : i > row.settled /\ fires[i].run # NoRun
                                   => runs[fires[i].run] # "running"
      BY <3>3, ReadUpToIs
    <3> HIDE DEF mark
    <3>5. Passed(mark)
      BY <2>1, <3>3, <3>4 DEF Passed
    <3>6. Passed(pass[t].mark)'
      BY <3>1, <3>2, <3>5 DEF Passed
    <3>7. Passed(row.settled)'
      BY <2>3, <3>1
    <3>8. QED
      BY <2>4, <3>2, <3>6, <3>7 DEF SettledInv, At
  <2>8. ASSUME row'.settled = row.settled,
               \A s \in Tickers : pass'[s].pc = "release" => pass[s].pc = "release"
                                                          /\ pass'[s].mark = pass[s].mark
        PROVE  SettledInv'
    BY <2>3, <2>4, <2>8 DEF SettledInv, At
  <2>9. ASSUME UNCHANGED pass, row'.settled = row.settled PROVE SettledInv'
    BY <2>8, <2>9
  <2>10. ASSUME NEW t \in Tickers, Others(t), pass'[t].pc # "release",
                row'.settled = row.settled
         PROVE  SettledInv'
    <3>1. \A s \in Tickers : pass'[s].pc = "release" => pass'[s] = pass[s]
      BY <2>10 DEF Others
    <3>2. QED
      BY <2>8, <2>10, <3>1
  <2>11. ASSUME NEW t \in Tickers, Claim(t) PROVE SettledInv'
    <3>1. row'.settled = row.settled
      BY <2>1, <2>11 DEF Claim, RowRec
    <3>2. QED
      BY <2>10, <2>11, <3>1, PassMoves
  <2>12. ASSUME NEW t \in Tickers, Plan(t) \/ CarryOutHold(t) \/ SpawnRun(t) \/ SpawnFails(t)
                                   \/ RecordRan(t) \/ Crash(t)
         PROVE  SettledInv'
    <3>1. row'.settled = row.settled
      BY <2>12 DEF Plan, CarryOutHold, SpawnRun, SpawnFails, RecordRan, Crash
    <3>2. Others(t) /\ pass'[t].pc # "release"
      BY <2>12, PassMoves
    <3>3. QED
      BY <2>10, <3>1, <3>2
  <2>13. ASSUME NEW t \in Tickers, NEW stopped \in BOOLEAN, CarryOutReplace(t, stopped)
         PROVE  SettledInv'
    <3>1. row'.settled = row.settled
      BY <2>13 DEF CarryOutReplace
    <3>2. Others(t) /\ pass'[t].pc # "release"
      BY <2>13, PassMoves
    <3>3. QED
      BY <2>10, <3>1, <3>2
  <2>14. ASSUME NEW t \in Tickers, NEW told \in BOOLEAN, RecordFails(t, told)
         PROVE  SettledInv'
    <3>1. row'.settled = row.settled
      BY <2>14 DEF RecordFails
    <3>2. Others(t) /\ pass'[t].pc # "release"
      BY <2>14, PassMoves
    <3>3. QED
      BY <2>10, <3>1, <3>2
  <2>15. ASSUME NEW state, SetState(state) PROVE SettledInv'
    <3>1. row'.settled = row.settled
      BY <2>1, <2>15 DEF SetState, RowRec
    <3>2. QED
      BY <2>9, <2>15, <3>1 DEF SetState
  <2>16. CASE RunNow
    <3>1. row'.settled = row.settled
      BY <2>1, <2>16 DEF RunNow, RowRec
    <3>2. QED
      BY <2>9, <2>16, <3>1 DEF RunNow
  <2>17. QED
    BY <1>2, <2>6, <2>7, <2>9, <2>11, <2>12, <2>13, <2>14, <2>15, <2>16
    DEF Next, Tick, RunEnds, TimePasses
<1>3. QED
  BY <1>1, <1>2

(* "A run that has not finished is not a failure": no run the count has    *)
(* passed by is still going, so none fails later unseen, whatever number   *)
(* of tickers release in any order.                                        *)
THEOREM SettledCorrect == Spec => []SettledAreOver
<1>1. Init => SettledInv
  BY DEF Init, SettledInv, Passed, At, Resting
<1>2. SettledInv => SettledAreOver
  BY DEF SettledInv, Passed, SettledAreOver
<1>3. QED
  BY <1>1, <1>2, InitTyped, TypeStep, SettledStep, PTL DEF Spec


(***************************************************************************)
(* What is counted was earned.                                             *)
(***************************************************************************)
(* The rows that earn a failure: runs that failed, and runs not started. *)
Failed(n) == {i \in 1..n : fires[i].run # NoRun /\ runs[fires[i].run] = "failed"}
Refused == {i \in DOMAIN fires : fires[i].outcome = "spawn_failed"}

(* What may be counted besides failed runs: rows and faults. *)
Excused == Cardinality(Refused) + faults

(* The passes that could start nothing and have not counted it yet. *)
Owing == {t \in Tickers : pass[t].failed /\ pass[t].pc # "release"}

Earned(count, n) ==
    count + Cardinality(Owing) <= Cardinality(Failed(n)) + Excused

(* What is counted, or about to be, and what is still owed, was earned. *)
CountInv ==
    /\ Earned(row.failures, row.settled)
    /\ \A t \in Tickers : At(t, "release") => Earned(pass[t].count, pass[t].mark)

LEMMA OwingFinite ==
    ASSUME NEW S \in SUBSET Tickers
    PROVE  IsFiniteSet(S) /\ Cardinality(S) \in Nat
BY SchedulesAssumption, FS_Subset, FS_CardinalityType

(* What was earned stays earned. *)
LEMMA EarnedGrows ==
    ASSUME TypeInv, Next, NEW n \in Nat, n <= Len(fires)
    PROVE  /\ Cardinality(Failed(n)) \in Nat
           /\ Cardinality(Failed(n)) <=
                 Cardinality({i \in 1..n : /\ fires'[i].run # NoRun
                                           /\ runs'[fires'[i].run] = "failed"})
           /\ Cardinality({i \in 1..n : /\ fires'[i].run # NoRun
                                        /\ runs'[fires'[i].run] = "failed"}) \in Nat
<1> DEFINE old == Failed(n)
           new == {i \in 1..n : fires'[i].run # NoRun /\ runs'[fires'[i].run] = "failed"}
<1>1. old \in SUBSET (1..n) /\ new \in SUBSET (1..n)
  BY DEF Failed
<1>2. old \subseteq new
  <2> SUFFICES ASSUME NEW i \in 1..n, fires[i].run # NoRun, runs[fires[i].run] = "failed"
               PROVE  fires'[i].run # NoRun /\ runs'[fires'[i].run] = "failed"
    BY DEF Failed
  <2>1. i \in 1..Len(fires)
    BY DEF TypeInv, FiresOK
  <2>2. QED
    BY <2>1, OverKept
<1> HIDE DEF old, new
<1>3. /\ IsFiniteSet(new) /\ Cardinality(new) \in Nat /\ Cardinality(old) \in Nat
      /\ Cardinality(old) <= Cardinality(new)
  BY <1>1, <1>2, RowsFinite, FS_Subset
<1>4. QED
  BY <1>3 DEF old, new

LEMMA RefusedGrows ==
    ASSUME TypeInv, Next
    PROVE  /\ Cardinality(Refused) \in Nat /\ Cardinality(Refused') \in Nat
           /\ Cardinality(Refused) <= Cardinality(Refused')
           /\ \A due : Written(NoRun, "spawn_failed", due) =>
                 Cardinality(Refused) + 1 <= Cardinality(Refused')
<1>1. FiresGrow
  BY LedgerStep
<1>2. /\ DOMAIN fires = 1..Len(fires) /\ DOMAIN fires' = 1..Len(fires')
      /\ Len(fires) \in Nat /\ Len(fires') \in Nat
  BY <1>1 DEF TypeInv, FiresOK, FiresGrow
<1>3. Refused \in SUBSET (1..Len(fires)) /\ Refused' \in SUBSET (1..Len(fires'))
  BY <1>2 DEF Refused
<1>4. Refused \subseteq Refused'
  BY <1>1, <1>2 DEF Refused, FiresGrow
<1>5. /\ IsFiniteSet(Refused) /\ Cardinality(Refused) \in Nat
      /\ IsFiniteSet(Refused') /\ Cardinality(Refused') \in Nat
  BY <1>2, <1>3, RowsFinite
<1>6. Cardinality(Refused) <= Cardinality(Refused')
  BY <1>4, <1>5, FS_Subset
<1>7. ASSUME NEW due, Written(NoRun, "spawn_failed", due)
      PROVE  Cardinality(Refused) + 1 <= Cardinality(Refused')
  <2> DEFINE last == Len(fires) + 1
  <2>1. last \in Refused' /\ last \notin Refused
    BY <1>2, <1>3, <1>7 DEF Written, Refused
  <2> HIDE DEF last
  <2>2. Refused \cup {last} \subseteq Refused'
    BY <1>4, <2>1
  <2>3. Cardinality(Refused \cup {last}) = Cardinality(Refused) + 1
    BY <1>5, <2>1, FS_AddElement
  <2>4. Cardinality(Refused \cup {last}) <= Cardinality(Refused')
    BY <1>5, <2>2, FS_Subset
  <2>5. QED
    BY <2>3, <2>4
<1>8. QED
  BY <1>5, <1>6, <1>7

LEMMA SumsGrow ==
    ASSUME NEW a \in Nat, NEW b \in Nat, NEW c \in Nat, NEW d \in Nat, a <= b, c <= d
    PROVE  /\ a + c \in Nat /\ b + d \in Nat /\ a + c <= b + d
           /\ a + 1 <= b => a + c + 1 <= b + d
           /\ d = c + 1 => a + c + 1 <= b + d
OBVIOUS

LEMMA ExcusedGrows ==
    ASSUME TypeInv, Next
    PROVE  /\ Excused \in Nat /\ Excused' \in Nat /\ Excused <= Excused'
           /\ \A due : Written(NoRun, "spawn_failed", due) => Excused + 1 <= Excused'
           /\ faults' = faults + 1 => Excused + 1 <= Excused'
<1> DEFINE refused == Cardinality(Refused)
           then == Cardinality(Refused')
<1>1. /\ refused \in Nat /\ then \in Nat /\ refused <= then
      /\ \A due : Written(NoRun, "spawn_failed", due) => refused + 1 <= then
  BY RefusedGrows
<1>2. faults \in Nat /\ faults' \in Nat /\ faults <= faults'
  BY ClockStep DEF TypeInv, ClockOK
<1>3. Excused = refused + faults /\ Excused' = then + faults'
  BY DEF Excused
<1>4. refused \in Nat /\ then \in Nat /\ refused <= then
  BY <1>1
<1>5. /\ refused + faults \in Nat /\ then + faults' \in Nat
      /\ refused + faults <= then + faults'
  BY <1>2, <1>4, SumsGrow
<1>6. /\ refused + 1 <= then => refused + faults + 1 <= then + faults'
      /\ faults' = faults + 1 => refused + faults + 1 <= then + faults'
  BY <1>2, <1>4, SumsGrow
<1>7. QED
  BY <1>1, <1>3, <1>5, <1>6

(* A release counts at most what the rows it judged earned, and one for    *)
(* the pass that could start nothing.                                      *)
LEMMA SettleEarned ==
    ASSUME TypeInv, NEW previous \in Nat, NEW from \in 0..Len(fires), NEW failed \in BOOLEAN
    PROVE  LET started == StartedSince(from)
               mark    == ReadUpTo(from, Judged(started))
           IN  Settle(previous, started, failed) + Cardinality(Failed(from))
                   <= previous + Cardinality(Failed(mark)) + (IF failed THEN 1 ELSE 0)
<1> DEFINE started == StartedSince(from)
           judged == Judged(started)
           mark == ReadUpTo(from, judged)
           good == Ended(judged, "completed")
           bad == {i \in Ended(judged, "failed") : \A g \in good : g < i}
<1>1. Len(fires) \in Nat /\ DOMAIN fires = 1..Len(fires)
  BY DEF TypeInv, FiresOK
<1>2. /\ judged \in SUBSET (1..Len(fires)) /\ mark \in from..Len(fires)
      /\ \A i \in judged : i <= mark
  BY ReadUpToIs
<1>3. \A i \in judged : i > from /\ fires[i].run # NoRun
  BY DEF Judged, StartedSince
<1>4. Walked(previous, judged) = (IF good = {} THEN previous ELSE 0) + Cardinality(bad)
  BY DEF Walked
<1>5. \/ Settle(previous, started, failed) = Walked(previous, judged) + (IF failed THEN 1 ELSE 0)
      \/ Settle(previous, started, failed) = 0
  <2>1. CASE failed
    <3>1. Settle(previous, started, failed) = Walked(previous, judged) + 1
      BY <2>1 DEF Settle
    <3>2. QED
      BY <2>1, <3>1
  <2>2. CASE ~failed
    <3>1. Walked(previous, judged) \in Nat
      BY <1>2, WalkedNat
    <3>2. \/ Settle(previous, started, failed) = Walked(previous, judged)
          \/ Settle(previous, started, failed) = 0
      BY <2>2 DEF Settle
    <3>3. QED
      BY <2>2, <3>1, <3>2
  <2>3. QED
    BY <2>1, <2>2
<1>6. bad \subseteq judged /\ \A i \in bad : runs[fires[i].run] = "failed"
  BY DEF Ended
<1> HIDE DEF started, judged, mark, good, bad
<1>7. mark \in Nat
  BY <1>1, <1>2
<1>8. bad \in SUBSET (1..Len(fires)) /\ Failed(from) \in SUBSET (1..from)
      /\ Failed(mark) \in SUBSET (1..mark)
  BY <1>2, <1>6 DEF Failed
<1>9. /\ IsFiniteSet(bad) /\ Cardinality(bad) \in Nat
      /\ IsFiniteSet(Failed(from)) /\ Cardinality(Failed(from)) \in Nat
      /\ IsFiniteSet(Failed(mark)) /\ Cardinality(Failed(mark)) \in Nat
  <2>1. IsFiniteSet(bad) /\ Cardinality(bad) \in Nat
    BY <1>1, <1>8, RowsFinite
  <2>2. from \in Nat
    OBVIOUS
  <2>3. IsFiniteSet(Failed(from)) /\ Cardinality(Failed(from)) \in Nat
    BY <1>8, <2>2, RowsFinite
  <2>4. IsFiniteSet(Failed(mark)) /\ Cardinality(Failed(mark)) \in Nat
    BY <1>7, <1>8, RowsFinite
  <2>5. QED
    BY <2>1, <2>3, <2>4
<1>10. bad \cap Failed(from) = {}
  <2>1. \A i \in bad : i > from /\ i \in Nat
    BY <1>3, <1>6, <1>8
  <2>2. \A i \in Failed(from) : i <= from
    BY <1>8
  <2>3. from \in Nat
    OBVIOUS
  <2>4. QED
    BY <2>1, <2>2, <2>3
<1>11. bad \cup Failed(from) \subseteq Failed(mark)
  <2>1. \A i \in bad : i \in Failed(mark)
    BY <1>2, <1>3, <1>6, <1>8 DEF Failed
  <2>2. \A i \in Failed(from) : i \in Failed(mark)
    BY <1>1, <1>2 DEF Failed
  <2>3. QED
    BY <2>1, <2>2
<1>12. Cardinality(bad \cup Failed(from)) = Cardinality(bad) + Cardinality(Failed(from))
  <2>1. Cardinality(bad \cup Failed(from)) =
           Cardinality(bad) + Cardinality(Failed(from)) - Cardinality(bad \cap Failed(from))
    BY <1>9, FS_Union
  <2>2. Cardinality(bad \cap Failed(from)) = 0
    BY <1>10, FS_EmptySet
  <2>3. QED
    BY <1>9, <2>1, <2>2
<1>13. Cardinality(bad) + Cardinality(Failed(from)) <= Cardinality(Failed(mark))
  BY <1>9, <1>11, <1>12, FS_Subset
<1>14. Settle(previous, started, failed) + Cardinality(Failed(from))
          <= previous + Cardinality(Failed(mark)) + (IF failed THEN 1 ELSE 0)
  BY <1>4, <1>5, <1>9, <1>13
<1>15. QED
  BY <1>14 DEF started, mark, judged


LEMMA CountStep == TypeInv /\ CountInv /\ [Next]_vars => CountInv'
<1> SUFFICES ASSUME TypeInv, CountInv, [Next]_vars PROVE CountInv'
  OBVIOUS
<1>1. CASE UNCHANGED vars
  BY <1>1 DEF vars, CountInv, Earned, Excused, Failed, Refused, Owing, At
<1>2. ASSUME Next PROVE CountInv'
  <2>1. /\ row.settled \in Nat /\ row.settled <= Len(fires) /\ row.failures \in Nat
        /\ Earned(row.failures, row.settled) /\ row \in RowRec
    BY DEF TypeInv, RowOK, RowRec, CountInv
  <2>2. ASSUME NEW s \in Tickers, pass[s].pc = "release"
        PROVE  /\ pass[s].mark \in Nat /\ pass[s].mark <= Len(fires) /\ pass[s].count \in Nat
               /\ Earned(pass[s].count, pass[s].mark)
    BY <2>2 DEF TypeInv, PassOK, PassRec, Sound, CountInv, At
  <2>3. /\ IsFiniteSet(Owing) /\ Cardinality(Owing) \in Nat
        /\ IsFiniteSet(Owing') /\ Cardinality(Owing') \in Nat
    <3>1. Owing \in SUBSET Tickers /\ Owing' \in SUBSET Tickers
      BY DEF Owing
    <3>2. QED
      BY <3>1, OwingFinite
  <2>4. /\ Excused \in Nat /\ Excused' \in Nat
        /\ Excused <= Excused'
    BY <1>2, ExcusedGrows
  <2> DEFINE paid == Cardinality(Owing') + Excused <=
                        Cardinality(Owing) + Excused'
  <2>5. ASSUME Owing' \subseteq Owing PROVE paid
    <3>1. Cardinality(Owing') <= Cardinality(Owing)
      BY <2>3, <2>5, FS_Subset
    <3>2. QED
      BY <2>3, <2>4, <3>1
  <2>6. ASSUME paid, NEW count \in Nat, NEW n \in Nat, n <= Len(fires), Earned(count, n)
        PROVE  count + Cardinality(Owing') <=
                  Cardinality({i \in 1..n : /\ fires'[i].run # NoRun
                                            /\ runs'[fires'[i].run] = "failed"})
                  + Excused'
    <3> DEFINE old == Cardinality(Failed(n))
               new == Cardinality({i \in 1..n : /\ fires'[i].run # NoRun
                                                /\ runs'[fires'[i].run] = "failed"})
    <3>1. old \in Nat /\ new \in Nat /\ old <= new
      BY <1>2, <2>6, EarnedGrows
    <3>2. count + Cardinality(Owing) <= old + Excused
      BY <2>6 DEF Earned
    <3> HIDE DEF old, new
    <3>3. count + Cardinality(Owing') <= new + Excused'
      BY <2>3, <2>4, <2>6, <3>1, <3>2
    <3>4. QED
      BY <3>3 DEF new
  <2>7. ASSUME paid, row'.settled = row.settled, row'.failures \in {0, row.failures}
        PROVE  Earned(row.failures, row.settled)'
    <3>1. row.failures + Cardinality(Owing') <=
             Cardinality(Failed(row.settled))' + Excused'
      BY <2>1, <2>6, <2>7 DEF Failed
    <3>2. row'.failures <= row.failures /\ row'.failures \in Nat
      BY <2>1, <2>7
    <3>3. row'.failures + Cardinality(Owing') <= row.failures + Cardinality(Owing')
      BY <2>1, <2>3, <3>2
    <3>4. Cardinality(Failed(row.settled))' \in Nat
      BY <1>2, <2>1, <2>7, EarnedGrows DEF Failed
    <3>5. QED
      BY <2>1, <2>3, <2>4, <3>1, <3>2, <3>4 DEF Earned
  <2>8. ASSUME paid, NEW s \in Tickers, pass[s].pc = "release", pass'[s] = pass[s]
        PROVE  Earned(pass[s].count, pass[s].mark)'
    BY <2>2, <2>6, <2>8 DEF Earned, Failed
  <2>9. pass \in [Tickers -> PassRec]
    BY DEF TypeInv, PassOK
  <2>10. ASSUME paid, NEW t \in Tickers, Others(t), pass'[t].pc # "release",
                UNCHANGED row \/ (row'.settled = row.settled /\ row'.failures = row.failures)
         PROVE  CountInv'
    <3>1. \A s \in Tickers : pass'[s].pc = "release" => pass'[s] = pass[s]
      BY <2>10 DEF Others
    <3>2. Earned(row.failures, row.settled)'
      BY <2>7, <2>10
    <3>3. QED
      BY <2>8, <2>10, <3>1, <3>2 DEF CountInv, At
  <2>11. ASSUME UNCHANGED pass, row'.settled = row.settled, row'.failures \in {0, row.failures}
         PROVE  CountInv'
    <3>1. paid
      BY <2>5, <2>11 DEF Owing
    <3>2. Earned(row.failures, row.settled)'
      BY <2>7, <2>11, <3>1
    <3>3. QED
      BY <2>8, <2>11, <3>1, <3>2 DEF CountInv, At
  <2>12. ASSUME NEW t \in Tickers, Claim(t) PROVE CountInv'
    <3>1. row'.settled = row.settled /\ row'.failures = row.failures
      BY <2>1, <2>12 DEF Claim, RowRec
    <3>2. Others(t) /\ ~pass'[t].failed /\ pass'[t].pc = "claimed"
      BY <2>12, PassMoves
    <3>3. Owing' \subseteq Owing
      BY <3>2 DEF Owing, Others
    <3>4. QED
      BY <2>5, <2>10, <3>1, <3>2, <3>3
  <2>13. ASSUME NEW t \in Tickers, Others(t), pass'[t].failed = pass[t].failed,
                pass[t].pc # "release", pass'[t].pc # "release", UNCHANGED row
         PROVE  CountInv'
    <3>1. Owing' \subseteq Owing
      BY <2>13 DEF Owing, Others
    <3>2. QED
      BY <2>5, <2>10, <2>13, <3>1
  <2>14. ASSUME NEW t \in Tickers, Plan(t) \/ CarryOutHold(t) \/ SpawnRun(t) \/ RecordRan(t)
         PROVE  CountInv'
    <3>1. UNCHANGED row /\ pass[t].pc # "release"
      BY <2>14 DEF Plan, CarryOutHold, SpawnRun, RecordRan, Due, At
    <3>2. Others(t) /\ Same(t) /\ pass'[t].pc # "release"
      BY <2>14, PassMoves
    <3>3. QED
      BY <2>13, <3>1, <3>2 DEF Same
  <2>15. ASSUME NEW t \in Tickers, NEW stopped \in BOOLEAN, CarryOutReplace(t, stopped)
         PROVE  CountInv'
    <3>1. UNCHANGED row
      BY <2>15 DEF CarryOutReplace
    <3>2. Others(t) /\ Same(t) /\ pass'[t].pc # "release" /\ pass[t].pc # "release"
      BY <2>15, PassMoves
    <3>3. QED
      BY <2>13, <3>1, <3>2 DEF Same
  <2>16. ASSUME NEW t \in Tickers, Others(t), pass'[t].pc = "steps", UNCHANGED row,
                Excused + 1 <= Excused'
         PROVE  CountInv'
    <3>1. Owing' \subseteq Owing \cup {t}
      BY <2>16 DEF Owing, Others
    <3>2. Cardinality(Owing') <= Cardinality(Owing) + 1
      <4>1. IsFiniteSet(Owing \cup {t}) /\ Cardinality(Owing \cup {t}) \in Nat
            /\ Cardinality(Owing \cup {t}) <= Cardinality(Owing) + 1
        <5>1. /\ IsFiniteSet(Owing \cup {t})
              /\ \/ Cardinality(Owing \cup {t}) = Cardinality(Owing)
                 \/ Cardinality(Owing \cup {t}) = Cardinality(Owing) + 1
          BY <2>3, FS_AddElement
        <5>2. QED
          BY <2>3, <5>1
      <4>2. Cardinality(Owing') <= Cardinality(Owing \cup {t})
        BY <3>1, <4>1, FS_Subset
      <4>3. QED
        BY <2>3, <4>1, <4>2
    <3>3. paid
      BY <2>3, <2>4, <2>16, <3>2
    <3> HIDE DEF paid
    <3>4. QED
      BY <2>10, <2>16, <3>3
  <2>17. ASSUME NEW t \in Tickers, SpawnFails(t) PROVE CountInv'
    <3>1. Others(t) /\ pass'[t].pc = "steps"
      BY <2>17, PassMoves
    <3>2. Excused + 1 <= Excused'
      BY <1>2, <2>17, PassWrites, ExcusedGrows
    <3>3. QED
      BY <2>16, <2>17, <3>1, <3>2 DEF SpawnFails
  <2>18. ASSUME NEW t \in Tickers, NEW told \in BOOLEAN, RecordFails(t, told) PROVE CountInv'
    <3>1. Others(t) /\ pass'[t].pc = "steps"
      BY <2>18, PassMoves
    <3>2. Excused + 1 <= Excused'
      BY <1>2, <2>18, ExcusedGrows DEF RecordFails
    <3>3. QED
      BY <2>16, <2>18, <3>1, <3>2 DEF RecordFails
  <2>19. ASSUME NEW t \in Tickers, Crash(t) PROVE CountInv'
    <3>1. Others(t) /\ ~pass'[t].failed /\ pass'[t].pc = "idle" /\ UNCHANGED row
      BY <2>19, PassMoves DEF Crash
    <3>2. Owing' \subseteq Owing
      BY <3>1 DEF Owing, Others
    <3>3. QED
      BY <2>5, <2>10, <3>1, <3>2
  <2>20. ASSUME NEW t \in Tickers, ReleaseWrite(t) PROVE CountInv'
    <3>1. /\ row'.failures = pass[t].count /\ row'.settled = pass[t].mark
          /\ pass[t].pc = "release"
      BY <2>1, <2>20 DEF ReleaseWrite, At, RowRec
    <3>2. Others(t) /\ ~pass'[t].failed /\ pass'[t].pc = "idle"
      BY <2>20, PassMoves
    <3>3. Owing' \subseteq Owing
      BY <3>2 DEF Owing, Others
    <3>4. paid
      BY <2>5, <3>3
    <3> HIDE DEF paid
    <3>5. Earned(row.failures, row.settled)'
      BY <2>2, <2>6, <3>1, <3>4 DEF Earned, Failed
    <3>6. \A s \in Tickers : pass'[s].pc = "release" => pass'[s] = pass[s]
      BY <3>2 DEF Others
    <3>7. QED
      BY <2>8, <3>4, <3>5, <3>6 DEF CountInv, At
  <2>21. ASSUME NEW t \in Tickers, ReleaseRead(t) PROVE CountInv'
    <3> DEFINE started == StartedSince(row.settled)
               mark == ReadUpTo(row.settled, Judged(started))
               count == Settle(row.failures, started, pass[t].failed)
               owes == IF pass[t].failed THEN 1 ELSE 0
    <3>1. Others(t) /\ Same(t) /\ pass[t].pc = "steps" /\ pass'[t].pc = "release"
      BY <2>21, PassMoves
    <3>2. UNCHANGED <<row, fires, runs>> /\ pass'[t].count = count /\ pass'[t].mark = mark
      BY <2>9, <2>21 DEF ReleaseRead, PassRec
    <3>3. Owing' \subseteq Owing
      BY <3>1 DEF Owing, Others
    <3>4. Cardinality(Owing') + owes <= Cardinality(Owing)
      <4>1. CASE pass[t].failed
        <5>1. t \in Owing /\ t \notin Owing'
          BY <3>1, <4>1 DEF Owing
        <5>2. Owing' \cup {t} \subseteq Owing
          BY <3>3, <5>1
        <5>3. Cardinality(Owing' \cup {t}) = Cardinality(Owing') + 1
          BY <2>3, <5>1, FS_AddElement
        <5>4. Cardinality(Owing' \cup {t}) <= Cardinality(Owing)
          BY <2>3, <5>2, FS_Subset
        <5>5. QED
          BY <4>1, <5>3, <5>4
      <4>2. CASE ~pass[t].failed
        <5>1. Cardinality(Owing') <= Cardinality(Owing)
          BY <2>3, <3>3, FS_Subset
        <5>2. QED
          BY <2>3, <4>2, <5>1
      <4>3. QED
        BY <4>1, <4>2
    <3>5. Len(fires) \in Nat /\ row.settled \in 0..Len(fires) /\ pass[t].failed \in BOOLEAN
      BY <2>1 DEF TypeInv, FiresOK, PassOK, PassRec
    <3>6. count + Cardinality(Failed(row.settled))
             <= row.failures + Cardinality(Failed(mark)) + owes
      BY <2>1, <3>5, SettleEarned
    <3>7. mark \in Nat /\ mark <= Len(fires)
      BY <3>5, ReadUpToIs
    <3>8. count \in Nat
      <4>1. started \in SUBSET (1..Len(fires))
        BY DEF StartedSince, TypeInv, FiresOK
      <4>2. QED
        BY <2>1, <3>5, <4>1, SettleNat
    <3>9. owes \in Nat
      OBVIOUS
    <3> HIDE DEF started, mark, count, owes
    <3>10. Cardinality(Failed(row.settled)) \in Nat /\ Cardinality(Failed(mark)) \in Nat
      BY <1>2, <2>1, <3>7, EarnedGrows
    <3>11. row.failures + Cardinality(Owing) <=
              Cardinality(Failed(row.settled)) + Excused
      BY <2>1 DEF Earned
    <3>12. count + Cardinality(Owing') <= Cardinality(Failed(mark)) + Excused
      <4> DEFINE owed == Cardinality(Owing)
                 owing == Cardinality(Owing')
                 refused == Excused
                 before == Cardinality(Failed(row.settled))
                 after == Cardinality(Failed(mark))
                 previous == row.failures
      <4>1. /\ owed \in Nat /\ owing \in Nat /\ refused \in Nat /\ before \in Nat
            /\ after \in Nat /\ previous \in Nat
        BY <2>1, <2>3, <2>4, <3>10
      <4>2. /\ owing + owes <= owed /\ count + before <= previous + after + owes
            /\ previous + owed <= before + refused
        BY <3>4, <3>6, <3>11
      <4> HIDE DEF owed, owing, refused, before, after, previous
      <4>3. count + owing <= after + refused
        BY <3>8, <3>9, <4>1, <4>2
      <4>4. QED
        BY <4>3 DEF owing, after, refused
    <3>13. Earned(pass[t].count, pass[t].mark)'
      BY <2>21, <3>2, <3>12 DEF Earned, Failed, Refused, Excused, ReleaseRead
    <3>14. paid
      BY <2>5, <3>3
    <3> HIDE DEF paid
    <3>15. Earned(row.failures, row.settled)'
      BY <2>7, <3>2, <3>14
    <3>16. \A s \in Tickers : s # t /\ pass'[s].pc = "release" =>
                                 pass[s].pc = "release" /\ pass'[s] = pass[s]
      BY <3>1 DEF Others
    <3>17. QED
      BY <2>8, <3>13, <3>14, <3>15, <3>16 DEF CountInv, At
  <2>22. ASSUME NEW state, SetState(state) PROVE CountInv'
    <3>1. row'.settled = row.settled /\ row'.failures \in {0, row.failures} /\ UNCHANGED pass
      BY <2>1, <2>22 DEF SetState, RowRec
    <3>2. QED
      BY <2>11, <3>1
  <2>23. CASE RunNow
    <3>1. row'.settled = row.settled /\ row'.failures = row.failures /\ UNCHANGED pass
      BY <2>1, <2>23 DEF RunNow, RowRec
    <3>2. QED
      BY <2>11, <3>1
  <2>24. QED
    BY <1>2, <2>11, <2>12, <2>14, <2>15, <2>17, <2>18, <2>19, <2>20, <2>21, <2>22, <2>23
    DEF Next, Tick, RunEnds, TimePasses
<1>3. QED
  BY <1>1, <1>2

(* "So no failure is counted twice": the count is never more than the runs *)
(* that were judged and failed, the passes that could start nothing and    *)
(* those that could not write down what they did, with any number of       *)
(* tickers, deaths, lost rows and orders.                                  *)
THEOREM CountCorrect == Spec => []CountIsEarned
<1>1. Init => CountInv
  <2> SUFFICES ASSUME Init PROVE CountInv
    OBVIOUS
  <2>1. Owing = {} /\ row.failures = 0 /\ row.settled = 0
        /\ \A t \in Tickers : pass[t].pc = "idle"
    BY DEF Init, Owing, Resting
  <2>2. Failed(0) = {} /\ Refused = {}
    BY DEF Init, Failed, Refused
  <2>3. Cardinality(Owing) = 0 /\ Cardinality(Failed(0)) = 0 /\ Excused = 0
    BY <2>1, <2>2, FS_EmptySet DEF Excused, Init
  <2>4. QED
    BY <2>1, <2>3 DEF CountInv, Earned, At
<1>2. TypeInv /\ CountInv => CountIsEarned
  <2> SUFFICES ASSUME TypeInv, CountInv PROVE CountIsEarned
    OBVIOUS
  <2>1. Owing \in SUBSET Tickers
    BY DEF Owing
  <2>2. Cardinality(Owing) \in Nat
    BY <2>1, OwingFinite
  <2>3. Refused \in SUBSET (1..Len(fires)) /\ Len(fires) \in Nat
    BY DEF Refused, TypeInv, FiresOK
  <2>4. Cardinality(Refused) \in Nat
    BY <2>3, RowsFinite
  <2>5. row.settled \in Nat /\ row.failures \in Nat
    BY DEF TypeInv, RowOK, RowRec
  <2>6. Failed(row.settled) \in SUBSET (1..row.settled)
    BY DEF Failed
  <2>7. Cardinality(Failed(row.settled)) \in Nat
    BY <2>5, <2>6, RowsFinite
  <2>8. faults \in Nat
    BY DEF TypeInv, ClockOK
  <2>9. row.failures <= Cardinality(Failed(row.settled)) + Cardinality(Refused) + faults
    <3> DEFINE failed == Cardinality(Failed(row.settled))
               refused == Cardinality(Refused)
               owing == Cardinality(Owing)
    <3>1. row.failures + owing <= failed + (refused + faults)
      BY DEF CountInv, Earned, Excused
    <3>2. failed \in Nat /\ refused \in Nat /\ owing \in Nat
      BY <2>2, <2>4, <2>7
    <3> HIDE DEF failed, refused, owing
    <3>3. row.failures <= failed + refused + faults
      BY <2>5, <2>8, <3>1, <3>2
    <3>4. QED
      BY <3>3 DEF failed, refused
  <2>10. QED
    BY <2>9 DEF CountIsEarned, Failed, Refused
<1>3. QED
  BY <1>1, <1>2, InitTyped, TypeStep, CountStep, PTL DEF Spec


(***************************************************************************)
(* One firing path, of a daemon that ticks alone.                          *)
(***************************************************************************)
(* How often an instant has run, in a ledger. *)
Times(f, d) == Cardinality({i \in DOMAIN f : f[i].outcome = "ran" /\ f[i].due = d})

(* What ran is no later than `last`, and none of it before the first fire. *)
NoneAfter(f, last) ==
    \A i \in DOMAIN f : f[i].outcome = "ran" => last # Never /\ f[i].due <= last

(* What is left of a pass: one step an instant, none later than the pass,  *)
(* and none to start for an instant that has used its orders up.           *)
Stepping(f, at, steps, allowed) ==
    /\ NoneAfter(f, at)
    /\ \A d, e \in steps : d.due = e.due => d = e
    /\ \A d \in steps : d.due <= at /\ (d.kind # "hold" => Times(f, d.due) <= allowed)

(* A schedule that rests has run nothing after its last fire, and what it  *)
(* is due for has been run only as often as a person asked; so has what a  *)
(* pass was claimed for, and what it is about to run.                      *)
OnceSound(t) ==
    /\ At(t, "idle") => NoneAfter(fires, row.last) /\ Times(fires, row.next) <= orders
    /\ At(t, "claimed") => /\ NoneAfter(fires, pass[t].seen.last)
                           /\ Times(fires, pass[t].seen.next) <= orders
                           /\ pass[t].seen.last <= pass[t].at
    /\ pass[t].pc \in {"steps", "spawned", "release"} =>
          Stepping(fires, pass[t].at, pass[t].steps, orders)
    /\ At(t, "spawned") => Step(t).kind = "run"

OnceInv ==
    /\ \A d \in Int : Times(fires, d) <= 1 + orders
    /\ \A t \in Tickers : OnceSound(t)

AloneInv == (faults = 0 /\ Cardinality(Tickers) = 1) => OnceInv

LEMMA TimesNat == ASSUME NEW f \in Seq(FireRec), NEW d PROVE Times(f, d) \in Nat
<1> DEFINE S == {i \in DOMAIN f : f[i].outcome = "ran" /\ f[i].due = d}
<1>1. S \in SUBSET (1..Len(f)) /\ Len(f) \in Nat
  OBVIOUS
<1> HIDE DEF S
<1>2. Cardinality(S) \in Nat
  BY <1>1, RowsFinite
<1>3. QED
  BY <1>2 DEF S, Times

(* An instant after the last fire has not run. *)
LEMMA TimesNone ==
    ASSUME NEW f \in Seq(FireRec), NEW last \in Int, NEW d \in Int,
           NoneAfter(f, last), last = Never \/ last < d
    PROVE  Times(f, d) = 0
<1> DEFINE S == {i \in DOMAIN f : f[i].outcome = "ran" /\ f[i].due = d}
<1>1. \A i \in DOMAIN f : f[i].outcome = "ran" => f[i].due # d
  <2>1. \A i \in DOMAIN f : f[i] \in FireRec
    OBVIOUS
  <2>2. \A i \in DOMAIN f : f[i].due \in Int
    BY <2>1 DEF FireRec
  <2>3. QED
    BY <2>2 DEF NoneAfter
<1>2. S = {}
  BY <1>1
<1> HIDE DEF S
<1>3. Cardinality(S) = 0
  BY <1>2, FS_EmptySet
<1>4. QED
  BY <1>3 DEF S, Times

(* A row that is not of a run leaves every count as it was. *)
Quiet == \/ UNCHANGED fires
         \/ \E run, outcome, due : Written(run, outcome, due) /\ outcome # "ran"

LEMMA QuietIs ==
    ASSUME NEW run, NEW outcome, NEW due, Written(run, outcome, due), outcome # "ran"
    PROVE  Quiet
BY DEF Quiet

LEMMA QuietKeeps ==
    ASSUME TypeInv, Quiet
    PROVE  /\ \A d : Times(fires', d) = Times(fires, d)
           /\ \A last : NoneAfter(fires, last) => NoneAfter(fires', last)
<1>1. CASE UNCHANGED fires
  BY <1>1
<1>2. ASSUME NEW run, NEW outcome, NEW due, Written(run, outcome, due), outcome # "ran"
      PROVE  /\ \A d : Times(fires', d) = Times(fires, d)
             /\ \A last : NoneAfter(fires, last) => NoneAfter(fires', last)
  <2>1. /\ DOMAIN fires = 1..Len(fires) /\ DOMAIN fires' = 1..(Len(fires) + 1)
        /\ Len(fires) \in Nat
        /\ \A i \in 1..Len(fires) : fires'[i] = fires[i]
        /\ fires'[Len(fires) + 1].outcome # "ran"
    BY <1>2 DEF TypeInv, FiresOK, Written
  <2>2. \A i \in DOMAIN fires' : fires'[i].outcome = "ran" =>
           i \in DOMAIN fires /\ fires'[i] = fires[i]
    BY <2>1
  <2>3. \A i \in DOMAIN fires : i \in DOMAIN fires' /\ fires'[i] = fires[i]
    BY <2>1
  <2>4. ASSUME NEW d
        PROVE  {i \in DOMAIN fires' : fires'[i].outcome = "ran" /\ fires'[i].due = d}
                 = {i \in DOMAIN fires : fires[i].outcome = "ran" /\ fires[i].due = d}
    BY <2>2, <2>3
  <2>5. \A d : Times(fires', d) = Times(fires, d)
    BY <2>4 DEF Times
  <2>6. QED
    BY <2>2, <2>5 DEF NoneAfter
<1>3. QED
  BY <1>1, <1>2 DEF Quiet

(* A run written down counts once, for its instant. *)
LEMMA RanCounts ==
    ASSUME TypeInv, NEW run, NEW due \in Int, Written(run, "ran", due)
    PROVE  /\ \A d : d # due => Times(fires', d) = Times(fires, d)
           /\ Times(fires', due) <= Times(fires, due) + 1
           /\ \A last : NoneAfter(fires, last) /\ last # Never /\ due <= last
                           => NoneAfter(fires', last)
<1> DEFINE new == Len(fires) + 1
           S(f, d) == {i \in DOMAIN f : f[i].outcome = "ran" /\ f[i].due = d}
<1>1. /\ DOMAIN fires = 1..Len(fires) /\ DOMAIN fires' = 1..new
      /\ Len(fires) \in Nat
      /\ \A i \in 1..Len(fires) : fires'[i] = fires[i]
      /\ fires'[new].outcome = "ran" /\ fires'[new].due = due
  BY DEF TypeInv, FiresOK, Written
<1>2. \A i \in DOMAIN fires' : (i \in DOMAIN fires /\ fires'[i] = fires[i]) \/ i = new
  BY <1>1
<1>3. \A i \in DOMAIN fires : i \in DOMAIN fires' /\ fires'[i] = fires[i]
  BY <1>1
<1> HIDE DEF new
<1>4. ASSUME NEW d, d # due PROVE S(fires', d) = S(fires, d)
  BY <1>1, <1>2, <1>3, <1>4
<1>5. S(fires', due) \subseteq S(fires, due) \cup {new}
  BY <1>2
<1>6. IsFiniteSet(S(fires, due)) /\ Cardinality(S(fires, due)) \in Nat
  BY <1>1, RowsFinite
<1>7. Cardinality(S(fires', due)) <= Cardinality(S(fires, due)) + 1
  <2> DEFINE A == S(fires, due)
             B == S(fires', due)
  <2>1. IsFiniteSet(A) /\ Cardinality(A) \in Nat /\ B \subseteq A \cup {new}
    BY <1>5, <1>6
  <2> HIDE DEF A, B
  <2>2. /\ IsFiniteSet(A \cup {new})
        /\ \/ Cardinality(A \cup {new}) = Cardinality(A)
           \/ Cardinality(A \cup {new}) = Cardinality(A) + 1
    BY <2>1, FS_AddElement
  <2>3. /\ Cardinality(B) <= Cardinality(A \cup {new}) /\ IsFiniteSet(B)
    BY <2>1, <2>2, FS_Subset
  <2>4. Cardinality(B) \in Nat
    BY <2>3, FS_CardinalityType
  <2>5. Cardinality(B) <= Cardinality(A) + 1
    BY <2>1, <2>2, <2>3, <2>4
  <2>6. QED
    BY <2>5 DEF A, B
<1>8. \A last : NoneAfter(fires, last) /\ last # Never /\ due <= last => NoneAfter(fires', last)
  BY <1>1, <1>2 DEF NoneAfter
<1>9. QED
  BY <1>4, <1>7, <1>8 DEF Times


LEMMA Alone ==
    ASSUME Cardinality(Tickers) = 1, NEW s \in Tickers, NEW t \in Tickers
    PROVE  s = t
<1>1. PICK x : Tickers = {x}
  BY SchedulesAssumption, FS_Singleton
<1>2. QED
  BY <1>1

LEMMA OnceStep == TypeInv /\ AloneInv /\ [Next]_vars => AloneInv'
<1> SUFFICES ASSUME TypeInv, AloneInv, [Next]_vars,
                    faults' = 0, Cardinality(Tickers) = 1
             PROVE  OnceInv'
  BY DEF AloneInv
<1>1. ASSUME UNCHANGED vars PROVE OnceInv'
  BY <1>1 DEF vars, AloneInv, OnceInv, OnceSound, Stepping, At, Step
<1>2. ASSUME Next PROVE OnceInv'
  <2>1. faults = 0 /\ faults \in Nat
    <3>1. faults \in Nat
      BY DEF TypeInv, ClockOK
    <3>2. CASE UNCHANGED faults
      BY <3>1, <3>2
    <3>3. ASSUME NEW t \in Tickers, Crash(t) PROVE FALSE
      BY <3>1, <3>3 DEF Crash
    <3>4. ASSUME NEW t \in Tickers, NEW told \in BOOLEAN, RecordFails(t, told) PROVE FALSE
      BY <3>1, <3>4 DEF RecordFails
    <3>5. QED
      BY <1>2, <3>2, <3>3, <3>4
      DEF Next, Tick, Claim, Plan, CarryOutHold, CarryOutReplace, SpawnRun, SpawnFails,
          RecordRan, ReleaseRead, ReleaseWrite, SetState, RunNow, RunEnds, TimePasses
  <2>2. OnceInv
    BY <2>1 DEF AloneInv
  <2>3. /\ fires \in Seq(FireRec) /\ fires' \in Seq(FireRec)
        /\ row \in RowRec /\ row.next \in Int /\ row.last \in Int /\ row.last <= now
        /\ now \in Nat /\ orders \in Nat
        /\ pass \in [Tickers -> PassRec] /\ \A t \in Tickers : Sound(pass[t])
    BY <1>2, LedgerStep
    DEF TypeInv, FiresOK, FiresGrow, RowOK, RowRec, ClockOK, PassOK
  <2>4. ASSUME NEW d PROVE Times(fires, d) \in Nat /\ Times(fires', d) \in Nat
    BY <2>3, TimesNat
  (* The ticker that moves is the only one. *)
  <2>5. ASSUME NEW t \in Tickers, OnceSound(t)', \A d \in Int : Times(fires', d) <= 1 + orders'
        PROVE  OnceInv'
    <3>1. \A s \in Tickers : s = t
      BY Alone
    <3>2. \A s \in Tickers : OnceSound(s)'
      BY <2>5, <3>1
    <3>3. QED
      BY <2>5, <3>2 DEF OnceInv
  <2>6. ASSUME Quiet, UNCHANGED orders
        PROVE  /\ \A d : Times(fires', d) = Times(fires, d)
               /\ \A last : NoneAfter(fires, last) => NoneAfter(fires', last)
               /\ \A d \in Int : Times(fires', d) <= 1 + orders'
    <3>1. /\ \A d : Times(fires', d) = Times(fires, d)
          /\ \A last : NoneAfter(fires, last) => NoneAfter(fires', last)
      BY <2>6, QuietKeeps
    <3>2. QED
      BY <2>2, <2>6, <3>1 DEF OnceInv
  (* A step of the pass that starts nothing new. *)
  <2>7. ASSUME NEW t \in Tickers, Quiet, UNCHANGED orders, Same(t),
               pass[t].pc \in {"steps", "spawned", "release"},
               pass'[t].pc \in {"steps", "release"}, pass'[t].steps \subseteq pass[t].steps
        PROVE  OnceInv'
    <3>1. Stepping(fires, pass[t].at, pass[t].steps, orders)
      BY <2>2, <2>7 DEF OnceInv, OnceSound
    <3>2. Stepping(fires', pass'[t].at, pass'[t].steps, orders')
      BY <2>6, <2>7, <3>1 DEF Stepping, Same
    <3>3. OnceSound(t)'
      BY <2>7, <3>2 DEF OnceSound, At
    <3>4. QED
      BY <2>5, <2>6, <2>7, <3>3
  <2>8. ASSUME NEW t \in Tickers, Claim(t) PROVE OnceInv'
    <3>1. Quiet /\ UNCHANGED orders
      <4>1. UNCHANGED fires \/ Written(NoRun, "abandoned", row.lease)
        BY <2>8, PassWrites
      <4>2. "abandoned" # "ran"
        OBVIOUS
      <4>3. Written(NoRun, "abandoned", row.lease) => Quiet
        BY <4>2, QuietIs
      <4>4. QED
        BY <2>8, <4>1, <4>3 DEF Quiet, Claim
    <3>2. /\ pass'[t].pc = "claimed" /\ pass'[t].at = now /\ pass'[t].seen.next = row.next
          /\ pass'[t].seen.last = row.last
      BY <2>8, PassMoves
    <3>3. NoneAfter(fires, row.last) /\ Times(fires, row.next) <= orders
      BY <2>2, <2>8 DEF OnceInv, OnceSound, Claim
    <3>4. OnceSound(t)'
      BY <2>3, <2>6, <3>1, <3>2, <3>3 DEF OnceSound, At
    <3>5. QED
      BY <2>5, <2>6, <3>1, <3>4
  <2>9. ASSUME NEW t \in Tickers, Plan(t) PROVE OnceInv'
    <3>1. PICK steps : Planned(t, steps)
      BY <2>9, PlanIs
    <3> DEFINE seen == pass[t].seen
               at == pass[t].at
    <3>2. /\ pass'[t].pc = "steps" /\ pass'[t].at = at /\ pass'[t].steps = steps
          /\ UNCHANGED orders
      BY <2>3, <3>1 DEF Planned, PassRec
    <3>3. Quiet
      BY <3>1 DEF Planned, Quiet
    <3>4. seen \in SeenRec /\ at \in 0..MaxTime /\ seen.last \in Int
      BY <2>3 DEF PassRec, SeenRec
    <3>5. NoneAfter(fires, seen.last) /\ Times(fires, seen.next) <= orders /\ seen.last <= at
      BY <2>2, <2>9 DEF OnceInv, OnceSound, Plan, At
    <3>6. /\ \A d \in steps : d.due \in Missed(seen, at)
          /\ \A d, e \in steps : d.due = e.due => d = e
      BY <3>1 DEF Planned, Decisive
    <3> HIDE DEF seen, at
    <3>7. /\ Missed(seen, at) \in SUBSET ((-Grace)..at)
          /\ \A d \in Missed(seen, at) : d = seen.next \/ seen.last = Never \/ seen.last < d
      BY <3>4, MissedIs
    <3>8. -Grace \in Int /\ at \in Nat
      BY <3>4, SchedulesAssumption
    <3>9. \A d \in steps : d.due \in Int /\ d.due <= at
      BY <3>6, <3>7, <3>8
    <3>10. ASSUME NEW d \in steps PROVE Times(fires, d.due) <= orders
      <4>1. d.due = seen.next \/ seen.last = Never \/ seen.last < d.due
        BY <3>6, <3>7
      <4>2. CASE d.due = seen.next
        BY <3>5, <4>2
      <4>3. CASE seen.last = Never \/ seen.last < d.due
        <5>1. Times(fires, d.due) = 0
          BY <2>3, <3>4, <3>5, <3>9, <4>3, TimesNone
        <5>2. QED
          BY <2>3, <5>1
      <4>4. QED
        BY <4>1, <4>2, <4>3
    <3>11. NoneAfter(fires, at)
      <4>1. \A i \in DOMAIN fires : fires[i] \in FireRec
        BY <2>3
      <4>2. \A i \in DOMAIN fires : fires[i].due \in Int
        BY <4>1 DEF FireRec
      <4>3. QED
        BY <3>4, <3>5, <3>8, <4>2 DEF NoneAfter, Never
    <3>12. Stepping(fires', at, steps, orders')
      BY <2>6, <3>2, <3>3, <3>6, <3>9, <3>10, <3>11 DEF Stepping
    <3>13. OnceSound(t)'
      BY <3>2, <3>12 DEF OnceSound, At
    <3>14. QED
      BY <2>5, <2>6, <3>2, <3>3, <3>13
  <2>10. ASSUME NEW t \in Tickers, CarryOutHold(t) PROVE OnceInv'
    <3>1. Step(t).outcome # "ran"
      BY <2>10, PassWrites DEF InHand, CarryOutHold, Due
    <3>2. Quiet /\ UNCHANGED orders /\ pass[t].pc = "steps"
      <4>1. Written(NoRun, Step(t).outcome, Step(t).due)
        BY <2>10, PassWrites
      <4>2. Quiet
        BY <3>1, <4>1, QuietIs
      <4>3. QED
        BY <2>10, <4>2 DEF CarryOutHold, Due, At
    <3>3. Same(t) /\ pass'[t].pc = "steps" /\ pass'[t].steps \subseteq pass[t].steps
      BY <2>10, PassMoves
    <3>4. QED
      BY <2>7, <3>2, <3>3
  <2>11. ASSUME NEW t \in Tickers, NEW stopped \in BOOLEAN, CarryOutReplace(t, stopped)
         PROVE  OnceInv'
    <3>1. Quiet /\ UNCHANGED orders
      <4>1. \/ Written(NoRun, "replaced", Step(t).due)
            \/ Written(NoRun, "replace_failed", Step(t).due)
        BY <2>11, PassWrites
      <4>2. "replaced" # "ran" /\ "replace_failed" # "ran"
        OBVIOUS
      <4>3. Quiet
        BY <4>1, <4>2, QuietIs
      <4>4. QED
        BY <2>11, <4>3 DEF CarryOutReplace
    <3> DEFINE old == Step(t)
               new == Run(old.due)
    <3>2. /\ Same(t) /\ pass[t].pc = "steps" /\ pass'[t].pc = "steps"
          /\ pass'[t].steps = (pass[t].steps \ {old}) \cup {new}
      BY <2>11, PassMoves
    <3>3. old \in pass[t].steps /\ old.kind = "replace"
      BY <2>11, PassWrites DEF InHand, CarryOutReplace, Due
    <3>4. new.due = old.due
      BY DEF Run
    <3> HIDE DEF old, new
    <3>5. Stepping(fires, pass[t].at, pass[t].steps, orders)
      BY <2>2, <3>2 DEF OnceInv, OnceSound
    <3>6. \A d \in pass'[t].steps : d \in pass[t].steps \ {old} \/ d = new
      BY <3>2
    <3>7. \A d, e \in pass'[t].steps : d.due = e.due => d = e
      BY <3>3, <3>4, <3>5, <3>6 DEF Stepping
    <3>8. \A d \in pass'[t].steps :
             d.due <= pass[t].at /\ (d.kind # "hold" => Times(fires, d.due) <= orders)
      BY <3>3, <3>4, <3>5, <3>6 DEF Stepping
    <3>9. Stepping(fires', pass'[t].at, pass'[t].steps, orders')
      BY <2>6, <3>1, <3>2, <3>5, <3>7, <3>8 DEF Stepping, Same
    <3>10. OnceSound(t)'
      BY <3>2, <3>9 DEF OnceSound, At
    <3>11. QED
      BY <2>5, <2>6, <3>1, <3>10
  <2>12. ASSUME NEW t \in Tickers, SpawnRun(t) PROVE OnceInv'
    <3>1. Quiet /\ UNCHANGED orders
      BY <2>12 DEF Quiet, SpawnRun
    <3>2. /\ Same(t) /\ pass[t].pc = "steps" /\ pass'[t].pc = "spawned"
          /\ pass'[t].steps = pass[t].steps
      BY <2>12, PassMoves
    <3>3. Stepping(fires', pass'[t].at, pass'[t].steps, orders')
      BY <2>2, <2>6, <3>1, <3>2 DEF OnceInv, OnceSound, Stepping, Same
    <3>4. Step(t)' = Step(t) /\ Step(t).kind = "run"
      BY <2>12, <3>2 DEF Step, SpawnRun, Due
    <3>5. OnceSound(t)'
      BY <3>2, <3>3, <3>4 DEF OnceSound, At
    <3>6. QED
      BY <2>5, <2>6, <3>1, <3>5
  <2>13. ASSUME NEW t \in Tickers, SpawnFails(t) PROVE OnceInv'
    <3>1. Quiet /\ UNCHANGED orders
      <4>1. Written(NoRun, "spawn_failed", Step(t).due) /\ "spawn_failed" # "ran"
        BY <2>13, PassWrites
      <4>2. Quiet
        BY <4>1, QuietIs
      <4>3. QED
        BY <2>13, <4>2 DEF SpawnFails
    <3>2. /\ pass[t].pc = "steps" /\ pass'[t].pc = "steps" /\ pass'[t].at = pass[t].at
          /\ pass'[t].steps \subseteq pass[t].steps
      BY <2>13, PassMoves
    <3>3. Stepping(fires, pass[t].at, pass[t].steps, orders)
      BY <2>2, <3>2 DEF OnceInv, OnceSound
    <3>4. Stepping(fires', pass'[t].at, pass'[t].steps, orders')
      BY <2>6, <3>1, <3>2, <3>3 DEF Stepping
    <3>5. OnceSound(t)'
      BY <3>2, <3>4 DEF OnceSound, At
    <3>6. QED
      BY <2>5, <2>6, <3>1, <3>5
  <2>14. ASSUME NEW t \in Tickers, RecordRan(t) PROVE OnceInv'
    <3> DEFINE old == Step(t)
               due == old.due
    <3>1. old \in pass[t].steps /\ due \in (-Grace)..MaxTime /\ Written(pass[t].run, "ran", due)
      BY <2>14, PassWrites DEF InHand
    <3>2. pass[t].pc = "spawned" /\ UNCHANGED orders
      BY <2>14 DEF RecordRan, At
    <3>3. Same(t) /\ pass'[t].pc = "steps" /\ pass'[t].steps = pass[t].steps \ {old}
      BY <2>14, PassMoves
    <3>4. Stepping(fires, pass[t].at, pass[t].steps, orders) /\ old.kind = "run"
      BY <2>2, <3>2 DEF OnceInv, OnceSound, At
    <3>5. due \in Int /\ pass[t].at \in Nat
      BY <2>3, <3>1, SchedulesAssumption DEF PassRec
    <3>6. due <= pass[t].at /\ Times(fires, due) <= orders
      BY <3>1, <3>4 DEF Stepping
    <3>7. /\ \A d : d # due => Times(fires', d) = Times(fires, d)
          /\ Times(fires', due) <= Times(fires, due) + 1
          /\ \A last : NoneAfter(fires, last) /\ last # Never /\ due <= last
                          => NoneAfter(fires', last)
      BY <3>1, <3>5, RanCounts
    <3>8. \A d \in pass'[t].steps : d \in pass[t].steps /\ d.due # due
      BY <3>1, <3>3, <3>4 DEF Stepping
    <3> HIDE DEF due
    <3>9. ASSUME NEW d \in Int PROVE Times(fires', d) <= 1 + orders'
      <4>1. CASE d = due
        BY <2>3, <2>4, <3>2, <3>6, <3>7, <4>1
      <4>2. CASE d # due
        <5>1. Times(fires, d) <= 1 + orders
          BY <2>2 DEF OnceInv
        <5>2. QED
          BY <3>2, <3>7, <4>2, <5>1
      <4>3. QED
        BY <4>1, <4>2
    <3>10. NoneAfter(fires', pass[t].at)
      BY <3>4, <3>5, <3>6, <3>7 DEF Stepping, Never
    <3>11. Stepping(fires', pass'[t].at, pass'[t].steps, orders')
      BY <3>2, <3>3, <3>4, <3>7, <3>8, <3>10 DEF Stepping, Same
    <3>12. OnceSound(t)'
      BY <3>3, <3>11 DEF OnceSound, At
    <3>13. QED
      BY <2>5, <3>9, <3>12
  <2>15. ASSUME NEW t \in Tickers, ReleaseRead(t) PROVE OnceInv'
    <3>1. Quiet /\ UNCHANGED orders
      BY <2>15 DEF Quiet, ReleaseRead
    <3>2. /\ Same(t) /\ pass[t].pc = "steps" /\ pass'[t].pc = "release"
          /\ pass'[t].steps = pass[t].steps
      BY <2>15, PassMoves
    <3>3. QED
      BY <2>7, <3>1, <3>2
  <2>16. ASSUME NEW t \in Tickers, ReleaseWrite(t) PROVE OnceInv'
    <3> DEFINE at == pass[t].at
               next == NextFire(at + Backoff(pass[t].count))
    <3>1. /\ row'.last = at /\ row'.next = next /\ UNCHANGED <<fires, orders>>
          /\ pass[t].pc = "release"
      BY <2>3, <2>16 DEF ReleaseWrite, At, RowRec
    <3>2. pass'[t].pc = "idle"
      BY <2>16, PassMoves
    <3>3. pass[t].count \in Nat /\ at \in Nat
      BY <2>3 DEF PassRec
    <3>4. next \in Int /\ at < next
      <4>1. Backoff(pass[t].count) \in Nat
        BY <3>3, BackoffNat
      <4>2. QED
        BY <3>3, <4>1 DEF NextFire
    <3>5. NoneAfter(fires, at)
      BY <2>2, <3>1 DEF OnceInv, OnceSound, Stepping
    <3> HIDE DEF at, next
    <3>6. Times(fires, next) = 0
      BY <2>3, <3>3, <3>4, <3>5, TimesNone
    <3>7. OnceSound(t)'
      BY <2>3, <3>1, <3>2, <3>5, <3>6 DEF OnceSound, At
    <3>8. QED
      BY <2>2, <2>5, <3>1, <3>7 DEF OnceInv
  (* A step of anybody else leaves the pass alone. *)
  <2>17. ASSUME UNCHANGED <<fires, pass>>, orders' \in Nat, orders <= orders',
                \A t \in Tickers : At(t, "idle") =>
                    NoneAfter(fires, row'.last) /\ Times(fires, row'.next) <= orders'
         PROVE  OnceInv'
    <3>1. ASSUME NEW t \in Tickers PROVE OnceSound(t)'
      <4>1. OnceSound(t)
        BY <2>2 DEF OnceInv
      <4>2. \A d : Times(fires, d) <= orders => Times(fires, d) <= orders'
        BY <2>3, <2>4, <2>17
      <4>3. Step(t)' = Step(t)
        BY <2>17 DEF Step
      <4>4. At(t, "idle")' => NoneAfter(fires, row.last)' /\ (Times(fires, row.next) <= orders)'
        BY <2>17 DEF At
      <4>5. At(t, "claimed")' => /\ NoneAfter(fires, pass[t].seen.last)'
                                 /\ (Times(fires, pass[t].seen.next) <= orders)'
                                 /\ (pass[t].seen.last <= pass[t].at)'
        BY <2>17, <4>1, <4>2 DEF OnceSound, At
      <4>6. (pass[t].pc \in {"steps", "spawned", "release"})' =>
               Stepping(fires, pass[t].at, pass[t].steps, orders)'
        BY <2>17, <4>1, <4>2 DEF OnceSound, Stepping
      <4>7. QED
        BY <2>17, <4>1, <4>3, <4>4, <4>5, <4>6 DEF OnceSound, At
    <3>2. \A d \in Int : Times(fires', d) <= 1 + orders'
      BY <2>2, <2>3, <2>4, <2>17 DEF OnceInv
    <3>3. QED
      BY <3>1, <3>2 DEF OnceInv
  <2>18. ASSUME NEW t \in Tickers, At(t, "idle")
         PROVE  NoneAfter(fires, row.last) /\ Times(fires, row.next) <= orders
    BY <2>2, <2>18 DEF OnceInv, OnceSound
  <2>19. ASSUME NEW state, SetState(state) PROVE OnceInv'
    <3>1. /\ UNCHANGED <<fires, pass>> /\ orders' = orders + 1 /\ row'.last = row.last
          /\ row'.next = IF state = "armed" THEN NextFire(now) ELSE row.next
      BY <2>3, <2>19 DEF SetState, RowRec
    <3>2. ASSUME NEW t \in Tickers, At(t, "idle") PROVE Times(fires, row'.next) <= orders'
      <4>1. CASE state = "armed"
        <5>1. row'.next = now + 1
          BY <3>1, <4>1 DEF NextFire
        <5>2. Times(fires, now + 1) = 0
          <6>1. now + 1 \in Int /\ row.last < now + 1
            BY <2>3
          <6>2. QED
            BY <2>3, <2>18, <3>2, <6>1, TimesNone
        <5>3. QED
          BY <2>3, <3>1, <5>1, <5>2
      <4>2. CASE state # "armed"
        BY <2>3, <2>4, <2>18, <3>1, <3>2, <4>2
      <4>3. QED
        BY <4>1, <4>2
    <3>3. QED
      BY <2>3, <2>17, <2>18, <3>1, <3>2
  <2>20. CASE RunNow
    <3>1. UNCHANGED <<fires, pass>> /\ orders' = orders + 1 /\ row'.last = row.last /\ row'.next = now
      BY <2>3, <2>20 DEF RunNow, RowRec
    <3>2. Times(fires, now) <= orders'
      <4>1. now \in Int
        BY <2>3
      <4>2. Times(fires, now) <= 1 + orders
        BY <2>2, <4>1 DEF OnceInv
      <4>3. QED
        BY <2>3, <2>4, <3>1, <4>2
    <3>3. QED
      BY <2>3, <2>17, <2>18, <3>1, <3>2
  <2>21. CASE UNCHANGED <<row, fires, pass, orders>>
    BY <2>3, <2>17, <2>18, <2>21
  <2>22. ASSUME NEW t \in Tickers, Crash(t) PROVE FALSE
    <3>1. faults' = faults + 1
      BY <2>22 DEF Crash
    <3>2. QED
      BY <2>1, <3>1
  <2>23. ASSUME NEW t \in Tickers, NEW told \in BOOLEAN, RecordFails(t, told) PROVE FALSE
    <3>1. faults' = faults + 1
      BY <2>23 DEF RecordFails
    <3>2. QED
      BY <2>1, <3>1
  <2>24. QED
    BY <1>2, <2>8, <2>9, <2>10, <2>11, <2>12, <2>13, <2>14, <2>15, <2>16, <2>19, <2>20, <2>21,
       <2>22, <2>23
    DEF Next, Tick, RunEnds, TimePasses
<1>3. QED
  BY <1>1, <1>2

(* One firing path: of a daemon that ticks alone, does not die in a pass   *)
(* and writes down what it did, an instant starts one run, and one more for each order a person   *)
(* gave, whatever the outage, the backoff and the policies.                *)
THEOREM OnceCorrect == Spec => []InstantRunsOnce
<1>1. Init => AloneInv
  <2> SUFFICES ASSUME Init PROVE OnceInv
    BY DEF AloneInv
  <2>1. \A d : Times(fires, d) = 0
    <3>1. ASSUME NEW d PROVE {i \in DOMAIN fires : fires[i].outcome = "ran" /\ fires[i].due = d} = {}
      BY DEF Init
    <3>2. QED
      BY <3>1, FS_EmptySet DEF Times
  <2>2. /\ orders = 0 /\ \A last : NoneAfter(fires, last)
        /\ \A t \in Tickers : pass[t].pc = "idle"
    BY DEF Init, NoneAfter, Resting
  <2>3. QED
    BY <2>1, <2>2 DEF OnceInv, OnceSound, At
<1>2. TypeInv /\ AloneInv => InstantRunsOnce
  <2> SUFFICES ASSUME TypeInv, OnceInv, NEW i \in DOMAIN fires
               PROVE  Cardinality(Ran(fires[i].due)) <= 1 + orders
    BY DEF AloneInv, InstantRunsOnce
  <2>1. fires[i] \in FireRec
    BY DEF TypeInv, FiresOK
  <2>2. fires[i].due \in Int
    BY <2>1 DEF FireRec
  <2>3. QED
    BY <2>2 DEF OnceInv, Times, Ran
<1>3. QED
  BY <1>1, <1>2, InitTyped, TypeStep, OnceStep, PTL DEF Spec
=============================================================================
