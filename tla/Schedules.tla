----------------------------- MODULE Schedules -----------------------------
(***************************************************************************)
(* One cron schedule and the ticks that fire it: claim with a lease,       *)
(* decide what the missed instants are worth, start runs, write every      *)
(* outcome down, and release with a failure count that breaks the circuit. *)
(* (ticker.rs `tick`, store.rs, schedule.rs.)                              *)
(*                                                                         *)
(* Time is counted in the schedule's own instants: the cron expression is  *)
(* due at every natural number. Each store call is one step; the clock and *)
(* every other actor may move between two of them. The schedule has no     *)
(* monitor, so `watch` is None and `plan` returns what `decide` did.       *)
(***************************************************************************)
EXTENDS Integers, Sequences, FiniteSets, FiniteSetsExt

CONSTANTS
    Tickers,      \* the processes that tick
    NoTicker,     \* nobody holds the claim
    Lease,        \* LEASE_MS, in instants
    Grace,        \* grace_ms, in instants
    MaxReplay,    \* Misfire::MAX_REPLAY
    Window,       \* how many fires running_run looks back over
    BreakAfter,   \* BREAK_AFTER_FAILURES
    Misfires,     \* the misfire policies the schedule may be given
    Overlaps,     \* the overlap policies the schedule may be given
    MaxTime,      \* bound: the clock
    MaxPersonal,  \* bound: orders a person gives
    MaxFaults     \* bound: ticks that die half way, rows that are not written

ASSUME SchedulesAssumption ==
    /\ NoTicker \notin Tickers /\ IsFiniteSet(Tickers)
    /\ Lease \in Nat /\ Grace \in Nat \ {0} /\ Window \in Nat
    /\ MaxReplay \in Nat \ {0} /\ BreakAfter \in Nat \ {0}
    /\ Misfires \subseteq {"fire_once", "skip", "fire_all"}
    /\ Overlaps \subseteq {"skip", "replace", "allow"}
    /\ MaxTime \in Nat /\ MaxPersonal \in Nat /\ MaxFaults \in Nat

VARIABLES
    now,        \* the clock
    misfire,    \* the schedule's policies
    overlap,
    row,        \* the schedule's row
    fires,      \* schedule_fires, in id order
    runs,       \* the status of the runs it started, in order
    pass,       \* where each ticker is in its pass
    orders,     \* orders a person has given
    faults      \* ticks that died half way, rows that were not written

vars == <<now, misfire, overlap, row, fires, runs, pass, orders, faults>>

NoRun == 0
Never == -1    \* last_fire_at_ms of a schedule that has not fired

(* next_fire: the first instant strictly after `at`. *)
NextFire(at) == at + 1

BackoffCap == 60

(* backoff_ms, with a minute to the instant. *)
Backoff(failures) ==
    IF failures <= 0 THEN 0 ELSE Min({2 ^ Min({failures, 16}), BackoffCap})

(* Mutant: the last instant that fired is counted as missed. *)
MissedInclusive(s, at) ==
    LET since == IF s.last = Never THEN at - Grace ELSE s.last - 1
    IN  {i \in (since + 1)..at : i <= since + MaxReplay} \cup {i \in {s.next} : i <= at}

(* missed_for: the oldest MaxReplay instants since the last fire, and the  *)
(* instant the row says is due.                                            *)
Missed(s, at) ==
    LET since == IF s.last = Never THEN at - Grace ELSE s.last
    IN  {i \in (since + 1)..at : i <= since + MaxReplay} \cup {i \in {s.next} : i <= at}

(* fires(id, Window): the newest rows, by the time they were written at. *)
Recent ==
    {i \in DOMAIN fires :
        Cardinality({j \in DOMAIN fires :
            fires[j].at > fires[i].at \/ (fires[j].at = fires[i].at /\ j > i)}) < Window}

(* running_run: the runs still going among the recent fires. *)
RunningRuns == {fires[i].run : i \in {j \in Recent : fires[j].run # NoRun
                                                  /\ runs[fires[j].run] = "running"}}

Run(due)           == [kind |-> "run", due |-> due, stop |-> NoRun, outcome |-> "ran"]
Hold(due, outcome) == [kind |-> "hold", due |-> due, stop |-> NoRun, outcome |-> outcome]
Replace(due, r)    == [kind |-> "replace", due |-> due, stop |-> r, outcome |-> "ran"]

(* The replays fire_all is good for. *)
Oldest(missed) == {d \in missed : Cardinality({e \in missed : e < d}) < MaxReplay}

(* decide: overlap first, then what the missed instants are worth; one     *)
(* decision an instant, carried out by instant.                            *)
Decide(missed, running) ==
    CASE missed = {} -> {}
      [] missed # {} /\ running # NoRun /\ overlap = "skip"
           -> {Hold(Max(missed), "skipped_overlap")}
      [] missed # {} /\ running # NoRun /\ overlap = "replace"
           -> {Replace(Max(missed), running)}
      [] OTHER
           -> CASE misfire = "fire_once" -> {Run(Max(missed))}
                [] misfire = "skip" -> {Run(Max(missed))} \cup
                      {Hold(d, "skipped_misfire") : d \in missed \ {Max(missed)}}
                [] misfire = "fire_all" -> {Run(d) : d \in Oldest(missed)}

(* caught_up: one row for what fire_once passed over to start its run. *)
CaughtUp(missed, steps, at) ==
    IF misfire = "fire_once" /\ Cardinality(missed) >= 2 /\ \E d \in steps : d.kind # "hold"
    THEN <<[run |-> NoRun, outcome |-> "skipped_misfire", due |-> Min(missed), at |-> at]>>
    ELSE <<>>

(***************************************************************************)
(* settle: the failure count, once the runs started since have ended.      *)
(***************************************************************************)
StartedSince(from) == {i \in DOMAIN fires : fires[i].run # NoRun /\ i > from}

(* Mutant: the walk does not stop at a run that is still going. *)
JudgedPast(started) == started

(* The walk stops at the first run that is still going. *)
Judged(started) ==
    {i \in started : \A j \in started : j <= i => runs[fires[j].run] # "running"}

Ended(judged, status) == {i \in judged : runs[fires[i].run] = status}

(* A run that completed forgives those before it, and the count so far. *)
Walked(previous, judged) ==
    LET good == Ended(judged, "completed")
        bad  == {i \in Ended(judged, "failed") : \A g \in good : g < i}
    IN  (IF good = {} THEN previous ELSE 0) + Cardinality(bad)

Settle(previous, started, spawnFailed) ==
    LET judged == Judged(started)
        told   == Ended(judged, "failed") \cup Ended(judged, "completed")
    IN  CASE spawnFailed -> Walked(previous, judged) + 1
          [] ~spawnFailed /\ told = {} /\ judged = started -> 0
          [] OTHER -> Walked(previous, judged)

(* Mutant: the mark stays where it was, so a failure is counted again. *)
ReadUpToForgets(from, judged) == from

ReadUpTo(from, judged) == IF judged = {} THEN from ELSE Max(judged)

-----------------------------------------------------------------------------

Resting == [pc |-> "idle", at |-> 0, seen |-> [next |-> 0, last |-> Never],
            steps |-> {}, run |-> NoRun, failed |-> FALSE, count |-> 0, mark |-> 0]

At(t, pc) == pass[t].pc = pc

(* Mutant: the ledger's row is written before the run it names is known. *)
RecordFireEarly(run, outcome, due, at) ==
    fires' = Append(fires, [run |-> Len(runs) + 1, outcome |-> outcome, due |-> due, at |-> at])

RecordFire(run, outcome, due, at) ==
    fires' = Append(fires, [run |-> run, outcome |-> outcome, due |-> due, at |-> at])

(* claim_due_schedules: displacing an expired lease is written down. *)
Claim(t) ==
    /\ At(t, "idle")
    /\ row.state = "armed" /\ row.next <= now
    /\ row.claim = NoTicker \/ row.lease < now
    /\ IF row.claim # NoTicker THEN RecordFire(NoRun, "abandoned", row.lease, now)
       ELSE UNCHANGED fires
    /\ row' = [row EXCEPT !.claim = t, !.lease = now + Lease]
    /\ pass' = [pass EXCEPT ![t] = [Resting EXCEPT
                   !.pc = "claimed", !.at = now,
                   !.seen = [next |-> row.next, last |-> row.last]]]
    /\ UNCHANGED <<now, misfire, overlap, runs, orders, faults>>

(* The pass decides, and writes what fire_once passed over. *)
Plan(t) ==
    /\ At(t, "claimed")
    /\ LET missed  == Missed(pass[t].seen, pass[t].at)
           running == IF RunningRuns = {} THEN NoRun ELSE Max(RunningRuns)
           steps   == Decide(missed, running)
       IN  /\ pass' = [pass EXCEPT ![t].pc = "steps", ![t].steps = steps]
           /\ fires' = fires \o CaughtUp(missed, steps, pass[t].at)
    /\ UNCHANGED <<now, misfire, overlap, row, runs, orders, faults>>

Step(t) == CHOOSE d \in pass[t].steps : \A e \in pass[t].steps : d.due <= e.due
Due(t, kind) == At(t, "steps") /\ pass[t].steps # {} /\ Step(t).kind = kind
NextStep(t) == [pass[t] EXCEPT !.pc = "steps", !.steps = @ \ {Step(t)}, !.run = NoRun]

CarryOutHold(t) ==
    /\ Due(t, "hold")
    /\ RecordFire(NoRun, Step(t).outcome, Step(t).due, pass[t].at)
    /\ pass' = [pass EXCEPT ![t] = NextStep(t)]
    /\ UNCHANGED <<now, misfire, overlap, row, runs, orders, faults>>

(* kill_agent: a stop that reports success may have signalled nothing. *)
StopPredecessor(r, stopped) ==
    \/ UNCHANGED runs
    \/ stopped /\ runs[r] = "running" /\ runs' = [runs EXCEPT ![r] = "killed"]

(* Replace stops the run first; whether or not it could, it goes on. *)
CarryOutReplace(t, stopped) ==
    /\ Due(t, "replace")
    /\ StopPredecessor(Step(t).stop, stopped)
    /\ RecordFire(NoRun, IF stopped THEN "replaced" ELSE "replace_failed",
                  Step(t).due, pass[t].at)
    /\ pass' = [pass EXCEPT ![t].steps = (@ \ {Step(t)}) \cup {Run(Step(t).due)}]
    /\ UNCHANGED <<now, misfire, overlap, row, orders, faults>>

SpawnRun(t) ==
    /\ Due(t, "run")
    /\ runs' = Append(runs, "running")
    /\ pass' = [pass EXCEPT ![t].pc = "spawned", ![t].run = Len(runs) + 1]
    /\ UNCHANGED <<now, misfire, overlap, row, fires, orders, faults>>

SpawnFails(t) ==
    /\ Due(t, "run")
    /\ RecordFire(NoRun, "spawn_failed", Step(t).due, pass[t].at)
    /\ pass' = [pass EXCEPT ![t] = [NextStep(t) EXCEPT !.failed = TRUE]]
    /\ UNCHANGED <<now, misfire, overlap, row, runs, orders, faults>>

RecordRan(t) ==
    /\ At(t, "spawned")
    /\ RecordFire(pass[t].run, "ran", Step(t).due, pass[t].at)
    /\ pass' = [pass EXCEPT ![t] = NextStep(t)]
    /\ UNCHANGED <<now, misfire, overlap, row, runs, orders, faults>>

(* carry_out fails over a row it could not write, a run it has started or  *)
(* stopped notwithstanding; the pass says "spawn_failed", if it can.       *)
RecordFails(t, told) ==
    /\ faults < MaxFaults
    /\ At(t, "spawned") \/ Due(t, "hold") \/ Due(t, "replace") \/ (Due(t, "run") /\ ~told)
    /\ IF Due(t, "replace") THEN StopPredecessor(Step(t).stop, TRUE) ELSE UNCHANGED runs
    /\ IF told THEN RecordFire(NoRun, "spawn_failed", Step(t).due, pass[t].at)
       ELSE UNCHANGED fires
    /\ pass' = [pass EXCEPT ![t] = [NextStep(t) EXCEPT !.failed = TRUE]]
    /\ faults' = faults + 1
    /\ UNCHANGED <<now, misfire, overlap, row, orders>>

(* release_schedule reads, judges, and only then writes; it asks for no owner. *)
ReleaseRead(t) ==
    /\ At(t, "steps") /\ pass[t].steps = {}
    /\ LET started == StartedSince(row.settled)
       IN  pass' = [pass EXCEPT ![t].pc = "release",
                       ![t].count = Settle(row.failures, started, pass[t].failed),
                       ![t].mark = ReadUpTo(row.settled, Judged(started))]
    /\ UNCHANGED <<now, misfire, overlap, row, fires, runs, orders, faults>>

(* Mutant: the circuit breaks one failure late. *)
BrokenLate(count) == count > BreakAfter

Broken(count) == count >= BreakAfter

ReleaseWrite(t) ==
    /\ At(t, "release")
    /\ LET p == pass[t]
       IN  row' = [row EXCEPT !.claim = NoTicker, !.lease = 0,
                              !.last = p.at, !.next = NextFire(p.at + Backoff(p.count)),
                              !.failures = p.count, !.settled = p.mark,
                              !.state = IF Broken(p.count) THEN "broken" ELSE @]
    /\ pass' = [pass EXCEPT ![t] = Resting]
    /\ UNCHANGED <<now, misfire, overlap, fires, runs, orders, faults>>

(* set_schedule_state: arming forgives, and any order takes the claim away. *)
SetState(state) ==
    /\ orders < MaxPersonal
    /\ orders' = orders + 1
    /\ row' = [row EXCEPT !.state = state, !.claim = NoTicker, !.lease = 0,
                          !.failures = IF state = "armed" THEN 0 ELSE @,
                          !.next = IF state = "armed" THEN NextFire(now) ELSE @]
    /\ UNCHANGED <<now, misfire, overlap, fires, runs, pass, faults>>

(* run_schedule_now *)
RunNow ==
    /\ orders < MaxPersonal
    /\ row.state = "armed"
    /\ orders' = orders + 1
    /\ row' = [row EXCEPT !.next = now]
    /\ UNCHANGED <<now, misfire, overlap, fires, runs, pass, faults>>

RunEnds(r, status) ==
    /\ runs[r] = "running"
    /\ runs' = [runs EXCEPT ![r] = status]
    /\ UNCHANGED <<now, misfire, overlap, row, fires, pass, orders, faults>>

TimePasses ==
    /\ now < MaxTime
    /\ now' = now + 1
    /\ UNCHANGED <<misfire, overlap, row, fires, runs, pass, orders, faults>>

(* The process dies, or a store error ends the whole tick. *)
Crash(t) ==
    /\ faults < MaxFaults
    /\ ~At(t, "idle")
    /\ pass' = [pass EXCEPT ![t] = Resting]
    /\ faults' = faults + 1
    /\ UNCHANGED <<now, misfire, overlap, row, fires, runs, orders>>

Init ==
    /\ now = 0
    /\ misfire \in Misfires /\ overlap \in Overlaps
    /\ row = [state |-> "armed", next |-> NextFire(0), last |-> Never, failures |-> 0,
              settled |-> 0, claim |-> NoTicker, lease |-> 0]
    /\ fires = <<>> /\ runs = <<>>
    /\ pass = [t \in Tickers |-> Resting]
    /\ orders = 0 /\ faults = 0

Tick(t) ==
    \/ Claim(t) \/ Plan(t) \/ CarryOutHold(t)
    \/ \E stopped \in BOOLEAN : CarryOutReplace(t, stopped)
    \/ SpawnRun(t) \/ SpawnFails(t) \/ RecordRan(t)
    \/ \E told \in BOOLEAN : RecordFails(t, told)
    \/ ReleaseRead(t) \/ ReleaseWrite(t)

Next ==
    \/ \E t \in Tickers : Tick(t) \/ Crash(t)
    \/ \E state \in {"armed", "paused"} : SetState(state)
    \/ RunNow
    \/ \E r \in DOMAIN runs, status \in {"completed", "failed", "killed"} : RunEnds(r, status)
    \/ TimePasses

Spec == Init /\ [][Next]_vars

(***************************************************************************)
(* Properties.                                                             *)
(***************************************************************************)
Decisions == [kind : {"run", "hold", "replace"}, due : Int, stop : 0..Len(runs),
              outcome : {"ran", "skipped_overlap", "skipped_misfire"}]

(* Types, and: a claim has a lease that has not been given twice its span, *)
(* and every row of the ledger names a run that was started.               *)
TypeOK ==
    /\ now \in 0..MaxTime
    /\ row \in [state : {"armed", "paused", "broken"}, next : Nat, last : -1..MaxTime,
                failures : Nat, settled : 0..Len(fires),
                claim : Tickers \cup {NoTicker}, lease : Nat]
    /\ row.claim # NoTicker => row.lease <= now + Lease
    /\ fires \in Seq([run : 0..Len(runs), due : Int, at : 0..MaxTime,
                      outcome : {"ran", "skipped_overlap", "skipped_misfire", "replaced",
                                 "replace_failed", "spawn_failed", "abandoned"}])
    /\ runs \in Seq({"running", "completed", "failed", "killed"})
    /\ \A t \in Tickers :
          /\ pass[t].pc \in {"idle", "claimed", "steps", "spawned", "release"}
          /\ pass[t].steps \subseteq Decisions
          /\ pass[t].run \in 0..Len(runs)

(* The rows of runs that were started for an instant. *)
Ran(d) == {i \in DOMAIN fires : fires[i].outcome = "ran" /\ fires[i].due = d}

(* One firing path: with one ticker that does not die and writes down what *)
(* it did, an instant starts at most one run, whatever the outage, the     *)
(* backoff and the policies; a person's "run now" may start it once more.  *)
InstantRunsOnce ==
    (faults = 0 /\ Cardinality(Tickers) = 1) =>
        \A i \in DOMAIN fires : Cardinality(Ran(fires[i].due)) <= 1 + orders

(* "A run that has not finished is not a failure": no run is passed by     *)
(* before it ended, so none that fails later escapes the count.            *)
SettledAreOver ==
    \A i \in 1..row.settled : fires[i].run # NoRun => runs[fires[i].run] # "running"

(* "so no failure is counted twice": the count is never more than the runs *)
(* that were judged and failed, the passes that could start nothing, and   *)
(* those that could not write down what they did.                          *)
CountIsEarned ==
    row.failures <= Cardinality({i \in 1..row.settled :
                                    fires[i].run # NoRun /\ runs[fires[i].run] = "failed"})
                    + Cardinality({i \in DOMAIN fires : fires[i].outcome = "spawn_failed"})
                    + faults

(* The circuit is broken when the count says so, whoever armed, paused or  *)
(* released the schedule in between.                                       *)
BreakerHolds == row.state = "armed" => row.failures < BreakAfter
=============================================================================
