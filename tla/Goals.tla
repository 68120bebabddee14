------------------------------- MODULE Goals -------------------------------
(***************************************************************************)
(* One standing goal and the passes that pursue it: claim the goal, settle *)
(* the iteration in flight, run its check, charge it, apply its limits and *)
(* start the next iteration. (ticker.rs `tick_goals`, store.rs, `Goal` of  *)
(* schedule.rs.)                                                           *)
(*                                                                         *)
(* What is in flight is a fact, `current-run`, and not the claim; each     *)
(* store call is one step, and a person, the clock and the runs move       *)
(* between two of them. Time is kept as two bits: whether the goal's next  *)
(* instant has come (`due`) and whether the lease of its claim has passed. *)
(* A run costs one unit, or nothing that can be recovered. What the tick   *)
(* reads of a run it can read is taken for the truth: how a run that runs  *)
(* can read otherwise is RunLifecycle's matter.                            *)
(***************************************************************************)
EXTENDS Integers, Sequences, FiniteSets

CONSTANTS
    Tickers,        \* the processes that tick
    NoTicker,       \* nobody holds the claim
    MaxIterations,  \* max_iterations of the goal, unless it is 0
    Budget,         \* budget_usd, in runs
    StallAfter,     \* stall_after
    Orders,         \* the states a person sets: "running", "paused"
    MaxOrders,      \* bound: orders a person gives
    MaxFaults       \* bound: passes that die and spawns that fail

ASSUME GoalsAssumption ==
    /\ NoTicker \notin Tickers /\ IsFiniteSet(Tickers)
    /\ Orders \subseteq {"running", "paused"}
    /\ {MaxIterations, Budget, StallAfter, MaxOrders, MaxFaults} \subseteq Nat

VARIABLES
    goal,      \* the goal's row
    current,   \* the `current-run` fact
    printed,   \* whether a `done-when` fingerprint is remembered
    runs,      \* the runs it started, in order: how far, and whether the tick reads them
    charged,   \* how often each run was charged to the goal
    pass,      \* where each ticker is in its pass over the goal
    hist       \* what happened: orders, deaths, failed spawns, endings

vars == <<goal, current, printed, runs, charged, pass, hist>>

NoRun == 0

Ended == {"satisfied", "stalled", "exhausted"}

(* What one run of the done-when check tells: nothing (no check, or it     *)
(* could not be run), that it passes, or a failure whose output is the     *)
(* same as or other than the remembered one.                               *)
Verdicts == {"none", "passes", "same", "other"}

(* A run works or has ended; the ticking process can read it, or it is     *)
(* "adrift" while it works and "lost" when it has ended.                   *)
RunStatus == {"running", "ended", "adrift", "lost"}

Resting == [pc |-> "idle", left |-> 0, run |-> NoRun, verdict |-> "none", stop |-> "none"]

(* add_goal also takes a goal that may not iterate at all. *)
Init ==
    /\ \E max \in {0, MaxIterations} :
          goal = [state |-> "running", max |-> max, iteration |-> 0, spent |-> 0,
                  noProgress |-> 0, due |-> FALSE, claim |-> NoTicker, lapsed |-> FALSE]
    /\ current = NoRun /\ printed = FALSE
    /\ runs = <<>> /\ charged = <<>>
    /\ pass = [t \in Tickers |-> Resting]
    /\ hist = [orders |-> 0, deaths |-> 0, failed |-> 0, endings |-> 0]

At(t, pc) == pass[t].pc = pc
Exists == goal.state # "gone"
Free == goal.claim = NoTicker \/ goal.lapsed

(* Mutant: the claim is cleared and its lease is not. *)
UnclaimedKeepsLease(g) == [g EXCEPT !.claim = NoTicker]

Unclaimed(g) == [g EXCEPT !.claim = NoTicker, !.lapsed = FALSE]
Taken(t) == [goal EXCEPT !.claim = t, !.lapsed = FALSE]

(* Mutant: the limit is checked one iteration late. *)
ShouldStopLate(g) ==
    CASE g.iteration > g.max          -> "exhausted"
      [] g.spent > Budget             -> "exhausted"
      [] g.noProgress >= StallAfter   -> "stalled"
      [] OTHER                        -> "none"

(* Goal::should_stop *)
ShouldStop(g) ==
    CASE g.iteration >= g.max         -> "exhausted"
      [] g.spent >= Budget            -> "exhausted"
      [] g.noProgress >= StallAfter   -> "stalled"
      [] OTHER                        -> "none"

(* set_goal_state: by name and whatever the state is; running again        *)
(* forgives, waits for the next instant, and any order takes the claim.    *)
SetState(state) ==
    goal' = IF ~Exists THEN goal
            ELSE [Unclaimed(goal) EXCEPT
                    !.state = state,
                    !.noProgress = IF state = "running" THEN 0 ELSE @,
                    !.due = IF state = "running" THEN FALSE ELSE @]

-----------------------------------------------------------------------------
(***************************************************************************)
(* A pass: what it takes, and then each of the goals it took. `left` is    *)
(* how many entries of its list are still to be worked through; a goal     *)
(* paused between the two claims is on the list twice.                     *)
(***************************************************************************)

(* claim_due_goals *)
ClaimDue(t) ==
    /\ At(t, "idle")
    /\ goal.state = "running" /\ goal.due /\ Free
    /\ goal' = Taken(t)
    /\ pass' = [pass EXCEPT ![t].pc = "paused", ![t].left = 1]
    /\ UNCHANGED <<current, printed, runs, charged, hist>>

(* Mutant: a paused goal is not looked at. *)
LookAtRunningOnly(t) ==
    /\ FALSE
    /\ UNCHANGED vars

(* paused_goals: a paused goal with a run in flight is asked for. *)
LookAtPaused(t) ==
    /\ At(t, "paused") \/ At(t, "idle")
    /\ goal.state = "paused" /\ current # NoRun
    /\ pass' = [pass EXCEPT ![t].pc = "settling"]
    /\ UNCHANGED <<goal, current, printed, runs, charged, hist>>

NothingPaused(t) ==
    /\ At(t, "paused")
    /\ ~(goal.state = "paused" /\ current # NoRun)
    /\ pass' = [pass EXCEPT ![t].pc = "look"]
    /\ UNCHANGED <<goal, current, printed, runs, charged, hist>>

(* claim_paused_goal: refuses a goal that is no longer paused. *)
ClaimPaused(t) ==
    /\ At(t, "settling")
    /\ LET won  == goal.state = "paused" /\ Free
           left == pass[t].left + IF won THEN 1 ELSE 0
       IN  /\ goal' = IF won THEN Taken(t) ELSE goal
           /\ pass' = [pass EXCEPT ![t].left = left,
                                   ![t].pc = IF left > 0 THEN "look" ELSE "idle"]
    /\ UNCHANGED <<current, printed, runs, charged, hist>>

(* Mutant: a run still working is settled. *)
LookPast(t) ==
    /\ At(t, "look")
    /\ pass' = [pass EXCEPT ![t].run = current,
                            ![t].pc = IF current = NoRun THEN "reread" ELSE "check"]
    /\ UNCHANGED <<goal, current, printed, runs, charged, hist>>

(* current_run and what the memory of the process says of that run. One    *)
(* that works is let be, one that cannot be read is settled all the same.  *)
Look(t) ==
    /\ At(t, "look")
    /\ pass' = [pass EXCEPT
          ![t].run = current,
          ![t].pc = IF current = NoRun THEN "reread"
                    ELSE IF runs[current] = "running" THEN "release" ELSE "check"]
    /\ UNCHANGED <<goal, current, printed, runs, charged, hist>>

(* check_done, on the iteration that just ended: a command that has no     *)
(* time limit.                                                             *)
CheckDone(t, verdict) ==
    /\ At(t, "check")
    /\ pass' = [pass EXCEPT ![t].pc = "advance", ![t].verdict = verdict]
    /\ UNCHANGED <<goal, current, printed, runs, charged, hist>>

(* last_fingerprint: a first look counts as progress, no look does not. *)
Progressed(verdict) ==
    \/ verdict \in {"passes", "other"}
    \/ verdict = "same" /\ ~printed

(* advance_goal writes the iteration and lets the claim go. With the goal  *)
(* deleted it fails, and the pass with it.                                 *)
Advance(t) ==
    /\ At(t, "advance")
    /\ LET p    == pass[t]
           cost == IF runs[p.run] \in {"adrift", "lost"} THEN 0 ELSE 1
       IN  IF ~Exists
           THEN /\ pass' = [pass EXCEPT ![t] = Resting]
                /\ UNCHANGED <<goal, printed, charged>>
           ELSE /\ goal' = [Unclaimed(goal) EXCEPT
                              !.iteration = @ + 1, !.spent = @ + cost,
                              !.noProgress = IF Progressed(p.verdict) THEN 0 ELSE @ + 1,
                              !.due = FALSE]
                /\ printed' = (printed \/ p.verdict \in {"same", "other"})
                /\ charged' = [charged EXCEPT ![p.run] = @ + 1]
                /\ pass' = [pass EXCEPT ![t].pc = "limits"]
    /\ UNCHANGED <<current, runs, hist>>

(* advance_goal reads the row again for its limits. *)
ReadLimits(t) ==
    /\ At(t, "limits")
    /\ pass' = [pass EXCEPT
          ![t] = IF ~Exists THEN Resting
                 ELSE [@ EXCEPT
                    !.stop = ShouldStop(goal),
                    !.pc = IF ShouldStop(goal) # "none" THEN "stop"
                           ELSE IF pass[t].verdict = "passes" THEN "satisfy"
                           ELSE IF goal.state \in Ended THEN "release" ELSE "reread"]]
    /\ UNCHANGED <<goal, current, printed, runs, charged, hist>>

EndIn(state) ==
    /\ SetState(state)
    /\ hist' = [hist EXCEPT !.endings = @ + IF Exists THEN 1 ELSE 0]

(* A limit that was reached ends the goal, unless its check passed too. *)
WriteStop(t) ==
    /\ At(t, "stop")
    /\ EndIn(pass[t].stop)
    /\ pass' = [pass EXCEPT ![t].pc = IF pass[t].verdict = "passes" THEN "satisfy" ELSE "release"]
    /\ UNCHANGED <<current, printed, runs, charged>>

WriteSatisfied(t) ==
    /\ At(t, "satisfy")
    /\ EndIn("satisfied")
    /\ pass' = [pass EXCEPT ![t].pc = "release"]
    /\ UNCHANGED <<current, printed, runs, charged>>

(* goal_named, again. A goal that has to rest gets no new iteration.       *)
Reread(t) ==
    /\ At(t, "reread")
    /\ pass' = [pass EXCEPT
          ![t].stop = IF Exists THEN ShouldStop(goal) ELSE "none",
          ![t].pc = CASE goal.state = "running" /\ pass[t].run = NoRun -> "ask"
                      [] goal.state = "running" /\ pass[t].run # NoRun -> "decide"
                      [] goal.state = "gone" \/ pass[t].run = NoRun    -> "release"
                      [] OTHER                                         -> "retire"]
    /\ UNCHANGED <<goal, current, printed, runs, charged, hist>>

(* Mutant: the settled run stays the goal's current one. *)
RetireNothing(t) ==
    /\ At(t, "retire")
    /\ pass' = [pass EXCEPT ![t].pc = "release"]
    /\ UNCHANGED <<goal, current, printed, runs, charged, hist>>

(* The pointer of a goal that rests is forgotten, whatever it names by now *)
(* and whatever the goal was told meanwhile.                               *)
Retire(t) ==
    /\ At(t, "retire")
    /\ current' = NoRun
    /\ pass' = [pass EXCEPT ![t].pc = "release"]
    /\ UNCHANGED <<goal, printed, runs, charged, hist>>

(* The check is asked first when nothing was in flight. *)
AskFirst(t, passes) ==
    /\ At(t, "ask")
    /\ pass' = [pass EXCEPT ![t].pc = IF passes THEN "satisfy" ELSE "decide"]
    /\ UNCHANGED <<goal, current, printed, runs, charged, hist>>

StopBeforeSpawn(t) ==
    /\ At(t, "decide") /\ pass[t].stop # "none"
    /\ EndIn(pass[t].stop)
    /\ pass' = [pass EXCEPT ![t].pc = "release"]
    /\ UNCHANGED <<current, printed, runs, charged>>

(* spawn_iteration starts the run and then writes it down. *)
Spawn(t) ==
    /\ At(t, "decide") /\ pass[t].stop = "none"
    /\ runs' = Append(runs, "running") /\ charged' = Append(charged, 0)
    /\ pass' = [pass EXCEPT ![t].pc = "spawned", ![t].run = Len(runs) + 1]
    /\ UNCHANGED <<goal, current, printed, hist>>

SpawnFails(t) ==
    /\ At(t, "decide") /\ pass[t].stop = "none"
    /\ hist.deaths + hist.failed < MaxFaults
    /\ hist' = [hist EXCEPT !.failed = @ + 1]
    /\ pass' = [pass EXCEPT ![t].pc = "release"]
    /\ UNCHANGED <<goal, current, printed, runs, charged>>

RecordCurrent(t) ==
    /\ At(t, "spawned")
    /\ current' = pass[t].run
    /\ pass' = [pass EXCEPT ![t].pc = "release"]
    /\ UNCHANGED <<goal, printed, runs, charged, hist>>

(* release_goal asks for no owner; then the next entry of the list. *)
Release(t) ==
    /\ At(t, "release")
    /\ goal' = Unclaimed(goal)
    /\ pass' = [pass EXCEPT ![t] = IF pass[t].left > 1
                                   THEN [Resting EXCEPT !.pc = "look", !.left = pass[t].left - 1]
                                   ELSE Resting]
    /\ UNCHANGED <<current, printed, runs, charged, hist>>

-----------------------------------------------------------------------------
(* What a person may do to a goal: set_goal_state, run_goal_now,           *)
(* delete_goal. An order on a goal that has ended sets it going again.     *)
Ordered ==
    /\ hist.orders < MaxOrders
    /\ hist' = [hist EXCEPT !.orders = @ + 1]

PersonSets(state) ==
    /\ Exists
    /\ Ordered
    /\ SetState(state)
    /\ UNCHANGED <<current, printed, runs, charged, pass>>

RunGoalNow ==
    /\ goal.state = "running"
    /\ Ordered
    /\ goal' = [goal EXCEPT !.due = TRUE]
    /\ UNCHANGED <<current, printed, runs, charged, pass>>

(* The row and its facts go; the run in flight goes on. *)
DeleteGoal ==
    /\ Exists
    /\ Ordered
    /\ goal' = [Unclaimed(goal) EXCEPT !.state = "gone"]
    /\ current' = NoRun /\ printed' = FALSE
    /\ UNCHANGED <<runs, charged, pass>>

RunEnds(r) ==
    /\ runs[r] \in {"running", "adrift"}
    /\ runs' = [runs EXCEPT ![r] = IF @ = "running" THEN "ended" ELSE "lost"]
    /\ UNCHANGED <<goal, current, printed, charged, pass, hist>>

(* The process that ticks is another one, in whose memory the run is not:  *)
(* it is not among the newest, or was written by a build of another shape. *)
LoseRun(r) ==
    /\ runs[r] \in {"running", "ended"}
    /\ runs' = [runs EXCEPT ![r] = IF @ = "running" THEN "adrift" ELSE "lost"]
    /\ UNCHANGED <<goal, current, printed, charged, pass, hist>>

InstantComes ==
    /\ Exists /\ ~goal.due
    /\ goal' = [goal EXCEPT !.due = TRUE]
    /\ UNCHANGED <<current, printed, runs, charged, pass, hist>>

LeaseLapses ==
    /\ goal.claim # NoTicker /\ ~goal.lapsed
    /\ goal' = [goal EXCEPT !.lapsed = TRUE]
    /\ UNCHANGED <<current, printed, runs, charged, pass, hist>>

Die(t) ==
    /\ ~At(t, "idle")
    /\ hist.deaths + hist.failed < MaxFaults
    /\ hist' = [hist EXCEPT !.deaths = @ + 1]
    /\ pass' = [pass EXCEPT ![t] = Resting]
    /\ UNCHANGED <<goal, current, printed, runs, charged>>

PassStep(t) ==
    \/ ClaimDue(t) \/ LookAtPaused(t) \/ NothingPaused(t) \/ ClaimPaused(t) \/ Look(t)
    \/ \E verdict \in Verdicts : CheckDone(t, verdict)
    \/ Advance(t) \/ ReadLimits(t) \/ WriteStop(t) \/ WriteSatisfied(t) \/ Reread(t)
    \/ Retire(t)
    \/ \E passes \in BOOLEAN : AskFirst(t, passes)
    \/ StopBeforeSpawn(t) \/ Spawn(t) \/ RecordCurrent(t) \/ Release(t)

Next ==
    \/ \E t \in Tickers : PassStep(t) \/ SpawnFails(t) \/ Die(t)
    \/ \E state \in Orders : PersonSets(state)
    \/ RunGoalNow \/ DeleteGoal
    \/ \E r \in DOMAIN runs : RunEnds(r) \/ LoseRun(r)
    \/ InstantComes \/ LeaseLapses

Spec == Init /\ [][Next]_vars

(* A pass that waits for the check, which may take for ever.               *)
Checking(t) == pass[t].pc \in {"check", "ask"}

(* The daemon ticks for ever, goes on with a pass unless its check is out, *)
(* and the clock moves. Runs may go on for ever.                           *)
Fairness ==
    /\ \A t \in Tickers : WF_vars(~Checking(t) /\ PassStep(t))
    /\ WF_vars(InstantComes) /\ WF_vars(LeaseLapses)

FairSpec == Spec /\ Fairness

(***************************************************************************)
(* Properties.                                                             *)
(***************************************************************************)

Phases == {"idle", "paused", "settling", "look", "check", "advance", "limits", "stop",
           "satisfy", "reread", "retire", "ask", "decide", "spawned", "release"}

GoalRec == [state : Ended \cup {"running", "paused", "gone"}, max : {0, MaxIterations},
            iteration : Nat, spent : Nat, noProgress : Nat, due : BOOLEAN,
            claim : Tickers \cup {NoTicker}, lapsed : BOOLEAN]
PassRec == [pc : Phases, left : 0..2, run : 0..Len(runs), verdict : Verdicts,
            stop : Ended \cup {"none"}]

(* Types, and: a lease that has passed is the lease of a claim, and the    *)
(* current run is a run that was started.                                  *)
TypeOK ==
    /\ goal \in GoalRec
    /\ goal.lapsed => goal.claim # NoTicker
    /\ current \in 0..Len(runs) /\ printed \in BOOLEAN
    /\ runs \in Seq(RunStatus)
    /\ charged \in Seq(Nat) /\ Len(charged) = Len(runs)
    /\ pass \in [Tickers -> PassRec]

(* "so a goal never has two runs in flight": whatever the person orders    *)
(* between two steps of a pass, one run that can be read works. A pass     *)
(* that dies between starting a run and writing it down costs one more,    *)
(* and a run that works and cannot be read is passed over by design.       *)
OneInFlight ==
    Cardinality(Tickers) = 1 =>
        Cardinality({r \in DOMAIN runs : runs[r] = "running"}) <= 1 + hist.deaths

(* "an exhausted goal never spends the budget that proves it is            *)
(* exhausted": no order, pause, resume or lost run gets a goal more        *)
(* iterations than its limit, except the one a dying pass did not record.  *)
LimitHolds ==
    Cardinality(Tickers) = 1 => Len(runs) <= goal.max + hist.deaths

(* "charge the goal twice for one turn": as long as no pass dies, no spawn *)
(* fails and the goal has not ended, a run is charged once, however the    *)
(* goal is paused and resumed around and within its passes.                *)
PaidOnce ==
    (Cardinality(Tickers) = 1 /\ hist.deaths = 0 /\ hist.failed = 0 /\ hist.endings = 0) =>
        \A r \in DOMAIN charged : charged[r] <= 1

(* "its spend is counted once" (ticker.rs), of a goal a person revives and *)
(* with no fault at all.                                                   *)
CountedOnce ==
    (hist.deaths = 0 /\ hist.failed = 0) => \A r \in DOMAIN charged : charged[r] <= 1

(* An iteration the goal has in flight is charged once it is over, paused  *)
(* or not, readable or not, also after a pass died holding the goal, if    *)
(* its checks come back; only deleting the goal lets it off.               *)
EveryRunIsBilled ==
    (\A t \in Tickers : []<>~Checking(t)) =>
        \A r \in 1..(MaxIterations + MaxFaults) :
            (r = current /\ runs[r] \in {"ended", "lost"})
                ~> ((r \in DOMAIN runs /\ charged[r] > 0) \/ ~Exists)
=============================================================================
