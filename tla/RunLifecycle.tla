--------------------------- MODULE RunLifecycle ---------------------------
(***************************************************************************)
(* The life of a run: the service process that launches it                 *)
(* (core/src/service.rs, core/src/runner.rs), the detached supervisor      *)
(* jod-run that watches its harness (supervisor/src/main.rs), the shared   *)
(* SQLite row that says how it went (core/src/store.rs), the processes     *)
(* that follow, stop and forget it, and the heartbeat sweep that reaps a   *)
(* run nobody will settle (core/src/ticker.rs, core/src/heartbeat.rs).     *)
(*                                                                         *)
(* Every Jod process has its own memory of the runs it knows; the row, the *)
(* heartbeat and the event log are shared.  A step of this module is one   *)
(* store transaction, one write of a process's memory or one signal.  Two  *)
(* of them are one step where the code holds the memory lock across both   *)
(* (stop_one, the error arm), at a registration, which nobody else has     *)
(* seen yet, and at the removal of a finished run.                         *)
(***************************************************************************)
EXTENDS Naturals, FiniteSets

CONSTANTS
    Runs,           \* the runs that may be asked for
    Procs,          \* Jod processes: a TUI, the API, the daemon
    NoRun, NoProc,  \* neither a run nor a process
    Launchers,      \* processes that are asked to start a run
    Killers,        \* processes whose user calls kill_agent
    Sweepers,       \* processes that run the heartbeat sweep
    GoalRuns,       \* runs that are iterations of a goal
    MaxConcurrent,  \* permits of one process's semaphore
    MaxDeaths,      \* how often a Jod process may die and be started again
    StoreFaults,    \* whether the store may refuse a launch or the sweep
    SupFaults,      \* whether a supervisor alone may be killed from outside
    Forgets         \* whether forget_agent is called

ASSUME RunLifecycleAssumption ==
    /\ NoRun \notin Runs
    /\ NoProc \notin Procs
    /\ Launchers \subseteq Procs
    /\ Killers \subseteq Procs
    /\ Sweepers \subseteq Procs
    /\ GoalRuns \subseteq Runs
    /\ IsFiniteSet(Runs)
    /\ MaxConcurrent \in Nat \ {0}
    /\ MaxDeaths \in Nat
    /\ {StoreFaults, SupFaults, Forgets} \subseteq BOOLEAN

Terminal  == {"completed", "failed", "killed"}
RowStatus == Terminal \cup {"none", "running"}
MemStatus == Terminal \cup {"absent", "running"}
\* No heartbeat row is "none", or "refused" where the store refused to write one or to
\* have the run failed before it was dropped: a difference no code can see.
Watching  == {"none", "refused", "run", "goal"}

\* A supervisor: before its harness is spawned ("boot"), before its signal
\* handlers are installed ("spawned"), in its select loop ("loop"), after the
\* loop and before the harness was waited for ("waiting") or after ("drained"),
\* after the Finished event ("finished"), after the status ("exited"), or gone
\* without having written one ("dead").
SupLive  == {"boot", "spawned", "loop", "waiting", "drained", "finished"}
SupState == SupLive \cup {"none", "exited", "dead"}
Outcome  == {"ok", "error", "signalled"}

VARIABLES
    row,      \* runs table: status and whether the pgid column is set
    watch,    \* heartbeats table: who the run is watched for
    log,      \* events table: nothing, some events, or a Finished event
    sup,      \* the supervisor process
    child,    \* the harness process
    sig,      \* a SIGTERM the supervisor's handler has not taken yet
    term,     \* the supervisor's `terminating`
    launch,   \* spawn_agent_in: its program counter, its process, its permit
    mem,      \* each process's AgentRecord of a run
    follow,   \* whether a follower task of a process still polls
    chan,     \* an envelope read by the follower and not applied yet
    save,     \* the summary cloned from memory and not saved yet
    kill,     \* kill_agent in flight, one per process
    sweep,    \* tick_heartbeats at one run, one per process
    deaths    \* Jod processes that have died

tables == <<row, watch, log>>
os     == <<sup, child, sig, term>>
memory == <<mem, follow, chan, save>>
vars   == <<tables, os, launch, memory, kill, sweep, deaths>>

\* spawn_agent_in, step by step; "goal" once a goal watches the run, "failed" after
\* the error arm, "panicked" when memory no longer had the run, "lost" when the
\* launching process died.
LaunchPC == {"new", "queued", "permitted", "spawned", "recorded", "published", "done",
             "goal", "failed", "panicked", "lost"}
StopPC   == {"idle", "asked", "term", "wait", "mark"}
SweepPC  == {"idle", "probe", "term", "wait", "fail", "learn", "unwatch", "drop"}

IdleKill  == [pc |-> "idle", run |-> NoRun, was |-> FALSE, pgid |-> FALSE]
IdleSweep == [pc |-> "idle", run |-> NoRun, seen |-> "none", for |-> "none"]
Absent    == [status |-> "absent", pgid |-> FALSE]

Init ==
    /\ row    = [r \in Runs |-> [status |-> "none", pgid |-> FALSE]]
    /\ watch  = [r \in Runs |-> "none"]
    /\ log    = [r \in Runs |-> "empty"]
    /\ sup    = [r \in Runs |-> "none"]
    /\ child  = [r \in Runs |-> "none"]
    /\ sig    = [r \in Runs |-> FALSE]
    /\ term   = [r \in Runs |-> FALSE]
    /\ launch = [r \in Runs |-> [pc |-> "new", by |-> NoProc, permit |-> FALSE]]
    /\ mem    = [p \in Procs |-> [r \in Runs |-> Absent]]
    /\ follow = [p \in Procs |-> [r \in Runs |-> FALSE]]
    /\ chan   = [p \in Procs |-> [r \in Runs |-> "empty"]]
    /\ save   = [p \in Procs |-> [r \in Runs |-> Absent]]
    /\ kill   = [p \in Procs |-> IdleKill]
    /\ sweep  = [p \in Procs |-> IdleSweep]
    /\ deaths = 0

(***************************************************************************)
(* The store and the kernel, as the code uses them.                        *)
(***************************************************************************)
\* proc::group_alive probes the leader, which is the supervisor.
GroupAlive(r) == sup[r] \in SupLive

\* Store::set_run_status is unconditional; it updates nothing on a missing row.
SetStatus(r, s) ==
    IF row[r].status = "none" THEN row ELSE [row EXCEPT ![r].status = s]

\* Mutant: the update does not look at the status it overwrites.
SaveRunOverwrites(r, s, pgid) ==
    [row EXCEPT ![r] = [status |-> s, pgid |-> pgid \/ row[r].pgid]]

\* Store::save_run inserts the row, or updates it without ever overwriting a
\* terminal status or erasing a pgid.
SaveRun(r, s, pgid) ==
    [row EXCEPT ![r] =
        [status |-> IF row[r].status \in Terminal THEN row[r].status ELSE s,
         pgid   |-> pgid \/ row[r].pgid]]

\* signal_group(pgid, SIGTERM): a supervisor with no handler yet dies of it, one
\* in its loop has it pending, one past its loop never looks again; the harness
\* gets it too, and may die of it at once or handle it in its own time.
SignalTerm(r) ==
    /\ sup' = [sup EXCEPT ![r] = IF @ \in {"boot", "spawned"} THEN "dead" ELSE @]
    /\ sig' = [sig EXCEPT ![r] = @ \/ sup[r] = "loop"]
    /\ \E c \in {child[r]} \cup (IF child[r] = "running" THEN {"signalled"} ELSE {}) :
          child' = [child EXCEPT ![r] = c]
    /\ UNCHANGED term

\* signal_group(pgid, SIGKILL): nothing in the group survives.
SignalKill(r) ==
    /\ sup' = [sup EXCEPT ![r] = IF @ \in SupLive THEN "dead" ELSE @]
    /\ child' = [child EXCEPT ![r] = IF @ = "running" THEN "signalled" ELSE @]
    /\ UNCHANGED <<sig, term>>

(***************************************************************************)
(* Launching: Jod::spawn_agent_in and runner::launch.                      *)
(***************************************************************************)
\* The run is put in memory and its row written before it waits for a permit.
Register(p, r) ==
    /\ p \in Launchers
    /\ launch[r].pc = "new"
    /\ launch' = [launch EXCEPT ![r] = [pc |-> "queued", by |-> p, permit |-> FALSE]]
    /\ mem' = [mem EXCEPT ![p][r] = [status |-> "running", pgid |-> FALSE]]
    /\ row' = SaveRun(r, "running", FALSE)
    /\ UNCHANGED <<watch, log, os, follow, chan, save, kill, sweep, deaths>>

Held(p) == {r \in Runs : launch[r].permit /\ launch[r].by = p}

\* acquire_owned on the process's own semaphore.
Acquire(r) ==
    /\ launch[r].pc = "queued"
    /\ Cardinality(Held(launch[r].by)) < MaxConcurrent
    /\ launch' = [launch EXCEPT ![r].pc = "permitted", ![r].permit = TRUE]
    /\ UNCHANGED <<tables, os, memory, kill, sweep, deaths>>

\* spawn_detached: the supervisor exists from here on.
SpawnSupervisor(r) ==
    /\ launch[r].pc = "permitted"
    /\ launch' = [launch EXCEPT ![r].pc = "spawned"]
    /\ sup' = [sup EXCEPT ![r] = "boot"]
    /\ UNCHANGED <<tables, child, sig, term, memory, kill, sweep, deaths>>

\* The error arm: memory and row say failed, and the permit is dropped.
FailLaunch(r) ==
    /\ launch' = [launch EXCEPT ![r].pc = "failed", ![r].permit = FALSE]
    /\ mem' = [mem EXCEPT ![launch[r].by][r] =
                  IF @.status = "absent" THEN @ ELSE [@ EXCEPT !.status = "failed"]]
    /\ row' = SetStatus(r, "failed")
    /\ UNCHANGED <<watch, log, os, follow, chan, save, kill, sweep, deaths>>

\* runner::launch failed before any process existed.
LaunchError(r) ==
    /\ launch[r].pc = "permitted"
    /\ FailLaunch(r)

\* set_run_process failed: the same arm, with the supervisor already started.
RecordError(r) ==
    /\ StoreFaults
    /\ launch[r].pc = "spawned"
    /\ FailLaunch(r)

\* set_run_process, and the follower of the launching process.
RecordProcess(r) ==
    /\ launch[r].pc = "spawned"
    /\ launch' = [launch EXCEPT ![r].pc = "recorded"]
    /\ row' = IF row[r].status = "none" THEN row ELSE [row EXCEPT ![r].pgid = TRUE]
    /\ follow' = [follow EXCEPT ![launch[r].by][r] = TRUE]
    /\ UNCHANGED <<watch, log, os, mem, chan, save, kill, sweep, deaths>>

\* The pgid reaches the launching process's memory ...
Publish(r) ==
    /\ launch[r].pc = "recorded"
    /\ mem[launch[r].by][r].status # "absent"
    /\ launch' = [launch EXCEPT ![r].pc = "published"]
    /\ mem' = [mem EXCEPT ![launch[r].by][r].pgid = TRUE]
    /\ UNCHANGED <<tables, os, follow, chan, save, kill, sweep, deaths>>

\* ... and then the run is watched.  The heartbeat row references the run's row, so a
\* deleted run is not watched.
WatchRun(r) ==
    /\ launch[r].pc = "published"
    /\ launch' = [launch EXCEPT ![r].pc = "done"]
    /\ watch' = [watch EXCEPT ![r] = IF row[r].status = "none" THEN @ ELSE "run"]
    /\ UNCHANGED <<row, log, os, memory, kill, sweep, deaths>>

\* expect("just registered"), when the run has been forgotten meanwhile.  The task
\* that holds the permit has been spawned already.
PublishPanics(r) ==
    /\ launch[r].pc = "recorded"
    /\ mem[launch[r].by][r].status = "absent"
    /\ launch' = [launch EXCEPT ![r].pc = "panicked"]
    /\ UNCHANGED <<tables, os, memory, kill, sweep, deaths>>

\* Ticker::spawn_iteration watches the run again, for its goal.
WatchForGoal(r) ==
    /\ r \in GoalRuns
    /\ launch[r].pc = "done"
    /\ launch' = [launch EXCEPT ![r].pc = "goal"]
    /\ watch' = [watch EXCEPT ![r] = IF row[r].status = "none" THEN @ ELSE "goal"]
    /\ UNCHANGED <<row, log, os, memory, kill, sweep, deaths>>

\* A watch the store refuses is logged, and the run goes on without it.
WatchRefused(r) ==
    /\ StoreFaults
    /\ launch[r].pc = "published"
    /\ launch' = [launch EXCEPT ![r].pc = "done"]
    /\ watch' = [watch EXCEPT ![r] = IF row[r].status = "none" THEN @ ELSE "refused"]
    /\ UNCHANGED <<row, log, os, memory, kill, sweep, deaths>>

\* The same for its goal: the run is watched as it was.
GoalWatchRefused(r) ==
    /\ StoreFaults
    /\ r \in GoalRuns
    /\ launch[r].pc = "done"
    /\ launch' = [launch EXCEPT ![r].pc = "goal"]
    /\ UNCHANGED <<tables, os, memory, kill, sweep, deaths>>

\* Mutant: the permit goes back as soon as the launch has been recorded.
ReleasePermitEarly(r) ==
    /\ launch[r].permit
    /\ launch[r].pc \in {"recorded", "published", "done", "goal", "panicked"}
    /\ launch' = [launch EXCEPT ![r].permit = FALSE]
    /\ UNCHANGED <<tables, os, memory, kill, sweep, deaths>>

\* The watcher task that holds the permit for as long as the group lives.
ReleasePermit(r) ==
    /\ launch[r].permit
    /\ launch[r].pc \in {"recorded", "published", "done", "goal", "panicked"}
    /\ ~GroupAlive(r)
    /\ launch' = [launch EXCEPT ![r].permit = FALSE]
    /\ UNCHANGED <<tables, os, memory, kill, sweep, deaths>>

(***************************************************************************)
(* The supervisor: supervisor/src/main.rs, run().                          *)
(***************************************************************************)
\* The plan cannot be read or the store cannot be opened: no status is written.
SupBootFails(r) ==
    /\ sup[r] = "boot"
    /\ sup' = [sup EXCEPT ![r] = "dead"]
    /\ UNCHANGED <<tables, child, sig, term, launch, memory, kill, sweep, deaths>>

\* The harness cannot be started: an Error, then Finished with code 127; the
\* status follows in SupSettle.
SupSpawnFails(r) ==
    /\ sup[r] = "boot"
    /\ sup' = [sup EXCEPT ![r] = "finished"]
    /\ child' = [child EXCEPT ![r] = "error"]
    /\ log' = [log EXCEPT ![r] = "error"]
    /\ UNCHANGED <<row, watch, sig, term, launch, memory, kill, sweep, deaths>>

SupSpawnsHarness(r) ==
    /\ sup[r] = "boot"
    /\ sup' = [sup EXCEPT ![r] = "spawned"]
    /\ child' = [child EXCEPT ![r] = "running"]
    /\ UNCHANGED <<tables, sig, term, launch, memory, kill, sweep, deaths>>

SupArms(r) ==
    /\ sup[r] = "spawned"
    /\ sup' = [sup EXCEPT ![r] = "loop"]
    /\ UNCHANGED <<tables, child, sig, term, launch, memory, kill, sweep, deaths>>

\* A line of output becomes events.  One is enough to tell a log apart from an
\* empty one, which is all the followers' decisions depend on.
SupEmits(r) ==
    /\ sup[r] = "loop"
    /\ log[r] = "empty"
    /\ log' = [log EXCEPT ![r] = "open"]
    /\ UNCHANGED <<row, watch, os, launch, memory, kill, sweep, deaths>>

\* The SIGTERM arm takes the signal: `terminating`, then stop() waits for the harness ...
SupTakesTerm(r) ==
    /\ sup[r] = "loop"
    /\ sig[r]
    /\ ~term[r]
    /\ term' = [term EXCEPT ![r] = TRUE]
    /\ sig' = [sig EXCEPT ![r] = FALSE]
    /\ UNCHANGED <<tables, sup, child, launch, memory, kill, sweep, deaths>>

\* ... and kills it when the grace runs out.
SupInsists(r) ==
    /\ sup[r] = "loop"
    /\ term[r]
    /\ child[r] = "running"
    /\ child' = [child EXCEPT ![r] = "signalled"]
    /\ UNCHANGED <<tables, sup, sig, term, launch, memory, kill, sweep, deaths>>

\* Both pipes are closed, which a harness may do before it ends.  The loop is not
\* looked at while stop() waits, and a signal still pending is not looked at after it.
SupPipesClose(r) ==
    /\ sup[r] = "loop"
    /\ term[r] => child[r] \in Outcome
    /\ sup' = [sup EXCEPT ![r] = "waiting"]
    /\ sig' = [sig EXCEPT ![r] = FALSE]
    /\ UNCHANGED <<tables, child, term, launch, memory, kill, sweep, deaths>>

\* Mutant: the end of the output is taken for the end of the harness.
SupDrainsEarly(r) ==
    /\ sup[r] = "waiting"
    /\ sup' = [sup EXCEPT ![r] = "drained"]
    /\ UNCHANGED <<tables, child, sig, term, launch, memory, kill, sweep, deaths>>

\* The harness has been waited for.
SupDrains(r) ==
    /\ sup[r] = "waiting"
    /\ child[r] \in Outcome
    /\ sup' = [sup EXCEPT ![r] = "drained"]
    /\ UNCHANGED <<tables, child, sig, term, launch, memory, kill, sweep, deaths>>

\* finalize(): is_error for a bad exit code or a harness that said so.  A
\* signalled harness has no exit code, so its Finished may be either.
Finished(r) == CASE child[r] = "ok"    -> {"ok"}
                 [] child[r] = "error" -> {"error"}
                 [] OTHER              -> {"ok", "error"}

SupFinishes(r) ==
    /\ sup[r] = "drained"
    /\ sup' = [sup EXCEPT ![r] = "finished"]
    /\ \E f \in Finished(r) : log' = [log EXCEPT ![r] = f]
    /\ UNCHANGED <<row, watch, child, sig, term, launch, memory, kill, sweep, deaths>>

\* Mutant: the harness's outcome is written as it stands.
EndStatusRaw(r) == IF term[r] THEN "killed" ELSE child[r]

EndStatus(r) == IF term[r] \/ child[r] = "signalled" THEN "killed"
                ELSE IF child[r] = "error" THEN "failed" ELSE "completed"

\* writer.set_status, after which the supervisor exits.
SupSettles(r) ==
    /\ sup[r] = "finished"
    /\ sup' = [sup EXCEPT ![r] = "exited"]
    /\ row' = SetStatus(r, EndStatus(r))
    /\ UNCHANGED <<watch, log, child, sig, term, launch, memory, kill, sweep, deaths>>

\* The supervisor alone is killed from outside (the OOM killer, an operator).
SupDies(r) ==
    /\ SupFaults
    /\ sup[r] \in SupLive
    /\ sup' = [sup EXCEPT ![r] = "dead"]
    /\ UNCHANGED <<tables, child, sig, term, launch, memory, kill, sweep, deaths>>

\* The harness ends by itself.
HarnessExits(r) ==
    /\ child[r] = "running"
    /\ \E c \in {"ok", "error"} : child' = [child EXCEPT ![r] = c]
    /\ UNCHANGED <<tables, sup, sig, term, launch, memory, kill, sweep, deaths>>

(***************************************************************************)
(* Following: runner::follow, the service's envelope loop, rehydrate.      *)
(***************************************************************************)
\* The follower reads new events; it stops once it has forwarded a Finished.
FollowPull(p, r) ==
    /\ follow[p][r]
    /\ chan[p][r] = "empty"
    /\ log[r] # "empty"
    /\ chan' = [chan EXCEPT ![p][r] = log[r]]
    /\ follow' = [follow EXCEPT ![p][r] = log[r] = "open"]
    /\ UNCHANGED <<tables, os, launch, mem, save, kill, sweep, deaths>>

\* The group has been gone for GRACE_POLLS_AFTER_GROUP_GONE polls, each of which
\* read everything stored: there is no Finished to wait for.
FollowGivesUp(p, r) ==
    /\ follow[p][r]
    /\ ~GroupAlive(r)
    /\ log[r] \in {"empty", "open"}
    /\ follow' = [follow EXCEPT ![p][r] = FALSE]
    /\ UNCHANGED <<tables, os, launch, mem, chan, save, kill, sweep, deaths>>

\* apply(): a Finished decides the status of a record that still says running.
Applied(status, event) ==
    IF status # "running" \/ event = "open" THEN status
    ELSE IF event = "ok" THEN "completed" ELSE "failed"

\* One envelope of the loop: fold it into memory, clone the summary, and append the
\* event again (a no-op unless the log was deleted) ...
ApplyEnvelope(p, r) ==
    LET event == chan[p][r]
        after == Applied(mem[p][r].status, event)
    IN  /\ event # "empty"
        /\ save[p][r] = Absent
        /\ chan' = [chan EXCEPT ![p][r] = "empty"]
        /\ log' = [log EXCEPT ![r] = IF event = "open" /\ @ # "empty" THEN @ ELSE event]
        /\ mem' = [mem EXCEPT ![p][r] = [status |-> after, pgid |-> @.pgid]]
        /\ save' = [save EXCEPT ![p][r] = [status |-> after, pgid |-> mem[p][r].pgid]]
        /\ UNCHANGED <<row, watch, os, launch, follow, kill, sweep, deaths>>

\* ... then save the summary, with the memory lock given back.
SaveSummary(p, r) ==
    /\ save[p][r].status # "absent"
    /\ row' = SaveRun(r, save[p][r].status, save[p][r].pgid)
    /\ save' = [save EXCEPT ![p][r] = Absent]
    /\ UNCHANGED <<watch, log, os, launch, mem, follow, chan, kill, sweep, deaths>>

\* Another process's run is picked up from its row: the recorded ending wins, then
\* the replayed events, then the probe, and only a live run is followed.
Rehydrate(p, r) ==
    LET told == IF row[r].status \in Terminal THEN row[r].status
                ELSE Applied("running", IF log[r] = "empty" THEN "open" ELSE log[r])
        alive == told = "running" /\ row[r].pgid /\ GroupAlive(r)
    IN  /\ mem[p][r].status = "absent"
        /\ row[r].status # "none"
        /\ mem' = [mem EXCEPT ![p][r] =
              [status |-> IF told = "running" /\ ~alive THEN "failed" ELSE told,
               pgid   |-> row[r].pgid]]
        /\ follow' = [follow EXCEPT ![p][r] = alive]
        /\ UNCHANGED <<tables, os, launch, chan, save, kill, sweep, deaths>>

(***************************************************************************)
(* Stopping: Jod::kill_agent and stop_one.                                 *)
(***************************************************************************)
\* kill_agent: a run that is not in memory is stopped only if its row and a probe
\* say it is still going.
KillAsk(p, r) ==
    /\ p \in Killers
    /\ kill[p].pc = "idle"
    /\ \/ mem[p][r].status # "absent"
       \/ row[r].status = "running" /\ row[r].pgid /\ GroupAlive(r)
    /\ kill' = [kill EXCEPT ![p] = [IdleKill EXCEPT !.pc = "asked", !.run = r]]
    /\ UNCHANGED <<tables, os, launch, memory, sweep, deaths>>

\* stop_one looks again, at memory before the row.
KillBegin(p) ==
    LET r    == kill[p].run
        held == IF mem[p][r].status # "absent" THEN mem[p][r] ELSE row[r]
    IN  /\ kill[p].pc = "asked"
        /\ kill' = [kill EXCEPT ![p] =
              IF held.status = "none" THEN IdleKill
              ELSE [pc   |-> IF held.pgid THEN "term" ELSE "mark",
                    run  |-> r,
                    was  |-> held.status = "running",
                    pgid |-> held.pgid]]
        /\ UNCHANGED <<tables, os, launch, memory, sweep, deaths>>

KillTerm(p) ==
    /\ kill[p].pc = "term"
    /\ SignalTerm(kill[p].run)
    /\ kill' = [kill EXCEPT ![p].pc = "wait"]
    /\ UNCHANGED <<tables, launch, memory, sweep, deaths>>

\* Mutant: the signal is taken for the death.
KillWaitsNot(p) ==
    /\ kill[p].pc = "wait"
    /\ kill' = [kill EXCEPT ![p].pc = "mark"]
    /\ UNCHANGED <<tables, os, launch, memory, sweep, deaths>>

\* terminate_group returns once the group is gone ...
KillWaits(p) ==
    /\ kill[p].pc = "wait"
    /\ ~GroupAlive(kill[p].run)
    /\ kill' = [kill EXCEPT ![p].pc = "mark"]
    /\ UNCHANGED <<tables, os, launch, memory, sweep, deaths>>

\* ... or insists when the grace has run out.
KillInsists(p) ==
    /\ kill[p].pc = "wait"
    /\ GroupAlive(kill[p].run)
    /\ SignalKill(kill[p].run)
    /\ kill' = [kill EXCEPT ![p].pc = "mark"]
    /\ UNCHANGED <<tables, launch, memory, sweep, deaths>>

\* The status: `killed`, if the run was going when asked and memory has not
\* learnt of another ending meanwhile.
KillMark(p) ==
    LET r     == kill[p].run
        known == mem[p][r].status # "absent"
        ended == kill[p].was /\ (known => mem[p][r].status \in {"running", "failed"})
    IN  /\ kill[p].pc = "mark"
        /\ kill' = [kill EXCEPT ![p] = IdleKill]
        /\ row' = IF ended THEN SetStatus(r, "killed") ELSE row
        /\ mem' = [mem EXCEPT ![p][r].status = IF ended /\ known THEN "killed" ELSE @]
        /\ UNCHANGED <<watch, log, os, launch, follow, chan, save, sweep, deaths>>

(***************************************************************************)
(* Sweeping: Ticker::tick_heartbeats at one run, and Jod::fail_agent.      *)
(***************************************************************************)
\* The heartbeat, then the run's row.
SweepRead(p, r) ==
    /\ p \in Sweepers
    /\ sweep[p].pc = "idle"
    /\ watch[r] \in {"run", "goal"}
    /\ sweep' = [sweep EXCEPT ![p] =
          [pc |-> "probe", run |-> r, for |-> watch[r],
           seen |-> IF row[r].status # "running" THEN "ended"
                    ELSE IF row[r].pgid THEN "running" ELSE "unborn"]]
    /\ UNCHANGED <<tables, os, launch, memory, kill, deaths>>

\* Past the decision neither the row that was read nor what is watched is looked at.
Decided(s, pc) == [IdleSweep EXCEPT !.pc = pc, !.run = s.run]

\* Ended: the watch is dropped.
SweepEnded(p) ==
    /\ sweep[p].pc = "probe"
    /\ sweep[p].seen = "ended"
    /\ sweep' = [sweep EXCEPT ![p] = Decided(@, "unwatch")]
    /\ UNCHANGED <<tables, os, launch, memory, kill, deaths>>

\* Mutant: the watch is dropped without the run having been failed.
SweepVanishedUnwatches(p) ==
    /\ sweep[p].pc = "probe"
    /\ \/ sweep[p].seen = "unborn"
       \/ sweep[p].seen = "running" /\ ~GroupAlive(sweep[p].run)
    /\ sweep' = [sweep EXCEPT ![p] = Decided(@, "unwatch")]
    /\ UNCHANGED <<tables, os, launch, memory, kill, deaths>>

\* Vanished: the row read says running and the group does not exist.
SweepVanished(p) ==
    /\ sweep[p].pc = "probe"
    /\ \/ sweep[p].seen = "unborn"
       \/ sweep[p].seen = "running" /\ ~GroupAlive(sweep[p].run)
    /\ sweep' = [sweep EXCEPT ![p] = Decided(@, "fail")]
    /\ UNCHANGED <<tables, os, launch, memory, kill, deaths>>

\* Beating, Quiet, or a stall that is only marked: the run goes on being watched.
SweepBeats(p) ==
    /\ sweep[p].pc = "probe"
    /\ sweep[p].seen = "running"
    /\ GroupAlive(sweep[p].run)
    /\ sweep' = [sweep EXCEPT ![p] = IdleSweep]
    /\ UNCHANGED <<tables, os, launch, memory, kill, deaths>>

\* Stalled or Expired on a goal's run: fail_agent terminates the group it knows,
\* from memory before the row.
SweepStalled(p) ==
    LET r    == sweep[p].run
        pgid == IF mem[p][r].status # "absent" THEN mem[p][r].pgid ELSE row[r].pgid
    IN  /\ sweep[p].pc = "probe"
        /\ sweep[p].seen = "running"
        /\ sweep[p].for = "goal"
        /\ GroupAlive(r)
        /\ sweep' = [sweep EXCEPT ![p] = Decided(@, IF pgid THEN "term" ELSE "fail")]
        /\ UNCHANGED <<tables, os, launch, memory, kill, deaths>>

SweepTerm(p) ==
    /\ sweep[p].pc = "term"
    /\ SignalTerm(sweep[p].run)
    /\ sweep' = [sweep EXCEPT ![p].pc = "wait"]
    /\ UNCHANGED <<tables, launch, memory, kill, deaths>>

SweepWaits(p) ==
    /\ sweep[p].pc = "wait"
    /\ ~GroupAlive(sweep[p].run)
    /\ sweep' = [sweep EXCEPT ![p].pc = "fail"]
    /\ UNCHANGED <<tables, os, launch, memory, kill, deaths>>

SweepInsists(p) ==
    /\ sweep[p].pc = "wait"
    /\ GroupAlive(sweep[p].run)
    /\ SignalKill(sweep[p].run)
    /\ sweep' = [sweep EXCEPT ![p].pc = "fail"]
    /\ UNCHANGED <<tables, launch, memory, kill, deaths>>

\* fail_agent's two writes: the row unconditionally ...
SweepFail(p) ==
    /\ sweep[p].pc = "fail"
    /\ row' = SetStatus(sweep[p].run, "failed")
    /\ sweep' = [sweep EXCEPT ![p].pc = "learn"]
    /\ UNCHANGED <<watch, log, os, launch, memory, kill, deaths>>

\* ... then memory, if it still says running.
SweepLearn(p) ==
    LET r == sweep[p].run
    IN  /\ sweep[p].pc = "learn"
        /\ mem' = [mem EXCEPT ![p][r].status = IF @ = "running" THEN "failed" ELSE @]
        /\ sweep' = [sweep EXCEPT ![p].pc = "unwatch"]
        /\ UNCHANGED <<tables, os, launch, follow, chan, save, kill, deaths>>

\* fail_agent returns the error of a store it could not read or write; the sweep notes
\* it, and drops the watch all the same.
SweepRefused(p) ==
    /\ StoreFaults
    /\ \/ sweep[p].pc = "fail"
       \/ sweep[p].pc = "term" /\ mem[p][sweep[p].run].status = "absent"
    /\ sweep' = [sweep EXCEPT ![p].pc = "drop"]
    /\ UNCHANGED <<tables, os, launch, memory, kill, deaths>>

SweepUnwatch(p) ==
    /\ sweep[p].pc \in {"unwatch", "drop"}
    /\ watch' = [watch EXCEPT ![sweep[p].run] =
                    IF sweep[p].pc = "drop" /\ @ # "none" THEN "refused" ELSE "none"]
    /\ sweep' = [sweep EXCEPT ![p] = IdleSweep]
    /\ UNCHANGED <<row, log, os, launch, memory, kill, deaths>>

\* Any other store error ends the sweep where it is; the watch stays.
SweepBreaksOff(p) ==
    /\ StoreFaults
    /\ sweep[p].pc \in {"probe", "unwatch", "drop"}
    /\ sweep' = [sweep EXCEPT ![p] = IdleSweep]
    /\ UNCHANGED <<tables, os, launch, memory, kill, deaths>>

(***************************************************************************)
(* Forgetting a finished run, and a Jod process dying.                     *)
(***************************************************************************)
\* Jod::forget_agent and Store::delete_run: refused while either says running.
Forget(p, r) ==
    /\ Forgets
    /\ mem[p][r].status # "running"
    /\ row[r].status # "running"
    /\ row[r].status # "none" \/ mem[p][r].status # "absent"
    /\ IF row[r].status = "none" THEN UNCHANGED tables
       ELSE /\ row' = [row EXCEPT ![r] = [status |-> "none", pgid |-> FALSE]]
            /\ watch' = [watch EXCEPT ![r] = "none"]
            /\ log' = [log EXCEPT ![r] = "empty"]
    /\ mem' = [mem EXCEPT ![p][r] = Absent]
    /\ UNCHANGED <<os, launch, follow, chan, save, kill, sweep, deaths>>

\* Memory, followers, permits and whatever was in flight go with the process; the
\* supervisors and the tables stay.
Crash(p) ==
    /\ deaths < MaxDeaths
    /\ deaths' = deaths + 1
    /\ mem' = [mem EXCEPT ![p] = [r \in Runs |-> Absent]]
    /\ follow' = [follow EXCEPT ![p] = [r \in Runs |-> FALSE]]
    /\ chan' = [chan EXCEPT ![p] = [r \in Runs |-> "empty"]]
    /\ save' = [save EXCEPT ![p] = [r \in Runs |-> Absent]]
    /\ kill' = [kill EXCEPT ![p] = IdleKill]
    /\ sweep' = [sweep EXCEPT ![p] = IdleSweep]
    /\ launch' = [r \in Runs |->
          IF launch[r].by = p THEN [pc |-> "lost", by |-> p, permit |-> FALSE]
          ELSE launch[r]]
    /\ UNCHANGED <<tables, os>>

LaunchStep(r) ==
    \/ Acquire(r) \/ SpawnSupervisor(r) \/ LaunchError(r) \/ RecordError(r)
    \/ RecordProcess(r) \/ Publish(r) \/ PublishPanics(r) \/ WatchRun(r) \/ WatchForGoal(r)
    \/ WatchRefused(r) \/ GoalWatchRefused(r) \/ ReleasePermit(r)

SupStep(r) ==
    \/ SupBootFails(r) \/ SupSpawnFails(r) \/ SupSpawnsHarness(r) \/ SupArms(r)
    \/ SupEmits(r) \/ SupTakesTerm(r) \/ SupInsists(r) \/ SupPipesClose(r)
    \/ SupDrains(r) \/ SupFinishes(r) \/ SupSettles(r)

KillStep(p) ==
    KillBegin(p) \/ KillTerm(p) \/ KillWaits(p) \/ KillInsists(p) \/ KillMark(p)

SweepStep(p) ==
    \/ SweepEnded(p) \/ SweepVanished(p) \/ SweepBeats(p) \/ SweepStalled(p)
    \/ SweepTerm(p) \/ SweepWaits(p) \/ SweepInsists(p) \/ SweepFail(p)
    \/ SweepLearn(p) \/ SweepRefused(p) \/ SweepUnwatch(p) \/ SweepBreaksOff(p)

ProcStep(p, r) ==
    \/ Register(p, r) \/ FollowPull(p, r) \/ FollowGivesUp(p, r) \/ ApplyEnvelope(p, r)
    \/ SaveSummary(p, r) \/ Rehydrate(p, r) \/ KillAsk(p, r) \/ SweepRead(p, r)
    \/ Forget(p, r)

Next ==
    \/ \E r \in Runs : LaunchStep(r) \/ SupStep(r) \/ SupDies(r) \/ HarnessExits(r)
    \/ \E p \in Procs : KillStep(p) \/ SweepStep(p) \/ Crash(p)
    \/ \E p \in Procs, r \in Runs : ProcStep(p, r)

Spec == Init /\ [][Next]_vars

\* A process that is alive goes on with what it started, a supervisor with its
\* run, and a daemon's sweep comes round to every watched run each minute.  A
\* harness ends sooner or later unless somebody is expected to stop it.
Fairness ==
    /\ \A r \in Runs : /\ WF_vars(LaunchStep(r))
                       /\ WF_vars(SupStep(r))
                       /\ WF_vars(HarnessExits(r))
    /\ \A p \in Procs : WF_vars(KillStep(p)) /\ WF_vars(SweepStep(p))
    /\ \A p \in Sweepers, r \in Runs : SF_vars(SweepRead(p, r))

FairSpec == Spec /\ Fairness

(***************************************************************************)
(* Properties.                                                             *)
(***************************************************************************)
RowRec    == [status : RowStatus, pgid : BOOLEAN]
MemRec    == [status : MemStatus, pgid : BOOLEAN]
LogState  == {"empty", "open", "ok", "error"}
LaunchRec == [pc : LaunchPC, by : Procs \cup {NoProc}, permit : BOOLEAN]
KillRec   == [pc : StopPC, run : Runs \cup {NoRun}, was : BOOLEAN, pgid : BOOLEAN]
SweepRec  == [pc : SweepPC, run : Runs \cup {NoRun}, seen : {"none", "ended", "running", "unborn"},
              for : Watching]

TablesOK == /\ row \in [Runs -> RowRec]
            /\ watch \in [Runs -> Watching]
            /\ log \in [Runs -> LogState]

OsOK == /\ sup \in [Runs -> SupState]
        /\ child \in [Runs -> Outcome \cup {"none", "running"}]
        /\ sig \in [Runs -> BOOLEAN]
        /\ term \in [Runs -> BOOLEAN]

MemoryOK == /\ mem \in [Procs -> [Runs -> MemRec]]
            /\ follow \in [Procs -> [Runs -> BOOLEAN]]
            /\ chan \in [Procs -> [Runs -> LogState]]
            /\ save \in [Procs -> [Runs -> MemRec]]

LaunchOK == /\ launch \in [Runs -> LaunchRec]
            /\ \A r \in Runs : launch[r].pc # "new" => launch[r].by \in Procs

KillOK == /\ kill \in [Procs -> KillRec]
          /\ \A p \in Procs : kill[p].pc # "idle" => kill[p].run \in Runs

SweepOK == /\ sweep \in [Procs -> SweepRec]
           /\ \A p \in Procs : sweep[p].pc # "idle" => sweep[p].run \in Runs

\* Every variable keeps to its vocabulary, a launch that was begun has a process,
\* and a stop or a sweep that is under way has a run.
TypeOK ==
    /\ TablesOK
    /\ OsOK
    /\ MemoryOK
    /\ LaunchOK
    /\ KillOK
    /\ SweepOK
    /\ deaths \in 0..MaxDeaths

\* The harness has ended.
Over(r) == child[r] \in Outcome

\* No row and no process's memory calls a run completed while its harness is
\* going: set_status comes after the child was waited for, and a follower infers
\* `completed` only from the Finished event that comes after it too.
CompletedIsOver ==
    \A r \in Runs : /\ row[r].status = "completed" => Over(r)
                    /\ \A p \in Procs : mem[p][r].status = "completed" => Over(r)

\* When kill_agent has signalled a run and comes to write its status, the run's
\* supervisor is gone for good: nothing overwrites the status it writes.
StoppedMeansStopped ==
    \A p \in Procs : kill[p].pc = "mark" /\ kill[p].pgid => ~GroupAlive(kill[p].run)

\* A run that reads running and is not watched is one still being launched, or one
\* whose launch broke off, or one the store refused to have watched or reaped: no
\* sweep, stop or late summary leaves another where nobody will notice that its
\* supervisor died.
WatchedWhileRunning ==
    \A r \in Runs : row[r].status = "running" /\ watch[r] = "none" =>
        \/ launch[r].pc \in {"queued", "permitted", "spawned", "recorded", "published"}
        \/ launch[r].pc \in {"lost", "panicked"}

\* One process never has more supervisors alive than it has permits, however its
\* runs ended: the permit is held until the group is gone.
ConcurrencyCap ==
    \A p \in Procs :
        Cardinality({r \in Runs : /\ launch[r].by = p
                                  /\ launch[r].pc # "lost"
                                  /\ GroupAlive(r)}) <= MaxConcurrent

KeepsEnding == \A r \in Runs : row[r].status \in Terminal => row'[r].status # "running"

\* A row that says how a run ended never says running again: the guard in
\* save_run against the followers of other processes.
StatusNeverReopens == [][KeepsEnding]_vars

\* What a reader of the store or of a process's memory may rely on.
Heard(status) == IF status \in {"none", "absent"} THEN "unknown" ELSE status

Work(state) == CASE state = "none" -> "none" [] state = "running" -> "going" [] OTHER -> "over"

View == INSTANCE RunView WITH
            Readers <- Procs,
            work    <- [r \in Runs |-> Work(child[r])],
            record  <- [r \in Runs |-> Heard(row[r].status)],
            belief  <- [p \in Procs |-> [r \in Runs |-> Heard(mem[p][r].status)]]

\* The whole machinery shows its readers no more than RunView allows: a run is
\* said to run once, to have completed only when its harness is over, and is not
\* dropped while it is said to run, neither by the row nor by any process.
ImplementsRunView == View!Spec

\* A run does not read running for ever, while the store takes what is written: its
\* supervisor settles it, or the sweep notices that the supervisor cannot.
EventuallySettled ==
    \A r \in Runs : row[r].status = "running" ~> row[r].status # "running"

(***************************************************************************)
(* Why the first two hold: what the steps before them leave behind.        *)
(***************************************************************************)
\* A supervisor exists from the spawn on, never before.
LaunchInv ==
    \A r \in Runs :
        /\ launch[r].pc \in {"new", "queued", "permitted"} => sup[r] = "none"
        /\ launch[r].pc \in {"spawned", "recorded", "published", "done", "goal"} => sup[r] # "none"

\* A harness starts with its supervisor's boot and is over when it was waited for.
OsInv ==
    \A r \in Runs :
        /\ sup[r] \in {"none", "boot"} => child[r] = "none"
        /\ sup[r] \in {"drained", "finished", "exited"} => Over(r)

\* A Finished event is the harness's last, wherever it has got to.
LogInv ==
    \A r \in Runs :
        /\ log[r] \in {"ok", "error"} => Over(r)
        /\ \A p \in Procs : /\ chan[p][r] \in {"ok", "error"} => Over(r)
                            /\ save[p][r].status = "completed" => Over(r)

\* A pgid, wherever it is held, is that of a supervisor that was started.
PgidInv ==
    \A r \in Runs :
        /\ row[r].pgid => sup[r] # "none"
        /\ \A p \in Procs : mem[p][r].pgid \/ save[p][r].pgid => sup[r] # "none"

KillInv ==
    \A p \in Procs : kill[p].pc # "idle" /\ kill[p].pgid => sup[kill[p].run] # "none"

\* The inductive invariant: launching, supervising, following and stopping keep to
\* the order that makes `completed` and `stopped` mean what they say.
IInv ==
    /\ TypeOK
    /\ LaunchInv
    /\ OsInv
    /\ LogInv
    /\ PgidInv
    /\ KillInv
    /\ CompletedIsOver
    /\ StoppedMeansStopped
=============================================================================
