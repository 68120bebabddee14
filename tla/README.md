# Jod: a TLA+ verification project

Jod starts coding agents ("harnesses") as detached processes, follows them from
several programs at once (a console, an HTTP API, a daemon), lets them write to
each other, and starts them again on schedules and for goals. It is written in
Rust: `core/` is the library, `supervisor/` the process that owns one run, `cli/`
the commands and the console, `api/` the HTTP server. All of them meet in one
SQLite file in which every write is one `BEGIN IMMEDIATE` transaction
(`docs/decisions.md`, "One SQLite file").

That shapes the models. There is no message passing between Jod's processes: a
process reads a row, goes away (an `await`, a signal, a spawn), comes back and
writes. Each store call is atomic; nothing that takes two of them is. Therefore

* a step of a module is one store transaction, one write of a process's own
  memory, or one signal or spawn;
* between two of them any other actor may move;
* a process may die between any two of them where the module has a `Crash`.

Paths and line numbers below are relative to the repository root.

## 1. Inventory

| Component | State | Operations | Hard part | What makes it correct |
|---|---|---|---|---|
| Run launching (`core/src/service.rs`, `runner.rs`) | `runs` row, `AgentRecord` in each process, permits | `spawn_agent_in`, `launch`, `set_run_process` | registered before it is queued, watched after it was started; every gap can fail or be killed | never more supervisors than permits; a stopped run is not started |
| Supervisor (`supervisor/src/main.rs`) | the process, its `terminating`, the event log | boot, spawn, loop, stop, wait, finish, settle | signals before the handlers exist and after the loop ended | `completed` only when the harness is over |
| Following (`runner::follow`, `Jod::build`, `rehydrate`) | memory, follower tasks | poll, apply, save, rehydrate | a summary is cloned under a lock and saved without it | a terminal status is never reopened |
| Stopping (`kill_agent`, `stop_one`, `proc.rs`) | signals | TERM, grace, KILL, mark | memory is stale; the run ends meanwhile | when the status is written the group is gone |
| Heartbeats (`heartbeat.rs`, `tick_heartbeats`, `fail_agent`) | `heartbeats` | read, probe, fail, unwatch | three reads and two writes, not one transaction | a run never reads running for ever; a running run is watched |
| Team mail (`team.rs`, `mcp.rs`, `ticker.rs`) | `team_messages`, `team_members` | post, read, ask, wake, take, start | the prompt is a snapshot, the spawn is awaited, then the mail is taken | a message is put before one turn, within the budget, and mail that waits is tried until it is |
| Deliveries (`delivery.rs`, `tick_deliveries`, `deliver_reports`) | `pending_deliveries` | hand over, plan, carry, settle | two processes plan from the same rows | said once, nothing marked said that was not |
| Schedules (`schedule.rs`, `ticker.rs`, `store.rs`) | `schedules`, `schedule_fires` | claim, decide, carry out, release, pause/arm, run now | leases, late endings, outages, a person in the middle of a pass | an instant runs once; failures are counted once; the breaker holds |
| Goals (`ticker.rs`, `schedule.rs`, `store.rs`) | `goals`, the `current-run` and `done-when` facts | claim, settle, check, advance, spawn, release; pause, resume, run now, delete | the claim is cleared inside the tick; the pointer and the row change apart | one iteration at a time that can be read, limits hold, each iteration is billed, once |
| Leases (`leases.rs`, `roots.rs`) | `leases`, `lease_sharers`, writable roots, worktrees on disk | claim, share, release, remove | the row and the directory change apart, and git has the last word | no uncommitted work is lost; row and tree agree; no tree goes from under a sharer |
| Works (`works.rs`, `tick_works`, `prepare_work`) | `works`, tasks with their paths, members | open, plan, complete, close, refresh, delete | closing is five writes; plans and turns come in between; the first task gets its files late and unasked | plans give no file two owners; a finished work closes; a running session is left alone |
| Cards (`cards.rs`, `ask_question`) | cards, their deliveries | ask, poll, answer, dismiss, deliver, give up | the poll, the daemon and a closing race for one answer | an answer is marked told only when a run has it, and is not left lying |
| Cascade (`cascade_stop`, `resume_cascade`) | conversation tree, `cascaded_stops` | delegate, stop the branch, record, continue, bring back | children are born while the tree is stopped; a stop may signal nothing and succeed; two resumes race | all of the branch that can be stopped; what can be started comes back, once |
| Approvals (`approvals.rs`), API idempotency, monitors | requests, keys, probes | ask, decide, poll, expire | a decision racing a timeout; a retry racing its original | decided once, heard once; one effect per key |
| Conversations, pull requests, ledger, webhooks, recall, Telegram, secrets, harness adapters, API, update | tables of their own, files, external services | | | listed in `PROJECT.json` with what is and is not modelled |

**Interactions.** Launch creates a run; supervisor, followers, stop and sweep
share its row. A wake, a delivery, a fire of a schedule and an iteration of a
goal all are launches; their components look at the run again only through its
status. `RunView` is that contract, said in sixty lines: work that begins and
ends, a record everybody shares, and what each process believes of it.
`RunLifecycle` is shown to implement it; `TeamMail`, `Schedules`, `Goals`,
`Cascade`, `Leases` and `Works` take a run as something that is started, goes on
and ends, which is what `RunView` lets them see. A work holds leases, so deleting
a work is in `Leases`, where its effect is; closing one is in `Works`.

## 2. Plan

Done: `RunLifecycle` and the abstract `RunView` it implements, `TeamMail`,
`Schedules`, `Leases`, `Works` (with cards), `Goals`, `Cascade`; and the theorems
about all of them (section 6), which state every safety property a run checks. Left,
in this order:

1. API idempotency and approvals: a key, or a decision, against a retry and a
   timeout. Monitors: the probe in front of a fire.
2. Two tickers in `Schedules`, so that a pass outlives its lease; `jod team wake`
   and a `team start` that dies in `TeamMail`.
3. Abstract specifications beyond `RunView`: a *mailbox that hands each message to
   one turn*, a *cron that fires each instant at most once*.

## 3. Modules

### RunLifecycle

One variable per table column or process that decides something: `row`, `watch`
and `log` are the tables; `sup`, `child`, `sig`, `term` the operating system;
`launch` is the program counter of `spawn_agent_in` with its permit; `mem`,
`follow`, `chan`, `save` are what each Jod process holds of a run; `kill` and
`sweep` are stops and sweeps under way.

| Actions | Code |
|---|---|
| `Register` … `ReleasePermit`, `FailLaunch`, `PublishPanics` | `Jod::spawn_agent_in`, `runner::launch`, the permit watcher |
| `WatchRun`, `WatchRefused`, `WatchForGoal`, `GoalWatchRefused` | `watch_run` at the end of `spawn_agent_in` and again in `Ticker::spawn_iteration`, and the store refusing it, which is logged |
| `SupBootFails` … `SupSettles` | `supervisor/src/main.rs`, `run`, `stop`, `pump` |
| `FollowPull`, `FollowGivesUp`, `ApplyEnvelope`, `SaveSummary`, `Rehydrate` | `runner::follow`, `Jod::build`, `apply`, `Jod::rehydrate` |
| `KillAsk` … `KillMark` | `kill_agent`, `stop_one`, `terminate_group` |
| `SweepRead` … `SweepUnwatch`, `SweepRefused`, `SweepBreaksOff` | `tick_heartbeats`, `heartbeat::decide`, `fail_agent`; `fail_agent` returning an error, after which the watch is dropped all the same; a store error that ends the sweep |
| `Forget`, `Crash`, `SupDies`, `HarnessExits` | `forget_agent`; the world |

The event log is abstracted to *empty*, *some events*, *Finished*: no decision
depends on more. Clocks are abstracted to choice: a grace may run out at any
time, a beat may be judged stalled at any time. Registration (memory and row),
removal of a finished run, and the writes made under the memory lock are one
step each. `watch` is *refused* for a run whose watch the store did not take, or
whose reaping failed.

### TeamMail

`msgs` is `team_messages` in id order with both of its columns, the `delivered` flag
and the state; `member` is `team_members`; `runs` says for each turn what it was
told (`prompt`), what it has read, and which reads it has not marked yet (`taking`);
`queue` is the main chat's `pending_deliveries`; `pass` is where each daemon or
console is in its pass, with the snapshot it works from.

| Actions | Code |
|---|---|
| `Post`, `TeamMsg`, `DrainInbox`, `MarkMailDelivered`, `AskAnswered` | `Store::post`, `send_team_message`; MCP `read_messages` (two transactions), `ask` |
| `TeamStart`, `TeamStartBusy`, `TeamStartBinds` | `TeamCommand::Start` |
| `SettleMembers`, `SettleBinds`, `SettleFrees`, `SettleFails`, `MailWaiting`, `HandToConversation`, `LeaveAsleep`, `ClaimWake`, `SpawnWake`, `SpawnFails`, `TakeMail`, `WakeBusy`, `WakeBinds`, `WakeFails` | `tick_mail`, `settle_members`, `wake`, and a store call of theirs that fails |
| `PlanInjection`, `DeliverNothing`, `Carry`, `CarryFails`, `MarkDelivered` | `tick_deliveries`, `delivery.rs` |
| `DeliverReports` | `deliver_reports` of the console |

Bodies are left out: a message is its row number. One team in `Scope::Team`; a
run's session is known, or known to be missing, when it ends. One step each are: the
reads that open a pass (`settle_members`' look at members and runs, `mail_waiting`),
and the console's collect and plan. `faults` counts passes that die, or whose write
fails, half way. Left out: `Scope::Work`, the human's inbox, `jod team wake`, `mail_held`,
membership changes, card answers on the same queue.

`Told` is whom the rows of an attempt name: each recipient of one that is queued,
the first recipient, or nobody, of one that is refused. `QueuedRows` are the rows
of one hand-over; no step tells their order apart, so they come in any.

### Schedules

`row` is the schedule's row, `fires` its ledger, `runs` the status of what it
started, `pass` where each ticker is between `claim_due_schedules` and
`release_schedule`, with the row as it was claimed. Time is counted in the
schedule's own instants, so the cron expression is due at each natural number and a
minute of backoff is one instant. `Missed`, `Decide`, `CaughtUp`, `Settle` and
`Backoff` are the pure functions of the code with their policies. The missed
instants and the decisions about them are sets, carried out by instant, since there
is one decision an instant. The walk of `settle` is said by what it comes to: it
stops at the first run that is still going (`Judged`), and the count is the failures
among those judged since the last run that completed, on top of the count so far
when none did (`Walked`). The schedule has no monitor. `running_run` asks the
process's memory for a run's status; here it reads the status itself. `RecordFails`
is a `record_fire`, or another store call, that fails after the spawn or the stop it
was to record: the pass goes to its *spawn failed* arm, whether or not that can be
recorded either. `StopPredecessor` is a `stop_one` that may succeed without ending
the run.

### RunView

The abstract specification. `work` is the harness, `record` the shared row,
`belief` what each process says. Its one rule is `MaySay`: *running* is said only
of a run not heard of before, *completed* only of work that is over, and a run
that is said to run is not dropped without an ending. `RunLifecycle` instantiates
it as `View`, with `child` for the work, the row's status for the record and the
memories for the beliefs.

### Leases

`work`, `sess`, `lease`, `sharers`, `roots` are the tables; `tree` and `ahead` are
the worktree and its branch on disk; `op` is where each session is in a claim, a
share or a release; `del` and `armed` are a deletion
and its confirmation (the set of leases it was shown, empty when nothing is armed). One
repository, so a work holds at most one lease.

| Actions | Code |
|---|---|
| `OpenWork`, `AttachConversation`, `SpawnOntoFirstTask` | `prepare_work`, `attach_conversation`, `spawn_onto_first_task` |
| `ClaimWorktree`, `ClaimLook`, `ClaimReserve`, `ClaimCut`, `ClaimUndo`, `BindLeaseRoots` | `claim_worktree`, `claim_lease`, `bind_lease_roots` |
| `ShareLook`, `RefuseACollision`, `ShareJoin` | `share_lease`, `refuse_a_collision_in` |
| `ReleaseWorktree`, `KeptForASharer`, `ConditionStatus`, `ConditionMerged`, `RemoveWorktreeOf`, `RemoveRoot`, `MarkLease` | `release_lease`, `lease_condition`, `remove_worktree_of`, `mark_lease` |
| `CompleteTask`, `PreviewDeletion`, `DeleteWork`, `ConfirmationExpires`, `DeleteTx` | `complete_work_task`, `work_deletion_preview`, `delete_work`, `armed_deletion` |
| `Edit`, `Commit`, `Merge`, `Die` | agents, git and the kernel |

git is modelled by what the code relies on: `worktree remove` without `--force`
refuses a tree with changes, `status` and `rev-list` report it as it is at that
moment. In production only `prepare_work` attaches sessions; `AttachConversation`
stands for a second session of the same work. Left out, because nothing in the program
calls them (tests do): `Store::unshare_lease`, by which a sharer steps out, and
`Store::remove_worktree`, which is `release_lease` without the check that the lease is
not removed yet and without marking an unsafe one released. One step each: the git
calls of a preview, one for each lease, whose answers only change its text; and in
`bind_lease_roots` the calls after `add_root`, which turn the repository itself into a
root to read, which the model does not keep (that one of them fails it does have).

### Works

`state` is the work's column, `board` and `owns` its tasks, `member` and `runs` its
sessions, `answer`, `asking` and `heard` a question card with its delivery, and
`at` is where each session, the daemon and the person are in `close_work`,
`refresh_work_state` or `tick_deliveries`. `opening` is whether `open_work` has
given the first task its files yet, and what was planned before that:
`SpawnOntoFirstTask` comes after the agent was started and asks nobody who owns
them. A task that is done keeps its paths; `plan_work` asks the open ones.

The poll of `ask_question` is three steps: it reads the answer (`AskPoll`), settles its
delivery, which may fail (`AskSettles`), and returns (`AskReturns`); its run may end
before each. `DeliverFails` is a turn that cannot be started, as often as it likes.

A path is a sequence of components; `Tidy` (what is left of it without its dots),
`Lowered`, `Covers` and `Overlapping` are the functions of the code on it, and
`MCPaths` spells one file in two ways, one of them inside the other's directory.

### Goals

`goal` is the row, `current` the `current-run` fact, `printed` whether a check's
fingerprint is remembered, `pass` where each ticker is in `tick_goals`. Time is two
bits, *due* and *lapsed*; a run costs one unit, or nothing when it can no longer be
read. `charged` counts how often each run was paid for, for the properties only.
Every store call of `tick_goals` is a step, so a person's order may fall between
any two.

`tick_goals` asks its process's memory for a run, not the row. Here a run in memory is
read as it is, although a memory may lag behind the row (`RunLifecycle` has that); a
run that memory does not have, for instance outside the window that is rehydrated, is
*adrift* while it goes on and *lost* once it is over (`LoseRun`), and either is settled
as an iteration that is over.

### Cascade

`runs` with their conversations, `parent` the tree, `unhung` the delegations whose
child is not hung under its parent yet, `rows` the table `cascaded_stops`, `op`
where each client is in a stop or a resume: `todo` is the list it works through, of
runs or of rows, as a set taken from its smallest member on, and `cur` what it has in
hand (`BackToList` puts it down).

A run is its row's `status`, whether its process is `alive`, and what its harness has
`said`: nothing, a first message, by which `conversation_for_run` and
`running_runs_in` find it, or a session id, without which it cannot be resumed
(`Speaks`). `RowSettles` and `RunEnds` are the supervisor. How one run is stopped is a
matter of `RunLifecycle`; here `Stopped` is what `stop_one` comes to: it signals the
group or knows none (`signals`, and then `missed`), and writes the row or fails to
(`marks`), and succeeds in each case. Reads of a walk, stops, records, claims and
spawns may fail (`Fails`). `MaxReports` bounds what harnesses say after the start.

## 4. Runs

All are in `PROJECT.json`. Passing:

| Run | Bounds | Shows |
|---|---|---|
| `stops` | one goal run, launched and killed by one process and swept by another, store and supervisor faults | type invariant, `CompletedIsOver`, `StoppedMeansStopped`, `WatchedWhileRunning`, `StatusNeverReopens` |
| `permits` | two runs, one permit, one process that may die once, supervisors that may die, `forget_agent` | `ConcurrencyCap` |
| `settles` | one run, a launching process and a sweeping one, supervisors that may die; with fairness | `EventuallySettled` |
| `mail` | one member and the main chat, a daemon and a console, budget 1, depth 1, two messages, one order of a person, one death or failed write; with fairness | type invariant with flag and state in step, `WokenOnce`, `TurnsWithinBudget`, `SettledWasCarried`, `MainMailKept`, `MailIsTried` |
| `fires` | three instants, lease 1, grace 1, replay 2, breaker 2, every policy, one order of a person, one death or failed write | type invariant, `InstantRunsOnce`, `SettledAreOver`, `CountIsEarned`, `BreakerHolds` |
| `leases` | two works, two sessions, one lease, one file, deletions, two deaths; symmetric | type invariant with the foreign keys, `HeldHasTree`, `OrphansWereShown`, `DirtyTreeStays`, `SharersKeepTheTree` |
| `works` | one session, a first task and a planned one with overlapping paths, one extra turn or order; with fairness | type invariant, `OwnersDisjoint`, `RunningLeftAlone`, `MarkedWhenHeld`, `AnswersAreTried`, `ClosesInTheEnd` |
| `goals` | one ticker, an iteration limit of two or of zero, budget 2, stall after 2, two orders of a person, one death or failed spawn; with fairness | type invariant, `OneInFlight`, `LimitHolds`, `PaidOnce`, `EveryRunIsBilled` |
| `cascade` | main, manager and worker, one conversation that is opened on the way, two clients, six runs, one stop, two reports, one fault; symmetric | type invariant, `RecordedIsStopped`, `ReplacedOnce`, `BranchIsDown`, `BranchComesBack` |

`permits` also checks the refinement `ImplementsRunView`.

Violations, each a sentence of the repository that the code does not keep:

| Run | Sentence | What happens |
|---|---|---|
| `counted_twice` | `ticker.rs:1327` "a goal never has two runs in flight and its spend is counted once" | a goal that stalled keeps its `current-run`; a person resumes it, and the next tick settles and charges that run again |
| `unheard` | `mcp.rs:2647` "the answer *is* in the caller's hands by the time this runs" | the answer is marked delivered before the call has returned it; the run that asked is stopped in between, and nobody says it again |
| `stays_down` | `docs/jod-system.md:102` "Continuing a stopped agent starts its workers again." | `continue_agent` refuses a killed run, so what its stop took down stays down however often it is asked for |

**Why the bounds are enough.** A hazard of this code is two or three actors and
one stale read; each run has the actors, and room for the read to become stale
more than once. In `stops` the two processes are the launcher (also the one that
stops) and the sweeper, and both follow; a third process would repeat one of
them. `permits` needs two runs for one permit. `mail` needs two messages: one
that a pass knows of and one it does not; budget 1 makes the second one of an
agent's the one that must bounce. In `fires` a replay cap of 2 and three instants
make an outage longer than the cap, and a breaker at 2 is reached by two failed
runs or by one and a spawn that failed. `leases` needs a holder and another
session; a second work makes the other one a borrower, and two deaths leave a
reservation behind and then interrupt whoever meets it. `works` needs a task that
is planned while another is open, and a turn that starts while the work is closed.
`goals` needs an iteration after the limit's last one, and two orders: one to pause
and one to resume. `cascade` needs a branch of two levels below the one that is
stopped, a child that is born meanwhile, and two clients to race.

**What is excused.** Where the code leaves a window open, a property says so and is
checked of everything else; section 7 has what happens in the window.
`WatchedWhileRunning`: launches whose process died or panicked, and watches or reapings
the store refused. `WokenOnce`, `InstantRunsOnce`, `PaidOnce`: passes that died or whose
write failed half way. `SharersKeepTheTree`: a share granted after the release asked.
`OrphansWereShown`: a worktree claimed after the preview. `OwnersDisjoint`: tasks planned
before the first task got its files (`PlannedBlind`). `RunningLeftAlone`: a turn that
started after the closing looked. `OneInFlight`: a run the process cannot read.
`RecordedIsStopped` and `BranchIsDown`: a stop that knew no process group (`missed`), and
of the latter stops and reads that failed. `BranchComesBack`: runs without a session, or
that read running still, and claims that could not be written.

Each property is broken by its mutant (see
`PROJECT.json`) within the same bounds, so the case it is about does occur.

**Symmetry** is used where the members of a set have the same part: works,
sessions and leases in `leases`, clients in `cascade`, neither of which checks
liveness. The processes of the other runs have different parts.

**Deadlock** is not checked: when every run is over and the bounds are used up
the modelled system has nothing left to do.

## 5. Fairness

* `RunLifecycle`: weak fairness of a launch, of a supervisor, of a harness that
  ends, and of a stop or sweep under way: all are code that runs without
  waiting for anybody but the group's death. Strong fairness of `SweepRead`: the
  daemon comes round to every watched run each minute, whatever it did between.
  Nothing is asked of a person, of `Rehydrate`, or of a follower.
* `TeamMail`: weak fairness of the daemon's own steps, whatever its spawns answer,
  and of the wake interval (real time). A turn need not end: the heartbeat only marks
  a woken run that stalls (`heartbeat.rs:454`); nor need a spawn ever succeed. Nothing
  is asked of a person, of an agent that could read its mail, of a console or of a
  `team start`. So the promise is that mail is *tried* again and again, not that it is
  taken (`MailIsTried`), and it does not speak of a member whose turn goes on.
* `Works`: weak fairness of the daemon's own steps. A turn need not end, a row may
  read running for ever, a carry may fail each time, and nobody has to answer, plan
  or close; `AnswersAreTried` and `ClosesInTheEnd` are about sessions that are idle.
* `Goals`: weak fairness of the daemon's pass while no check of it is out, and of the
  clock (an instant comes, a lease lapses). A check has no deadline
  (`ticker.rs:2479`), so `EveryRunIsBilled` has it as a hypothesis that the checks come
  back; a run may go on for ever, and nothing is asked of a person.
* `Cascade`: weak fairness of a stop or a resume that was begun; nobody has to
  begin one.

## 6. Proofs

Eight modules of proofs, one per component (`RunLifecycle` has two). Every theorem
is for any value of the constants that the module's assumption allows: any number
of runs, processes, sessions, conversations and clients, any limits and budgets,
any number of deaths, faults and orders. What the assumptions ask is that the
*none* values are none of the values, that bounds are natural numbers, and that the
sets that are counted are finite.

| Module | Theorem | Shows | Under |
|---|---|---|---|
| `RunLifecycleProofs` | `TypeCorrect`, `Inductive` | `TypeOK`, `IInv` | |
| | `CompletedCorrect` | `CompletedIsOver` | |
| | `StopCorrect` | `StoppedMeansStopped` | |
| | `NeverReopens` | `StatusNeverReopens` | |
| `RunViewProofs` | `RunViewImplemented` | `ImplementsRunView` | |
| | `WatchedCorrect` | `WatchedWhileRunning` | `~Forgets` |
| | `CapCorrect` | `ConcurrencyCap` | `~StoreFaults` |
| `GoalsProofs` | `TypeCorrect` | `TypeOK` | |
| | `OneInFlightCorrect` | `OneInFlight` | one ticker, in the property |
| | `LimitCorrect` | `LimitHolds` | one ticker, in the property |
| | `PaidOnceCorrect` | `PaidOnce` | one ticker and no fault, in the property |
| `CascadeProofs` | `TypeCorrect` | `TypeOK` | |
| | `RecordedCorrect` | `RecordedIsStopped` | |
| | `BranchDownCorrect` | `BranchIsDown` | |
| | `BranchBackCorrect` | `BranchComesBack` | |
| | `ReplacedCorrect` | `ReplacedOnce` | |
| `LeasesProofs` | `TypeCorrect` | `TypeOK` | |
| | `HeldCorrect` | `HeldHasTree` | |
| | `DirtyCorrect` | `DirtyTreeStays` | |
| | `SharersCorrect` | `SharersKeepTheTree` | |
| | `OrphansCorrect` | `OrphansWereShown` | |
| `WorksProofs` | `TypeCorrect` | `TypeOK` | |
| | `RunningCorrect` | `RunningLeftAlone` | |
| | `MarkedCorrect` | `MarkedWhenHeld` | |
| | `OwnersCorrect` | `OwnersDisjoint` | |
| `TeamMailProofs` | `TypeCorrect` | `TypeOK` | |
| | `CarriedCorrect` | `SettledWasCarried` | |
| | `KeptCorrect` | `MainMailKept` | |
| | `WokenCorrect` | `WokenOnce` | one ticker; no fault, in the property |
| | `BudgetCorrect` | `TurnsWithinBudget` | |
| `SchedulesProofs` | `TypeCorrect` | `TypeOK` | |
| | `BreakerCorrect` | `BreakerHolds` | |
| | `SettledCorrect` | `SettledAreOver` | |
| | `CountCorrect` | `CountIsEarned` | |
| | `OnceCorrect` | `InstantRunsOnce` | one ticker and no fault, in the property |

**The hypotheses.** None hides a case in which the property would hold anyway; each
is one in which it fails, and the runs above or section 7 say how.

* `~Forgets` in `WatchedCorrect`: a summary saved after `forget_agent` inserts the
  row again and nobody watches it. TLC finds `WatchedWhileRunning` violated as soon
  as `stops` lets a person forget a run.
* `~StoreFaults` in `CapCorrect`: when `set_run_process` fails after the supervisor
  was started, the error arm gives the permit back.
* One ticker in `Goals` and in `WokenCorrect`: a daemon's tick ends before its next
  one begins, but nothing keeps a second daemon from running beside it. With two,
  TLC finds each of the four properties violated: a pass that outlives the lease of
  its claim goes on next to the one that took the goal over, and a wake that was
  claimed from a snapshot of the mail is spawned although another daemon has spawned
  the same mail since. The limits these theorems promise are those of one daemon.
* One ticker without a fault in `OnceCorrect`, for the same reason: a pass that
  outlives its lease, that died after it started a run and before it was released,
  or that could not record the fire, leaves an instant due that has run already. The
  other four theorems of `SchedulesProofs` hold with any number of tickers and
  faults.

**The invariants.** No property in the table is inductive; each rests on what the
actors have in hand between two of their steps.

* *A run that ended* (`IInv`). A follower says completed because of an envelope, the
  envelope came from the log, and the log's Finished was written after the wait:
  `LogInv` follows a Finished event through log, channel and summary, and `OsInv`
  ties it to the supervisor's phase. A stop that has returned from
  `terminate_group` must not see a supervisor appear later: `PgidInv` says that a
  pgid, in a row, a memory or a summary, belongs to a supervisor that exists
  already, `KillInv` that a stop's own copy does, and `LaunchInv` that a launch
  starts its supervisor once. `NeverReopens` follows from types alone: every writer
  of a row is `SaveRun`, which keeps a terminal status, or `SetStatus` with a
  terminal one, or a removal.
* *A run that is watched* (`WatchInv`). A sweep drops the watch long after it read
  the row: `SweepSawTheEnd` says that the ending it read is still there, `RowKept`
  that the row is, and `Unheard` that a run nobody asked for has neither.
* *Permits* (`PermitInv`). The count cannot be proved of the supervisors, which die
  by themselves; it is proved of the permits held, and `Covered` says that a live
  supervisor of a living process has one.
* *The refinement* (`ViewInv`). Of `IInv` a step that says *completed* needs
  `CompletedIsOver` and the parts that carry it to each place it may be said from;
  `Unheard` makes a registration the first that is heard. `MayTurn` is the rule of
  `RunView` in the words of the rows. There is one step of the proof for each kind
  of action: one that turns a record, one that turns a belief, one that turns the
  harness, one that loses a process, and all the others, which are stutters.
* *Goals*. Where a pass is `Clear` it has nothing in flight (`FlightInv`), where
  it has `Counted` all that was started is in the row (`LimitInv`), and what it is
  about to look at or to charge is `Unpaid` (`PaidInv`). A person's order between
  two steps changes the row but none of these places.
* *Cascades*. `StopInv`: what is about to be recorded is over or was not signalled.
  `TreeInv`: a conversation is never taken from under its parent, so what was below
  when a stop was asked for is below when the walk reads the tree. `DownInv`: what
  still goes of a branch is in a conversation the walk has not come to, or on its
  list. `BackInv`: what waited when a resume began, and could be started again, is
  claimed or on its list.
  `ReplaceInv`: a replacement stands for a claimed row of its own, and whoever is
  about to start one holds its row alone.
* *Leases*. `Fits` gives each session the lease it has in hand. `HeldHasTree` needs
  nothing else, `SharersKeepTheTree` needs what a release was told (`AskedInv`), and
  `OrphansWereShown` needs that a tree is cut once by whoever wrote the row
  (`CutInv`), that a removed lease has none (`GoneInv`) and that a deletion is armed
  only with what was shown (`ShownInv`). `DirtyTreeStays` is a fact about each step,
  given the types.
* *Works*. `Fine`: of those a closing found idle it knows who began a run since.
  `HeardInv`: a turn with an answer in its prompt is told it before the row is
  marked. `EarlyInv`: what was planned before the first task got its files is known.
  `OwnersDisjoint` rests on paths: `PrefixesMeet` says that two paths whose
  files meet are prefixes of one path, and so cover one another, which is what
  `plan_work` refuses (`ApartMeansDisjoint`).
* *Mail*. `KeptInv` says what is on the queue is off the bus and there once,
  `CarriedInv` that a turn that carries the queue was told each row it will settle.
  `WokenInv` is the whole story of a wake: snapshots name each member once, what is
  in one has not been said, what has been said is off the bus or about to be taken
  by the pass that said it. `BudgetInv` counts not what was said but what still
  may be (`MayCost`): on the bus, in a snapshot, on the queue or in a prompt; a
  refused message is in none of these places and never gets there.

* *Schedules*. `BreakerHolds` needs the types only. `SettledInv`: the mark a release
  has in hand is as safe as the one in the row, so it does not matter which of two
  releases writes last; `ReadUpToIs` says that the walk judges nothing past a run that
  is still going. `CountInv` counts also what is owed, the passes that could start
  nothing and have not been released yet; `SettleEarned` is the sum of one release.
  `OnceInv` follows an instant from the row through the claim to the steps of a pass:
  what rests has run nothing after its last fire, a pass has one step an instant, and
  what it is about to start has been run only as often as a person asked. `Extremes` is
  the lemma under all of it: a bounded set of integers has the ends that `Max` and
  `Min` choose.

The proofs have one step for each action and below it one for each part the action
can disturb. Lemmas say once what an action writes (`Posted`, `RowsSettle`,
`Reserved`, `MoveWrites`), so that later steps need not expand it. A set that is
listed in any order (`SetToSeq`) is known through `SetListed`: the list is one to
one with the numbers up to the set's cardinality. Each candidate for an inductive
invariant was checked by TLC on the instance of the run before it was proved.

**Only model-checked.** The liveness properties `EventuallySettled`, `MailIsTried`,
`AnswersAreTried`, `ClosesInTheEnd` and `EveryRunIsBilled`: fairness and `ENABLED`
are outside the prover's reach. The three violations. That the
functions of `settle` and `decide` as stated here come to what a loop over a list
does is not proved either (it would be induction over data); what is proved is what
those statements imply.

## 7. What the models show besides

Seen while modelling; each is a behaviour of the modules, without a run of its
own. First those that contradict a sentence of the repository; TLC found each as
a counterexample to that sentence.

* A run that is stopped while it waits for a permit is marked killed and started
  all the same (`service.rs:1290`, which does not look at the status again).
  `service.rs:1455`: "Stop a run, and everything working underneath it."
* A run that settles between the sweep's read of its row and the sweep's write has
  its `completed` replaced by `failed` (`ticker.rs:1088`). `heartbeat.rs:340`: "Ended
  first. A run that finished normally in the same tick it would have been declared
  stalled must read as finished."
* A process that dies between registering a run and watching it leaves a row that
  reads running for ever (`service.rs:1361`); `rehydrate` corrects memory, never the
  row. `service.rs:884`: such a run "becomes *failed* rather than running forever".
* A message that arrives while a wake is being spawned is drained by `take_mail`
  and is in no prompt (`ticker.rs:2427`). `ticker.rs:2420`: "a failure leaves the mail
  waiting rather than losing it".
* The console and the daemon plan the chat's queue before either has settled it,
  and both start a turn that carries the same report (`cli/src/tui/mod.rs:7254`).
  `cli/src/tui/mod.rs:7219`: "whichever gets there first takes the message and the
  other finds nothing".
* Five skipped fires push the run that is going out of the five fires `running_run`
  reads, and the next fire starts a second run (`ticker.rs:940`). `schedule.rs:79`:
  "Leave the running one alone and record that this fire was skipped."
* A session that borrows a worktree gets its files written down only after
  `share_lease` has asked for a collision (`mcp.rs:3488`), so two sessions in one
  worktree may own one file.
* `read_messages` drains an inbox in one transaction and marks the mail delivered in
  another (`mcp.rs:4069`). Cut between them, or refused by the second, it leaves mail
  that reads as waiting and that no turn will ever see: what `take_mail` was written
  to end (`team.rs:1998`, "there is no order of events in which a message is handed to
  an agent and still reports as waiting").
* A stop that knows no process group signals nothing and succeeds, so a running worker
  is marked killed and recorded; the next resume claims it and starts a copy beside it
  (`service.rs:1591`, `1720`). `service.rs:1782`: "Starting a second copy alongside a
  live one is the failure this whole path is arranged to avoid."
* An iteration that a process cannot find in its memory is settled as lost although it
  runs, and a second one starts beside it (`ticker.rs:1333`). `ticker.rs:1327`: the goal
  "never has two runs in flight".
* A worker that finishes on its own between `running_runs_in` and `stop_one` is
  recorded, and is brought back later. `service.rs:1734`: "A run that finished on its
  own … does not come back."
* A closing that has read the board writes *closed* over a work that `plan_work` has
  opened again meanwhile (`works.rs:1773`, `1871`), and the card of an earlier closing
  is returned unchanged (`cards.rs:493`), although `works.rs:1843` speaks of one card
  that is updated.

And the others:

* `stop_one` prefers the pgid in memory to the column (`service.rs:1591`). A
  process that rehydrated a run while it was queued has none and never looks
  again, so its stop signals nothing while the group lives. `service.rs:1463` says
  that a stop "Works from any process".
* When `set_run_process` fails the error arm gives the permit back although the
  supervisor runs (`runner.rs:181`, `service.rs:1310`). `ConcurrencyCap` is
  therefore checked without `StoreFaults`.
* A `watch_run` that fails is only logged (`service.rs:1367`), and the sweep drops the
  heartbeat also when `fail_agent` returned an error (`ticker.rs:1141`, `1152`): either
  way the row reads running and nobody looks at it again. A woken or delivered turn
  that hangs is only marked stalled (`heartbeat.rs:457`), so its member or session
  stays busy for ever.
* A stop takes a pgid from memory and signals it even for a run that is over
  (`service.rs:1512` against `1609`); `group_alive` probes the leader only
  (`proc.rs:127`), so a harness that outlives its supervisor is not seen.
* A summary saved after `forget_agent` inserts the row again (`service.rs:778`,
  `1534`), and a launch whose run was forgotten meanwhile panics (`1340`).
* `ask` accepts a reply that a bound refused and marks it delivered
  (`team.rs:858`, `mcp.rs:4147`), after which it counts: `team.rs:384` says "How
  many messages this scope may exchange in total." What is bounded is what is put
  before a turn, and that is what `TurnsWithinBudget` says.
* A store error, or the death of the daemon, between a wake's spawn and `take_mail`
  leaves the mail on the bus, and the next wake says it again (`ticker.rs:2427`).
* `settle_members` writes back what it read (`ticker.rs:2318`): a member that was
  started by hand in between is bound to its old run and free in the middle of a
  turn, which its own comment warns of ("would be resumed mid-turn, which forks
  the conversation", `ticker.rs:2306`).
* `team start` killed between its two writes leaves a member busy with no agent,
  which nothing frees (`cli/src/main.rs:2437`).
* A `record_fire` that fails after the spawn is recorded as a failed spawn although the
  run goes (`ticker.rs:1020`, `1033`); a tick that dies in the same place has no fire at
  all, the run is never judged and its instant runs again. `release_schedule` writes
  the count it read (`store.rs:3805`), over an arm or a pause given meanwhile.
* `run now` during a pass is overwritten by that pass's release (`store.rs:3936`).
* After more than `MAX_REPLAY` missed instants `fire_once` runs the hundredth and
  not the most recent (`schedule.rs:332`).
* A goal charges a run twice also when a spawn fails after the settlement (the
  pointer still names the settled run), when a pass dies between the two, and when
  it is paused between the two claims of a pass, is on its list twice and the first
  entry ends it. `set_goal_state` by the tick overwrites an order given meanwhile, and
  deleting a goal during its pass makes `advance_goal` fail, which ends the tick for
  every other goal it had claimed.
* A `done_when` command has no timeout (`ticker.rs:2479`): one that hangs holds its pass,
  and with it the tick, for ever.
* A session that joins a worktree after its release has asked who shares it loses the
  tree (`leases.rs:1080`). A worktree claimed between the preview of a deletion and its
  transaction is orphaned and in no list anybody confirmed (`works.rs:1945`).
* A claim whose directory cannot be made returns before the arm that takes the
  reservation back (`leases.rs:557`). A release during a claim marks the lease removed
  before its tree is cut. Only the holder's root goes with the tree; siblings and
  sharers keep theirs (`leases.rs:1129`).
* A turn that starts after a closing has looked who runs is shut down all the same
  (`works.rs:1773`).
* Sessions that were shut down with their work stay so when it is opened again
  (`ticker.rs:2451`); `spawn_onto_first_task` gives a task files without asking whether
  another owns them (`mcp.rs:4505`); an answer may be marked undeliverable while a turn
  is carrying it.
* A child that was delegated after the walk read the tree, or is not hung under its
  parent yet, escapes a stop (`mcp.rs:1879`); a worker whose replacement could not
  be launched keeps its claim and is not tried again, which `service.rs:1845`
  intends. A worker that never reported a session id, or is in no conversation, is
  recorded by the stop and skipped by every resume (`service.rs:1773`, `1786`); a
  claim that cannot be written leaves it to the next one (`1800`).

## 8. Not modelled

* Parsers, formatting, ranking, and file or network I/O: harness adapters, recall,
  secrets, discovery, prompts of the orchestrator, updates.
* Rendering and key handling of the console, argument parsing of the commands: by far
  the larger part of the repository's lines, and without a protocol of their own. What
  a person orders through them is an action of the module it acts on.
* The clients in other languages, and what a forge or Telegram keeps.
* Reads: listings, summaries and views over the tables.
* Components with a protocol that are still to come (API idempotency, approvals,
  monitors, conversations' compaction): in the plan above.
