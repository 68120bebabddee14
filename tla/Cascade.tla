------------------------------ MODULE Cascade ------------------------------
(***************************************************************************)
(* Stopping a run stops the branch of the fleet below it, and continuing   *)
(* it brings back what that stop took down. (service.rs `kill_agent`,      *)
(* `cascade_stop`, `resume_cascade`; mcp.rs `delegate`, `continue_agent`;  *)
(* the `cascaded_stops` table of store.rs.)                                *)
(*                                                                         *)
(* The tree is one of conversations: a delegated run opens a conversation, *)
(* and the delegation hangs it under its own after the run has started.    *)
(* How one run is stopped is the matter of RunLifecycle; here it is one    *)
(* step, and what it comes to: a refusal, or a success that has signalled  *)
(* the run's process group or known none, and has marked the row or not.   *)
(***************************************************************************)
EXTENDS Integers, Sequences, FiniteSets

CONSTANTS
    Main,        \* the pinned conversation
    Manager,     \* a conversation delegated by Main, with two turns so far
    Worker,      \* a conversation delegated by Manager
    Others,      \* conversations not opened yet
    NoConv,      \* the parent of a conversation with none
    Clients,     \* the processes that stop and continue runs
    Ends,        \* how a run may end by itself
    MaxRuns,     \* bound: runs started by a delegation or a follow-up
    MaxStops,    \* bound: stops asked for
    MaxReports,  \* bound: first messages, and ends that no stop made
    MaxFaults    \* bound: clients that die, and calls they make that fail

Convs == {Main, Manager, Worker} \cup Others

ASSUME CascadeAssumption ==
    /\ NoConv \notin Convs
    /\ Cardinality({Main, Manager, Worker}) = 3 /\ Others \cap {Main, Manager, Worker} = {}
    /\ Ends \subseteq {"completed", "failed"}
    /\ MaxRuns \in Nat /\ MaxStops \in Nat /\ MaxReports \in Nat /\ MaxFaults \in Nat

VARIABLES
    runs,    \* the runs in the order they were started: `status` is the row's,
             \* `alive` the process; `said` is what its harness has reported, a
             \* message (without which no conversation leads to the run) and a
             \* session id; `missed` says that a stop of it signalled nothing;
             \* `of` is the run it was started in place of
    parent,  \* parent_conversation_id
    unhung,  \* delegations whose child is not hung under its parent yet
    rows,    \* cascaded_stops, in the order they were written; `asked` says
             \* that somebody wanted their conversation continued since
    op,      \* what each client is in the middle of: `todo` is its list of runs
             \* to stop or rows to bring back, `cur` the one in hand; `branch` is
             \* what was going below when its walk began, or what waited when its
             \* resume began
    hist     \* stops, reports, deaths and failures so far

vars == <<runs, parent, unhung, rows, op, hist>>

NoRun == 0

Alive(r) == runs[r].alive
ReadsRunning(r) == runs[r].status = "running"
Linked(r) == runs[r].said # "nothing"
Going(r) == Alive(r) /\ ReadsRunning(r) /\ Linked(r)

StartedIn(c, of) == [conv |-> c, status |-> "running", alive |-> TRUE,
                     said |-> "nothing", missed |-> FALSE, of |-> of]
Grown(c) == [StartedIn(c, NoRun) EXCEPT !.said = "session"]
Over(c, status) == [Grown(c) EXCEPT !.status = status, !.alive = FALSE]

Resting == [pc |-> "idle", run |-> NoRun, cur |-> NoRun, conv |-> NoConv, below |-> {},
            todo |-> {}, branch |-> {}]

Init ==
    /\ runs = <<Over(Main, "failed"), Over(Manager, "completed"),
                Grown(Manager), StartedIn(Worker, NoRun)>>
    /\ parent = [c \in Convs |-> CASE c = Manager -> Main [] c = Worker -> Manager
                                   [] OTHER -> NoConv]
    /\ unhung = {} /\ rows = <<>>
    /\ op = [p \in Clients |-> Resting]
    /\ hist = [stops |-> 0, reports |-> 0, faults |-> 0, deaths |-> 0]

At(p, pc) == op[p].pc = pc

(* descendant_conversations: the least set that holds the children of c    *)
(* and the children of its own.                                            *)
Descendants(c) ==
    LET HoldsChildren(S) == \A d \in Convs : parent[d] \in S \cup {c} => d \in S
    IN  {d \in Convs : \A S \in SUBSET Convs : HoldsChildren(S) => d \in S}

(* running_runs_in: by the row, and through the messages. *)
RunningIn(c) == {r \in DOMAIN runs : runs[r].conv = c /\ ReadsRunning(r) /\ Linked(r)}

GoingBelow(c) == {r \in DOMAIN runs : Going(r) /\ runs[r].conv \in Descendants(c)}

Report ==
    /\ hist.reports < MaxReports
    /\ hist' = [hist EXCEPT !.reports = @ + 1]

Fault ==
    /\ hist.faults < MaxFaults
    /\ hist' = [hist EXCEPT !.faults = @ + 1]

-----------------------------------------------------------------------------
(* The runs: they speak, they delegate, and they end.                      *)

(* The first message; the session id is reported before it, or never. *)
Speaks(r, said) ==
    /\ Alive(r) /\ ~Linked(r) /\ said \in {"message", "session"}
    /\ Report
    /\ runs' = [runs EXCEPT ![r].said = said]
    /\ UNCHANGED <<parent, unhung, rows, op>>

(* spawn_delegated: the child runs before it is hung under its parent. *)
Delegate(r, c) ==
    /\ Alive(r) /\ c \in Others /\ Len(runs) < MaxRuns
    /\ \A x \in DOMAIN runs : runs[x].conv # c
    /\ runs' = Append(runs, StartedIn(c, NoRun))
    /\ unhung' = unhung \cup {<<c, r>>}
    /\ UNCHANGED <<parent, rows, op, hist>>

(* record_handoff, by the server of the delegating run, if that lives. *)
RecordHandoff(c, r) ==
    /\ <<c, r>> \in unhung /\ Alive(r)
    /\ unhung' = unhung \ {<<c, r>>}
    /\ parent' = [parent EXCEPT ![c] = runs[r].conv]
    /\ UNCHANGED <<runs, rows, op, hist>>

(* The supervisor writes how it ended, whatever the row says. *)
RunEnds(r, status) ==
    /\ Alive(r)
    /\ Report
    /\ runs' = [runs EXCEPT ![r].status = status, ![r].alive = FALSE]
    /\ UNCHANGED <<parent, unhung, rows, op>>

(* A stop killed it and could not mark the row: its supervisor does, or the *)
(* heartbeat finds it, as failed, which nothing here tells from killed.     *)
RowSettles(r) ==
    /\ ~Alive(r) /\ ReadsRunning(r)
    /\ runs' = [runs EXCEPT ![r].status = "killed"]
    /\ UNCHANGED <<parent, unhung, rows, op, hist>>

(* A stop_one that returned Ok. It signals the process group it knows: the  *)
(* record in memory, or the row, may name none. It marks the row of a run   *)
(* it takes to be running; the write may fail, and nobody is told.          *)
Stopped(r, signals, marks) ==
    [runs EXCEPT
        ![r].alive  = @ /\ ~signals,
        ![r].missed = @ \/ (Alive(r) /\ ~signals),
        ![r].status = IF @ = "running" /\ marks THEN "killed" ELSE @]

(* A run this process never saw, and whose row names no living group. *)
LeftAlone(r) == runs' = Stopped(r, FALSE, FALSE)

(* Whether the row is marked: not marking it is a fault. *)
Marking(marks) == IF marks THEN hist' = hist ELSE Fault

-----------------------------------------------------------------------------
(* kill_agent: the named run, and then the walk. One that cannot be stopped *)
(* ends the call there, with nothing changed.                               *)
KillAgent(p, r, signals) ==
    /\ At(p, "idle") /\ hist.stops < MaxStops
    /\ hist' = [hist EXCEPT !.stops = @ + 1]
    /\ \/ runs' = Stopped(r, signals, TRUE)
       \/ ~signals /\ LeftAlone(r)
    /\ op' = [op EXCEPT ![p] = [Resting EXCEPT !.pc = "walk", !.run = r,
                                               !.branch = GoingBelow(runs[r].conv)]]
    /\ UNCHANGED <<parent, unhung, rows>>

Exempt(c) == c = Main

(* cascade_stop reads the tree once; a run nobody heard of hangs nowhere. *)
CascadeStop(p) ==
    /\ At(p, "walk")
    /\ LET c == runs[op[p].run].conv
       IN  op' = [op EXCEPT ![p] =
                    IF Exempt(c) \/ ~Linked(op[p].run) THEN Resting
                    ELSE [@ EXCEPT !.pc = "below", !.conv = c, !.below = Descendants(c)]]
    /\ UNCHANGED <<runs, parent, unhung, rows, hist>>

ReadRunning(p, c) ==
    /\ At(p, "below") /\ c \in op[p].below
    /\ op' = [op EXCEPT ![p].pc = "runs", ![p].below = @ \ {c},
                        ![p].todo = RunningIn(c)]
    /\ UNCHANGED <<runs, parent, unhung, rows, hist>>

(* The runs of one conversation could not be read: on to the next. *)
ReadRunningFails(p, c) ==
    /\ At(p, "below") /\ c \in op[p].below
    /\ Fault
    /\ op' = [op EXCEPT ![p].below = @ \ {c},
                        ![p].branch = {r \in @ : runs[r].conv # c}]
    /\ UNCHANGED <<runs, parent, unhung, rows>>

RecordOf(r, c) == [run |-> r, from |-> c, claimed |-> FALSE, next |-> NoRun,
                   asked |-> FALSE]

(* Mutant: the stop is written down before it is made. *)
RecordsThenStops(p, r, signals, marks) ==
    /\ At(p, "runs") /\ r \in op[p].todo
    /\ signals /\ marks
    /\ rows' = Append(rows, RecordOf(r, op[p].conv))
    /\ op' = [op EXCEPT ![p].pc = "record", ![p].cur = r, ![p].todo = @ \ {r}]
    /\ UNCHANGED <<runs, parent, unhung, hist>>

(* Each run, in no particular order, is stopped, and then recorded. *)
TakeDown(p, r, signals, marks) ==
    /\ At(p, "runs") /\ r \in op[p].todo
    /\ Marking(marks)
    /\ runs' = Stopped(r, signals, marks)
    /\ op' = [op EXCEPT ![p].pc = "record", ![p].cur = r, ![p].todo = @ \ {r}]
    /\ UNCHANGED <<parent, unhung, rows>>

TakeDownFails(p, r) ==
    /\ At(p, "runs") /\ r \in op[p].todo
    /\ Fault
    /\ op' = [op EXCEPT ![p].todo = @ \ {r}, ![p].branch = @ \ {r}]
    /\ UNCHANGED <<runs, parent, unhung, rows>>

(* record_cascaded_stop: the first stop that took a run down is kept. *)
RecordCascadedStop(p) ==
    /\ At(p, "record")
    /\ rows' = IF \E i \in DOMAIN rows : rows[i].run = op[p].cur THEN rows
               ELSE Append(rows, RecordOf(op[p].cur, op[p].conv))
    /\ op' = [op EXCEPT ![p].pc = "runs", ![p].cur = NoRun]
    /\ UNCHANGED <<runs, parent, unhung, hist>>

RecordFails(p) ==
    /\ At(p, "record")
    /\ Fault
    /\ op' = [op EXCEPT ![p].pc = "runs", ![p].cur = NoRun]
    /\ UNCHANGED <<runs, parent, unhung, rows>>

(* Mutant: the walk ends with the first conversation. *)
FirstConversationOnly(p) ==
    /\ At(p, "runs") /\ op[p].todo = {}
    /\ op' = [op EXCEPT ![p].pc = "below", ![p].below = {}]
    /\ UNCHANGED <<runs, parent, unhung, rows, hist>>

NextConversation(p) ==
    /\ At(p, "runs") /\ op[p].todo = {}
    /\ op' = [op EXCEPT ![p].pc = "below"]
    /\ UNCHANGED <<runs, parent, unhung, rows, hist>>

WalkEnds(p) ==
    /\ At(p, "below") /\ op[p].below = {}
    /\ op' = [op EXCEPT ![p] = Resting]
    /\ UNCHANGED <<runs, parent, unhung, rows, hist>>

-----------------------------------------------------------------------------
(* pending_cascaded_stops *)
Waiting(c) == {i \in DOMAIN rows : rows[i].from = c /\ ~rows[i].claimed}

Asked(c) == [i \in DOMAIN rows |->
                IF i \in Waiting(c) THEN [rows[i] EXCEPT !.asked = TRUE] ELSE rows[i]]

(* continue_agent refuses a run that was stopped or that failed. *)
RefusalToContinue(p, r) ==
    /\ At(p, "idle")
    /\ runs[r].status \in {"killed", "failed"}
    /\ rows' = Asked(runs[r].conv)
    /\ UNCHANGED <<runs, parent, unhung, op, hist>>

ContinueAgent(p, r) ==
    /\ At(p, "idle")
    /\ runs[r].status \in {"completed", "running"} /\ runs[r].said = "session"
    /\ Len(runs) < MaxRuns
    /\ runs' = Append(runs, StartedIn(runs[r].conv, NoRun))
    /\ rows' = Asked(runs[r].conv)
    /\ op' = [op EXCEPT ![p] = [Resting EXCEPT !.pc = "pending", !.conv = runs[r].conv,
                                               !.branch = Waiting(runs[r].conv)]]
    /\ UNCHANGED <<parent, unhung, hist>>

(* A run that can be started again: it has a session to resume, and its row *)
(* does not say that it still runs.                                         *)
Startable(i) == runs[rows[i].run].said = "session" /\ ~ReadsRunning(rows[i].run)

(* Mutant: only the workers that were delegated directly. *)
PendingChildren(c) == {i \in Waiting(c) : Startable(i) /\ parent[runs[rows[i].run].conv] = c}

(* The rest of what waits is passed over, and stays unclaimed. *)
Pending(c) == {i \in Waiting(c) : Startable(i)}

ResumeCascade(p) ==
    /\ At(p, "pending")
    /\ op' = [op EXCEPT ![p].pc = "bring", ![p].todo = Pending(op[p].conv),
                        ![p].branch = {i \in @ : Startable(i)}]
    /\ UNCHANGED <<runs, parent, unhung, rows, hist>>

(* Mutant: whoever asks gets the row. *)
ClaimWonAlways(i) == TRUE

ClaimWon(i) == ~rows[i].claimed

(* claim_cascaded_stop, before anything is launched; the oldest first. *)
ClaimCascadedStop(p, i) ==
    /\ At(p, "bring") /\ i \in op[p].todo /\ \A j \in op[p].todo : i <= j
    /\ rows' = [rows EXCEPT ![i].claimed = TRUE]
    /\ op' = [op EXCEPT ![p].todo = @ \ {i},
                        ![p].cur = IF ClaimWon(i) THEN i ELSE NoRun,
                        ![p].pc = IF ClaimWon(i) THEN "spawn" ELSE "bring"]
    /\ UNCHANGED <<runs, parent, unhung, hist>>

(* Its conversation could not be read, or the claim not be written: the row *)
(* is passed over too.                                                      *)
ClaimFails(p, i) ==
    /\ At(p, "bring") /\ i \in op[p].todo /\ \A j \in op[p].todo : i <= j
    /\ Fault
    /\ op' = [op EXCEPT ![p].todo = @ \ {i}, ![p].branch = @ \ {i}]
    /\ UNCHANGED <<runs, parent, unhung, rows>>

BringBack(p) ==
    /\ At(p, "spawn")
    /\ LET was == rows[op[p].cur].run
       IN  runs' = Append(runs, StartedIn(runs[was].conv, was))
    /\ op' = [op EXCEPT ![p].pc = "name", ![p].run = Len(runs) + 1]
    /\ UNCHANGED <<parent, unhung, rows, hist>>

(* The row is done with: back to the list. *)
BackToList(p) == op' = [op EXCEPT ![p].pc = "bring", ![p].cur = NoRun, ![p].run = NoRun]

(* The claim is not given back. *)
BringBackFails(p) ==
    /\ At(p, "spawn")
    /\ Fault
    /\ BackToList(p)
    /\ UNCHANGED <<runs, parent, unhung, rows>>

(* Mutant: the run that was stopped is named as its own replacement. *)
NamesTheStopped(p) ==
    /\ At(p, "name")
    /\ rows' = [rows EXCEPT ![op[p].cur].next = rows[op[p].cur].run]
    /\ BackToList(p)
    /\ UNCHANGED <<runs, parent, unhung, hist>>

NameCascadeReplacement(p) ==
    /\ At(p, "name")
    /\ rows' = [rows EXCEPT ![op[p].cur].next = op[p].run]
    /\ BackToList(p)
    /\ UNCHANGED <<runs, parent, unhung, hist>>

ResumeEnds(p) ==
    /\ At(p, "bring") /\ op[p].todo = {}
    /\ op' = [op EXCEPT ![p] = Resting]
    /\ UNCHANGED <<runs, parent, unhung, rows, hist>>

(* A client dies in the middle; or what its call begins with, the tree or   *)
(* the rows that wait, could not be read, and the call ends there.          *)
Die(p) ==
    /\ ~At(p, "idle")
    /\ hist.faults < MaxFaults
    /\ hist' = [hist EXCEPT !.faults = @ + 1, !.deaths = @ + 1]
    /\ op' = [op EXCEPT ![p] = Resting]
    /\ UNCHANGED <<runs, parent, unhung, rows>>

Proceed(p) ==
    \/ CascadeStop(p) \/ \E c \in Convs : ReadRunning(p, c)
    \/ \E r \in op[p].todo :
          ClaimCascadedStop(p, r) \/ \E signals \in BOOLEAN : TakeDown(p, r, signals, TRUE)
    \/ RecordCascadedStop(p) \/ NextConversation(p) \/ WalkEnds(p)
    \/ ResumeCascade(p) \/ BringBack(p)
    \/ NameCascadeReplacement(p) \/ ResumeEnds(p)

Fails(p) ==
    \/ \E c \in Convs : ReadRunningFails(p, c)
    \/ \E r \in op[p].todo :
          \/ TakeDownFails(p, r) \/ ClaimFails(p, r)
          \/ \E signals \in BOOLEAN : TakeDown(p, r, signals, FALSE)
    \/ RecordFails(p) \/ BringBackFails(p) \/ Die(p)

Next ==
    \/ \E r \in DOMAIN runs :
          \/ \E c \in Others : Delegate(r, c) \/ RecordHandoff(c, r)
          \/ \E said \in {"message", "session"} : Speaks(r, said)
          \/ \E status \in Ends : RunEnds(r, status)
          \/ RowSettles(r)
    \/ \E p \in Clients, r \in DOMAIN runs :
          \/ \E signals \in BOOLEAN : KillAgent(p, r, signals)
          \/ RefusalToContinue(p, r) \/ ContinueAgent(p, r)
    \/ \E p \in Clients : Proceed(p) \/ Fails(p)

Spec == Init /\ [][Next]_vars

(* A call that was begun goes on; nobody has to begin one. *)
FairSpec == Spec /\ \A p \in Clients : WF_vars(Proceed(p))

(***************************************************************************)
(* Properties.                                                             *)
(***************************************************************************)

Statuses == {"running", "completed", "failed", "killed"}
Phases == {"idle", "walk", "below", "runs", "record", "pending", "bring", "spawn", "name"}

RunRec == [conv : Convs, status : Statuses, alive : BOOLEAN,
           said : {"nothing", "message", "session"}, missed : BOOLEAN, of : 0..Len(runs)]
RowRec == [run : 1..Len(runs), from : Convs, claimed : BOOLEAN, next : 0..Len(runs),
           asked : BOOLEAN]
OpRec == [pc : Phases, run : 0..Len(runs), cur : Nat, conv : Convs \cup {NoConv},
          below : SUBSET Convs, todo : SUBSET Nat, branch : SUBSET Nat]

(* Types, and: no run is recorded twice, and a replacement that is named   *)
(* is one that was started in place of the run of its row.                 *)
TypeOK ==
    /\ runs \in Seq(RunRec)
    /\ parent \in [Convs -> Convs \cup {NoConv}]
    /\ unhung \subseteq Others \X DOMAIN runs
    /\ rows \in Seq(RowRec)
    /\ \A i, j \in DOMAIN rows : rows[i].run = rows[j].run => i = j
    /\ \A i \in DOMAIN rows : rows[i].next # NoRun => runs[rows[i].next].of = rows[i].run
    /\ op \in [Clients -> OpRec]

(* Alive, and not because a stop of it signalled nothing. *)
Unstopped(r) == Alive(r) /\ ~runs[r].missed

(* "The other order leaves a running run recorded as taken down": whoever  *)
(* dies between the two, no run that is still alive waits to be replaced,  *)
(* but for those whose stop knew no process group to signal.               *)
RecordedIsStopped == \A i \in DOMAIN rows : ~Unstopped(rows[i].run)

(* "two resumes racing on one conversation cannot both start this worker": *)
(* a run that was taken down is replaced at most once.                     *)
ReplacedOnce ==
    \A r \in DOMAIN runs : Cardinality({x \in DOMAIN runs : runs[x].of = r}) <= 1

(* "stopping a manager stops its workers, and theirs, to the bottom": when *)
(* the walk is over, every run that was going below when the stop was      *)
(* asked for is over, but for those that could not be stopped or read, and *)
(* those whose stop knew no process group to signal.                       *)
BranchIsDown ==
    \A p \in Clients : (At(p, "below") /\ op[p].below = {}) =>
        \A r \in op[p].branch : ~Unstopped(r)

(* "Every depth, in one pass": when a resume is over, everything that      *)
(* waited for the conversation when it was continued, and could be started *)
(* again when the resume read it, has been taken up, by this resume or by  *)
(* another one; but for the claims that could not be written.              *)
BranchComesBack ==
    \A p \in Clients : (At(p, "bring") /\ op[p].todo = {}) =>
        \A i \in op[p].branch : rows[i].claimed

(* "Continuing a stopped agent starts its workers again"                   *)
(* (docs/jod-system.md): whenever it was asked for.                        *)
StoppedComesBack ==
    \A i \in 1..MaxRuns :
        (i \in DOMAIN rows /\ rows[i].asked)
            ~> (i \in DOMAIN rows /\ (rows[i].claimed \/ hist.deaths > 0))
=============================================================================
