------------------------------- MODULE Works --------------------------------
(***************************************************************************)
(* A work: its board, its sessions, the question each session may have put *)
(* to the person, and how the work closes.  core/src/works.rs, with the    *)
(* cards of core/src/cards.rs, the queue of core/src/delivery.rs, the MCP  *)
(* tools that call them and tick_works and tick_deliveries of              *)
(* core/src/ticker.rs.                                                     *)
(*                                                                         *)
(* close_work is called by whoever completed the last task, by the daemon  *)
(* that finds an empty board and by the person; it looks, and then writes  *)
(* in several transactions.  So does refresh_work_state.  In between tasks *)
(* are planned, runs start and end, and answers arrive.                    *)
(*                                                                         *)
(* A path is a sequence of components, as written; the file system does    *)
(* not tell upper from lower case.                                         *)
(***************************************************************************)
EXTENDS Naturals, Sequences, FiniteSets

CONSTANTS
    Sessions,   \* the conversations of the work
    First,      \* its first task, on the board when the work is created
    Planned,    \* tasks that may be planned later
    RawPaths,   \* paths as a plan spells them
    Upper,      \* components that have a lower-case spelling
    Lower,      \* that spelling, a function on Upper
    Daemon, Person,
    MaxTurns    \* how many runs a person or a message starts

ASSUME WorksAssumption ==
    /\ Daemon \notin Sessions /\ Person \notin Sessions /\ Daemon # Person
    /\ First \notin Planned
    /\ RawPaths \subseteq Seq(STRING) /\ Upper \subseteq STRING /\ Lower \in [Upper -> STRING]
    /\ MaxTurns \in Nat

Tasks == Planned \cup {First}
Procs == Sessions \cup {Daemon, Person}

VARIABLES
    state,      \* works.state
    board,      \* tasks.status of each task, "none" before it exists
    owns,       \* tasks.paths
    opening,    \* the open_work call: has it given the first task its files, and
                \* the tasks that were planned before it did
    runs,       \* how many runs of each session are going
    member,     \* team_members.status, as far as closing is concerned
    answer,     \* the question card of each session with its delivery
    asking,     \* where ask_question of the session's run is
    heard,      \* was the agent told the answer
    closing,    \* what the closing card says
    at,         \* what each process is in the middle of
    turns

sessionVars == <<runs, member, answer, asking, heard>>
boardVars == <<state, board, owns, opening>>
vars == <<boardVars, sessionVars, closing, at, turns>>

Rest == [pc |-> "idle", idle |-> {}, to |-> "none", todo |-> {}, since |-> {}]

\* create_work_in: an open work whose instruction is its first task, that owns
\* nothing yet.  open_work has started a run in the sessions.
Init ==
    /\ state = "open"
    /\ board = [t \in Tasks |-> IF t = First THEN "open" ELSE "none"]
    /\ owns = [t \in Tasks |-> {}]
    /\ opening = [recorded |-> FALSE, early |-> {}]
    /\ runs = [s \in Sessions |-> 1]
    /\ member = [s \in Sessions |-> "ready"]
    /\ answer = [s \in Sessions |-> "none"]
    /\ asking = [s \in Sessions |-> "no"]
    /\ heard = [s \in Sessions |-> FALSE]
    /\ closing = "none"
    /\ at = [p \in Procs |-> Rest]
    /\ turns = 0

-----------------------------------------------------------------------------
(* Paths                                                                   *)

\* tidy: no empty components and no ".", and <<>> for the repository root.  What
\* stays keeps its order: the k-th of it has k of it up to itself.
Tidy(path) ==
    LET kept == {i \in DOMAIN path : path[i] \notin {"", "."}}
        Nth(k) == CHOOSE i \in kept : Cardinality({j \in kept : j <= i}) = k
    IN [k \in 1..Cardinality(kept) |-> path[Nth(k)]]

Lowered(path) == [i \in DOMAIN path |-> IF path[i] \in Upper THEN Lower[path[i]] ELSE path[i]]

\* Mutant: only equal paths collide.
SamePath(prefix, path) == prefix = path

\* covers: equal, or a prefix that ends at a separator; the root covers all.
Covers(prefix, path) ==
    /\ Len(prefix) <= Len(path)
    /\ \A i \in DOMAIN prefix : prefix[i] = path[i]

Overlapping(a, b) ==
    \E left \in a, right \in b :
      LET l == Lowered(Tidy(left))
          r == Lowered(Tidy(right))
      IN Covers(l, r) \/ Covers(r, l)

-----------------------------------------------------------------------------
(* The board                                                               *)

OpenTasks == {t \in Tasks : board[t] = "open"}

\* plan_work: no two tasks of the plan overlap, none overlaps an open task, and
\* a work that has tasks is open again.  add_work_task is a plan of one task
\* that owns nothing.
PlanWork(plan) ==
    /\ \A t \in DOMAIN plan : board[t] = "none"
    /\ \A t, u \in DOMAIN plan : t # u => ~Overlapping(plan[t], plan[u])
    /\ \A t \in DOMAIN plan, u \in OpenTasks : ~Overlapping(plan[t], owns[u])
    /\ board' = [t \in Tasks |-> IF t \in DOMAIN plan THEN "open" ELSE board[t]]
    /\ owns' = [t \in Tasks |-> IF t \in DOMAIN plan THEN plan[t] ELSE owns[t]]
    /\ state' = "open"
    /\ opening' = IF opening.recorded THEN opening
                  ELSE [opening EXCEPT !.early = @ \cup DOMAIN plan]
    /\ UNCHANGED <<sessionVars, closing, at, turns>>

\* spawn_onto_first_task, after open_work has started the session: the files the
\* manager named go to the first task, whatever was planned since.
SpawnOntoFirstTask(paths) ==
    /\ ~opening.recorded
    /\ opening' = [opening EXCEPT !.recorded = TRUE]
    /\ owns' = [owns EXCEPT ![First] = IF paths = {} THEN @ ELSE paths]
    /\ UNCHANGED <<state, board, sessionVars, closing, at, turns>>

\* complete_work_task, by a run of a session, of a task that is done already too:
\* when no task is open any more the same call goes on to close the work.  The
\* row keeps its paths.
CompleteTask(s, t) ==
    /\ runs[s] > 0 /\ asking[s] = "no" /\ at[s].pc = "idle"
    /\ board[t] # "none"
    /\ board' = [board EXCEPT ![t] = "done"]
    /\ at' = [at EXCEPT ![s].pc = IF OpenTasks \subseteq {t} THEN "look" ELSE "idle"]
    /\ UNCHANGED <<state, owns, opening, sessionVars, closing, turns>>

-----------------------------------------------------------------------------
(* close_work                                                              *)

CloseByHand ==
    /\ at[Person].pc = "idle" /\ turns < MaxTurns
    /\ at' = [at EXCEPT ![Person].pc = "look"]
    /\ turns' = turns + 1
    /\ UNCHANGED <<boardVars, sessionVars, closing>>

\* Mutant: everybody is taken to be idle.
LookAtNobody(p) ==
    /\ at[p].pc = "look"
    /\ at' = [at EXCEPT ![p] = [@ EXCEPT !.pc = "write", !.idle = Sessions, !.since = {},
                                  !.to = IF \A s \in Sessions : runs[s] = 0 THEN "closed" ELSE "finishing"]]
    /\ UNCHANGED <<boardVars, sessionVars, closing, turns>>

\* The sessions are read, and which of them run decides the new state.
CloseLook(p) ==
    /\ at[p].pc = "look"
    /\ LET idle == {s \in Sessions : runs[s] = 0} IN
       at' = [at EXCEPT ![p] = [@ EXCEPT !.pc = "write", !.idle = idle, !.since = {},
                                  !.to = IF idle = Sessions THEN "closed" ELSE "finishing"]]
    /\ UNCHANGED <<boardVars, sessionVars, closing, turns>>

\* The state is written whatever it is by then.
CloseWrite(p) ==
    /\ at[p].pc = "write"
    /\ state' = at[p].to
    /\ at' = [at EXCEPT ![p] = [@ EXCEPT !.pc = "members", !.todo = at[p].idle]]
    /\ UNCHANGED <<board, owns, opening, sessionVars, closing, turns>>

\* Idle sessions are shut down, one write each ...
CloseMember(p) ==
    /\ at[p].pc = "members"
    /\ \/ \E s \in at[p].todo :
            /\ member' = [member EXCEPT ![s] = "shutdown"]
            /\ at' = [at EXCEPT ![p].todo = @ \ {s}]
       \/ /\ at[p].todo = {}
          /\ at' = [at EXCEPT ![p] = [@ EXCEPT !.pc = "queues", !.todo = at[p].idle]]
          /\ UNCHANGED member
    /\ UNCHANGED <<boardVars, runs, answer, asking, heard, closing, turns>>

\* ... and what is queued for them is undeliverable: settle touches only rows
\* that are still queued, and flips the card in the same transaction.
CloseQueue(p) ==
    /\ at[p].pc = "queues"
    /\ \/ \E s \in at[p].todo :
            /\ answer' = [answer EXCEPT ![s] = IF @ = "queued" THEN "undeliverable" ELSE @]
            /\ at' = [at EXCEPT ![p].todo = @ \ {s}]
       \/ /\ at[p].todo = {}
          /\ at' = [at EXCEPT ![p].pc = "card"]
          /\ UNCHANGED answer
    /\ UNCHANGED <<boardVars, runs, member, asking, heard, closing, turns>>

\* raise_card: a card with this key is returned as it is.
CloseCard(p) ==
    /\ at[p].pc = "card"
    /\ closing' = IF closing = "none" THEN at[p].to ELSE closing
    /\ at' = [at EXCEPT ![p] = [Rest EXCEPT !.pc = IF p = Daemon THEN "deliver" ELSE "idle"]]
    /\ UNCHANGED <<boardVars, sessionVars, turns>>

-----------------------------------------------------------------------------
(* tick_works                                                              *)

\* Mutant: a work that is winding down is not looked at.
TickOpenOnly ==
    /\ at[Daemon].pc = "idle"
    /\ at' = [at EXCEPT ![Daemon].pc = IF state = "open" THEN "board" ELSE "deliver"]
    /\ UNCHANGED <<boardVars, sessionVars, closing, turns>>

\* The live works are listed with their states ...
TickWorks ==
    /\ at[Daemon].pc = "idle"
    /\ at' = [at EXCEPT ![Daemon].pc =
                CASE state = "finishing" -> "recheck"
                  [] state = "open" -> "board"
                  [] OTHER -> "deliver"]
    /\ UNCHANGED <<boardVars, sessionVars, closing, turns>>

\* ... and the board of one that was open is read.
TickBoard ==
    /\ at[Daemon].pc = "board"
    /\ at' = [at EXCEPT ![Daemon].pc = IF OpenTasks = {} THEN "look" ELSE "deliver"]
    /\ UNCHANGED <<boardVars, sessionVars, closing, turns>>

\* refresh_work_state reads the work, reads its sessions ...
RefreshLook ==
    /\ at[Daemon].pc = "recheck"
    /\ at' = [at EXCEPT ![Daemon].pc =
                IF state = "finishing" /\ \A s \in Sessions : runs[s] = 0 THEN "settle_work" ELSE "deliver"]
    /\ UNCHANGED <<boardVars, sessionVars, closing, turns>>

\* ... and writes `closed`, whatever the state is by then.
RefreshWrite ==
    /\ at[Daemon].pc = "settle_work"
    /\ state' = "closed"
    /\ at' = [at EXCEPT ![Daemon].pc = "deliver"]
    /\ UNCHANGED <<board, owns, opening, sessionVars, closing, turns>>

-----------------------------------------------------------------------------
(* Runs and questions                                                      *)

\* A session's run begins: every closing under way looked before.
Begins(s, pcs) ==
    /\ runs' = [runs EXCEPT ![s] = @ + 1]
    /\ at' = [p \in Procs |-> IF pcs[p].pc \in {"write", "members", "queues"}
                               THEN [pcs[p] EXCEPT !.since = @ \cup {s}] ELSE pcs[p]]

\* The person, or a message, starts a run in the session.
RunStarts(s) ==
    /\ turns < MaxTurns
    /\ turns' = turns + 1
    /\ Begins(s, at)
    /\ UNCHANGED <<boardVars, member, answer, asking, heard, closing>>

\* Mutant: the call of a run that ends goes on.
RunEndsMidCall(s) ==
    /\ runs[s] > 0
    /\ runs' = [runs EXCEPT ![s] = @ - 1]
    /\ UNCHANGED <<boardVars, member, answer, asking, heard, closing, at, turns>>

\* A run ends, or is stopped in the middle of a call; of several going at once
\* it may be the one in a call or another.
RunEnds(s) ==
    /\ runs[s] > 0
    /\ runs' = [runs EXCEPT ![s] = @ - 1]
    /\ \/ asking' = [asking EXCEPT ![s] = "no"] /\ at' = [at EXCEPT ![s] = Rest]
       \/ runs[s] > 1 /\ UNCHANGED <<asking, at>>
    /\ UNCHANGED <<boardVars, member, answer, heard, closing, turns>>

\* ask_question: the card is raised, or found; a blocking question is polled.
AskQuestion(s, blocking) ==
    /\ runs[s] > 0 /\ asking[s] = "no" /\ at[s].pc = "idle" /\ ~heard[s]
    /\ answer[s] = "none" \/ blocking
    /\ answer' = [answer EXCEPT ![s] = IF @ = "none" THEN "open" ELSE @]
    /\ asking' = [asking EXCEPT ![s] = IF blocking THEN "polling" ELSE "no"]
    /\ UNCHANGED <<boardVars, runs, member, heard, closing, at, turns>>

\* A poll finds the card answered, or dismissed, or gives up at the deadline.
AskPoll(s) ==
    /\ asking[s] = "polling"
    /\ asking' = [asking EXCEPT ![s] = IF answer[s] \in {"open", "dismissed"} THEN "no" ELSE "told"]
    /\ UNCHANGED <<boardVars, runs, member, answer, heard, closing, at, turns>>

\* settle_card_delivery takes the answer off the queue, if it can ...
AskSettles(s) ==
    /\ asking[s] = "told"
    /\ \/ answer' = [answer EXCEPT ![s] = IF @ = "queued" THEN "delivered" ELSE @]
       \/ UNCHANGED answer
    /\ asking' = [asking EXCEPT ![s] = "settled"]
    /\ UNCHANGED <<boardVars, runs, member, heard, closing, at, turns>>

\* ... and the call returns the answer to the agent.
AskReturns(s) ==
    /\ asking[s] = "settled"
    /\ heard' = [heard EXCEPT ![s] = TRUE]
    /\ asking' = [asking EXCEPT ![s] = "no"]
    /\ UNCHANGED <<boardVars, runs, member, answer, closing, at, turns>>

\* answer_card queues the answer in the transaction that records it.
AnswerCard(s) ==
    /\ answer[s] = "open"
    /\ answer' = [answer EXCEPT ![s] = "queued"]
    /\ UNCHANGED <<boardVars, runs, member, asking, heard, closing, at, turns>>

DismissCard(s) ==
    /\ answer[s] = "open"
    /\ answer' = [answer EXCEPT ![s] = "dismissed"]
    /\ UNCHANGED <<boardVars, runs, member, asking, heard, closing, at, turns>>

-----------------------------------------------------------------------------
(* tick_deliveries                                                         *)

DeliverBegins ==
    /\ at[Daemon].pc = "deliver"
    /\ at' = [at EXCEPT ![Daemon] =
                [Rest EXCEPT !.pc = "plan", !.todo = {s \in Sessions : answer[s] = "queued"}]]
    /\ UNCHANGED <<boardVars, sessionVars, closing, turns>>

\* Mutant: the plan settles what it is going to carry.
PlanSettles ==
    /\ at[Daemon].pc = "plan"
    /\ \/ \E s \in at[Daemon].todo :
            /\ at' = [at EXCEPT ![Daemon].todo = @ \ {s}]
            /\ answer' = [answer EXCEPT ![s] = IF @ = "queued" /\ runs[s] = 0 THEN "delivered" ELSE @]
       \/ at[Daemon].todo = {} /\ at' = [at EXCEPT ![Daemon] = Rest] /\ UNCHANGED answer
    /\ UNCHANGED <<boardVars, runs, member, asking, heard, closing, turns>>

\* Mutant: a shut down session is passed over.
PlanSkipsShutdown ==
    /\ at[Daemon].pc = "plan"
    /\ \/ \E s \in at[Daemon].todo :
            at' = [at EXCEPT ![Daemon] =
                     IF runs[s] > 0 \/ answer[s] # "queued" \/ member[s] = "shutdown"
                     THEN [@ EXCEPT !.todo = at[Daemon].todo \ {s}]
                     ELSE [@ EXCEPT !.pc = "carry", !.idle = {s}, !.todo = at[Daemon].todo \ {s}]]
       \/ at[Daemon].todo = {} /\ at' = [at EXCEPT ![Daemon] = Rest]
    /\ UNCHANGED <<boardVars, sessionVars, closing, turns>>

\* Each waiting session in turn: passed over while it is busy or when nothing is
\* left, otherwise its turn is planned.
DeliverPlan ==
    /\ at[Daemon].pc = "plan"
    /\ \/ \E s \in at[Daemon].todo :
            at' = [at EXCEPT ![Daemon] =
                     IF runs[s] > 0 \/ answer[s] # "queued"
                     THEN [@ EXCEPT !.todo = at[Daemon].todo \ {s}]
                     ELSE [@ EXCEPT !.pc = "carry", !.idle = {s}, !.todo = at[Daemon].todo \ {s}]]
       \/ at[Daemon].todo = {} /\ at' = [at EXCEPT ![Daemon] = Rest]
    /\ UNCHANGED <<boardVars, sessionVars, closing, turns>>

\* The turn is started with the answer in its prompt ...
DeliverCarry(s) ==
    /\ at[Daemon].pc = "carry" /\ at[Daemon].idle = {s}
    /\ Begins(s, [at EXCEPT ![Daemon].pc = "mark"])
    /\ heard' = [heard EXCEPT ![s] = TRUE]
    /\ UNCHANGED <<boardVars, member, answer, asking, closing, turns>>

\* ... or it cannot be: there is no session to resume, or the spawn fails.  The
\* answer stays queued.
DeliverFails ==
    /\ at[Daemon].pc = "carry"
    /\ at' = [at EXCEPT ![Daemon].pc = "plan"]
    /\ UNCHANGED <<boardVars, sessionVars, closing, turns>>

\* Only then are the rows that are still queued delivered.  A write that fails
\* ends the pass.
DeliverMarks(s) ==
    /\ at[Daemon].pc = "mark" /\ at[Daemon].idle = {s}
    /\ \/ /\ answer' = [answer EXCEPT ![s] = IF @ = "queued" THEN "delivered" ELSE @]
          /\ at' = [at EXCEPT ![Daemon].pc = "plan"]
       \/ /\ at' = [at EXCEPT ![Daemon] = Rest]
          /\ UNCHANGED answer
    /\ UNCHANGED <<boardVars, runs, member, asking, heard, closing, turns>>

-----------------------------------------------------------------------------
CloseStep(p) ==
    CloseLook(p) \/ CloseWrite(p) \/ CloseMember(p) \/ CloseQueue(p) \/ CloseCard(p)

DaemonStep ==
    \/ TickWorks \/ TickBoard \/ RefreshLook \/ RefreshWrite
    \/ DeliverBegins \/ DeliverPlan \/ DeliverFails
    \/ \E s \in Sessions : DeliverCarry(s) \/ DeliverMarks(s)
    \/ CloseStep(Daemon)

AskStep(s) == AskPoll(s) \/ AskSettles(s) \/ AskReturns(s)

\* What a call may name as a task's files.
Files == {{p} : p \in RawPaths} \cup {{}}

Plans == UNION {[T -> Files] : T \in SUBSET Planned \ {{}}}

Next ==
    \/ \E plan \in Plans : PlanWork(plan)
    \/ \E paths \in Files : SpawnOntoFirstTask(paths)
    \/ \E s \in Sessions, t \in Tasks : CompleteTask(s, t)
    \/ CloseByHand
    \/ \E p \in Procs \ {Daemon} : CloseStep(p)
    \/ DaemonStep
    \/ \E s \in Sessions :
         \/ RunStarts(s) \/ RunEnds(s) \/ AnswerCard(s) \/ DismissCard(s)
         \/ \E blocking \in BOOLEAN : AskQuestion(s, blocking)
         \/ AskStep(s)

Spec == Init /\ [][Next]_vars

\* The daemon keeps ticking.  Nothing says that a turn ends, that a call goes on
\* or that a session can be resumed.
FairSpec == Spec /\ WF_vars(DaemonStep)

-----------------------------------------------------------------------------
(* What holds                                                              *)

AtRec == [pc : {"idle", "look", "write", "members", "queues", "card", "board", "recheck",
                "settle_work", "deliver", "plan", "carry", "mark"},
          idle : SUBSET Sessions, to : {"none", "finishing", "closed"},
          todo : SUBSET Sessions, since : SUBSET Sessions]

\* Types, and a call that is under way is a call of a run that is going.
TypeOK ==
    /\ state \in {"open", "finishing", "closed"}
    /\ board \in [Tasks -> {"none", "open", "done"}]
    /\ owns \in [Tasks -> SUBSET RawPaths]
    /\ opening \in [recorded : BOOLEAN, early : SUBSET Planned]
    /\ runs \in [Sessions -> Nat]
    /\ member \in [Sessions -> {"ready", "shutdown"}]
    /\ answer \in [Sessions -> {"none", "open", "dismissed", "queued", "delivered", "undeliverable"}]
    /\ asking \in [Sessions -> {"no", "polling", "told", "settled"}]
    /\ heard \in [Sessions -> BOOLEAN]
    /\ closing \in {"none", "finishing", "closed"}
    /\ at \in [Procs -> AtRec]
    /\ turns \in 0..MaxTurns
    /\ \A s \in Sessions : asking[s] # "no" \/ at[s].pc # "idle" => runs[s] > 0

\* The files, as component sequences, that a raw path stands for among those the
\* plans can spell: the path itself and everything below it.
FilesOf(path) ==
    {Lowered(Tidy(p)) : p \in {q \in RawPaths :
       \E n \in 0..Len(Lowered(Tidy(q))) :
         SubSeq(Lowered(Tidy(q)), 1, n) = Lowered(Tidy(path))}}

\* The first task got its files, unchecked, with this one on the board already.
PlannedBlind(t, u) == First \in {t, u} /\ {t, u} \cap opening.early # {}

\* No file belongs to two open tasks, however their paths are spelled and in
\* whatever order they were planned and completed, but for a task that was
\* planned before open_work recorded the files of the first (plan_work,
\* overlapping, spawn_onto_first_task).
OwnersDisjoint ==
    \A t, u \in OpenTasks : t # u /\ ~PlannedBlind(t, u) =>
      \A p \in owns[t], q \in owns[u] : FilesOf(p) \cap FilesOf(q) = {}

\* Closing leaves a running session alone: it is shut down, or its answer given
\* up, only when it was idle as the closing looked (close_work).
RunningLeftAlone ==
    [][\A s \in Sessions :
         /\ member'[s] # member[s] \/ (answer[s] = "queued" /\ answer'[s] = "undeliverable")
         /\ runs[s] > 0
         => \E p \in Procs : at[p].pc \in {"members", "queues"} /\ s \in at[p].since]_vars

\* An answer is marked delivered only when a run has it: it was in the prompt of
\* a turn that started, or the poll of a run that is still going read it
\* (settle, ask_question, tick_deliveries, close_work).
MarkedWhenHeld ==
    [][\A s \in Sessions :
         answer[s] # "delivered" /\ answer'[s] = "delivered"
         => heard[s] \/ (asking[s] = "told" /\ runs[s] > 0)]_vars

\* "The answer is in the caller's hands by the time this runs" (the comment on
\* settle_card_delivery): what is marked delivered was told, or the call that
\* settled it is about to return it.
DeliveredWasHeard ==
    \A s \in Sessions : answer[s] = "delivered" => heard[s] \/ asking[s] = "settled"

\* The daemon is about to carry the answer to this session.
Carrying(s) == at[Daemon].pc = "carry" /\ at[Daemon].idle = {s}

\* A queued answer is not left lying at an idle session: its turn is tried, again
\* and again for as long as it fails, whatever else is closed, shut down or
\* refreshed (answer_card, tick_deliveries, close_work).
AnswersAreTried ==
    \A s \in Sessions : []<>(answer[s] # "queued" \/ runs[s] > 0 \/ Carrying(s))

Quiet == OpenTasks = {} /\ \A s \in Sessions : runs[s] = 0

\* A work with nothing left to do and nobody at work is closed in the end, if it
\* stays so (complete_work_task, tick_works, refresh_work_state).
ClosesInTheEnd == Quiet ~> (state = "closed" \/ ~Quiet)

=============================================================================
