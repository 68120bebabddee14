------------------------------ MODULE TeamMail ------------------------------
(***************************************************************************)
(* The message bus of one team and the two ways mail becomes a turn:       *)
(*   - an ordinary member is woken: a tick claims the wake, spawns a run   *)
(*     that resumes the member's session with the mail as its prompt, and  *)
(*     only then takes the mail off the bus (ticker.rs, team.rs);          *)
(*   - the main chat is a standing conversation: its mail is moved to the  *)
(*     delivery queue, and the queue is turned into a turn by the daemon   *)
(*     (tick_deliveries) or by the console on screen (deliver_reports).    *)
(*                                                                         *)
(* Every store write is one SQLite transaction and is one step here; an    *)
(* await between two of them is a gap in which any other process may move. *)
(* The reads that open a pass (who is over, who holds mail) are one step   *)
(* each: what they return is stale from then on.                           *)
(* A message is its row number; its body is not modelled.                  *)
(***************************************************************************)
EXTENDS Naturals, Sequences, FiniteSets, SequencesExt, FiniteSetsExt

CONSTANTS
    Members,        \* the ordinary members of the team
    Main,           \* the main chat's name on the bus
    Everyone,       \* the recipient of a broadcast
    Stranger,       \* a name that is on no roster
    Tickers,        \* the processes that tick (`jod daemon`)
    Consoles,       \* the processes that hold the chat (`jod tui`)
    MessageBudget,  \* Bounds.message_budget
    MaxDepth,       \* Bounds.max_depth
    MaxMessages,    \* bound: rows of team_messages
    MaxOrders,      \* bound: runs a person may have started before one more
    MaxFaults       \* bound: processes that die, and writes that fail, in the middle of a pass

ASSUME TeamMailAssumption ==
    /\ Main \notin Members /\ IsFiniteSet(Members)
    /\ {Everyone, Stranger} \cap (Members \cup {Main}) = {}
    /\ Tickers \cap Consoles = {}
    /\ MessageBudget \in Nat /\ MaxDepth \in Nat
    /\ MaxMessages \in Nat /\ MaxOrders \in Nat /\ MaxFaults \in Nat

VARIABLES
    msgs,      \* team_messages, in id order
    member,    \* team_members
    runs,      \* the runs started, in order: what each was told, and whether it goes on
    queue,     \* pending_deliveries of the main chat, in id order
    pass,      \* where each ticker and console is in its pass
    starting,  \* the `jod team start` under way
    faults     \* processes that died, and writes that failed, in the middle of a pass

vars == <<msgs, member, runs, queue, pass, starting, faults>>

NoRun == 0

Roster == Members \cup {Main}

(***************************************************************************)
(* The tables.                                                             *)
(***************************************************************************)
Unread(m) == {i \in DOMAIN msgs : msgs[i].to = m /\ ~msgs[i].flag}

Over(r) == ~runs[r].live

(* conversation_is_busy: a turn of the main chat is in flight. *)
Busy == \E r \in DOMAIN runs : runs[r].of = Main /\ runs[r].live

(* main_chat_is_resumable: the chat's harness session is known. *)
Resumable == \E r \in DOMAIN runs : runs[r].of = Main /\ runs[r].session

(* pending_for: the rows of the queue still to be said. *)
PendingFor == {k \in DOMAIN queue : queue[k].state = "queued"}

(* The member a run speaks for: the one bound to it, or its conversation. *)
CallerForRun(r) == {m \in Members : member[m].agent = r}
                   \cup {m \in {Main} : runs[r].of = Main}

CountsAgainstBudget(s) == s # "undeliverable"

(***************************************************************************)
(* Writing to the bus. A bound is checked and the rows are written in one  *)
(* transaction; an attempt that is refused leaves one undeliverable row.   *)
(***************************************************************************)
Recipients(from, to) == IF to = Everyone THEN Roster \ {from} ELSE {to}

Record(from, r, to, parent, depth, state) ==
    [from |-> from, by |-> r, to |-> to, parent |-> parent, depth |-> depth,
     flag |-> state # "queued", state |-> state]

Depth(parent) == IF parent = 0 THEN 0 ELSE msgs[parent].depth + 1

Used == Cardinality({i \in DOMAIN msgs : CountsAgainstBudget(msgs[i].state)})

(* Mutant: the count is compared before the recipients are added to it. *)
FitsBudgetBefore(n) == Used <= MessageBudget

FitsBudget(n) == Used + n <= MessageBudget

Outcome(all, depth) ==
    IF all \notin {{}, {Stranger}} /\ depth <= MaxDepth /\ FitsBudget(Cardinality(all))
    THEN "queued" ELSE "undeliverable"

(* A refused attempt is recorded once, against its first recipient, or     *)
(* against nobody when there is none.                                      *)
Told(all, state) ==
    IF state = "queued" THEN SetToSeq(all)
    ELSE <<IF all = {} THEN Stranger ELSE CHOOSE n \in all : TRUE>>

(* Agent m, speaking through run r, sends, broadcasts, asks or replies. *)
Post(r, m, to, parent) ==
    LET all   == Recipients(m, to)
        depth == Depth(parent)
        state == Outcome(all, depth)
        told  == Told(all, state)
    IN  /\ runs[r].live
        /\ m \in CallerForRun(r)
        /\ parent # 0 => to = msgs[parent].from
        /\ Len(msgs) + Len(told) <= MaxMessages
        /\ msgs' = msgs \o [k \in 1..Len(told) |->
                               Record(m, r, told[k], parent, depth, state)]
        /\ UNCHANGED <<member, runs, queue, pass, starting, faults>>

(* `jod team msg`: a person writes to a member, past every bound. *)
TeamMsg(to) ==
    /\ Len(msgs) < MaxMessages
    /\ msgs' = Append(msgs, Record(Stranger, NoRun, to, 0, 0, "queued"))
    /\ UNCHANGED <<member, runs, queue, pass, starting, faults>>

(* drain_inbox: the flag is raised and the state is left. *)
FlaggedOnly(ids) == [i \in DOMAIN msgs |->
    IF i \in ids THEN [msgs[i] EXCEPT !.flag = TRUE] ELSE msgs[i]]

Flagged(ids) == [i \in DOMAIN msgs |->
    IF i \in ids THEN [msgs[i] EXCEPT !.flag = TRUE, !.state = "delivered"] ELSE msgs[i]]

(***************************************************************************)
(* Reading inside a turn. read_messages drains the caller's inbox and only *)
(* then marks what it drained: two transactions, and a call that is cut or *)
(* refused between them leaves the rows drained and unmarked for good.     *)
(***************************************************************************)
DrainInbox(r, m) ==
    /\ runs[r].live
    /\ m \in CallerForRun(r)
    /\ Unread(m) # {}
    /\ runs' = [runs EXCEPT ![r].read = @ \cup Unread(m), ![r].taking = @ \cup {Unread(m)}]
    /\ msgs' = FlaggedOnly(Unread(m))
    /\ UNCHANGED <<member, queue, pass, starting, faults>>

MarkMailDelivered(r, ids) ==
    /\ runs[r].live
    /\ runs' = [runs EXCEPT ![r].taking = @ \ {ids}]
    /\ msgs' = Flagged(ids)
    /\ UNCHANGED <<member, queue, pass, starting, faults>>

(* `ask` polls for the first reply to its question and settles it. A reply *)
(* that a bound refused is a row like any other, and is found too.         *)
AskAnswered(r, q) ==
    LET replies == {i \in DOMAIN msgs : msgs[i].parent = q}
    IN  /\ runs[r].live
        /\ msgs[q].by = r
        /\ msgs[q].state # "undeliverable"
        /\ replies # {}
        /\ Min(replies) \notin runs[r].read
        /\ runs' = [runs EXCEPT ![r].read = @ \cup {Min(replies)}]
        /\ msgs' = Flagged({Min(replies)})
        /\ UNCHANGED <<member, queue, pass, starting, faults>>

(***************************************************************************)
(* Runs. By the time a run is over its harness has named the session, or   *)
(* never will.                                                             *)
(***************************************************************************)
NewRun(m, ids) == [of |-> m, live |-> TRUE, session |-> FALSE, prompt |-> ids,
                   read |-> {}, taking |-> {}]

RunEnds(r, named) ==
    /\ runs[r].live
    /\ runs' = [runs EXCEPT ![r].live = FALSE, ![r].session = named]
    /\ UNCHANGED <<msgs, member, queue, pass, starting, faults>>

(* A person types into the chat from a process that is none of these. *)
ChatTurn ==
    /\ Len(runs) < MaxOrders
    /\ runs' = Append(runs, NewRun(Main, {}))
    /\ UNCHANGED <<msgs, member, queue, pass, starting, faults>>

(***************************************************************************)
(* `jod team start`: spawn, mark busy, bind. It asks nothing of the member. *)
(***************************************************************************)
Idle == [m |-> Stranger, run |-> NoRun, pc |-> "idle"]

TeamStart(m) ==
    /\ starting = Idle
    /\ Len(runs) < MaxOrders
    /\ runs' = Append(runs, NewRun(m, {}))
    /\ starting' = [m |-> m, run |-> Len(runs) + 1, pc |-> "spawned"]
    /\ UNCHANGED <<msgs, member, queue, pass, faults>>

TeamStartBusy ==
    /\ starting.pc = "spawned"
    /\ member' = [member EXCEPT ![starting.m].status = "busy"]
    /\ starting' = [starting EXCEPT !.pc = "busy"]
    /\ UNCHANGED <<msgs, runs, queue, pass, faults>>

TeamStartBinds ==
    /\ starting.pc = "busy"
    /\ member' = [member EXCEPT ![starting.m].agent = starting.run]
    /\ starting' = Idle
    /\ UNCHANGED <<msgs, runs, queue, pass, faults>>

(***************************************************************************)
(* A tick. It frees the members whose run is over, reads who holds mail,   *)
(* and works through that list, which is stale from then on.               *)
(***************************************************************************)
Resting == [pc |-> "idle", frees |-> {}, todo |-> {}, held |-> {}, items |-> {}, run |-> NoRun]

At(d, pc) == pass[d].pc = pc

(* Mutant: a run that named no session never frees its member. *)
SettledIfNamed(m) ==
    LET a == member[m].agent
    IN  member[m].status = "busy" /\ a # NoRun /\ Over(a) /\ runs[a].session

(* settle_members finds m busy with a run that is over. *)
Settled(m) ==
    LET a == member[m].agent
    IN  member[m].status = "busy" /\ a # NoRun /\ Over(a)

SettleMembers(t) ==
    /\ At(t, "idle")
    /\ pass' = [pass EXCEPT ![t].pc = "settling",
                            ![t].frees = {[m |-> m, agent |-> member[m].agent, bound |-> FALSE] :
                                             m \in {n \in Members : Settled(n)}}]
    /\ UNCHANGED <<msgs, member, runs, queue, starting, faults>>

(* It writes back the agent it read, with the session that agent's run named ... *)
SettleBinds(t, f) ==
    /\ At(t, "settling")
    /\ ~f.bound
    /\ member' = [member EXCEPT ![f.m].agent = f.agent,
                                ![f.m].session = @ \/ runs[f.agent].session]
    /\ pass' = [pass EXCEPT ![t].frees = (@ \ {f}) \cup {[f EXCEPT !.bound = TRUE]}]
    /\ UNCHANGED <<msgs, runs, queue, starting, faults>>

(* ... and only then frees the member, whatever it is doing by now. *)
SettleFrees(t, f) ==
    /\ At(t, "settling")
    /\ f.bound
    /\ member' = [member EXCEPT ![f.m].status = "ready"]
    /\ pass' = [pass EXCEPT ![t].frees = @ \ {f}]
    /\ UNCHANGED <<msgs, runs, queue, starting, faults>>

(* A write that fails is noted, and the pass goes on with the next member. *)
SettleFails(t, f) ==
    /\ At(t, "settling")
    /\ faults < MaxFaults
    /\ pass' = [pass EXCEPT ![t].frees = @ \ {f}]
    /\ faults' = faults + 1
    /\ UNCHANGED <<msgs, member, runs, queue, starting>>

(* What `mail_waiting` returns of member m: its row and its mail, as they are now. *)
Waiting(m) ==
    [m |-> m, pending |-> Unread(m),
     wakeable |-> m \in Members /\ member[m].status = "ready" /\ member[m].session]

MailWaiting(t) ==
    /\ At(t, "settling") /\ pass[t].frees = {}
    /\ pass' = [pass EXCEPT ![t].pc = "mail",
                            ![t].todo = {Waiting(m) : m \in {n \in Roster : Unread(n) # {}}}]
    /\ UNCHANGED <<msgs, member, runs, queue, starting, faults>>

(* A row for each message; the rows of one hand-over come in any order,    *)
(* which no step tells apart.                                              *)
QueuedRows(ids) ==
    [k \in 1..Cardinality(ids) |-> [msg |-> SetToSeq(ids)[k], state |-> "queued"]]

(* Mutant: "a queue written without the drain". *)
HandMailUndrained ==
    /\ queue' = queue \o QueuedRows(Unread(Main))
    /\ msgs' = msgs

(* hand_mail_to_conversation: everything unread goes onto the queue. *)
HandMail ==
    /\ queue' = queue \o QueuedRows(Unread(Main))
    /\ msgs' = Flagged(Unread(Main))

HandToConversation(t, w) ==
    /\ At(t, "mail")
    /\ w \in pass[t].todo /\ w.m = Main
    /\ pass' = [pass EXCEPT ![t].todo = @ \ {w}]
    /\ IF Resumable THEN HandMail ELSE UNCHANGED <<msgs, queue>>
    /\ UNCHANGED <<member, runs, starting, faults>>

(* wake_order says no: the member is not ready, or has no session. *)
LeaveAsleep(t, w) ==
    /\ At(t, "mail")
    /\ w \in pass[t].todo /\ w.m # Main
    /\ ~w.wakeable
    /\ pass' = [pass EXCEPT ![t].todo = @ \ {w}]
    /\ UNCHANGED <<msgs, member, runs, queue, starting, faults>>

(* claim_wake: at most one wake of a member in an interval. *)
ClaimWake(t, w) ==
    /\ At(t, "mail")
    /\ w \in pass[t].todo /\ w.m # Main
    /\ w.wakeable
    /\ member' = [member EXCEPT ![w.m].woken = TRUE]
    /\ pass' = [pass EXCEPT ![t] =
                   IF member[w.m].woken
                   THEN [@ EXCEPT !.todo = pass[t].todo \ {w}]
                   ELSE [@ EXCEPT !.todo = pass[t].todo \ {w}, !.held = {w}, !.pc = "claimed"]]
    /\ UNCHANGED <<msgs, runs, queue, starting, faults>>

IntervalPasses(m) ==
    /\ member[m].woken
    /\ member' = [member EXCEPT ![m].woken = FALSE]
    /\ UNCHANGED <<msgs, runs, queue, pass, starting, faults>>

Held(d) == CHOOSE w \in pass[d].held : TRUE

SpawnWake(t) ==
    /\ At(t, "claimed")
    /\ runs' = Append(runs, NewRun(Held(t).m, Held(t).pending))
    /\ pass' = [pass EXCEPT ![t].pc = "spawned", ![t].run = Len(runs) + 1]
    /\ UNCHANGED <<msgs, member, queue, starting, faults>>

(* The spawn fails: the mail is left where it is. *)
SpawnFails(t) ==
    /\ At(t, "claimed")
    /\ pass' = [pass EXCEPT ![t].pc = "mail", ![t].held = {}]
    /\ UNCHANGED <<msgs, member, runs, queue, starting, faults>>

(* Mutant: the tick forgets to take what it handed over. *)
TakeMailForgets(t) ==
    /\ At(t, "spawned")
    /\ pass' = [pass EXCEPT ![t].pc = "taken"]
    /\ UNCHANGED <<msgs, member, runs, queue, starting, faults>>

(* Mutant: the two-call version, without its second call. *)
TakeMailDrains(t) ==
    /\ At(t, "spawned")
    /\ msgs' = FlaggedOnly(Unread(Held(t).m))
    /\ pass' = [pass EXCEPT ![t].pc = "taken"]
    /\ UNCHANGED <<member, runs, queue, starting, faults>>

TakeMail(t) ==
    /\ At(t, "spawned")
    /\ msgs' = Flagged(Unread(Held(t).m))
    /\ pass' = [pass EXCEPT ![t].pc = "taken"]
    /\ UNCHANGED <<member, runs, queue, starting, faults>>

WakeBusy(t) ==
    /\ At(t, "taken")
    /\ member' = [member EXCEPT ![Held(t).m].status = "busy"]
    /\ pass' = [pass EXCEPT ![t].pc = "busy"]
    /\ UNCHANGED <<msgs, runs, queue, starting, faults>>

WakeBinds(t) ==
    /\ At(t, "busy")
    /\ member' = [member EXCEPT ![Held(t).m].agent = pass[t].run]
    /\ pass' = [pass EXCEPT ![t].pc = "mail", ![t].held = {}, ![t].run = NoRun]
    /\ UNCHANGED <<msgs, runs, queue, starting, faults>>

(* A write after the spawn fails: wake returns early, with the run started *)
(* and whatever it had yet to write left as it was.                        *)
WakeFails(t) ==
    /\ pass[t].pc \in {"spawned", "taken", "busy"}
    /\ faults < MaxFaults
    /\ pass' = [pass EXCEPT ![t].pc = "mail", ![t].held = {}, ![t].run = NoRun]
    /\ faults' = faults + 1
    /\ UNCHANGED <<msgs, member, runs, queue, starting>>

(***************************************************************************)
(* The delivery queue. The plan is a read; the turn is spawned; only the   *)
(* rows that were planned, and that are still queued, are then settled.    *)
(***************************************************************************)
DeliverNothing(t) ==
    /\ At(t, "mail") /\ pass[t].todo = {}
    /\ Busy \/ PendingFor = {} \/ ~Resumable
    /\ pass' = [pass EXCEPT ![t] = Resting]
    /\ UNCHANGED <<msgs, member, runs, queue, starting, faults>>

PlanInjection(t) ==
    /\ At(t, "mail") /\ pass[t].todo = {}
    /\ ~Busy /\ PendingFor # {} /\ Resumable
    /\ pass' = [pass EXCEPT ![t].pc = "planned", ![t].items = PendingFor]
    /\ UNCHANGED <<msgs, member, runs, queue, starting, faults>>

(* The console collects the chat's mail itself, and knows only its own turns. *)
DeliverReports(c) ==
    /\ At(c, "idle")
    /\ pass[c].run # NoRun => Over(pass[c].run)
    /\ IF Resumable THEN HandMail ELSE UNCHANGED <<msgs, queue>>
    /\ LET items == {k \in DOMAIN queue' : queue'[k].state = "queued"}
       IN  /\ items # {}
           /\ pass' = [pass EXCEPT ![c] = [Resting EXCEPT !.pc = "planned", !.items = items]]
    /\ UNCHANGED <<member, runs, starting, faults>>

Carry(d) ==
    /\ At(d, "planned")
    /\ runs' = Append(runs, NewRun(Main, {queue[k].msg : k \in pass[d].items}))
    /\ pass' = [pass EXCEPT ![d].pc = "carried", ![d].run = Len(runs) + 1]
    /\ UNCHANGED <<msgs, member, queue, starting, faults>>

CarryFails(d) ==
    /\ At(d, "planned")
    /\ pass' = [pass EXCEPT ![d] = Resting]
    /\ UNCHANGED <<msgs, member, runs, queue, starting, faults>>

(* Mutant: every queued row is settled, not the ones the turn carries. *)
SettleAll(ids) == [k \in DOMAIN queue |-> [queue[k] EXCEPT !.state = "delivered"]]

Settle(ids) == [k \in DOMAIN queue |->
    IF k \in ids \cap PendingFor THEN [queue[k] EXCEPT !.state = "delivered"] ELSE queue[k]]

(* A console remembers the turn it is streaming; a tick forgets. *)
MarkDelivered(d) ==
    /\ At(d, "carried")
    /\ queue' = Settle(pass[d].items)
    /\ pass' = [pass EXCEPT ![d] =
                   [Resting EXCEPT !.run = IF d \in Consoles THEN pass[d].run ELSE NoRun]]
    /\ UNCHANGED <<msgs, member, runs, starting, faults>>

(* A process dies in the middle of a pass and is started again. A write    *)
(* that fails and ends the pass (claim_wake, the settling of a queue) is   *)
(* the same step.                                                          *)
Crash(d) ==
    /\ faults < MaxFaults
    /\ ~At(d, "idle")
    /\ pass' = [pass EXCEPT ![d] = Resting]
    /\ faults' = faults + 1
    /\ UNCHANGED <<msgs, member, runs, queue, starting>>

-----------------------------------------------------------------------------

Init ==
    /\ msgs = <<>> /\ runs = <<>> /\ queue = <<>>
    /\ member = [m \in Members |->
                    [status |-> "ready", agent |-> NoRun, session |-> FALSE, woken |-> FALSE]]
    /\ pass = [d \in Tickers \cup Consoles |-> Resting]
    /\ starting = Idle
    /\ faults = 0

AgentStep ==
    \E r \in DOMAIN runs :
        \/ \E m \in Roster :
              \/ \E to \in Roster \cup {Everyone, Stranger}, p \in 0..Len(msgs) : Post(r, m, to, p)
              \/ DrainInbox(r, m)
        \/ \E ids \in runs[r].taking : MarkMailDelivered(r, ids)
        \/ \E q \in DOMAIN msgs : AskAnswered(r, q)

PersonStep ==
    \/ ChatTurn
    \/ \E m \in Roster : TeamMsg(m)
    \/ \E m \in Members : TeamStart(m)

StartStep == TeamStartBusy \/ TeamStartBinds

WakeStep(t) ==
    \/ SettleMembers(t) \/ MailWaiting(t)
    \/ \E f \in pass[t].frees : SettleBinds(t, f) \/ SettleFrees(t, f) \/ SettleFails(t, f)
    \/ \E w \in pass[t].todo : HandToConversation(t, w) \/ LeaveAsleep(t, w) \/ ClaimWake(t, w)
    \/ TakeMail(t) \/ WakeBusy(t) \/ WakeBinds(t) \/ WakeFails(t)
    \/ DeliverNothing(t) \/ PlanInjection(t)

Next ==
    \/ AgentStep \/ PersonStep \/ StartStep
    \/ \E r \in DOMAIN runs, named \in BOOLEAN : RunEnds(r, named)
    \/ \E m \in Members : IntervalPasses(m)
    \/ \E t \in Tickers : WakeStep(t) \/ SpawnWake(t) \/ SpawnFails(t)
    \/ \E c \in Consoles : DeliverReports(c)
    \/ \E d \in Tickers \cup Consoles :
          Carry(d) \/ CarryFails(d) \/ MarkDelivered(d) \/ Crash(d)

Spec == Init /\ [][Next]_vars

(***************************************************************************)
(* Fairness: the daemon's loop goes on, whatever its spawns answer, and    *)
(* the wake interval is real time. A turn need not end (the heartbeat only *)
(* marks one that stalls), a spawn need not succeed, and nothing is asked  *)
(* of a person, of an agent, of a console or of a `jod team start`.        *)
(***************************************************************************)
FairSpec ==
    /\ Spec
    /\ \A m \in Members : WF_vars(IntervalPasses(m))
    /\ \A t \in Tickers :
          WF_vars(\/ WakeStep(t) \/ SpawnWake(t) \/ SpawnFails(t)
                  \/ Carry(t) \/ CarryFails(t) \/ MarkDelivered(t))

(***************************************************************************)
(* Properties.                                                             *)
(***************************************************************************)
RunIds == DOMAIN runs
Ids    == DOMAIN msgs

MsgRec == [from : Roster \cup {Stranger}, by : Nat, to : Roster \cup {Stranger},
           parent : Nat, depth : Nat, flag : BOOLEAN,
           state : {"queued", "delivered", "undeliverable"}]

MemberRec == [status : {"ready", "busy"}, agent : RunIds \cup {NoRun},
              session : BOOLEAN, woken : BOOLEAN]

RunRec == [of : Roster, live : BOOLEAN, session : BOOLEAN,
           prompt : SUBSET Ids, read : SUBSET Ids, taking : SUBSET SUBSET Ids]

QueueRec == [msg : Ids, state : {"queued", "delivered"}]

FreeRec == [m : Members, agent : RunIds, bound : BOOLEAN]

WaitRec == [m : Roster, pending : SUBSET Ids, wakeable : BOOLEAN]

PassRec == [pc : {"idle", "settling", "mail", "claimed", "spawned", "taken", "busy",
                  "planned", "carried"},
            frees : SUBSET FreeRec, todo : SUBSET WaitRec, held : SUBSET WaitRec,
            items : SUBSET DOMAIN queue, run : RunIds \cup {NoRun}]

StartRec == [m : Members \cup {Stranger}, run : RunIds \cup {NoRun},
             pc : {"idle", "spawned", "busy"}]

(* Drained by a read inside a turn that has not marked it, or never will. *)
Drained(i) == \E r \in RunIds : \E ids \in runs[r].taking : i \in ids

(* Types, and: the flag, which `team_unread` reads, and the state, which   *)
(* the traffic view reads, agree on every row but those a read_messages    *)
(* drained and has not marked: `take_mail`, the hand-over and `ask` write  *)
(* both. Each reference is to a row that is there.                         *)
TypeOK ==
    /\ msgs \in Seq(MsgRec)
    /\ \A i \in Ids : /\ ~msgs[i].flag => msgs[i].state = "queued"
                      /\ (msgs[i].flag /\ msgs[i].state = "queued") => Drained(i)
                      /\ msgs[i].parent < i /\ msgs[i].by \in RunIds \cup {NoRun}
    /\ member \in [Members -> MemberRec]
    /\ runs \in Seq(RunRec)
    /\ queue \in Seq(QueueRec)
    /\ pass \in [Tickers \cup Consoles -> PassRec]
    /\ starting \in StartRec
    /\ faults \in 0..MaxFaults

(* "the same instruction is never injected into two turns": unless a       *)
(* process died, or a write failed, between a spawn and its take_mail, no  *)
(* message is in the prompt of two woken runs, whoever read, started or    *)
(* wrote meanwhile.                                                        *)
WokenOnce ==
    faults = 0 =>
        \A r, s \in RunIds : r # s /\ runs[r].of # Main => runs[r].prompt \cap runs[s].prompt = {}

(* The budget bounds what agents cost: of the messages agents wrote, no    *)
(* more than `message_budget` are ever put before a turn as its prompt,    *)
(* in whatever order posts, broadcasts, bounced replies and asks come.     *)
TurnsWithinBudget ==
    Cardinality({i \in Ids : /\ msgs[i].by # NoRun
                             /\ \E r \in RunIds : i \in runs[r].prompt}) <= MessageBudget

(* The queue never says a thing was said that no turn carried, although a  *)
(* plan is stale by the time its turn is spawned and two processes settle. *)
SettledWasCarried ==
    \A k \in DOMAIN queue :
        queue[k].state = "delivered" => \E r \in RunIds : queue[k].msg \in runs[r].prompt

(* The main chat's mail is neither lost nor doubled between the bus and    *)
(* the queue: a message that is off the bus was taken by a read inside a   *)
(* turn, or is on the queue, exactly once, whoever moved it.               *)
MainMailKept ==
    \A i \in Ids :
        LET rows == {k \in DOMAIN queue : queue[k].msg = i}
        IN  /\ Cardinality(rows) <= 1
            /\ (msgs[i].to = Main /\ msgs[i].flag /\ msgs[i].state # "undeliverable") =>
                   rows # {} \/ \E r \in RunIds : i \in runs[r].read

(* The daemon is starting the turn that would carry message i. *)
Attempted(i) ==
    \E t \in Tickers :
        \/ At(t, "claimed") /\ i \in Held(t).pending
        \/ At(t, "planned") /\ \E k \in pass[t].items : queue[k].msg = i

(* In a turn: bound to a run that goes on. *)
InTurn(m) ==
    member[m].status = "busy" /\ member[m].agent # NoRun /\ ~Over(member[m].agent)

(* On the bus for an addressee that can be resumed, or on the chat's queue. *)
Waits(i) ==
    /\ i \in Ids
    /\ IF msgs[i].to = Main
       THEN \/ ~msgs[i].flag /\ Resumable
            \/ ~Busy /\ \E k \in PendingFor : queue[k].msg = i
       ELSE ~msgs[i].flag /\ member[msgs[i].to].session /\ ~InTurn(msgs[i].to)

(* Mail for an addressee that can be resumed and is in no turn is tried    *)
(* again and again: no wake that was refused, rate-limited, failed or died *)
(* with its process, no member left busy by a run that is over, and no row *)
(* whose carry failed stays behind for ever.                               *)
MailIsTried ==
    \A i \in 1..MaxMessages : []<>(~Waits(i) \/ Attempted(i))
=============================================================================
