---------------------------- MODULE WorksProofs -----------------------------
(***************************************************************************)
(* What holds of a work for any number of sessions, tasks and paths, and   *)
(* any number of closings at once: the types, that no plan gives a file a  *)
(* second owner, that a closing leaves running sessions alone, and that an *)
(* answer is marked delivered only while a run has it.                     *)
(***************************************************************************)
EXTENDS Works, FiniteSetTheorems, TLAPS

Closing == {"write", "members", "queues"}

(* A closing that has looked knows what the work becomes, and of those it  *)
(* found idle it knows who began a run since; it works on no others.       *)
Fine(q, running) ==
    /\ q.pc \in Closing \cup {"card"} => q.to # "none"
    /\ q.pc \in Closing => \A s \in q.idle : running[s] > 0 => s \in q.since
    /\ q.pc \in {"members", "queues"} => q.todo \subseteq q.idle

Fits(p) == Fine(at[p], runs)

BoardOK ==
    /\ state \in {"open", "finishing", "closed"}
    /\ board \in [Tasks -> {"none", "open", "done"}]
    /\ owns \in [Tasks -> SUBSET RawPaths]
    /\ opening \in [recorded : BOOLEAN, early : SUBSET Planned]

SessionOK ==
    /\ runs \in [Sessions -> Nat]
    /\ member \in [Sessions -> {"ready", "shutdown"}]
    /\ answer \in [Sessions -> {"none", "open", "dismissed", "queued", "delivered", "undeliverable"}]
    /\ asking \in [Sessions -> {"no", "polling", "told", "settled"}]
    /\ heard \in [Sessions -> BOOLEAN]

CallOK == \A s \in Sessions : asking[s] # "no" \/ at[s].pc # "idle" => runs[s] > 0

AtOK == at \in [Procs -> AtRec] /\ \A p \in Procs : Fits(p)

BoundsOK ==
    /\ closing \in {"none", "finishing", "closed"}
    /\ turns \in 0..MaxTurns

(* The inductive invariant that types rest on. *)
TypeInv == BoardOK /\ SessionOK /\ CallOK /\ AtOK /\ BoundsOK

LEMMA TypeInvGives ==
    ASSUME TypeInv PROVE TypeOK
BY DEF TypeInv, TypeOK, BoardOK, SessionOK, CallOK, AtOK, BoundsOK

LEMMA RestTyped == Rest \in AtRec /\ Rest.pc = "idle"
BY DEF Rest, AtRec

LEMMA ProcsHave ==
    Daemon \in Procs /\ Person \in Procs /\ Sessions \subseteq Procs /\ Daemon \notin Sessions
BY WorksAssumption DEF Procs

LEMMA InitTyped ==
    ASSUME Init PROVE TypeInv
<1>1. BoardOK
  BY DEF Init, BoardOK
<1>2. SessionOK
  BY DEF Init, SessionOK
<1>3. AtOK
  BY RestTyped DEF Init, AtOK, Fits, Fine, Closing
<1>4. BoundsOK
  BY WorksAssumption DEF Init, BoundsOK
<1>5. CallOK
  BY DEF Init, CallOK
<1>6. QED
  BY <1>1, <1>2, <1>3, <1>4, <1>5 DEF TypeInv

LEMMA BoardStep ==
    ASSUME TypeInv, Next
    PROVE  BoardOK'
<1> USE DEF TypeInv
<1>1. CASE UNCHANGED boardVars
  BY <1>1 DEF BoardOK, boardVars
<1>2. ASSUME NEW plan \in Plans, PlanWork(plan) PROVE BoardOK'
  <2>1. \A t \in DOMAIN plan : plan[t] \subseteq RawPaths
    BY DEF Plans, Files
  <2>2. QED
    BY <1>2, <2>1 DEF PlanWork, BoardOK, Plans
<1>3. ASSUME NEW s \in Sessions, NEW t \in Tasks, CompleteTask(s, t) PROVE BoardOK'
  BY <1>3 DEF CompleteTask, BoardOK
<1>4. ASSUME NEW p \in Procs, CloseWrite(p) PROVE BoardOK'
  <2>1. at[p].to \in {"finishing", "closed"}
    BY <1>4 DEF CloseWrite, AtOK, Fits, Fine, AtRec, Closing
  <2>2. QED
    BY <1>4, <2>1 DEF CloseWrite, BoardOK
<1>5. CASE RefreshWrite
  BY <1>5 DEF RefreshWrite, BoardOK
<1>6. ASSUME NEW paths \in Files, SpawnOntoFirstTask(paths) PROVE BoardOK'
  BY <1>6 DEF SpawnOntoFirstTask, Files, BoardOK
<1>7. QED
  BY <1>1, <1>2, <1>3, <1>4, <1>5, <1>6, ProcsHave
  DEF Next, CloseByHand, CloseStep, CloseLook, CloseMember, CloseQueue, CloseCard, DaemonStep,
      TickWorks, TickBoard, RefreshLook, DeliverBegins, DeliverPlan, DeliverFails,
      DeliverCarry, DeliverMarks, RunStarts, RunEnds, AnswerCard, DismissCard, AskQuestion,
      AskStep, AskPoll, AskSettles, AskReturns

LEMMA SessionStep ==
    ASSUME TypeInv, Next
    PROVE  SessionOK'
<1> USE DEF TypeInv
<1>1. CASE UNCHANGED sessionVars
  BY <1>1 DEF SessionOK, sessionVars
<1>2. ASSUME NEW p \in Procs, CloseMember(p) \/ CloseQueue(p) PROVE SessionOK'
  BY <1>2 DEF CloseMember, CloseQueue, SessionOK
<1>3. ASSUME NEW s \in Sessions, DeliverCarry(s) PROVE SessionOK'
  BY <1>3 DEF DeliverCarry, Begins, SessionOK
<1>4. ASSUME NEW s \in Sessions, DeliverMarks(s) PROVE SessionOK'
  BY <1>4 DEF DeliverMarks, SessionOK
<1>5. ASSUME NEW s \in Sessions, RunStarts(s) PROVE SessionOK'
  BY <1>5 DEF RunStarts, Begins, SessionOK
<1>6. ASSUME NEW s \in Sessions, RunEnds(s) PROVE SessionOK'
  BY <1>6 DEF RunEnds, SessionOK
<1>7. ASSUME NEW s \in Sessions, AnswerCard(s) \/ DismissCard(s) PROVE SessionOK'
  BY <1>7 DEF AnswerCard, DismissCard, SessionOK
<1>8. ASSUME NEW s \in Sessions, NEW blocking \in BOOLEAN, AskQuestion(s, blocking) PROVE SessionOK'
  BY <1>8 DEF AskQuestion, SessionOK
<1>9. ASSUME NEW s \in Sessions, AskPoll(s) PROVE SessionOK'
  BY <1>9 DEF AskPoll, SessionOK
<1>10. ASSUME NEW s \in Sessions, AskSettles(s) \/ AskReturns(s) PROVE SessionOK'
  BY <1>10 DEF AskSettles, AskReturns, SessionOK
<1>11. QED
  BY <1>1, <1>2, <1>3, <1>4, <1>5, <1>6, <1>7, <1>8, <1>9, <1>10, ProcsHave
  DEF Next, PlanWork, SpawnOntoFirstTask, CompleteTask, CloseByHand, CloseStep, CloseLook,
      CloseWrite, CloseCard, DaemonStep, TickWorks, TickBoard, RefreshLook, RefreshWrite,
      DeliverBegins, DeliverPlan, DeliverFails, AskStep

LEMMA BoundsStep ==
    ASSUME TypeInv, Next
    PROVE  BoundsOK'
<1> USE DEF TypeInv
<1>1. CASE UNCHANGED <<closing, turns>>
  BY <1>1 DEF BoundsOK
<1>2. ASSUME NEW p \in Procs, CloseCard(p) PROVE BoundsOK'
  BY <1>2 DEF CloseCard, BoundsOK, AtOK, AtRec
<1>3. CASE CloseByHand \/ \E s \in Sessions : RunStarts(s)
  BY <1>3, WorksAssumption DEF CloseByHand, RunStarts, BoundsOK
<1>4. QED
  BY <1>1, <1>2, <1>3, ProcsHave
  DEF Next, PlanWork, SpawnOntoFirstTask, CompleteTask, DeliverFails, CloseStep, CloseLook,
      CloseWrite, CloseMember, CloseQueue, DaemonStep, TickWorks, TickBoard, RefreshLook,
      RefreshWrite, DeliverBegins, DeliverPlan, DeliverCarry, DeliverMarks, RunEnds,
      AnswerCard, DismissCard, AskQuestion, AskStep, AskPoll, AskSettles, AskReturns

-----------------------------------------------------------------------------
(* One process moves, and nobody begins a run. *)
LEMMA Moves ==
    ASSUME TypeInv, NEW p \in Procs, NEW q \in AtRec, at' = [at EXCEPT ![p] = q],
           Fine(q, runs'), \A s \in Sessions : runs'[s] > 0 => runs[s] > 0
    PROVE  AtOK' /\ at'[p] = q
<1> USE DEF TypeInv
<1>1. at' \in [Procs -> AtRec] /\ at'[p] = q
  BY DEF AtOK
<1>2. Fits(p)'
  BY <1>1 DEF Fits
<1>3. ASSUME NEW r \in Procs, r # p PROVE Fits(r)'
  <2>1. at'[r] = at[r] /\ at[r] \in AtRec /\ Fine(at[r], runs)
    BY <1>3 DEF AtOK, Fits
  <2>2. Fine(at[r], runs')
    BY <2>1 DEF Fine, AtRec
  <2>3. QED
    BY <2>1, <2>2 DEF Fits
<1>4. QED
  BY <1>1, <1>2, <1>3 DEF AtOK

(* Who begins a run is noted by every closing that has looked. *)
LEMMA BeginsFits ==
    ASSUME TypeInv, NEW s \in Sessions, NEW pcs \in [Procs -> AtRec], Begins(s, pcs),
           \A p \in Procs : Fine(pcs[p], runs)
    PROVE  AtOK' /\ \A p \in Procs : /\ at'[p].pc = pcs[p].pc /\ at'[p].idle = pcs[p].idle
<1> USE DEF TypeInv
<1>1. ASSUME NEW p \in Procs
      PROVE  /\ at'[p] \in AtRec /\ at'[p].pc = pcs[p].pc /\ at'[p].idle = pcs[p].idle
             /\ at'[p].to = pcs[p].to /\ at'[p].todo = pcs[p].todo
             /\ pcs[p].since \subseteq at'[p].since
             /\ pcs[p].pc \in Closing => s \in at'[p].since
  <2>1. pcs[p] \in AtRec
    OBVIOUS
  <2>2. CASE pcs[p].pc \in Closing
    <3>1. at'[p] = [pcs[p] EXCEPT !.since = @ \cup {s}]
      BY <2>2 DEF Begins, Closing
    <3>2. QED
      BY <2>1, <3>1 DEF AtRec
  <2>3. CASE pcs[p].pc \notin Closing
    BY <2>1, <2>3 DEF Begins, Closing
  <2>4. QED
    BY <2>2, <2>3
<1>2. at' \in [Procs -> AtRec]
  BY <1>1 DEF Begins
<1>3. \A r \in Sessions : r # s => runs'[r] = runs[r]
  BY DEF Begins, SessionOK
<1>4. ASSUME NEW p \in Procs PROVE Fits(p)'
  <2>1. \A r \in pcs[p].idle : r \in Sessions
    BY DEF AtRec
  <2>2. Fine(pcs[p], runs)
    OBVIOUS
  <2>3. QED
    BY <1>1, <1>3, <2>1, <2>2 DEF Fits, Fine
<1>5. QED
  BY <1>1, <1>2, <1>4 DEF AtOK

LEMMA NotClosing ==
    ASSUME NEW q \in AtRec, q.pc \notin Closing \cup {"card"}
    PROVE  Fine(q, runs')
BY DEF Fine, Closing

LEMMA PcOnly ==
    ASSUME TypeInv, NEW p \in Procs, UNCHANGED runs,
           NEW pc \in {"idle", "look", "board", "recheck", "settle_work", "deliver", "plan"},
           at' = [at EXCEPT ![p].pc = pc]
    PROVE  AtOK'
<1> DEFINE q == [at[p] EXCEPT !.pc = pc]
<1>1. at[p] \in AtRec
  BY DEF TypeInv, AtOK
<1>2. q \in AtRec /\ q.pc = pc
  BY <1>1 DEF AtRec
<1>3. at' = [at EXCEPT ![p] = q]
  OBVIOUS
<1> HIDE DEF q
<1>4. QED
  BY <1>2, <1>3, NotClosing, Moves DEF Closing

LEMMA CloseFits ==
    ASSUME TypeInv, NEW p \in Procs, CloseStep(p)
    PROVE  AtOK' /\ at'[p].pc # "mark"
<1>1. at[p] \in AtRec /\ Fine(at[p], runs)
  BY DEF TypeInv, AtOK, Fits
<1>2. CASE CloseLook(p)
  <2> DEFINE idle == {s \in Sessions : runs[s] = 0}
             to == IF idle = Sessions THEN "closed" ELSE "finishing"
             q == [at[p] EXCEPT !.pc = "write", !.idle = idle, !.since = {}, !.to = to]
  <2>1. at' = [at EXCEPT ![p] = q] /\ UNCHANGED runs
    BY <1>2 DEF CloseLook, sessionVars
  <2>2. to \in {"finishing", "closed"} /\ idle \in SUBSET Sessions /\ \A s \in idle : runs[s] = 0
    OBVIOUS
  <2> HIDE DEF idle, to
  <2>3. q \in AtRec /\ q.pc = "write" /\ q.to = to /\ q.idle = idle
    BY <1>1, <2>2 DEF AtRec
  <2> HIDE DEF q
  <2>4. Fine(q, runs')
    BY <2>1, <2>2, <2>3 DEF Fine
  <2>5. QED
    BY <2>1, <2>3, <2>4, Moves
<1>3. CASE CloseWrite(p)
  <2> DEFINE q == [at[p] EXCEPT !.pc = "members", !.todo = at[p].idle]
  <2>1. at' = [at EXCEPT ![p] = q] /\ UNCHANGED runs /\ at[p].pc = "write"
    BY <1>3 DEF CloseWrite, sessionVars
  <2>2. /\ q \in AtRec /\ q.pc = "members" /\ q.to = at[p].to /\ q.idle = at[p].idle
        /\ q.since = at[p].since /\ q.todo = at[p].idle
    BY <1>1 DEF AtRec
  <2> HIDE DEF q
  <2>3. Fine(q, runs')
    BY <1>1, <2>1, <2>2 DEF Fine, Closing
  <2>4. QED
    BY <2>1, <2>2, <2>3, Moves
<1>4. ASSUME NEW s, at' = [at EXCEPT ![p].todo = @ \ {s}], UNCHANGED runs,
             at[p].pc \in {"members", "queues"}
      PROVE  AtOK' /\ at'[p].pc # "mark"
  <2> DEFINE q == [at[p] EXCEPT !.todo = @ \ {s}]
  <2>1. at' = [at EXCEPT ![p] = q]
    BY <1>4
  <2>2. /\ q \in AtRec /\ q.pc = at[p].pc /\ q.to = at[p].to /\ q.idle = at[p].idle
        /\ q.since = at[p].since /\ q.todo \subseteq at[p].todo
    BY <1>1 DEF AtRec
  <2> HIDE DEF q
  <2>3. Fine(q, runs')
    BY <1>1, <1>4, <2>2 DEF Fine
  <2>4. QED
    BY <1>4, <2>1, <2>2, <2>3, Moves
<1>5. ASSUME at' = [at EXCEPT ![p] = [@ EXCEPT !.pc = "queues", !.todo = at[p].idle]],
             UNCHANGED runs, at[p].pc = "members"
      PROVE  AtOK' /\ at'[p].pc # "mark"
  <2> DEFINE q == [at[p] EXCEPT !.pc = "queues", !.todo = at[p].idle]
  <2>1. at' = [at EXCEPT ![p] = q]
    BY <1>5
  <2>2. /\ q \in AtRec /\ q.pc = "queues" /\ q.to = at[p].to /\ q.idle = at[p].idle
        /\ q.since = at[p].since /\ q.todo = at[p].idle
    BY <1>1 DEF AtRec
  <2> HIDE DEF q
  <2>3. Fine(q, runs')
    BY <1>1, <1>5, <2>2 DEF Fine, Closing
  <2>4. QED
    BY <1>5, <2>1, <2>2, <2>3, Moves
<1>6. ASSUME at' = [at EXCEPT ![p].pc = "card"], UNCHANGED runs, at[p].pc = "queues"
      PROVE  AtOK' /\ at'[p].pc # "mark"
  <2> DEFINE q == [at[p] EXCEPT !.pc = "card"]
  <2>1. at' = [at EXCEPT ![p] = q]
    BY <1>6
  <2>2. q \in AtRec /\ q.pc = "card" /\ q.to = at[p].to
    BY <1>1 DEF AtRec
  <2> HIDE DEF q
  <2>3. Fine(q, runs')
    BY <1>1, <1>6, <2>2 DEF Fine, Closing
  <2>4. QED
    BY <1>6, <2>1, <2>2, <2>3, Moves
<1>7. CASE CloseMember(p)
  BY <1>4, <1>5, <1>7 DEF CloseMember
<1>8. CASE CloseQueue(p)
  BY <1>4, <1>6, <1>8 DEF CloseQueue
<1>9. CASE CloseCard(p)
  <2> DEFINE pc == IF p = Daemon THEN "deliver" ELSE "idle"
             q == [Rest EXCEPT !.pc = pc]
  <2>1. at' = [at EXCEPT ![p] = q] /\ UNCHANGED runs
    BY <1>9 DEF CloseCard, sessionVars
  <2>2. q \in AtRec /\ q.pc \in {"deliver", "idle"}
    BY RestTyped DEF AtRec
  <2> HIDE DEF q
  <2>3. QED
    BY <2>1, <2>2, NotClosing, Moves DEF Closing
<1>10. QED
  BY <1>2, <1>3, <1>7, <1>8, <1>9 DEF CloseStep

LEMMA AtStep ==
    ASSUME TypeInv, Next
    PROVE  AtOK'
<1> USE ProcsHave
<1>1. CASE UNCHANGED <<at, runs>>
  BY <1>1 DEF TypeInv, AtOK, Fits
<1>2. ASSUME NEW s \in Sessions, NEW t \in Tasks, CompleteTask(s, t) PROVE AtOK'
  BY <1>2, PcOnly DEF CompleteTask, sessionVars
<1>3. CASE CloseByHand
  BY <1>3, PcOnly DEF CloseByHand, sessionVars
<1>4. CASE TickWorks
  <2>1. PICK pc \in {"recheck", "board", "deliver"} : at' = [at EXCEPT ![Daemon].pc = pc]
    BY <1>4 DEF TickWorks
  <2>2. QED
    BY <1>4, <2>1, PcOnly DEF TickWorks, sessionVars
<1>5. CASE TickBoard \/ RefreshLook \/ RefreshWrite
  BY <1>5, PcOnly DEF TickBoard, RefreshLook, RefreshWrite, sessionVars
<1>6. CASE DeliverFails \/ \E s \in Sessions : DeliverMarks(s)
  <2>1. UNCHANGED runs
    BY <1>6 DEF DeliverFails, DeliverMarks, sessionVars
  <2>2. CASE at' = [at EXCEPT ![Daemon].pc = "plan"]
    BY <2>1, <2>2, PcOnly
  <2>3. CASE at' = [at EXCEPT ![Daemon] = Rest]
    BY <2>1, <2>3, RestTyped, NotClosing, Moves DEF Closing
  <2>4. QED
    BY <1>6, <2>2, <2>3 DEF DeliverFails, DeliverMarks
<1>7. at[Daemon] \in AtRec /\ \A p \in Procs : Fine(at[p], runs)
  BY DEF TypeInv, AtOK, Fits
<1>8. CASE DeliverBegins
  <2> DEFINE waiting == {s \in Sessions : answer[s] = "queued"}
             q == [Rest EXCEPT !.pc = "plan", !.todo = waiting]
  <2>1. at' = [at EXCEPT ![Daemon] = q] /\ UNCHANGED runs
    BY <1>8 DEF DeliverBegins, sessionVars
  <2>2. waiting \in SUBSET Sessions
    OBVIOUS
  <2> HIDE DEF waiting
  <2>3. q \in AtRec /\ q.pc = "plan"
    BY <2>2, RestTyped DEF AtRec
  <2> HIDE DEF q
  <2>4. QED
    BY <2>1, <2>3, NotClosing, Moves DEF Closing
<1>9. CASE DeliverPlan
  <2>1. at[Daemon].pc = "plan" /\ UNCHANGED runs
    BY <1>9 DEF DeliverPlan, sessionVars
  <2>2. ASSUME NEW q \in AtRec, q.pc \in {"idle", "plan", "carry"}, at' = [at EXCEPT ![Daemon] = q]
        PROVE  AtOK'
    BY <2>1, <2>2, NotClosing, Moves DEF Closing
  <2>3. ASSUME NEW s \in at[Daemon].todo
        PROVE  /\ [at[Daemon] EXCEPT !.todo = @ \ {s}] \in AtRec
               /\ [at[Daemon] EXCEPT !.todo = @ \ {s}].pc = "plan"
               /\ [at[Daemon] EXCEPT !.pc = "carry", !.idle = {s}, !.todo = @ \ {s}] \in AtRec
               /\ [at[Daemon] EXCEPT !.pc = "carry", !.idle = {s}, !.todo = @ \ {s}].pc = "carry"
    BY <1>7, <2>1 DEF AtRec
  <2>4. CASE at' = [at EXCEPT ![Daemon] = Rest]
    BY <2>2, <2>4, RestTyped
  <2>5. ASSUME NEW s \in at[Daemon].todo,
               at' = [at EXCEPT ![Daemon] =
                        IF runs[s] > 0 \/ answer[s] # "queued"
                        THEN [@ EXCEPT !.todo = at[Daemon].todo \ {s}]
                        ELSE [@ EXCEPT !.pc = "carry", !.idle = {s}, !.todo = at[Daemon].todo \ {s}]]
        PROVE  AtOK'
    <3>1. at' = [at EXCEPT ![Daemon] = at'[Daemon]]
      BY <2>5
    <3>2. \/ at'[Daemon] = [at[Daemon] EXCEPT !.todo = @ \ {s}]
          \/ at'[Daemon] = [at[Daemon] EXCEPT !.pc = "carry", !.idle = {s}, !.todo = @ \ {s}]
      BY <1>7, <2>5 DEF TypeInv, AtOK
    <3>3. at'[Daemon] \in AtRec /\ at'[Daemon].pc \in {"plan", "carry"}
      BY <2>3, <3>2
    <3>4. QED
      BY <2>2, <3>1, <3>3
  <2>6. QED
    BY <1>9, <2>4, <2>5 DEF DeliverPlan
<1>10. ASSUME NEW s \in Sessions, DeliverCarry(s) PROVE AtOK'
  <2> DEFINE pcs == [at EXCEPT ![Daemon].pc = "mark"]
             q == [at[Daemon] EXCEPT !.pc = "mark"]
  <2>1. q \in AtRec /\ q.pc = "mark"
    BY <1>7 DEF AtRec
  <2>2. pcs = [at EXCEPT ![Daemon] = q]
    OBVIOUS
  <2>3. Fine(q, runs)
    BY <2>1 DEF Fine, Closing
  <2>4. Begins(s, pcs)
    BY <1>10 DEF DeliverCarry
  <2> HIDE DEF q, pcs
  <2>5. pcs \in [Procs -> AtRec] /\ \A p \in Procs : Fine(pcs[p], runs)
    BY <1>7, <2>1, <2>2, <2>3 DEF TypeInv, AtOK
  <2>6. QED
    BY <2>4, <2>5, BeginsFits
<1>11. ASSUME NEW s \in Sessions, RunStarts(s) PROVE AtOK'
  BY <1>7, <1>11, BeginsFits DEF RunStarts, TypeInv, AtOK
<1>12. ASSUME NEW s \in Sessions, RunEnds(s) PROVE AtOK'
  <2>1. \A r \in Sessions : runs'[r] > 0 => runs[r] > 0
    BY <1>12 DEF RunEnds, TypeInv, SessionOK
  <2>2. CASE at' = [at EXCEPT ![s] = Rest]
    BY <2>1, <2>2, RestTyped, NotClosing, Moves DEF Closing
  <2>3. CASE UNCHANGED at
    <3>1. at' = [at EXCEPT ![s] = at[s]] /\ at[s] \in AtRec /\ Fine(at[s], runs)
      BY <1>7, <2>3 DEF TypeInv, AtOK
    <3>2. Fine(at[s], runs')
      BY <2>1, <3>1 DEF Fine, AtRec
    <3>3. QED
      BY <2>1, <3>1, <3>2, Moves
  <2>4. QED
    BY <1>12, <2>2, <2>3 DEF RunEnds
<1>13. ASSUME NEW p \in Procs, CloseStep(p) PROVE AtOK'
  BY <1>13, CloseFits
<1>14. QED
  BY <1>1, <1>2, <1>3, <1>4, <1>5, <1>6, <1>8, <1>9, <1>10, <1>11, <1>12, <1>13
  DEF Next, PlanWork, SpawnOntoFirstTask, DaemonStep, AnswerCard, DismissCard, AskQuestion,
      AskStep, AskPoll, AskSettles, AskReturns, sessionVars

(* A call ends with the run that makes it. *)
LEMMA CallStep ==
    ASSUME TypeInv, Next
    PROVE  CallOK'
<1> SUFFICES ASSUME NEW s \in Sessions, asking'[s] # "no" \/ at'[s].pc # "idle"
             PROVE  runs'[s] > 0
  BY DEF CallOK
<1> USE ProcsHave DEF TypeInv, SessionOK
<1>1. at \in [Procs -> AtRec] /\ s \in Procs /\ s # Daemon /\ s # Person
  BY WorksAssumption DEF AtOK
<1>2. asking[s] # "no" \/ at[s].pc # "idle" => runs[s] > 0
  BY DEF CallOK
<1>3. CASE UNCHANGED <<runs, asking>> /\ at'[s] = at[s]
  BY <1>2, <1>3
<1>4. ASSUME NEW r \in Sessions, NEW t \in Tasks, CompleteTask(r, t) PROVE runs'[s] > 0
  BY <1>1, <1>2, <1>4 DEF CompleteTask, sessionVars
<1>5. ASSUME CloseByHand PROVE UNCHANGED <<runs, asking>> /\ at'[s] = at[s]
  BY <1>1, <1>5 DEF CloseByHand, sessionVars
<1>6. ASSUME NEW p \in Procs, CloseStep(p) PROVE runs'[s] > 0
  <2>1. UNCHANGED <<runs, asking>> /\ at[p].pc # "idle"
    BY <1>6 DEF CloseStep, CloseLook, CloseWrite, CloseMember, CloseQueue, CloseCard, sessionVars
  <2>2. p # s => at'[s] = at[s]
    BY <1>1, <1>6 DEF CloseStep, CloseLook, CloseWrite, CloseMember, CloseQueue, CloseCard
  <2>3. QED
    BY <1>2, <2>1, <2>2
<1>7. ASSUME TickWorks \/ TickBoard \/ RefreshLook \/ RefreshWrite \/ DeliverBegins
             \/ DeliverPlan \/ DeliverFails \/ \E r \in Sessions : DeliverMarks(r)
      PROVE  UNCHANGED <<runs, asking>> /\ at'[s] = at[s]
  BY <1>1, <1>7 DEF TickWorks, TickBoard, RefreshLook, RefreshWrite, DeliverBegins, DeliverPlan,
                    DeliverFails, DeliverMarks, sessionVars
<1>8. ASSUME NEW r \in Sessions, RunStarts(r) \/ DeliverCarry(r) PROVE runs'[s] > 0
  <2>1. UNCHANGED asking /\ runs' = [runs EXCEPT ![r] = @ + 1]
    BY <1>8 DEF RunStarts, DeliverCarry, Begins
  <2>2. at'[s].pc = at[s].pc
    BY <1>1, <1>8 DEF RunStarts, DeliverCarry, Begins, AtRec
  <2>3. QED
    BY <1>2, <2>1, <2>2
<1>9. ASSUME NEW r \in Sessions, RunEnds(r) PROVE runs'[s] > 0
  BY <1>1, <1>2, <1>9, RestTyped DEF RunEnds
<1>10. ASSUME NEW r \in Sessions, NEW blocking \in BOOLEAN, AskQuestion(r, blocking)
       PROVE  runs'[s] > 0
  BY <1>2, <1>10 DEF AskQuestion
<1>11. ASSUME NEW r \in Sessions, AskStep(r) PROVE runs'[s] > 0
  BY <1>2, <1>11 DEF AskStep, AskPoll, AskSettles, AskReturns
<1>12. QED
  BY <1>3, <1>4, <1>5, <1>6, <1>7, <1>8, <1>9, <1>10, <1>11
  DEF Next, PlanWork, SpawnOntoFirstTask, DaemonStep, AnswerCard, DismissCard, sessionVars

LEMMA TypeStep ==
    ASSUME TypeInv, [Next]_vars
    PROVE  TypeInv'
<1>1. CASE Next
  BY <1>1, BoardStep, SessionStep, AtStep, CallStep, BoundsStep DEF TypeInv
<1>2. CASE UNCHANGED vars
  BY <1>2 DEF vars, boardVars, sessionVars, TypeInv, BoardOK, SessionOK, CallOK, AtOK, BoundsOK,
              Fits
<1>3. QED
  BY <1>1, <1>2

(* The types hold throughout, and a call that is under way (a question, a  *)
(* closing) is a call of a run that is going.                              *)
THEOREM TypeCorrect == Spec => []TypeOK
<1>1. Init => TypeInv
  BY InitTyped
<1>2. TypeInv /\ [Next]_vars => TypeInv'
  BY TypeStep
<1>3. TypeInv => TypeOK
  BY TypeInvGives
<1>4. QED
  BY <1>1, <1>2, <1>3, PTL DEF Spec

(* However many closings go on at once, one of them shuts down a running   *)
(* session, or gives up its answer, only when it had found that session    *)
(* idle and the run began after its look (close_work).                     *)
THEOREM RunningCorrect == Spec => RunningLeftAlone
<1>1. Init => TypeInv
  BY InitTyped
<1>2. TypeInv /\ [Next]_vars => TypeInv'
  BY TypeStep
<1>3. TypeInv /\ [Next]_vars =>
        [\A s \in Sessions :
           /\ member'[s] # member[s] \/ (answer[s] = "queued" /\ answer'[s] = "undeliverable")
           /\ runs[s] > 0
           => \E p \in Procs : at[p].pc \in {"members", "queues"} /\ s \in at[p].since]_vars
  <2> DEFINE Given(s) == member'[s] # member[s] \/ (answer[s] = "queued" /\ answer'[s] = "undeliverable")
             Noted(s) == \E p \in Procs : at[p].pc \in {"members", "queues"} /\ s \in at[p].since
  <2> SUFFICES ASSUME TypeInv, Next, NEW s \in Sessions, Given(s), runs[s] > 0
               PROVE  Noted(s)
    BY DEF vars
  <2>1. PICK p \in Procs : at[p].pc \in {"members", "queues"} /\ s \in at[p].todo
    <3> USE DEF TypeInv, SessionOK
    <3>1. ASSUME NEW p \in Procs, CloseMember(p) PROVE at[p].pc = "members" /\ s \in at[p].todo
      BY <3>1 DEF CloseMember
    <3>2. ASSUME NEW p \in Procs, CloseQueue(p) PROVE at[p].pc = "queues" /\ s \in at[p].todo
      BY <3>2 DEF CloseQueue
    <3>3. ASSUME NEW r \in Sessions, DeliverMarks(r) PROVE FALSE
      BY <3>3 DEF DeliverMarks
    <3>4. ASSUME NEW r \in Sessions, AnswerCard(r) \/ DismissCard(r) \/ AskSettles(r) PROVE FALSE
      BY <3>4 DEF AnswerCard, DismissCard, AskSettles
    <3>5. ASSUME NEW r \in Sessions, NEW blocking, AskQuestion(r, blocking) PROVE FALSE
      BY <3>5 DEF AskQuestion
    <3>6. CASE UNCHANGED <<member, answer>>
      BY <3>6
    <3>7. QED
      BY <3>1, <3>2, <3>3, <3>4, <3>5, <3>6, ProcsHave
      DEF Next, PlanWork, SpawnOntoFirstTask, CompleteTask, CloseByHand, CloseStep, CloseLook,
          CloseWrite, CloseCard, DaemonStep, TickWorks, TickBoard, RefreshLook, RefreshWrite,
          DeliverBegins, DeliverPlan, DeliverFails, DeliverCarry, RunStarts, RunEnds, AskStep,
          AskPoll, AskReturns, sessionVars
  <2>2. at[p] \in AtRec /\ Fine(at[p], runs)
    BY DEF TypeInv, AtOK, Fits
  <2>3. QED
    BY <2>1, <2>2 DEF Fine, Closing
<1>4. QED
  BY <1>1, <1>2, <1>3, PTL DEF Spec, RunningLeftAlone

-----------------------------------------------------------------------------
(* A turn that was started with an answer in its prompt is told it before  *)
(* the row is marked.                                                      *)
HeardInv == at[Daemon].pc = "mark" => \A s \in at[Daemon].idle : heard[s]

(* Nothing is unheard. *)
LEMMA HeardGrows ==
    ASSUME TypeInv, Next, NEW s \in Sessions, heard[s]
    PROVE  heard'[s]
<1> USE DEF TypeInv, SessionOK
<1>1. CASE UNCHANGED heard
  BY <1>1
<1>2. ASSUME NEW r \in Sessions, DeliverCarry(r) PROVE heard'[s]
  BY <1>2 DEF DeliverCarry
<1>3. ASSUME NEW r \in Sessions, AskReturns(r) PROVE heard'[s]
  BY <1>3 DEF AskReturns
<1>4. QED
  BY <1>1, <1>2, <1>3
  DEF Next, PlanWork, SpawnOntoFirstTask, CompleteTask, CloseByHand, CloseStep, CloseLook,
      CloseWrite, CloseMember, CloseQueue, CloseCard, DaemonStep, TickWorks, TickBoard,
      RefreshLook, RefreshWrite, DeliverBegins, DeliverPlan, DeliverFails, DeliverMarks,
      RunStarts, RunEnds, AnswerCard, DismissCard, AskQuestion, AskStep, AskPoll, AskSettles,
      sessionVars

(* How the daemon comes to mark a row. *)
LEMMA ReachesMark ==
    ASSUME TypeInv, Next, at'[Daemon].pc = "mark"
    PROVE  \/ at[Daemon].pc = "mark" /\ at'[Daemon].idle = at[Daemon].idle
           \/ \E s \in Sessions : DeliverCarry(s) /\ at'[Daemon].idle = {s}
<1> USE ProcsHave
<1>1. at \in [Procs -> AtRec] /\ at[Daemon] \in AtRec /\ \A p \in Procs : Fine(at[p], runs)
  BY DEF TypeInv, AtOK, Fits
<1>2. CASE at'[Daemon] = at[Daemon]
  BY <1>2
<1>3. ASSUME NEW p \in Procs, NEW q, at' = [at EXCEPT ![p] = q]
      PROVE  at'[Daemon] = at[Daemon] \/ at'[Daemon] = q
  BY <1>1, <1>3
<1>4. ASSUME NEW s \in Sessions, NEW t \in Tasks, CompleteTask(s, t)
      PROVE  at'[Daemon] = at[Daemon]
  BY <1>1, <1>4 DEF CompleteTask
<1>5. ASSUME CloseByHand PROVE at'[Daemon] = at[Daemon]
  BY <1>1, <1>5, WorksAssumption DEF CloseByHand
<1>6. ASSUME NEW p \in Procs, CloseStep(p) PROVE at'[Daemon] = at[Daemon]
  <2>1. CASE p # Daemon
    BY <1>1, <1>6, <2>1 DEF CloseStep, CloseLook, CloseWrite, CloseMember, CloseQueue, CloseCard
  <2>2. CASE p = Daemon
    BY <1>6, <2>2, CloseFits
  <2>3. QED
    BY <2>1, <2>2
<1>7. ~TickWorks /\ ~TickBoard /\ ~RefreshLook /\ ~RefreshWrite
  <2>1. ~TickWorks
    <3> SUFFICES ASSUME TickWorks PROVE FALSE
      OBVIOUS
    <3>1. PICK pc \in {"recheck", "board", "deliver"} : at' = [at EXCEPT ![Daemon].pc = pc]
      BY DEF TickWorks
    <3>2. QED
      BY <1>1, <3>1 DEF AtRec
  <2>2. ~RefreshLook /\ ~RefreshWrite
    BY <1>1 DEF RefreshLook, RefreshWrite, AtRec
  <2>3. ~TickBoard
    BY <1>1 DEF TickBoard, AtRec
  <2>4. QED
    BY <2>1, <2>2, <2>3
<1>8. ~DeliverBegins /\ ~DeliverFails /\ \A s \in Sessions : ~DeliverMarks(s)
  <2>1. ~DeliverBegins
    BY <1>1 DEF DeliverBegins, Rest
  <2>2. ~DeliverFails
    BY <1>1 DEF DeliverFails, AtRec
  <2>3. \A s \in Sessions : ~DeliverMarks(s)
    BY <1>1, RestTyped DEF DeliverMarks, AtRec
  <2>4. QED
    BY <2>1, <2>2, <2>3
<1>9. ~DeliverPlan
  <2> SUFFICES ASSUME DeliverPlan PROVE FALSE
    OBVIOUS
  <2>1. at'[Daemon] # Rest
    BY RestTyped
  <2>2. PICK s \in at[Daemon].todo :
          at' = [at EXCEPT ![Daemon] =
                   IF runs[s] > 0 \/ answer[s] # "queued"
                   THEN [@ EXCEPT !.todo = at[Daemon].todo \ {s}]
                   ELSE [@ EXCEPT !.pc = "carry", !.idle = {s}, !.todo = at[Daemon].todo \ {s}]]
    BY <1>1, <2>1 DEF DeliverPlan
  <2>3. at'[Daemon].pc \in {"plan", "carry"}
    BY <1>1, <2>2 DEF DeliverPlan, AtRec
  <2>4. QED
    BY <2>3
<1>10. ASSUME NEW s \in Sessions, DeliverCarry(s) PROVE at'[Daemon].idle = {s}
  BY <1>1, <1>10 DEF DeliverCarry, Begins, AtRec
<1>11. ASSUME NEW s \in Sessions, RunStarts(s)
       PROVE  at[Daemon].pc = "mark" /\ at'[Daemon].idle = at[Daemon].idle
  BY <1>1, <1>11, BeginsFits DEF RunStarts
<1>12. ASSUME NEW s \in Sessions, RunEnds(s) PROVE at'[Daemon] = at[Daemon]
  BY <1>1, <1>12 DEF RunEnds
<1>13. QED
  BY <1>2, <1>4, <1>5, <1>6, <1>7, <1>8, <1>9, <1>10, <1>11, <1>12
  DEF Next, PlanWork, SpawnOntoFirstTask, DaemonStep, AnswerCard, DismissCard, AskQuestion,
      AskStep, AskPoll, AskSettles, AskReturns

LEMMA HeardStep ==
    ASSUME TypeInv, HeardInv, [Next]_vars
    PROVE  HeardInv'
<1>1. CASE UNCHANGED vars
  BY <1>1 DEF vars, boardVars, sessionVars, HeardInv
<1>2. ASSUME Next, at'[Daemon].pc = "mark", NEW s \in at'[Daemon].idle PROVE heard'[s]
  <2>1. CASE at[Daemon].pc = "mark" /\ at'[Daemon].idle = at[Daemon].idle
    <3>1. s \in Sessions /\ heard[s]
      BY <1>2, <2>1, ProcsHave DEF HeardInv, TypeInv, AtOK, AtRec
    <3>2. QED
      BY <1>2, <3>1, HeardGrows
  <2>2. ASSUME NEW r \in Sessions, DeliverCarry(r), at'[Daemon].idle = {r} PROVE heard'[s]
    BY <1>2, <2>2 DEF DeliverCarry, TypeInv, SessionOK
  <2>3. QED
    BY <1>2, <2>1, <2>2, ReachesMark
<1>3. QED
  BY <1>1, <1>2 DEF HeardInv

(* Whichever of the poll, the daemon and a closing comes first, an answer  *)
(* is marked delivered only when it was in the prompt of a turn that       *)
(* started, or a run that is going has read it (settle, tick_deliveries).  *)
THEOREM MarkedCorrect == Spec => MarkedWhenHeld
<1>1. Init => TypeInv /\ HeardInv
  BY InitTyped, RestTyped, ProcsHave DEF Init, HeardInv
<1>2. TypeInv /\ HeardInv /\ [Next]_vars => TypeInv' /\ HeardInv'
  BY TypeStep, HeardStep
<1>3. TypeInv /\ HeardInv /\ [Next]_vars =>
        [\A s \in Sessions :
           answer[s] # "delivered" /\ answer'[s] = "delivered"
           => heard[s] \/ (asking[s] = "told" /\ runs[s] > 0)]_vars
  <2> DEFINE Held(s) == heard[s] \/ (asking[s] = "told" /\ runs[s] > 0)
  <2> SUFFICES ASSUME TypeInv, HeardInv, Next, NEW s \in Sessions, answer[s] # "delivered",
                      answer'[s] = "delivered"
               PROVE  Held(s)
    BY DEF vars
  <2> USE DEF TypeInv, SessionOK
  <2>1. ASSUME NEW r \in Sessions, DeliverMarks(r) PROVE Held(s)
    BY <2>1 DEF DeliverMarks, HeardInv
  <2>2. ASSUME NEW r \in Sessions, AskSettles(r) PROVE Held(s)
    BY <2>2 DEF AskSettles, CallOK
  <2>3. ASSUME NEW p \in Procs, CloseQueue(p) PROVE FALSE
    BY <2>3 DEF CloseQueue
  <2>4. ASSUME NEW r \in Sessions, AnswerCard(r) \/ DismissCard(r) PROVE FALSE
    BY <2>4 DEF AnswerCard, DismissCard
  <2>5. ASSUME NEW r \in Sessions, NEW blocking, AskQuestion(r, blocking) PROVE FALSE
    BY <2>5 DEF AskQuestion
  <2>6. CASE UNCHANGED answer
    BY <2>6
  <2>7. QED
    BY <2>1, <2>2, <2>3, <2>4, <2>5, <2>6, ProcsHave
    DEF Next, PlanWork, SpawnOntoFirstTask, CompleteTask, CloseByHand, CloseStep, CloseLook,
        CloseWrite, CloseMember, CloseCard, DaemonStep, TickWorks, TickBoard, RefreshLook,
        RefreshWrite, DeliverBegins, DeliverPlan, DeliverFails, DeliverCarry, RunStarts,
        RunEnds, AskStep, AskPoll, AskReturns, sessionVars
<1>4. QED
  BY <1>1, <1>2, <1>3, PTL DEF Spec, MarkedWhenHeld

-----------------------------------------------------------------------------
(* A path as it is compared is a sequence. *)
LEMMA SpelledIsSeq ==
    ASSUME NEW path \in RawPaths
    PROVE  \E S : Lowered(Tidy(path)) \in Seq(S)
<1> DEFINE kept == {i \in DOMAIN path : path[i] \notin {"", "."}}
           n == Cardinality(kept)
           f == Lowered(Tidy(path))
<1>1. IsFiniteSet(1..Len(path)) /\ DOMAIN path = 1..Len(path)
  BY FS_Interval, WorksAssumption
<1>2. n \in Nat
  BY <1>1, FS_Subset, FS_CardinalityType
<1>3. DOMAIN Tidy(path) = 1..n
  BY DEF Tidy
<1>4. f = [i \in 1..n |-> IF Tidy(path)[i] \in Upper THEN Lower[Tidy(path)[i]] ELSE Tidy(path)[i]]
  BY <1>3 DEF Lowered
<1> HIDE DEF n, f
<1> DEFINE S == {f[i] : i \in 1..n}
<1>5. f \in [1..n -> S]
  BY <1>4
<1>6. f \in Seq(S)
  BY <1>2, <1>5
<1>7. QED
  BY <1>6 DEF f

(* Two paths that are prefixes of one path: the shorter covers the longer. *)
LEMMA PrefixesMeet ==
    ASSUME NEW S, NEW f \in Seq(S), NEW n \in 0..Len(f), NEW m \in 0..Len(f), n <= m
    PROVE  Covers(SubSeq(f, 1, n), SubSeq(f, 1, m))
<1> DEFINE l == SubSeq(f, 1, n)
           r == SubSeq(f, 1, m)
<1>1. Len(l) = n /\ Len(r) = m /\ DOMAIN l = 1..n
  OBVIOUS
<1>2. \A i \in 1..n : l[i] = f[i] /\ r[i] = f[i]
  OBVIOUS
<1> HIDE DEF l, r
<1>3. Covers(l, r)
  BY <1>1, <1>2 DEF Covers
<1>4. QED
  BY <1>3 DEF l, r

(* Paths that do not overlap have no file in common: the comparison of the *)
(* two spellings decides for everything below them.                        *)
LEMMA ApartMeansDisjoint ==
    ASSUME NEW a \in SUBSET RawPaths, NEW b \in SUBSET RawPaths, ~Overlapping(a, b),
           NEW p \in a, NEW q \in b
    PROVE  FilesOf(p) \cap FilesOf(q) = {}
<1> SUFFICES ASSUME NEW file \in FilesOf(p) \cap FilesOf(q) PROVE FALSE
  OBVIOUS
<1>1. PICK x \in RawPaths : /\ file = Lowered(Tidy(x))
                            /\ \E n \in 0..Len(file) : SubSeq(file, 1, n) = Lowered(Tidy(p))
  BY DEF FilesOf
<1>2. PICK n \in 0..Len(file) : SubSeq(file, 1, n) = Lowered(Tidy(p))
  BY <1>1
<1>3. PICK m \in 0..Len(file) : SubSeq(file, 1, m) = Lowered(Tidy(q))
  BY DEF FilesOf
<1>4. PICK S : file \in Seq(S)
  BY <1>1, SpelledIsSeq
<1>5. n \in Nat /\ m \in Nat
  BY <1>4
<1>6. CASE n <= m
  <2>1. Covers(Lowered(Tidy(p)), Lowered(Tidy(q)))
    BY <1>2, <1>3, <1>4, <1>6, PrefixesMeet
  <2>2. QED
    BY <2>1 DEF Overlapping
<1>7. CASE m <= n
  <2>1. Covers(Lowered(Tidy(q)), Lowered(Tidy(p)))
    BY <1>2, <1>3, <1>4, <1>7, PrefixesMeet
  <2>2. QED
    BY <2>1 DEF Overlapping
<1>8. QED
  BY <1>5, <1>6, <1>7

(* Until open_work has recorded the files of the first task, every other   *)
(* task on the board is one that was planned before.                       *)
EarlyInv == ~opening.recorded => \A t \in Planned : board[t] # "none" => t \in opening.early

OwnersInv == EarlyInv /\ OwnersDisjoint

LEMMA OwnersStep ==
    ASSUME TypeInv, OwnersInv, [Next]_vars
    PROVE  OwnersInv'
<1> USE DEF TypeInv, BoardOK
<1> DEFINE Apart(a, b) == \A p \in a, q \in b : FilesOf(p) \cap FilesOf(q) = {}
<1>1. CASE UNCHANGED <<board, owns, opening>>
  BY <1>1 DEF OwnersInv, EarlyInv, OwnersDisjoint, OpenTasks, PlannedBlind
<1>2. ASSUME NEW plan \in Plans, PlanWork(plan), NEW t \in OpenTasks', NEW u \in OpenTasks', t # u,
             ~PlannedBlind(t, u)'
      PROVE  Apart(owns'[t], owns'[u])
  <2>1. /\ \A x \in DOMAIN plan : plan[x] \in SUBSET RawPaths
        /\ \A x \in Tasks : owns[x] \in SUBSET RawPaths
    BY DEF Plans, Files
  <2>2. /\ t \in Tasks /\ u \in Tasks
        /\ t \notin DOMAIN plan => t \in OpenTasks /\ owns'[t] = owns[t]
        /\ u \notin DOMAIN plan => u \in OpenTasks /\ owns'[u] = owns[u]
        /\ t \in DOMAIN plan => owns'[t] = plan[t]
        /\ u \in DOMAIN plan => owns'[u] = plan[u]
    BY <1>2 DEF PlanWork, OpenTasks
  <2>3. CASE t \in DOMAIN plan /\ u \in DOMAIN plan
    BY <1>2, <2>1, <2>2, <2>3, ApartMeansDisjoint DEF PlanWork
  <2>4. CASE t \in DOMAIN plan /\ u \notin DOMAIN plan
    BY <1>2, <2>1, <2>2, <2>4, ApartMeansDisjoint DEF PlanWork
  <2>5. CASE t \notin DOMAIN plan /\ u \in DOMAIN plan
    <3>1. ~Overlapping(plan[u], owns[t])
      BY <1>2, <2>2, <2>5 DEF PlanWork
    <3>2. \A p \in plan[u], q \in owns[t] : FilesOf(p) \cap FilesOf(q) = {}
      BY <2>1, <2>2, <2>5, <3>1, ApartMeansDisjoint
    <3>3. \A p \in owns'[t], q \in owns'[u] : FilesOf(q) \cap FilesOf(p) = {}
      BY <2>2, <2>5, <3>2
    <3>4. QED
      BY <3>3
  <2>6. CASE t \notin DOMAIN plan /\ u \notin DOMAIN plan
    <3>1. ~PlannedBlind(t, u)
      BY <1>2, <2>6 DEF PlannedBlind, PlanWork
    <3>2. QED
      BY <2>2, <2>6, <3>1, <1>2 DEF OwnersInv, OwnersDisjoint
  <2>7. QED
    BY <2>3, <2>4, <2>5, <2>6
<1>3. ASSUME NEW s \in Sessions, NEW x \in Tasks, CompleteTask(s, x),
             NEW t \in OpenTasks', NEW u \in OpenTasks', t # u, ~PlannedBlind(t, u)'
      PROVE  Apart(owns'[t], owns'[u])
  <2>1. t \in OpenTasks /\ u \in OpenTasks /\ owns'[t] = owns[t] /\ owns'[u] = owns[u]
    BY <1>3 DEF CompleteTask, OpenTasks
  <2>2. ~PlannedBlind(t, u)
    BY <1>3 DEF PlannedBlind, CompleteTask
  <2>3. QED
    BY <1>3, <2>1, <2>2 DEF OwnersInv, OwnersDisjoint
<1>4. ASSUME NEW paths \in Files, SpawnOntoFirstTask(paths),
             NEW t \in OpenTasks', NEW u \in OpenTasks', t # u, ~PlannedBlind(t, u)'
      PROVE  Apart(owns'[t], owns'[u])
  <2>1. /\ t \in OpenTasks /\ u \in OpenTasks /\ opening'.early = opening.early
        /\ \A x \in Tasks : x # First => owns'[x] = owns[x]
    BY <1>4 DEF SpawnOntoFirstTask, OpenTasks
  <2>2. First \notin {t, u}
    BY <1>4, <2>1 DEF SpawnOntoFirstTask, OwnersInv, EarlyInv, PlannedBlind, OpenTasks, Tasks
  <2>3. ~PlannedBlind(t, u) /\ t \in Tasks /\ u \in Tasks
    BY <2>1, <2>2 DEF PlannedBlind, OpenTasks
  <2>4. QED
    BY <1>4, <2>1, <2>2, <2>3 DEF OwnersInv, OwnersDisjoint
<1>5. CASE Next
  <2>1. ASSUME NEW plan \in Plans, PlanWork(plan) PROVE OwnersInv'
    <3>1. EarlyInv'
      BY <2>1 DEF PlanWork, OwnersInv, EarlyInv, Plans, Tasks
    <3>2. OwnersDisjoint'
      BY <1>2, <2>1 DEF OwnersDisjoint, FilesOf
    <3>3. QED
      BY <3>1, <3>2 DEF OwnersInv
  <2>2. ASSUME NEW s \in Sessions, NEW x \in Tasks, CompleteTask(s, x) PROVE OwnersInv'
    <3>1. EarlyInv'
      BY <2>2 DEF CompleteTask, OwnersInv, EarlyInv, Tasks
    <3>2. OwnersDisjoint'
      BY <1>3, <2>2 DEF OwnersDisjoint, FilesOf
    <3>3. QED
      BY <3>1, <3>2 DEF OwnersInv
  <2>3. ASSUME NEW paths \in Files, SpawnOntoFirstTask(paths) PROVE OwnersInv'
    <3>1. EarlyInv'
      BY <2>3 DEF SpawnOntoFirstTask, EarlyInv
    <3>2. OwnersDisjoint'
      BY <1>4, <2>3 DEF OwnersDisjoint, FilesOf
    <3>3. QED
      BY <3>1, <3>2 DEF OwnersInv
  <2>4. QED
    BY <1>1, <1>5, <2>1, <2>2, <2>3
    DEF Next, CloseByHand, CloseStep, CloseLook, CloseWrite, CloseMember, CloseQueue,
        CloseCard, DaemonStep, TickWorks, TickBoard, RefreshLook, RefreshWrite, DeliverBegins,
        DeliverPlan, DeliverFails, DeliverCarry, DeliverMarks, RunStarts, RunEnds, AnswerCard,
        DismissCard, AskQuestion, AskStep, AskPoll, AskSettles, AskReturns, boardVars
<1>6. QED
  BY <1>1, <1>5 DEF vars, boardVars

(* No file belongs to two open tasks, whatever the plans, however paths    *)
(* are spelled and however deep they go, but for the tasks that were       *)
(* planned before open_work wrote the first task's files without looking   *)
(* (plan_work, overlapping, covers, spawn_onto_first_task).                *)
THEOREM OwnersCorrect == Spec => []OwnersDisjoint
<1>1. Init => TypeInv /\ OwnersInv
  BY InitTyped, WorksAssumption DEF Init, OwnersInv, EarlyInv, OwnersDisjoint, OpenTasks, Tasks
<1>2. TypeInv /\ OwnersInv /\ [Next]_vars => TypeInv' /\ OwnersInv'
  BY TypeStep, OwnersStep
<1>3. OwnersInv => OwnersDisjoint
  BY DEF OwnersInv
<1>4. QED
  BY <1>1, <1>2, <1>3, PTL DEF Spec
=============================================================================
