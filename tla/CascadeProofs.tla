--------------------------- MODULE CascadeProofs ---------------------------
(***************************************************************************)
(* What holds of stopping a branch and bringing it back, for any tree, any *)
(* number of runs, clients, stops and faults: the types, that what is      *)
(* recorded is stopped, that a run is replaced once, that the branch is    *)
(* down when the walk is over and taken up when the resume is.             *)
(***************************************************************************)
EXTENDS Cascade, FiniteSetTheorems, TLAPS

Walking == {"below", "runs", "record"}
Bringing == {"bring", "spawn", "name"}

(* What a client has in hand is there: a walk knows its conversation and   *)
(* works on runs, a resume works on rows, and the one it has claimed is    *)
(* its row and the run it started is in place of the run of that row.      *)
OpFits(p) ==
    /\ At(p, "walk") => op[p].run # NoRun /\ op[p].todo = {} /\ op[p].branch \subseteq DOMAIN runs
    /\ op[p].pc \in Walking \cup Bringing \cup {"pending"} => op[p].conv # NoConv
    /\ op[p].pc \in Walking =>
          op[p].todo \subseteq DOMAIN runs /\ op[p].branch \subseteq DOMAIN runs
    /\ op[p].pc \in Bringing \cup {"pending"} =>
          op[p].todo \subseteq DOMAIN rows /\ op[p].branch \subseteq DOMAIN rows
    /\ At(p, "record") => op[p].cur \in DOMAIN runs
    /\ op[p].pc \in {"spawn", "name"} =>
          op[p].cur \in DOMAIN rows /\ rows[op[p].cur].claimed
    /\ At(p, "name") => op[p].run # NoRun /\ runs[op[p].run].of = rows[op[p].cur].run

(* The inductive invariant that types rest on. *)
TypeInv == TypeOK /\ \A p \in Clients : OpFits(p)

(* What a run comes to: it keeps its conversation and what it stands for,  *)
(* it does not come back to life, a stop that missed it is not forgotten,  *)
(* nor what it said, and only a stop or its end changes its status.        *)
Fades(u, v) ==
    /\ v.conv = u.conv /\ v.of = u.of
    /\ v.alive => u.alive
    /\ u.missed => v.missed
    /\ u.said # "nothing" => v.said # "nothing"
    /\ u.status = "running" => v.status = "running" \/ ~v.alive \/ v.missed

(* Runs are only added, and fade.                                          *)
RunsGrow ==
    /\ runs' \in Seq(RunRec') /\ Len(runs) <= Len(runs')
    /\ \A r \in DOMAIN runs : Fades(runs[r], runs'[r])

(* Rows are only added; one that is claimed stays claimed.                 *)
RowsGrow ==
    /\ rows' \in Seq(RowRec') /\ Len(rows) <= Len(rows')
    /\ \A i \in DOMAIN rows : /\ rows'[i].run = rows[i].run /\ rows'[i].from = rows[i].from
                              /\ rows[i].claimed => rows'[i].claimed

LEMMA SeqWider ==
    ASSUME NEW S, NEW T, S \subseteq T, NEW s \in Seq(S)
    PROVE  s \in Seq(T)
OBVIOUS

LEMMA SeqUpdated ==
    ASSUME NEW S, NEW s \in Seq(S), NEW i \in DOMAIN s, NEW v \in S
    PROVE  [s EXCEPT ![i] = v] \in Seq(S) /\ Len([s EXCEPT ![i] = v]) = Len(s)
OBVIOUS

(* What every proof below reads off the types.                             *)
LEMMA Facts ==
    ASSUME TypeInv
    PROVE  /\ runs \in Seq(RunRec) /\ rows \in Seq(RowRec)
           /\ Len(runs) \in Nat /\ Len(rows) \in Nat
           /\ DOMAIN runs = 1..Len(runs) /\ DOMAIN rows = 1..Len(rows)
           /\ \A r \in DOMAIN runs : runs[r] \in RunRec
           /\ \A i \in DOMAIN rows : rows[i] \in RowRec
           /\ op \in [Clients -> OpRec] /\ \A p \in Clients : op[p] \in OpRec
           /\ parent \in [Convs -> Convs \cup {NoConv}]
           /\ \A p \in Clients : OpFits(p)
BY DEF TypeInv, TypeOK

(* A stop of one run, in the walk and by name, however it comes out. *)
TakesDown(p, r) == \E signals, marks \in BOOLEAN : TakeDown(p, r, signals, marks)
Kills(p, r) == \E signals \in BOOLEAN : KillAgent(p, r, signals)

(* How each step changes the runs. *)
RunAdded(c) == runs' = Append(runs, StartedIn(c, NoRun))
RunFades(r) == \E v \in RunRec : runs' = [runs EXCEPT ![r] = v] /\ Fades(runs[r], v)

LEMMA StopFades ==
    ASSUME TypeInv, NEW r \in DOMAIN runs, NEW signals \in BOOLEAN, NEW marks \in BOOLEAN,
           runs' = Stopped(r, signals, marks)
    PROVE  RunFades(r) /\ ~Unstopped(r)'
<1> DEFINE u == runs[r]
           alive == u.alive /\ ~signals
           missed == u.missed \/ (u.alive /\ ~signals)
           status == IF u.status = "running" /\ marks THEN "killed" ELSE u.status
           v == [u EXCEPT !.alive = alive, !.missed = missed, !.status = status]
<1>1. u \in RunRec
  BY Facts
<1>2. runs' = [runs EXCEPT ![r] = v]
  BY <1>1 DEF Stopped, Alive
<1>3. alive \in BOOLEAN /\ missed \in BOOLEAN /\ status \in Statuses
  BY <1>1 DEF RunRec, Statuses
<1>4. alive => u.alive /\ missed
  OBVIOUS
<1>5. u.missed => missed
  OBVIOUS
<1>6. status = u.status \/ ~alive \/ missed
  OBVIOUS
<1> HIDE DEF alive, missed, status
<1>7. v \in RunRec /\ v.alive = alive /\ v.missed = missed /\ v.status = status
      /\ v.conv = u.conv /\ v.of = u.of /\ v.said = u.said
  BY <1>1, <1>3 DEF RunRec
<1>8. Fades(u, v)
  BY <1>4, <1>5, <1>6, <1>7 DEF Fades
<1> HIDE DEF v
<1>9. runs'[r] = v
  BY <1>2, Facts
<1>10. ~Unstopped(r)'
  BY <1>4, <1>7, <1>9 DEF Unstopped, Alive
<1>11. QED
  BY <1>2, <1>7, <1>8, <1>10 DEF RunFades

LEMMA RunsEffect ==
    ASSUME TypeInv, Next
    PROVE  \/ UNCHANGED runs
           \/ \E c \in Convs : RunAdded(c)
           \/ \E p \in Clients : BringBack(p)
           \/ \E r \in DOMAIN runs : RunFades(r)
<1> USE Facts
<1>1. ASSUME NEW r \in DOMAIN runs, NEW c \in Others, Delegate(r, c)
      PROVE  \E d \in Convs : RunAdded(d)
  BY <1>1 DEF Delegate, RunAdded, Convs
<1>2. ASSUME NEW p \in Clients, NEW r \in DOMAIN runs, ContinueAgent(p, r)
      PROVE  \E c \in Convs : RunAdded(c)
  BY <1>2 DEF ContinueAgent, RunAdded, RunRec
<1>3. ASSUME NEW r \in DOMAIN runs, NEW v \in RunRec, runs' = [runs EXCEPT ![r] = v],
             Fades(runs[r], v)
      PROVE  RunFades(r)
  BY <1>3 DEF RunFades
<1>4. ASSUME NEW r \in DOMAIN runs, NEW status \in Ends, RunEnds(r, status)
      PROVE  RunFades(r)
  <2> DEFINE v == [runs[r] EXCEPT !.status = status, !.alive = FALSE]
  <2>1. runs[r] \in RunRec /\ status \in Statuses
    BY CascadeAssumption DEF Statuses
  <2>2. v \in RunRec /\ v.alive = FALSE /\ v.conv = runs[r].conv /\ v.of = runs[r].of
        /\ v.missed = runs[r].missed /\ v.said = runs[r].said
    BY <2>1 DEF RunRec
  <2>3. runs' = [runs EXCEPT ![r] = v]
    BY <1>4 DEF RunEnds
  <2>4. Fades(runs[r], v)
    BY <2>2 DEF Fades
  <2> HIDE DEF v
  <2>5. QED
    BY <1>3, <2>2, <2>3, <2>4
<1>5. ASSUME NEW r \in DOMAIN runs, RowSettles(r) PROVE RunFades(r)
  <2> DEFINE v == [runs[r] EXCEPT !.status = "killed"]
  <2>1. runs[r] \in RunRec /\ ~runs[r].alive
    BY <1>5 DEF RowSettles, Alive
  <2>2. v \in RunRec /\ v.alive = runs[r].alive /\ v.conv = runs[r].conv
        /\ v.of = runs[r].of /\ v.missed = runs[r].missed /\ v.said = runs[r].said
    BY <2>1 DEF RunRec, Statuses
  <2>3. runs' = [runs EXCEPT ![r] = v]
    BY <1>5 DEF RowSettles
  <2>4. Fades(runs[r], v)
    BY <2>1, <2>2 DEF Fades
  <2> HIDE DEF v
  <2>5. QED
    BY <1>3, <2>2, <2>3, <2>4
<1>6. ASSUME NEW r \in DOMAIN runs, NEW said \in {"message", "session"}, Speaks(r, said)
      PROVE  RunFades(r)
  <2> DEFINE v == [runs[r] EXCEPT !.said = said]
  <2>1. runs[r] \in RunRec
    OBVIOUS
  <2>2. v \in RunRec /\ v.alive = runs[r].alive /\ v.conv = runs[r].conv
        /\ v.of = runs[r].of /\ v.missed = runs[r].missed /\ v.said = said
        /\ v.status = runs[r].status
    BY <2>1 DEF RunRec
  <2>3. runs' = [runs EXCEPT ![r] = v]
    BY <1>6 DEF Speaks
  <2>4. Fades(runs[r], v)
    BY <2>2 DEF Fades
  <2> HIDE DEF v
  <2>5. QED
    BY <1>3, <2>2, <2>3, <2>4
<1>7. ASSUME NEW p \in Clients, NEW r \in op[p].todo, NEW signals \in BOOLEAN,
             NEW marks \in BOOLEAN, TakeDown(p, r, signals, marks)
      PROVE  r \in DOMAIN runs /\ RunFades(r)
  <2>1. r \in DOMAIN runs /\ runs' = Stopped(r, signals, marks)
    BY <1>7 DEF TakeDown, OpFits, At, Walking
  <2>2. QED
    BY <2>1, StopFades
<1>8. ASSUME NEW p \in Clients, NEW r \in DOMAIN runs, NEW signals \in BOOLEAN,
             KillAgent(p, r, signals)
      PROVE  RunFades(r)
  <2>1. \E marks \in BOOLEAN : runs' = Stopped(r, signals, marks)
    BY <1>8, Zenon DEF KillAgent, LeftAlone
  <2>2. QED
    BY <2>1, StopFades
<1>9. ASSUME NEW p \in Clients, Fails(p)
      PROVE  UNCHANGED runs \/ \E r \in DOMAIN runs : RunFades(r)
  BY <1>7, <1>9 DEF Fails, ReadRunningFails, TakeDownFails, ClaimFails, RecordFails,
     BringBackFails, Die
<1>10. ASSUME NEW p \in Clients, Proceed(p)
      PROVE  UNCHANGED runs \/ BringBack(p) \/ \E r \in DOMAIN runs : RunFades(r)
  BY <1>7, <1>10 DEF Proceed, CascadeStop, ReadRunning, ClaimCascadedStop, RecordCascadedStop,
     NextConversation, WalkEnds, ResumeCascade, NameCascadeReplacement, ResumeEnds
<1>11. QED
  BY <1>1, <1>2, <1>4, <1>5, <1>6, <1>8, <1>9, <1>10 DEF Next, RecordHandoff, RefusalToContinue

(* A run appended is one more, of the conversation and in place of what it *)
(* says.                                                                   *)
LEMMA Appended ==
    ASSUME TypeInv, NEW c \in Convs, NEW of \in 0..Len(runs),
           runs' = Append(runs, StartedIn(c, of))
    PROVE  /\ RunsGrow /\ Len(runs') = Len(runs) + 1
           /\ \A r \in DOMAIN runs : runs'[r] = runs[r]
           /\ runs'[Len(runs) + 1].of = of
<1>1. Len(runs') = Len(runs) + 1 /\ Len(runs) \in Nat
  BY Facts
<1>2. RunRec \subseteq RunRec'
  BY <1>1 DEF RunRec
<1>3. StartedIn(c, of) \in RunRec'
  BY <1>1 DEF StartedIn, RunRec, Statuses
<1>4. runs' \in Seq(RunRec')
  <2> DEFINE R == RunRec'
  <2>1. runs \in Seq(R) /\ StartedIn(c, of) \in R
    BY <1>2, <1>3, Facts, SeqWider
  <2> HIDE DEF R
  <2>2. Append(runs, StartedIn(c, of)) \in Seq(R)
    BY <2>1
  <2>3. QED
    BY <2>2 DEF R
<1>5. \A r \in DOMAIN runs : runs'[r] = runs[r]
  BY Facts
<1>6. runs'[Len(runs) + 1].of = of
  BY Facts DEF StartedIn
<1>7. \A r \in DOMAIN runs : Fades(runs[r], runs'[r])
  BY <1>5 DEF Fades
<1>8. QED
  BY <1>1, <1>4, <1>5, <1>6, <1>7 DEF RunsGrow

LEMMA RunsStep ==
    ASSUME TypeInv, Next
    PROVE  RunsGrow
<1> USE Facts
<1>1. CASE UNCHANGED runs
  <2>1. RunRec' = RunRec
    BY <1>1 DEF RunRec
  <2>2. QED
    BY <1>1, <2>1 DEF RunsGrow, Fades
<1>2. ASSUME NEW c \in Convs, RunAdded(c) PROVE RunsGrow
  <2>1. NoRun \in 0..Len(runs)
    BY DEF NoRun
  <2>2. QED
    BY <1>2, <2>1, Appended DEF RunAdded
<1>3. ASSUME NEW p \in Clients, BringBack(p) PROVE RunsGrow
  <2> DEFINE was == rows[op[p].cur].run
  <2>1. was \in DOMAIN runs
    BY <1>3 DEF BringBack, OpFits, At, RowRec
  <2>2. runs[was].conv \in Convs /\ was \in 0..Len(runs)
    BY <2>1 DEF RunRec
  <2>3. QED
    BY <1>3, <2>2, Appended DEF BringBack
<1>4. ASSUME NEW r \in DOMAIN runs, RunFades(r) PROVE RunsGrow
  <2> DEFINE R == RunRec
  <2>1. PICK v \in RunRec : runs' = [runs EXCEPT ![r] = v] /\ Fades(runs[r], v)
    BY <1>4 DEF RunFades
  <2>2. runs' \in Seq(RunRec) /\ Len(runs') = Len(runs)
    <3> HIDE DEF R
    <3>1. runs \in Seq(R) /\ v \in R
      BY DEF R
    <3>2. QED
      BY <2>1, <3>1, SeqUpdated DEF R
  <2>3. RunRec' = RunRec
    BY <2>2 DEF RunRec
  <2>4. \A s \in DOMAIN runs : runs'[s] = IF s = r THEN v ELSE runs[s]
    BY <2>1
  <2>5. \A s \in DOMAIN runs : Fades(runs[s], runs'[s])
    BY <2>1, <2>4 DEF Fades
  <2>6. QED
    BY <2>2, <2>3, <2>5 DEF RunsGrow
<1>5. QED
  BY <1>1, <1>2, <1>3, <1>4, RunsEffect

-----------------------------------------------------------------------------
LEMMA RowsEffect ==
    ASSUME TypeInv, Next
    PROVE  \/ UNCHANGED rows
           \/ \E c \in Convs : rows' = Asked(c)
           \/ \E p \in Clients : RecordCascadedStop(p)
           \/ \E p \in Clients : \E i \in op[p].todo : ClaimCascadedStop(p, i)
           \/ \E p \in Clients : NameCascadeReplacement(p)
<1>1. ASSUME NEW p \in Clients, NEW r \in DOMAIN runs,
             RefusalToContinue(p, r) \/ ContinueAgent(p, r)
      PROVE  \E c \in Convs : rows' = Asked(c)
  BY <1>1, Facts DEF RefusalToContinue, ContinueAgent, RunRec
<1>2. QED
  BY <1>1 DEF Next, Proceed, Fails, Delegate, RecordHandoff, Speaks, RunEnds, RowSettles,
     KillAgent, CascadeStop, ReadRunning, ReadRunningFails, TakeDown, TakeDownFails,
     RecordFails, NextConversation, WalkEnds, ResumeCascade, ClaimFails, BringBack,
     BringBackFails, ResumeEnds, Die

(* No run is recorded twice, and a replacement that is named is one that   *)
(* was started in place of the run of its row.                             *)
RowsFit ==
    /\ \A i, j \in DOMAIN rows : rows[i].run = rows[j].run => i = j
    /\ \A i \in DOMAIN rows : rows[i].next # NoRun => runs[rows[i].next].of = rows[i].run

(* Rows that keep their run and their name.                                *)
LEMMA RowsKept ==
    ASSUME TypeInv, RunsGrow, rows' \in Seq(RowRec'), Len(rows') = Len(rows),
           \A i \in DOMAIN rows : /\ rows'[i].run = rows[i].run
                                  /\ rows'[i].from = rows[i].from
                                  /\ rows[i].claimed => rows'[i].claimed
                                  /\ rows'[i].next = rows[i].next
    PROVE  RowsGrow /\ RowsFit'
<1> USE Facts
<1>1. DOMAIN rows' = DOMAIN rows
  OBVIOUS
<1>2. RowsGrow
  BY DEF RowsGrow
<1>3. \A i \in DOMAIN rows' : rows'[i].next # NoRun => rows'[i].next \in DOMAIN runs
  BY <1>1 DEF RowRec, NoRun
<1>4. RowsFit
  BY DEF TypeInv, TypeOK, RowsFit
<1>5. RowsFit'
  BY SMTT(20), <1>1, <1>3, <1>4 DEF RowsFit, RunsGrow, Fades
<1>6. QED
  BY <1>2, <1>5

LEMMA RowsStep ==
    ASSUME TypeInv, Next
    PROVE  RowsGrow /\ RowsFit'
<1> USE Facts
<1>1. RunsGrow
  BY RunsStep
<1>2. RowRec \subseteq RowRec'
  BY <1>1 DEF RowRec, RunsGrow
<1>3. rows \in Seq(RowRec')
  BY <1>2, SeqWider
<1>4. RowsFit
  BY DEF TypeInv, TypeOK, RowsFit
<1>5. CASE UNCHANGED rows
  BY <1>1, <1>3, <1>5, RowsKept
<1>6. ASSUME NEW c \in Convs, rows' = Asked(c) PROVE RowsGrow /\ RowsFit'
  <2> DEFINE R == RowRec'
  <2>1. \A i \in DOMAIN rows : rows'[i] = rows[i] \/ rows'[i] = [rows[i] EXCEPT !.asked = TRUE]
    BY <1>6 DEF Asked
  <2>2. \A i \in DOMAIN rows : rows'[i] \in RowRec
    BY <2>1 DEF RowRec
  <2>3. DOMAIN rows' = 1..Len(rows)
    BY <1>6 DEF Asked
  <2>4. rows' = [i \in 1..Len(rows) |-> rows'[i]]
    BY <1>6 DEF Asked
  <2>5. rows' \in Seq(R) /\ Len(rows') = Len(rows)
    <3> HIDE DEF R
    <3>1. \A i \in DOMAIN rows : rows'[i] \in R
      BY <1>2, <2>2 DEF R
    <3>2. QED
      BY <2>3, <2>4, <3>1
  <2>6. \A i \in DOMAIN rows : /\ rows'[i].run = rows[i].run /\ rows'[i].from = rows[i].from
                               /\ rows'[i].claimed = rows[i].claimed
                               /\ rows'[i].next = rows[i].next
    BY <2>1 DEF RowRec
  <2>7. QED
    BY <1>1, <2>5, <2>6, RowsKept
<1>7. ASSUME NEW p \in Clients, RecordCascadedStop(p) PROVE RowsGrow /\ RowsFit'
  <2> DEFINE cur == op[p].cur
             new == RecordOf(cur, op[p].conv)
  <2>1. CASE \E i \in DOMAIN rows : rows[i].run = cur
    BY <1>1, <1>3, <1>7, <2>1, RowsKept DEF RecordCascadedStop
  <2>2. CASE ~\E i \in DOMAIN rows : rows[i].run = cur
    <3>1. cur \in DOMAIN runs /\ op[p].conv \in Convs
      BY <1>7, Facts DEF RecordCascadedStop, OpFits, At, Walking, OpRec
    <3>2. new \in RowRec' /\ new.run = cur /\ new.next = NoRun
      BY <1>1, <3>1 DEF RecordOf, RowRec, RunsGrow, NoRun
    <3>3. rows' = Append(rows, new)
      BY <1>7, <2>2 DEF RecordCascadedStop
    <3> HIDE DEF new
    <3>4. rows' \in Seq(RowRec') /\ Len(rows') = Len(rows) + 1
      <4> DEFINE R == RowRec'
      <4>1. rows \in Seq(R) /\ new \in R
        BY <1>3, <3>2
      <4> HIDE DEF R
      <4>2. Append(rows, new) \in Seq(R) /\ Len(Append(rows, new)) = Len(rows) + 1
        BY <4>1
      <4>3. QED
        BY <3>3, <4>2 DEF R
    <3>5. (\A i \in DOMAIN rows : rows'[i] = rows[i]) /\ rows'[Len(rows) + 1] = new
      BY <3>3
    <3>6. RowsGrow
      BY <3>4, <3>5 DEF RowsGrow
    <3>7. \A i \in DOMAIN rows : rows[i].next # NoRun => rows[i].next \in DOMAIN runs
      BY DEF RowRec, NoRun
    <3>8. DOMAIN rows' = DOMAIN rows \cup {Len(rows) + 1}
      BY <3>4
    <3>9. RowsFit'
      BY SMTT(20), <1>1, <1>4, <2>2, <3>2, <3>5, <3>7, <3>8 DEF RowsFit, RunsGrow, Fades
    <3>10. QED
      BY <3>6, <3>9
  <2>3. QED
    BY <2>1, <2>2
<1>8. ASSUME NEW p \in Clients, NEW i \in op[p].todo, ClaimCascadedStop(p, i)
      PROVE  RowsGrow /\ RowsFit'
  <2> DEFINE v == [rows[i] EXCEPT !.claimed = TRUE]
             R == RowRec'
  <2>1. i \in DOMAIN rows
    BY <1>8 DEF ClaimCascadedStop, OpFits, At, Bringing
  <2>2. v \in RowRec /\ v.run = rows[i].run /\ v.from = rows[i].from /\ v.next = rows[i].next
        /\ v.claimed = TRUE
    BY <2>1 DEF RowRec
  <2>3. rows' = [rows EXCEPT ![i] = v]
    BY <1>8 DEF ClaimCascadedStop
  <2> HIDE DEF v
  <2>4. rows' \in Seq(R) /\ Len(rows') = Len(rows)
    <3>1. v \in R /\ rows \in Seq(R)
      BY <1>2, <1>3, <2>2
    <3> HIDE DEF R
    <3>2. QED
      BY <2>1, <2>3, <3>1, SeqUpdated
  <2>5. \A j \in DOMAIN rows : rows'[j] = IF j = i THEN v ELSE rows[j]
    BY <2>1, <2>3
  <2>6. QED
    BY <1>1, <2>2, <2>4, <2>5, RowsKept
<1>9. ASSUME NEW p \in Clients, NameCascadeReplacement(p) PROVE RowsGrow /\ RowsFit'
  <2> DEFINE i == op[p].cur
             v == [rows[i] EXCEPT !.next = op[p].run]
             R == RowRec'
  <2>1. /\ i \in DOMAIN rows /\ op[p].run \in 0..Len(runs) /\ op[p].run # NoRun
        /\ runs[op[p].run].of = rows[i].run
    BY <1>9 DEF NameCascadeReplacement, OpFits, At, OpRec
  <2>2. v \in RowRec /\ v.run = rows[i].run /\ v.from = rows[i].from /\ v.next = op[p].run
        /\ v.claimed = rows[i].claimed
    BY <2>1 DEF RowRec
  <2>3. rows' = [rows EXCEPT ![i] = v] /\ UNCHANGED runs
    BY <1>9 DEF NameCascadeReplacement
  <2> HIDE DEF v
  <2>4. rows' \in Seq(R) /\ Len(rows') = Len(rows)
    <3>1. v \in R /\ rows \in Seq(R)
      BY <1>2, <1>3, <2>2
    <3> HIDE DEF R
    <3>2. QED
      BY <2>1, <2>3, <3>1, SeqUpdated
  <2>5. \A j \in DOMAIN rows : rows'[j] = IF j = i THEN v ELSE rows[j]
    BY <2>1, <2>3
  <2> HIDE DEF i
  <2>6. RowsGrow
    BY <2>2, <2>4, <2>5 DEF RowsGrow
  <2>7. DOMAIN rows' = DOMAIN rows
    BY <2>4
  <2>8. RowsFit'
    BY <1>4, <2>1, <2>2, <2>3, <2>5, <2>7 DEF RowsFit
  <2>9. QED
    BY <2>6, <2>8
<1>10. QED
  BY <1>5, <1>6, <1>7, <1>8, <1>9, RowsEffect

-----------------------------------------------------------------------------
(* A client that does not step keeps what it has in hand.                  *)
LEMMA OthersFit ==
    ASSUME TypeInv, RunsGrow, RowsGrow, NEW p \in Clients, op'[p] = op[p]
    PROVE  op'[p] \in OpRec' /\ OpFits(p)'
<1> USE Facts
<1>1. Len(runs') \in Nat /\ Len(rows') \in Nat
  BY DEF RunsGrow, RowsGrow
<1>2. op[p] \in OpRec'
  BY <1>1 DEF OpRec, RunsGrow
<1>3. DOMAIN runs \subseteq DOMAIN runs' /\ DOMAIN rows \subseteq DOMAIN rows'
  BY <1>1 DEF RunsGrow, RowsGrow
<1>4. At(p, "name") => op[p].run \in DOMAIN runs
  BY DEF OpFits, OpRec, NoRun
<1>5. OpFits(p)
  OBVIOUS
<1>6. OpFits(p)'
  BY <1>3, <1>4, <1>5 DEF OpFits, At, RunsGrow, RowsGrow, Fades
<1>7. QED
  BY <1>2, <1>6

LEMMA OpMoves ==
    ASSUME TypeInv, RunsGrow, RowsGrow, NEW p \in Clients, NEW q,
           op' = [op EXCEPT ![p] = q], q \in OpRec', OpFits(p)'
    PROVE  op' \in [Clients -> OpRec'] /\ \A s \in Clients : OpFits(s)'
<1>1. \A s \in Clients : s # p => op'[s] = op[s]
  BY Facts
<1>2. \A s \in Clients \ {p} : op'[s] \in OpRec' /\ OpFits(s)'
  BY <1>1, OthersFit
<1>3. op'[p] = q /\ DOMAIN op' = Clients /\ op' = [s \in Clients |-> op'[s]]
  BY Facts
<1>4. QED
  BY <1>2, <1>3

LEMMA RestingFits ==
    ASSUME TypeInv, RunsGrow, NEW p \in Clients, op' = [op EXCEPT ![p] = Resting]
    PROVE  Resting \in OpRec' /\ OpFits(p)'
<1>1. 0 \in 0..Len(runs')
  BY DEF RunsGrow
<1>2. Resting \in OpRec'
  BY <1>1 DEF Resting, OpRec, Phases, NoRun
<1>3. op'[p].pc = "idle"
  BY Facts DEF Resting
<1>4. QED
  BY <1>2, <1>3 DEF OpFits, At, Walking, Bringing

(* The runs below, the rows that wait: where a walk and a resume look.     *)
LEMMA ListsFit ==
    ASSUME TypeInv
    PROVE  /\ \A c : RunningIn(c) \subseteq DOMAIN runs
           /\ \A c : Waiting(c) \subseteq DOMAIN rows /\ Pending(c) \subseteq Waiting(c)
           /\ DOMAIN runs \subseteq Nat /\ DOMAIN rows \subseteq Nat
BY Facts DEF RunningIn, Waiting, Pending

LEMMA WalkStep ==
    ASSUME TypeInv, RunsGrow, RowsGrow, NEW p \in Clients,
           \/ CascadeStop(p)
           \/ \E c \in Convs : ReadRunning(p, c) \/ ReadRunningFails(p, c)
           \/ \E r \in op[p].todo : TakesDown(p, r) \/ TakeDownFails(p, r)
           \/ RecordCascadedStop(p) \/ RecordFails(p) \/ NextConversation(p) \/ WalkEnds(p)
    PROVE  \E q \in OpRec' : op' = [op EXCEPT ![p] = q] /\ OpFits(p)'
<1> USE Facts DEF At
<1>1. op[p] \in OpRec' /\ op[p] \in OpRec
  BY DEF RunsGrow, OpRec
<1>2. DOMAIN runs \subseteq DOMAIN runs'
  BY DEF RunsGrow
<1> DEFINE Moved == \E q \in OpRec' : op' = [op EXCEPT ![p] = q] /\ OpFits(p)'
<1>3. CASE CascadeStop(p)
  <2> DEFINE c == runs[op[p].run].conv
             stays == Exempt(c) \/ ~Linked(op[p].run)
             q == [op[p] EXCEPT !.pc = "below", !.conv = c, !.below = Descendants(c)]
  <2>1. CASE stays
    <3>1. op' = [op EXCEPT ![p] = Resting]
      BY <1>3, <2>1 DEF CascadeStop
    <3>2. QED
      BY <3>1, RestingFits
  <2>2. CASE ~stays
    <3>1. op' = [op EXCEPT ![p] = q] /\ UNCHANGED runs
      BY <1>3, <2>2 DEF CascadeStop
    <3>2. /\ op[p].run \in DOMAIN runs /\ op[p].todo = {}
          /\ op[p].branch \subseteq DOMAIN runs
      BY <1>1, <1>3 DEF CascadeStop, OpFits, OpRec, NoRun
    <3>3. c \in Convs /\ c # NoConv
      BY <3>2, CascadeAssumption DEF RunRec
    <3>4. Descendants(c) \subseteq Convs
      BY DEF Descendants
    <3> HIDE DEF c
    <3>5. q \in OpRec'
      BY <1>1, <3>3, <3>4 DEF OpRec, Phases
    <3>6. /\ op'[p].pc = "below" /\ op'[p].conv = c
          /\ op'[p].todo = {} /\ op'[p].branch = op[p].branch
      BY <1>1, <3>1, <3>2 DEF OpRec
    <3>7. OpFits(p)'
      BY <3>1, <3>2, <3>3, <3>6 DEF OpFits, Walking, Bringing
    <3>8. QED
      BY <3>1, <3>5, <3>7
  <2>3. QED
    BY <2>1, <2>2
<1>4. ASSUME NEW c \in Convs, ReadRunning(p, c) PROVE Moved
  <2> DEFINE q == [op[p] EXCEPT !.pc = "runs", !.below = @ \ {c}, !.todo = RunningIn(c)]
  <2>1. op' = [op EXCEPT ![p] = q] /\ UNCHANGED runs
    BY <1>4 DEF ReadRunning
  <2>2. RunningIn(c) \subseteq DOMAIN runs /\ RunningIn(c) \subseteq Nat
    BY ListsFit
  <2>3. q \in OpRec'
    BY <1>1, <2>2 DEF OpRec, Phases
  <2>4. /\ op'[p].pc = "runs" /\ op'[p].conv = op[p].conv /\ op'[p].branch = op[p].branch
        /\ op'[p].todo = RunningIn(c)
    BY <1>1, <2>1 DEF OpRec
  <2>5. op[p].pc = "below"
    BY <1>4 DEF ReadRunning
  <2>6. OpFits(p)'
    BY <1>2, <2>1, <2>2, <2>4, <2>5 DEF OpFits, Walking, Bringing
  <2>7. QED
    BY <2>1, <2>3, <2>6
<1>5. ASSUME NEW r \in op[p].todo, TakesDown(p, r) PROVE Moved
  <2> DEFINE q == [op[p] EXCEPT !.pc = "record", !.cur = r, !.todo = @ \ {r}]
  <2>1. op' = [op EXCEPT ![p] = q] /\ op[p].pc = "runs"
    BY <1>5 DEF TakesDown, TakeDown
  <2>2. r \in DOMAIN runs /\ r \in Nat
    BY <1>1, <2>1 DEF OpFits, Walking, OpRec
  <2>3. q \in OpRec'
    BY <1>1, <2>2 DEF OpRec, Phases
  <2>4. /\ op'[p].pc = "record" /\ op'[p].conv = op[p].conv /\ op'[p].branch = op[p].branch
        /\ op'[p].todo \subseteq op[p].todo /\ op'[p].cur = r
    BY <1>1, <2>1 DEF OpRec
  <2>5. OpFits(p)'
    BY <1>2, <2>1, <2>2, <2>4 DEF OpFits, Walking, Bringing
  <2>6. QED
    BY <2>1, <2>3, <2>5
<1>6. ASSUME NEW r \in op[p].todo, TakeDownFails(p, r) PROVE Moved
  <2> DEFINE q == [op[p] EXCEPT !.todo = @ \ {r}, !.branch = @ \ {r}]
  <2>1. op' = [op EXCEPT ![p] = q] /\ op[p].pc = "runs"
    BY <1>6 DEF TakeDownFails
  <2>2. q \in OpRec'
    BY <1>1 DEF OpRec
  <2>3. /\ op'[p].pc = "runs" /\ op'[p].conv = op[p].conv
        /\ op'[p].branch \subseteq op[p].branch /\ op'[p].todo \subseteq op[p].todo
    BY <1>1, <2>1 DEF OpRec
  <2>4. OpFits(p)'
    BY <1>2, <2>1, <2>3 DEF OpFits, Walking, Bringing
  <2>5. QED
    BY <2>1, <2>2, <2>4
<1>7. CASE RecordCascadedStop(p) \/ RecordFails(p)
  <2> DEFINE q == [op[p] EXCEPT !.pc = "runs", !.cur = NoRun]
  <2>1. op' = [op EXCEPT ![p] = q] /\ op[p].pc = "record"
    BY <1>7 DEF RecordCascadedStop, RecordFails
  <2>2. q \in OpRec'
    BY <1>1 DEF OpRec, Phases, NoRun
  <2>3. /\ op'[p].pc = "runs" /\ op'[p].conv = op[p].conv
        /\ op'[p].branch = op[p].branch /\ op'[p].todo = op[p].todo
    BY <1>1, <2>1 DEF OpRec
  <2>4. OpFits(p)'
    BY <1>2, <2>1, <2>3 DEF OpFits, Walking, Bringing
  <2>5. QED
    BY <2>1, <2>2, <2>4
<1>8. CASE NextConversation(p)
  <2> DEFINE q == [op[p] EXCEPT !.pc = "below"]
  <2>1. op' = [op EXCEPT ![p] = q] /\ op[p].pc = "runs"
    BY <1>8 DEF NextConversation
  <2>2. q \in OpRec'
    BY <1>1 DEF OpRec, Phases
  <2>3. /\ op'[p].pc = "below" /\ op'[p].conv = op[p].conv
        /\ op'[p].branch = op[p].branch /\ op'[p].todo = op[p].todo
    BY <1>1, <2>1 DEF OpRec
  <2>4. OpFits(p)'
    BY <1>2, <2>1, <2>3 DEF OpFits, Walking, Bringing
  <2>5. QED
    BY <2>1, <2>2, <2>4
<1>9. CASE WalkEnds(p)
  BY <1>9, RestingFits DEF WalkEnds
<1>10. ASSUME NEW c \in Convs, ReadRunningFails(p, c) PROVE Moved
  <2> DEFINE branch == {r \in op[p].branch : runs[r].conv # c}
             q == [op[p] EXCEPT !.below = @ \ {c}, !.branch = branch]
  <2>1. op' = [op EXCEPT ![p] = q] /\ op[p].pc = "below" /\ UNCHANGED runs
    BY <1>10 DEF ReadRunningFails
  <2>2. branch \subseteq op[p].branch
    OBVIOUS
  <2> HIDE DEF branch
  <2>3. q \in OpRec'
    BY <1>1, <2>2 DEF OpRec
  <2>4. /\ op'[p].pc = "below" /\ op'[p].conv = op[p].conv
        /\ op'[p].branch = branch /\ op'[p].todo = op[p].todo
    BY <1>1, <2>1 DEF OpRec
  <2>5. OpFits(p)'
    BY <1>2, <2>1, <2>2, <2>4 DEF OpFits, Walking, Bringing
  <2>6. QED
    BY <2>1, <2>3, <2>5
<1>11. QED
  BY <1>3, <1>4, <1>5, <1>6, <1>7, <1>8, <1>9, <1>10

LEMMA ResumeStep ==
    ASSUME TypeInv, RunsGrow, RowsGrow, NEW p \in Clients,
           \/ ResumeCascade(p)
           \/ \E i \in op[p].todo : ClaimCascadedStop(p, i) \/ ClaimFails(p, i)
           \/ BringBack(p) \/ BringBackFails(p) \/ NameCascadeReplacement(p) \/ ResumeEnds(p)
    PROVE  \E q \in OpRec' : op' = [op EXCEPT ![p] = q] /\ OpFits(p)'
<1> USE Facts DEF At
<1>1. op[p] \in OpRec' /\ op[p] \in OpRec
  BY DEF RunsGrow, OpRec
<1>2. DOMAIN rows \subseteq DOMAIN rows'
  BY DEF RowsGrow
<1> DEFINE Moved == \E q \in OpRec' : op' = [op EXCEPT ![p] = q] /\ OpFits(p)'
           back == [op[p] EXCEPT !.pc = "bring", !.cur = NoRun, !.run = NoRun]
<1>3. CASE ResumeCascade(p)
  <2> DEFINE todo == Pending(op[p].conv)
             branch == {i \in op[p].branch : Startable(i)}
             q == [op[p] EXCEPT !.pc = "bring", !.todo = todo, !.branch = branch]
  <2>1. op' = [op EXCEPT ![p] = q] /\ op[p].pc = "pending"
    BY <1>3 DEF ResumeCascade
  <2>2. todo \subseteq DOMAIN rows /\ todo \subseteq Nat /\ branch \subseteq op[p].branch
    BY ListsFit
  <2> HIDE DEF todo, branch
  <2>3. q \in OpRec'
    BY <1>1, <2>2 DEF OpRec, Phases
  <2>4. /\ op'[p].pc = "bring" /\ op'[p].conv = op[p].conv /\ op'[p].branch = branch
        /\ op'[p].todo = todo
    BY <1>1, <2>1 DEF OpRec
  <2>5. OpFits(p)'
    BY <1>2, <2>1, <2>2, <2>4 DEF OpFits, Walking, Bringing
  <2>6. QED
    BY <2>1, <2>3, <2>5
<1>4. ASSUME NEW i \in op[p].todo, ClaimCascadedStop(p, i) PROVE Moved
  <2> DEFINE cur == IF ClaimWon(i) THEN i ELSE NoRun
             pc == IF ClaimWon(i) THEN "spawn" ELSE "bring"
             q == [op[p] EXCEPT !.todo = @ \ {i}, !.cur = cur, !.pc = pc]
  <2>1. op' = [op EXCEPT ![p] = q] /\ op[p].pc = "bring"
    BY <1>4 DEF ClaimCascadedStop
  <2>2. i \in DOMAIN rows /\ i \in Nat
    BY <1>1, <2>1 DEF OpFits, Bringing, OpRec
  <2>3. cur \in Nat /\ pc \in {"spawn", "bring"}
    BY <2>2 DEF NoRun
  <2>4. rows[i] \in RowRec /\ rows'[i].claimed
    BY <1>4, <2>2 DEF ClaimCascadedStop, RowRec
  <2>5. pc = "spawn" => cur = i
    OBVIOUS
  <2> HIDE DEF cur, pc
  <2>6. q \in OpRec'
    BY <1>1, <2>3 DEF OpRec, Phases
  <2>7. /\ op'[p].pc = pc /\ op'[p].conv = op[p].conv /\ op'[p].branch = op[p].branch
        /\ op'[p].todo \subseteq op[p].todo /\ op'[p].cur = cur
    BY <1>1, <2>1 DEF OpRec
  <2>8. OpFits(p)'
    BY <1>2, <2>1, <2>2, <2>3, <2>4, <2>5, <2>7 DEF OpFits, Walking, Bringing
  <2>9. QED
    BY <2>1, <2>6, <2>8
<1>5. CASE BringBack(p)
  <2> DEFINE q == [op[p] EXCEPT !.pc = "name", !.run = Len(runs) + 1]
             was == rows[op[p].cur].run
  <2>1. op' = [op EXCEPT ![p] = q] /\ op[p].pc = "spawn" /\ UNCHANGED rows
    BY <1>5 DEF BringBack
  <2>2. op[p].cur \in DOMAIN rows /\ was \in DOMAIN runs
    BY <2>1 DEF OpFits, RowRec
  <2>3. runs[was].conv \in Convs /\ was \in 0..Len(runs)
    BY <2>2 DEF RunRec
  <2>4. Len(runs') = Len(runs) + 1 /\ runs'[Len(runs) + 1].of = was
    BY <1>5, <2>3, Appended DEF BringBack
  <2>45. Len(runs) + 1 \in 0..Len(runs')
    BY <2>4
  <2>5. q \in OpRec'
    BY <1>1, <2>45 DEF OpRec, Phases
  <2>6. /\ op'[p].pc = "name" /\ op'[p].conv = op[p].conv /\ op'[p].branch = op[p].branch
        /\ op'[p].todo = op[p].todo /\ op'[p].cur = op[p].cur /\ op'[p].run = Len(runs) + 1
    BY <1>1, <2>1 DEF OpRec
  <2>7. OpFits(p)'
    BY <2>1, <2>2, <2>4, <2>6 DEF OpFits, Walking, Bringing, NoRun
  <2>8. QED
    BY <2>1, <2>5, <2>7
<1>6. CASE BringBackFails(p) \/ NameCascadeReplacement(p)
  <2>1. op' = [op EXCEPT ![p] = back] /\ op[p].pc \in {"spawn", "name"}
    BY <1>6 DEF BringBackFails, NameCascadeReplacement, BackToList
  <2>6. NoRun \in Nat /\ NoRun \in 0..Len(runs')
    BY DEF RunsGrow, NoRun
  <2>2. back \in OpRec'
    BY <1>1, <2>6 DEF OpRec, Phases
  <2>3. /\ op'[p].pc = "bring" /\ op'[p].conv = op[p].conv
        /\ op'[p].branch = op[p].branch /\ op'[p].todo = op[p].todo
    BY <1>1, <2>1 DEF OpRec
  <2>4. OpFits(p)'
    BY <1>2, <2>1, <2>3 DEF OpFits, Walking, Bringing
  <2>5. QED
    BY <2>1, <2>2, <2>4
<1>7. CASE ResumeEnds(p)
  BY <1>7, RestingFits DEF ResumeEnds
<1>8. ASSUME NEW i \in op[p].todo, ClaimFails(p, i) PROVE Moved
  <2> DEFINE q == [op[p] EXCEPT !.todo = @ \ {i}, !.branch = @ \ {i}]
  <2>1. op' = [op EXCEPT ![p] = q] /\ op[p].pc = "bring"
    BY <1>8 DEF ClaimFails
  <2>2. q \in OpRec'
    BY <1>1 DEF OpRec
  <2>3. /\ op'[p].pc = "bring" /\ op'[p].conv = op[p].conv
        /\ op'[p].branch \subseteq op[p].branch /\ op'[p].todo \subseteq op[p].todo
    BY <1>1, <2>1 DEF OpRec
  <2>4. OpFits(p)'
    BY <1>2, <2>1, <2>3 DEF OpFits, Walking, Bringing
  <2>5. QED
    BY <2>1, <2>2, <2>4
<1>9. QED
  BY <1>3, <1>4, <1>5, <1>6, <1>7, <1>8

LEMMA OpStep ==
    ASSUME TypeInv, Next
    PROVE  op' \in [Clients -> OpRec'] /\ \A s \in Clients : OpFits(s)'
<1> USE Facts
<1>1. RunsGrow /\ RowsGrow
  BY RunsStep, RowsStep
<1>2. CASE UNCHANGED op
  <2>1. \A s \in Clients : op'[s] \in OpRec' /\ OpFits(s)'
    BY <1>1, <1>2, OthersFit
  <2>2. QED
    BY <1>2, <2>1
<1>3. ASSUME NEW p \in Clients, \E q \in OpRec' : op' = [op EXCEPT ![p] = q] /\ OpFits(p)'
      PROVE  op' \in [Clients -> OpRec'] /\ \A s \in Clients : OpFits(s)'
  BY <1>1, <1>3, OpMoves
<1>4. ASSUME NEW p \in Clients, NEW r \in DOMAIN runs, Kills(p, r)
      PROVE  \E q \in OpRec' : op' = [op EXCEPT ![p] = q] /\ OpFits(p)'
  <2> DEFINE branch == GoingBelow(runs[r].conv)
             q == [Resting EXCEPT !.pc = "walk", !.run = r, !.branch = branch]
  <2>1. op' = [op EXCEPT ![p] = q]
    BY <1>4 DEF Kills, KillAgent
  <2>2. r \in 0..Len(runs') /\ r # NoRun /\ DOMAIN runs \subseteq DOMAIN runs'
    BY <1>1 DEF RunsGrow, NoRun
  <2>3. branch \subseteq DOMAIN runs /\ branch \subseteq Nat
    BY DEF GoingBelow
  <2> HIDE DEF branch
  <2>4. q \in OpRec'
    BY <2>2, <2>3 DEF Resting, OpRec, Phases, NoRun
  <2>5. op'[p].pc = "walk" /\ op'[p].run = r /\ op'[p].todo = {} /\ op'[p].branch = branch
    BY <2>1 DEF Resting
  <2>6. OpFits(p)'
    BY <2>2, <2>3, <2>5 DEF OpFits, At, Walking, Bringing
  <2>7. QED
    BY <2>1, <2>4, <2>6
<1>5. ASSUME NEW p \in Clients, NEW r \in DOMAIN runs, ContinueAgent(p, r)
      PROVE  \E q \in OpRec' : op' = [op EXCEPT ![p] = q] /\ OpFits(p)'
  <2> DEFINE c == runs[r].conv
             q == [Resting EXCEPT !.pc = "pending", !.conv = c, !.branch = Waiting(c)]
  <2>1. op' = [op EXCEPT ![p] = q]
    BY <1>5 DEF ContinueAgent
  <2>2. Waiting(c) \subseteq DOMAIN rows /\ Waiting(c) \subseteq Nat
    BY ListsFit
  <2>3. c \in Convs /\ c # NoConv
    BY CascadeAssumption DEF RunRec
  <2>4. 0 \in 0..Len(runs')
    BY <1>1 DEF RunsGrow
  <2> HIDE DEF c
  <2>5. q \in OpRec'
    BY <2>2, <2>3, <2>4 DEF Resting, OpRec, Phases, NoRun
  <2>6. op'[p].pc = "pending" /\ op'[p].conv = c /\ op'[p].todo = {} /\ op'[p].branch = Waiting(c)
    BY <2>1 DEF Resting
  <2>7. DOMAIN rows \subseteq DOMAIN rows'
    BY <1>1 DEF RowsGrow
  <2>8. OpFits(p)'
    BY <2>2, <2>3, <2>6, <2>7 DEF OpFits, At, Walking, Bringing
  <2>9. QED
    BY <2>1, <2>5, <2>8
<1>6. ASSUME NEW p \in Clients, Proceed(p) \/ Fails(p)
      PROVE  \E q \in OpRec' : op' = [op EXCEPT ![p] = q] /\ OpFits(p)'
  <2>1. CASE Die(p)
    BY <1>1, <2>1, RestingFits DEF Die
  <2>2. CASE ~Die(p)
    <3>1. CASE \/ CascadeStop(p)
               \/ \E c \in Convs : ReadRunning(p, c) \/ ReadRunningFails(p, c)
               \/ \E r \in op[p].todo : TakesDown(p, r) \/ TakeDownFails(p, r)
               \/ RecordCascadedStop(p) \/ RecordFails(p) \/ NextConversation(p) \/ WalkEnds(p)
      BY <1>1, <3>1, WalkStep
    <3>2. CASE \/ ResumeCascade(p)
               \/ \E i \in op[p].todo : ClaimCascadedStop(p, i) \/ ClaimFails(p, i)
               \/ BringBack(p) \/ BringBackFails(p) \/ NameCascadeReplacement(p)
               \/ ResumeEnds(p)
      BY <1>1, <3>2, ResumeStep
    <3>3. QED
      BY <1>6, <2>2, <3>1, <3>2, Zenon DEF Proceed, Fails, TakesDown
  <2>3. QED
    BY <2>1, <2>2
<1>7. QED
  BY <1>2, <1>3, <1>4, <1>5, <1>6 DEF Next, Kills, Delegate, RecordHandoff, Speaks, RunEnds,
     RowSettles, RefusalToContinue

(* Only a delegation and its handoff change the tree. *)
LEMMA TreeEffect ==
    ASSUME TypeInv, Next
    PROVE  UNCHANGED <<parent, unhung>> \/ \E r \in DOMAIN runs, c \in Others :
               Delegate(r, c) \/ RecordHandoff(c, r)
<1>1. ASSUME NEW p \in Clients, Proceed(p) PROVE UNCHANGED <<parent, unhung>>
  BY <1>1, ZenonT(40) DEF Proceed, CascadeStop, ReadRunning, TakeDown, RecordCascadedStop,
     NextConversation, WalkEnds, ResumeCascade, ClaimCascadedStop, BringBack,
     NameCascadeReplacement, ResumeEnds
<1>2. ASSUME NEW p \in Clients, Fails(p) PROVE UNCHANGED <<parent, unhung>>
  BY <1>2, ZenonT(40) DEF Fails, ReadRunningFails, TakeDownFails, ClaimFails, TakeDown,
     RecordFails, BringBackFails, Die
<1>3. QED
  BY <1>1, <1>2, ZenonT(40) DEF Next, Speaks, RunEnds, RowSettles, KillAgent,
     RefusalToContinue, ContinueAgent

LEMMA TreeStep ==
    ASSUME TypeInv, Next
    PROVE  /\ parent' \in [Convs -> Convs \cup {NoConv}]
           /\ unhung' \subseteq Others \X DOMAIN runs'
<1> USE Facts
<1>1. DOMAIN runs \subseteq DOMAIN runs'
  BY RunsStep DEF RunsGrow
<1>2. unhung \subseteq Others \X DOMAIN runs
  BY DEF TypeInv, TypeOK
<1>3. ASSUME NEW r \in DOMAIN runs, NEW c \in Others, Delegate(r, c)
      PROVE  UNCHANGED parent /\ unhung' \subseteq Others \X DOMAIN runs'
  BY <1>1, <1>2, <1>3 DEF Delegate
<1>4. ASSUME NEW r \in DOMAIN runs, NEW c \in Others, RecordHandoff(c, r)
      PROVE  /\ parent' \in [Convs -> Convs \cup {NoConv}]
             /\ unhung' \subseteq Others \X DOMAIN runs'
  <2>1. runs[r].conv \in Convs
    BY DEF RunRec
  <2>2. QED
    BY <1>1, <1>2, <1>4, <2>1 DEF RecordHandoff
<1>5. QED
  BY <1>1, <1>2, <1>3, <1>4, TreeEffect

LEMMA TypeStep == TypeInv /\ [Next]_vars => TypeInv'
<1> SUFFICES ASSUME TypeInv, [Next]_vars PROVE TypeInv'
  OBVIOUS
<1>1. CASE Next
  BY <1>1, RunsStep, RowsStep, OpStep, TreeStep DEF TypeInv, TypeOK, RunsGrow, RowsGrow, RowsFit
<1>2. CASE UNCHANGED vars
  BY <1>2 DEF vars, TypeInv, TypeOK, OpFits, At, RunRec, RowRec, OpRec
<1>3. QED
  BY <1>1, <1>2

LEMMA TypeInit == Init => TypeInv
<1> SUFFICES ASSUME Init PROVE TypeInv
  OBVIOUS
<1>1. Len(runs) = 4 /\ Len(rows) = 0
  BY DEF Init
<1>2. \A r \in 1..4 : runs[r] \in RunRec
  <2>1. ASSUME NEW c \in Convs PROVE StartedIn(c, NoRun) \in RunRec
    BY <1>1 DEF StartedIn, RunRec, Statuses, NoRun
  <2>2. ASSUME NEW c \in Convs PROVE Grown(c) \in RunRec
    BY <2>1 DEF Grown, RunRec
  <2>3. ASSUME NEW c \in Convs, NEW status \in Statuses PROVE Over(c, status) \in RunRec
    <3> DEFINE u == Grown(c)
    <3>1. u \in RunRec
      BY <2>2
    <3> HIDE DEF u
    <3>2. [u EXCEPT !.status = status, !.alive = FALSE] \in RunRec
      BY <3>1 DEF RunRec
    <3>3. QED
      BY <3>2 DEF Over, u
  <2>4. {Main, Manager, Worker} \subseteq Convs /\ {"failed", "completed"} \subseteq Statuses
    BY DEF Convs, Statuses
  <2>5. QED
    BY <2>1, <2>2, <2>3, <2>4 DEF Init
<1>3. runs \in Seq(RunRec)
  BY <1>2 DEF Init
<1>4. rows \in Seq(RowRec) /\ DOMAIN rows = {}
  BY DEF Init
<1>5. parent \in [Convs -> Convs \cup {NoConv}] /\ unhung = {}
  BY DEF Init, Convs
<1>6. Resting \in OpRec
  BY <1>1 DEF Resting, OpRec, Phases, NoRun
<1>7. op = [p \in Clients |-> Resting] /\ Resting.pc = "idle"
  BY DEF Init, Resting
<1>8. op \in [Clients -> OpRec] /\ \A p \in Clients : OpFits(p)
  <2> HIDE DEF Resting
  <2>1. QED
    BY <1>6, <1>7 DEF OpFits, At, Walking, Bringing
<1>9. QED
  BY <1>3, <1>4, <1>5, <1>8 DEF TypeInv, TypeOK

(***************************************************************************)
(* Every variable keeps to its vocabulary, no run is recorded as taken     *)
(* down twice, and a replacement that is named was started in place of the *)
(* run of its row, for any tree and any number of clients and runs.        *)
(***************************************************************************)
THEOREM TypeCorrect == Spec => []TypeOK
<1>1. TypeInv => TypeOK
  BY DEF TypeInv
<1>2. TypeInv /\ [Next]_vars => TypeInv'
  BY TypeStep
<1>3. QED
  BY <1>1, <1>2, TypeInit, PTL DEF Spec

-----------------------------------------------------------------------------
(* What a client does itself. *)
StepOf(p) ==
    \/ Proceed(p) \/ Fails(p)
    \/ \E r \in DOMAIN runs : Kills(p, r) \/ ContinueAgent(p, r)

LEMMA OneMoves ==
    ASSUME TypeInv, Next, NEW s \in Clients
    PROVE  op'[s] = op[s] \/ StepOf(s)
<1>1. UNCHANGED op \/ \E p \in Clients : StepOf(p) /\ \E q : op' = [op EXCEPT ![p] = q]
  <2>1. ASSUME NEW p \in Clients, Proceed(p) PROVE \E q : op' = [op EXCEPT ![p] = q]
    BY <2>1 DEF Proceed, CascadeStop, ReadRunning, TakeDown, ClaimCascadedStop,
       RecordCascadedStop, NextConversation, WalkEnds, ResumeCascade, BringBack,
       NameCascadeReplacement, BackToList, ResumeEnds
  <2>2. ASSUME NEW p \in Clients, Fails(p) PROVE \E q : op' = [op EXCEPT ![p] = q]
    BY <2>2 DEF Fails, ReadRunningFails, TakeDownFails, ClaimFails, TakeDown, RecordFails,
       BringBackFails, BackToList, Die
  <2>3. ASSUME NEW p \in Clients, NEW r, Kills(p, r) \/ ContinueAgent(p, r)
        PROVE  \E q : op' = [op EXCEPT ![p] = q]
    BY <2>3 DEF Kills, KillAgent, ContinueAgent
  <2>4. QED
    BY <2>1, <2>2, <2>3 DEF Next, StepOf, Kills, Delegate, RecordHandoff, Speaks, RunEnds,
       RowSettles, RefusalToContinue
<1>2. QED
  BY <1>1, Facts

(* Where each step leads. *)
LEMMA WhereTo ==
    ASSUME TypeInv, NEW s \in Clients
    PROVE  /\ CascadeStop(s) => op'[s].pc \in {"idle", "below"}
           /\ \A c : ReadRunning(s, c) => op'[s].pc = "runs"
           /\ \A c : ReadRunningFails(s, c) => op'[s].pc = "below"
           /\ \A r : TakesDown(s, r) => op'[s].pc = "record" /\ op'[s].cur = r
           /\ \A r : TakeDownFails(s, r) => op'[s].pc = "runs"
           /\ RecordCascadedStop(s) \/ RecordFails(s) => op'[s].pc = "runs"
           /\ NextConversation(s) => op'[s].pc = "below"
           /\ WalkEnds(s) \/ ResumeEnds(s) \/ Die(s) => op'[s].pc = "idle"
           /\ \A r : Kills(s, r) => op'[s].pc = "walk"
           /\ \A r : ContinueAgent(s, r) => op'[s].pc = "pending"
           /\ ResumeCascade(s) \/ BringBackFails(s) \/ NameCascadeReplacement(s)
                 => op'[s].pc = "bring"
           /\ \A i : ClaimFails(s, i) => op'[s].pc = "bring"
           /\ \A i : ClaimCascadedStop(s, i) =>
                 op'[s].pc = "bring" \/ (op'[s].pc = "spawn" /\ ClaimWon(i) /\ op'[s].cur = i)
           /\ BringBack(s) => op'[s].pc = "name"
<1>1. op[s] \in OpRec /\ op \in [Clients -> OpRec] /\ Resting.pc = "idle"
  BY Facts DEF Resting
<1>2. CascadeStop(s) => op'[s].pc \in {"idle", "below"}
  BY <1>1 DEF CascadeStop, OpRec
<1>3. /\ \A c : ReadRunning(s, c) => op'[s].pc = "runs"
      /\ \A c : ReadRunningFails(s, c) => op'[s].pc = "below"
  <2>1. ASSUME NEW c, ReadRunning(s, c) PROVE op'[s].pc = "runs"
    BY <1>1, <2>1 DEF ReadRunning, OpRec, At
  <2>2. ASSUME NEW c, ReadRunningFails(s, c) PROVE op'[s].pc = "below"
    BY <1>1, <2>2 DEF ReadRunningFails, OpRec, At
  <2>3. QED
    BY <2>1, <2>2
<1>4. /\ \A r : TakesDown(s, r) => op'[s].pc = "record" /\ op'[s].cur = r
      /\ \A r : TakeDownFails(s, r) => op'[s].pc = "runs"
  <2>1. ASSUME NEW r, TakesDown(s, r) PROVE op'[s].pc = "record" /\ op'[s].cur = r
    BY <1>1, <2>1 DEF TakesDown, TakeDown, OpRec, At
  <2>2. ASSUME NEW r, TakeDownFails(s, r) PROVE op'[s].pc = "runs"
    BY <1>1, <2>2 DEF TakeDownFails, OpRec, At
  <2>3. QED
    BY <2>1, <2>2
<1>5. /\ RecordCascadedStop(s) \/ RecordFails(s) => op'[s].pc = "runs"
      /\ NextConversation(s) => op'[s].pc = "below"
  BY <1>1 DEF RecordCascadedStop, RecordFails, NextConversation, OpRec
<1>6. WalkEnds(s) \/ ResumeEnds(s) \/ Die(s) => op'[s].pc = "idle"
  BY <1>1 DEF WalkEnds, ResumeEnds, Die
<1>7. /\ \A r : Kills(s, r) => op'[s].pc = "walk"
      /\ \A r : ContinueAgent(s, r) => op'[s].pc = "pending"
  BY <1>1 DEF Kills, KillAgent, ContinueAgent, Resting
<1>8. ResumeCascade(s) \/ BringBackFails(s) \/ NameCascadeReplacement(s) => op'[s].pc = "bring"
  BY <1>1 DEF ResumeCascade, BringBackFails, NameCascadeReplacement, BackToList, OpRec
<1>9. /\ \A i : ClaimFails(s, i) => op'[s].pc = "bring"
      /\ BringBack(s) => op'[s].pc = "name"
  BY <1>1 DEF ClaimFails, BringBack, OpRec, At
<1>10. ASSUME NEW i, ClaimCascadedStop(s, i)
       PROVE  op'[s].pc = "bring" \/ (op'[s].pc = "spawn" /\ ClaimWon(i) /\ op'[s].cur = i)
  BY <1>1, <1>10 DEF ClaimCascadedStop, OpRec
<1>11. QED
  BY <1>2, <1>3, <1>4, <1>5, <1>6, <1>7, <1>8, <1>9, <1>10

-----------------------------------------------------------------------------
(* What is recorded, or about to be, has been stopped. *)
StopInv ==
    /\ RecordedIsStopped
    /\ \A p \in Clients : At(p, "record") => ~Unstopped(op[p].cur)

(* Only the step that stops a run comes to record it.                      *)
LEMMA RecordReached ==
    ASSUME TypeInv, Next, NEW s \in Clients, op'[s].pc = "record"
    PROVE  \/ op'[s] = op[s]
           \/ \E r \in op[s].todo : TakesDown(s, r) /\ op'[s].cur = r
BY OneMoves, WhereTo DEF StepOf, Proceed, Fails, TakesDown

LEMMA StoppedStays ==
    ASSUME TypeInv, RunsGrow, NEW r \in DOMAIN runs, ~Unstopped(r)
    PROVE  ~Unstopped(r)'
BY DEF RunsGrow, Fades, Unstopped, Alive

LEMMA TakenDown ==
    ASSUME TypeInv, NEW s \in Clients, NEW r \in op[s].todo, TakesDown(s, r)
    PROVE  r \in DOMAIN runs /\ ~Unstopped(r)'
<1>1. r \in DOMAIN runs
  BY Facts DEF TakesDown, TakeDown, OpFits, At, Walking
<1>2. PICK signals, marks \in BOOLEAN : runs' = Stopped(r, signals, marks)
  BY DEF TakesDown, TakeDown
<1>3. QED
  BY <1>1, <1>2, StopFades

LEMMA StopStep == TypeInv /\ StopInv /\ [Next]_vars => StopInv'
<1> SUFFICES ASSUME TypeInv, StopInv, [Next]_vars PROVE StopInv'
  OBVIOUS
<1> USE Facts
<1>1. CASE UNCHANGED vars
  BY <1>1 DEF vars, StopInv, RecordedIsStopped, Unstopped, Alive, At
<1>2. CASE Next
  <2>1. RunsGrow /\ RowsGrow
    BY <1>2, RunsStep, RowsStep
  <2>2. \A r \in DOMAIN runs : ~Unstopped(r) => ~Unstopped(r)'
    BY <2>1, StoppedStays
  <2>3. \A i \in DOMAIN rows : rows[i].run \in DOMAIN runs /\ ~Unstopped(rows[i].run)
    BY DEF StopInv, RecordedIsStopped, RowRec
  <2> DEFINE Loose(r) == runs'[r].alive /\ ~runs'[r].missed
  <2>4. \A i \in DOMAIN rows : ~Loose(rows'[i].run)
    BY <2>1, <2>2, <2>3 DEF RowsGrow, Unstopped, Alive
  <2>5. RecordedIsStopped'
    <3>1. CASE Len(rows') = Len(rows)
      <4>1. DOMAIN rows' = DOMAIN rows
        BY <2>1, <3>1 DEF RowsGrow
      <4>2. QED
        BY <2>4, <4>1 DEF RecordedIsStopped, Unstopped, Alive
    <3>2. CASE Len(rows') # Len(rows)
      <4>1. PICK p \in Clients : RecordCascadedStop(p)
        <5>1. \A c \in Convs : Len(Asked(c)) = Len(rows)
          BY DEF Asked
        <5>2. ASSUME NEW q \in Clients, NEW i \in op[q].todo, ClaimCascadedStop(q, i)
              PROVE  Len(rows') = Len(rows)
          BY <5>2 DEF ClaimCascadedStop
        <5>3. ASSUME NEW q \in Clients, NameCascadeReplacement(q)
              PROVE  Len(rows') = Len(rows)
          BY <5>3 DEF NameCascadeReplacement
        <5>4. QED
          BY <1>2, <3>2, <5>1, <5>2, <5>3, RowsEffect
      <4> DEFINE new == RecordOf(op[p].cur, op[p].conv)
      <4>2. rows' = Append(rows, new) /\ UNCHANGED runs
        BY <3>2, <4>1 DEF RecordCascadedStop
      <4>3. ~Loose(op[p].cur) /\ new.run = op[p].cur
        BY <4>1, <4>2 DEF StopInv, RecordCascadedStop, RecordOf, Unstopped, Alive
      <4> HIDE DEF new
      <4>4. DOMAIN rows' = DOMAIN rows \cup {Len(rows) + 1} /\ rows'[Len(rows) + 1] = new
        BY <4>2
      <4>5. QED
        BY <2>4, <4>3, <4>4 DEF RecordedIsStopped, Unstopped, Alive
    <3>3. QED
      BY <3>1, <3>2
  <2>6. ASSUME NEW s \in Clients, At(s, "record")' PROVE ~Unstopped(op[s].cur)'
    <3>1. CASE op'[s] = op[s]
      BY <2>2, <2>6, <3>1 DEF StopInv, At, OpFits, Unstopped, Alive
    <3>2. ASSUME NEW r \in op[s].todo, TakesDown(s, r), op'[s].cur = r
          PROVE  ~Unstopped(op[s].cur)'
      BY <3>2, TakenDown DEF Unstopped, Alive
    <3>3. QED
      BY <1>2, <2>6, <3>1, <3>2, RecordReached DEF At
  <2>7. QED
    BY <2>5, <2>6 DEF StopInv
<1>3. QED
  BY <1>1, <1>2

LEMMA StopInit == Init => StopInv
BY DEF Init, StopInv, RecordedIsStopped, At, Resting

(***************************************************************************)
(* No run that is still alive is on record as taken down, whoever dies     *)
(* between the stop and its record, and whoever else stops, continues or   *)
(* delegates meanwhile; but for a run whose stop signalled nothing.        *)
(***************************************************************************)
THEOREM RecordedCorrect == Spec => []RecordedIsStopped
<1>1. TypeInv /\ StopInv /\ [Next]_vars => StopInv'
  BY StopStep
<1>2. TypeInv /\ [Next]_vars => TypeInv'
  BY TypeStep
<1>3. StopInv => RecordedIsStopped
  BY DEF StopInv
<1>4. QED
  BY <1>1, <1>2, <1>3, TypeInit, StopInit, PTL DEF Spec

-----------------------------------------------------------------------------
-----------------------------------------------------------------------------
(* A delegation in flight is the only one of its conversation, which hangs *)
(* nowhere yet; a conversation that hangs somewhere has a run.             *)
Hatched(c) == \E x \in DOMAIN runs : runs[x].conv = c

TreeInv ==
    /\ \A u, v \in unhung : u[1] = v[1] => u = v
    /\ \A u \in unhung : parent[u[1]] = NoConv /\ Hatched(u[1])
    /\ \A c \in Others : parent[c] # NoConv => Hatched(c)

(* What hangs in the tree stays where it hangs. *)
TreeGrows == \A d \in Convs : parent[d] # NoConv => parent'[d] = parent[d]

LEMMA HatchedStays ==
    ASSUME TypeInv, RunsGrow, NEW c, Hatched(c)
    PROVE  Hatched(c)'
<1>1. PICK x \in DOMAIN runs : runs[x].conv = c
  BY DEF Hatched
<1>2. x \in DOMAIN runs' /\ runs'[x].conv = c
  BY <1>1, Facts DEF RunsGrow, Fades
<1>3. QED
  BY <1>2 DEF Hatched

LEMMA TreeKept ==
    ASSUME TypeInv, TreeInv, Next
    PROVE  TreeInv' /\ TreeGrows
<1> USE Facts
<1>1. RunsGrow
  BY RunsStep
<1>2. \A c : Hatched(c) => Hatched(c)'
  BY <1>1, HatchedStays
<1>3. unhung \subseteq Others \X DOMAIN runs /\ Others \subseteq Convs
  BY DEF TypeInv, TypeOK, Convs
<1>4. CASE UNCHANGED <<parent, unhung>>
  BY <1>2, <1>4 DEF TreeInv, TreeGrows
<1>5. ASSUME NEW r \in DOMAIN runs, NEW c \in Others, Delegate(r, c)
      PROVE  TreeInv' /\ TreeGrows
  <2>1. ~Hatched(c) /\ unhung' = unhung \cup {<<c, r>>} /\ parent' = parent
    BY <1>5 DEF Delegate, Hatched
  <2>2. parent[c] = NoConv /\ \A u \in unhung : u[1] # c
    BY <2>1 DEF TreeInv
  <2>3. Hatched(c)'
    <3>1. runs'[Len(runs) + 1].conv = c /\ Len(runs) + 1 \in DOMAIN runs'
      BY <1>5 DEF Delegate, StartedIn
    <3>2. QED
      BY <3>1 DEF Hatched
  <2>4. QED
    BY <1>2, <2>1, <2>2, <2>3 DEF TreeInv, TreeGrows
<1>6. ASSUME NEW r \in DOMAIN runs, NEW c \in Others, RecordHandoff(c, r)
      PROVE  TreeInv' /\ TreeGrows
  <2>1. /\ <<c, r>> \in unhung /\ unhung' = unhung \ {<<c, r>>}
        /\ parent' = [parent EXCEPT ![c] = runs[r].conv]
    BY <1>6 DEF RecordHandoff
  <2>2. parent[c] = NoConv /\ Hatched(c) /\ \A u \in unhung' : u[1] # c
    BY <1>3, <2>1 DEF TreeInv
  <2>3. \A d \in Convs : d # c => parent'[d] = parent[d]
    BY <2>1
  <2>4. TreeGrows
    BY <2>2, <2>3 DEF TreeGrows
  <2>5. \A u \in unhung' : u \in unhung /\ u[1] \in Convs
    BY <1>3, <2>1
  <2>6. \A u \in unhung' : parent'[u[1]] = NoConv /\ Hatched(u[1])'
    BY <1>2, <2>2, <2>3, <2>5 DEF TreeInv
  <2>7. \A d \in Others : parent'[d] # NoConv => Hatched(d)'
    BY <1>2, <1>3, <2>2, <2>3 DEF TreeInv
  <2>8. \A u, v \in unhung' : u[1] = v[1] => u = v
    BY <2>5 DEF TreeInv
  <2>9. QED
    BY <2>4, <2>6, <2>7, <2>8 DEF TreeInv
<1>7. QED
  BY <1>4, <1>5, <1>6, TreeEffect

LEMMA TreeAlways == TypeInv /\ TreeInv /\ [Next]_vars => TreeInv'
<1>1. ASSUME TypeInv, TreeInv, UNCHANGED vars PROVE TreeInv'
  BY <1>1 DEF vars, TreeInv, Hatched
<1>2. QED
  BY <1>1, TreeKept

LEMMA TreeInit == Init => TreeInv
BY CascadeAssumption DEF Init, TreeInv, Convs

(* So a conversation keeps its descendants. *)
LEMMA DescendantsStay ==
    ASSUME TypeInv, TreeGrows, NEW c \in Convs
    PROVE  Descendants(c) \subseteq Descendants(c)'
<1> DEFINE Holds(S) == \A d \in Convs : parent[d] \in S \cup {c} => d \in S
           HoldsNext(S) == \A d \in Convs : parent'[d] \in S \cup {c} => d \in S
<1>1. ASSUME NEW S \in SUBSET Convs, HoldsNext(S) PROVE Holds(S)
  <2>1. NoConv \notin S \cup {c}
    BY CascadeAssumption
  <2>2. QED
    BY <1>1, <2>1 DEF TreeGrows
<1>2. Descendants(c) = {d \in Convs : \A S \in SUBSET Convs : Holds(S) => d \in S}
  BY DEF Descendants
<1>3. Descendants(c)' = {d \in Convs : \A S \in SUBSET Convs : HoldsNext(S) => d \in S}
  BY DEF Descendants
<1> HIDE DEF Holds, HoldsNext
<1>4. QED
  BY <1>1, <1>2, <1>3

-----------------------------------------------------------------------------
(* Of the branch a stop found, what is not stopped reads running and can   *)
(* be found; it hangs below the conversation the walk will begin at, and   *)
(* then it is in one the walk has not come to or on the list in hand.      *)
Found(r) == Unstopped(r) => ReadsRunning(r) /\ Linked(r)

Down(p) ==
    /\ At(p, "walk") => \A r \in op[p].branch :
          Found(r) /\ runs[r].conv \in Descendants(runs[op[p].run].conv)
    /\ At(p, "below") => op[p].todo = {}
    /\ op[p].pc \in Walking => \A r \in op[p].branch :
          Found(r) /\ (Unstopped(r) => runs[r].conv \in op[p].below \/ r \in op[p].todo)

DownInv == \A p \in Clients : Down(p)

LEMMA FoundStays ==
    ASSUME TypeInv, RunsGrow, NEW r \in DOMAIN runs, Found(r)
    PROVE  Found(r)'
BY DEF RunsGrow, Fades, Found, Unstopped, Alive, ReadsRunning, Linked

LEMMA DownStep == TypeInv /\ TreeInv /\ DownInv /\ [Next]_vars => DownInv'
<1> SUFFICES ASSUME TypeInv, TreeInv, DownInv, [Next]_vars PROVE DownInv'
  OBVIOUS
<1> USE Facts
<1>1. CASE UNCHANGED vars
  BY <1>1 DEF vars, DownInv, Down, Found, Unstopped, Alive, ReadsRunning, Linked, At,
     Descendants
<1>2. CASE Next
  <2> SUFFICES ASSUME NEW s \in Clients PROVE Down(s)'
    BY DEF DownInv
  <2>1. RunsGrow /\ TreeGrows
    BY <1>2, RunsStep, TreeKept
  <2>2. op[s] \in OpRec /\ Down(s) /\ OpFits(s)
    BY DEF DownInv
  <2>3. /\ \A r \in DOMAIN runs : Found(r) => Found(r)'
        /\ \A r \in DOMAIN runs : Unstopped(r)' => Unstopped(r)
        /\ \A r \in DOMAIN runs : runs'[r].conv = runs[r].conv
    BY <2>1, FoundStays, StoppedStays DEF RunsGrow, Fades
  <2>4. CASE op'[s].pc \notin Walking \cup {"walk"}
    BY <2>4 DEF Down, At, Walking
  <2>5. CASE op'[s] = op[s]
    <3>1. CASE At(s, "walk")
      <4>1. op[s].run \in DOMAIN runs /\ op[s].branch \subseteq DOMAIN runs
        BY <2>2, <3>1 DEF OpFits, OpRec, NoRun
      <4>2. runs[op[s].run].conv \in Convs
        BY <4>1 DEF RunRec
      <4>3. /\ Descendants(runs[op[s].run].conv) \subseteq Descendants(runs[op[s].run].conv)'
            /\ runs'[op[s].run].conv = runs[op[s].run].conv
        <5> DEFINE c == runs[op[s].run].conv
        <5>1. runs'[op[s].run].conv = c
          BY <2>3, <4>1
        <5>2. \A d \in Convs : Descendants(d) \subseteq
                  {e \in Convs : \A S \in SUBSET Convs :
                      (\A x \in Convs : parent'[x] \in S \cup {d} => x \in S) => e \in S}
          BY <2>1, DescendantsStay DEF Descendants
        <5>3. QED
          BY <2>5, <4>2, <5>1, <5>2 DEF Descendants
      <4>4. \A r \in op[s].branch :
                Found(r)' /\ runs'[r].conv \in Descendants(runs[op[s].run].conv)'
        BY <2>2, <2>3, <3>1, <4>1, <4>3 DEF Down
      <4>5. QED
        BY <2>5, <3>1, <4>4 DEF Down, At, Walking
    <3>2. CASE op[s].pc \in Walking
      <4>1. op[s].branch \subseteq DOMAIN runs
        BY <2>2, <3>2 DEF OpFits
      <4>2. \A r \in op[s].branch :
                Found(r)' /\ (Unstopped(r)' => runs'[r].conv \in op[s].below \/ r \in op[s].todo)
        BY <2>2, <2>3, <3>2, <4>1 DEF Down
      <4>3. QED
        BY <2>2, <2>5, <3>2, <4>2 DEF Down, At, Walking
    <3>3. CASE op[s].pc \notin Walking \cup {"walk"}
      BY <2>4, <2>5, <3>3
    <3>4. QED
      BY <3>1, <3>2, <3>3 DEF At
  <2>6. CASE CascadeStop(s)
    <3> DEFINE c == runs[op[s].run].conv
    <3>1. CASE Exempt(c) \/ ~Linked(op[s].run)
      <4>1. op'[s] = Resting
        BY <2>6, <3>1 DEF CascadeStop
      <4>2. QED
        BY <2>4, <4>1 DEF Resting, Walking
    <3>2. CASE ~(Exempt(c) \/ ~Linked(op[s].run))
      <4>1. op'[s] = [op[s] EXCEPT !.pc = "below", !.conv = c, !.below = Descendants(c)]
            /\ UNCHANGED runs /\ op[s].pc = "walk"
        BY <2>6, <3>2 DEF CascadeStop, At
      <4>2. op[s].todo = {} /\ op[s].branch \subseteq DOMAIN runs
        BY <2>2, <4>1 DEF OpFits, At
      <4>3. \A r \in op[s].branch : Found(r) /\ runs[r].conv \in Descendants(c)
        BY <2>2, <4>1 DEF Down, At
      <4> HIDE DEF c
      <4>4. /\ op'[s].todo = {} /\ op'[s].branch = op[s].branch
            /\ op'[s].below = Descendants(c) /\ op'[s].pc = "below"
        BY <2>2, <4>1, <4>2 DEF OpRec
      <4>5. \A r \in op[s].branch : Found(r)' /\ runs'[r].conv \in Descendants(c)
        BY <2>3, <4>1, <4>2, <4>3
      <4>6. QED
        BY <4>4, <4>5 DEF Down, At
    <3>3. QED
      BY <3>1, <3>2
  <2>7. ASSUME NEW c \in Convs, ReadRunning(s, c) PROVE Down(s)'
    <3>1. op'[s] = [op[s] EXCEPT !.pc = "runs", !.below = @ \ {c}, !.todo = RunningIn(c)]
          /\ UNCHANGED runs /\ op[s].pc = "below"
      BY <2>7 DEF ReadRunning, At
    <3>2. /\ op'[s].todo = RunningIn(c) /\ op'[s].branch = op[s].branch
          /\ op'[s].below = op[s].below \ {c} /\ op'[s].pc = "runs"
      BY <2>2, <3>1 DEF OpRec
    <3>3. \A r \in op[s].branch : /\ r \in DOMAIN runs /\ Found(r)
                                  /\ Unstopped(r) => runs[r].conv \in op[s].below
      BY <2>2, <3>1 DEF Down, At, OpFits, Walking
    <3>4. \A r \in op[s].branch :
              Unstopped(r) => runs[r].conv \in op[s].below \ {c} \/ r \in RunningIn(c)
      BY <3>3 DEF RunningIn, Found, Unstopped, Alive, ReadsRunning, Linked
    <3>5. \A r \in op[s].branch : Found(r)' /\ (Unstopped(r)' => Unstopped(r))
      BY <2>3, <3>3 DEF Found, Unstopped, Alive, ReadsRunning, Linked
    <3>6. QED
      BY <3>1, <3>2, <3>4, <3>5 DEF Down, At
  <2>8. ASSUME NEW c \in Convs, ReadRunningFails(s, c) PROVE Down(s)'
    <3> DEFINE branch == {r \in op[s].branch : runs[r].conv # c}
    <3>1. op'[s] = [op[s] EXCEPT !.below = @ \ {c}, !.branch = branch]
          /\ UNCHANGED runs /\ op[s].pc = "below"
      BY <2>8 DEF ReadRunningFails, At
    <3>2. \A r \in branch : /\ r \in DOMAIN runs /\ Found(r) /\ runs[r].conv # c
                            /\ Unstopped(r) => runs[r].conv \in op[s].below
      BY <2>2, <3>1 DEF Down, At, OpFits, Walking
    <3> HIDE DEF branch
    <3>3. /\ op'[s].todo = op[s].todo /\ op'[s].branch = branch
          /\ op'[s].below = op[s].below \ {c} /\ op'[s].pc = "below"
      BY <2>2, <3>1 DEF OpRec
    <3>4. \A r \in branch : /\ Found(r)'
                            /\ Unstopped(r)' => runs'[r].conv \in op[s].below \ {c}
      BY <2>3, <3>2 DEF Found, Unstopped, Alive, ReadsRunning, Linked
    <3>5. op[s].todo = {}
      BY <2>2, <3>1 DEF Down, At
    <3>6. QED
      BY <3>3, <3>4, <3>5 DEF Down, At, Walking, Found, Unstopped, Alive, ReadsRunning, Linked
  <2>9. ASSUME NEW r \in op[s].todo, TakesDown(s, r) PROVE Down(s)'
    <3>1. op'[s] = [op[s] EXCEPT !.pc = "record", !.cur = r, !.todo = @ \ {r}]
          /\ op[s].pc = "runs"
      BY <2>9 DEF TakesDown, TakeDown, At
    <3>2. /\ op'[s].todo = op[s].todo \ {r} /\ op'[s].branch = op[s].branch
          /\ op'[s].below = op[s].below /\ op'[s].pc = "record"
      BY <2>2, <3>1 DEF OpRec
    <3>3. ~Unstopped(r)'
      BY <2>9, TakenDown
    <3>4. \A x \in op[s].branch : /\ x \in DOMAIN runs /\ Found(x)
                                  /\ Unstopped(x) => runs[x].conv \in op[s].below \/ x \in op[s].todo
      BY <2>2, <3>1 DEF Down, Walking, OpFits
    <3>5. \A x \in op[s].branch :
              /\ Found(x)'
              /\ Unstopped(x)' => runs'[x].conv \in op[s].below \/ x \in op[s].todo \ {r}
      <4> SUFFICES ASSUME NEW x \in op[s].branch
                   PROVE  /\ Found(x)'
                          /\ Unstopped(x)' => runs'[x].conv \in op[s].below
                                                \/ x \in op[s].todo \ {r}
        OBVIOUS
      <4>1. CASE x = r
        BY <2>3, <3>3, <3>4, <4>1 DEF Found, Unstopped, Alive, ReadsRunning, Linked
      <4>2. CASE x # r
        BY <2>3, <3>4, <4>2 DEF Found, Unstopped, Alive, ReadsRunning, Linked
      <4>3. QED
        BY <4>1, <4>2
    <3>6. QED
      BY <3>2, <3>5 DEF Down, At
  <2>10. ASSUME NEW r \in op[s].todo, TakeDownFails(s, r) PROVE Down(s)'
    <3>1. op'[s] = [op[s] EXCEPT !.todo = @ \ {r}, !.branch = @ \ {r}]
          /\ op[s].pc = "runs" /\ UNCHANGED runs
      BY <2>10 DEF TakeDownFails, At
    <3>2. /\ op'[s].todo = op[s].todo \ {r} /\ op'[s].branch = op[s].branch \ {r}
          /\ op'[s].below = op[s].below /\ op'[s].pc = "runs"
      BY <2>2, <3>1 DEF OpRec
    <3>3. \A x \in op[s].branch : /\ x \in DOMAIN runs /\ Found(x)
                                  /\ Unstopped(x) => runs[x].conv \in op[s].below \/ x \in op[s].todo
      BY <2>2, <3>1 DEF Down, Walking, OpFits
    <3>4. \A x \in op[s].branch \ {r} :
              /\ Found(x)'
              /\ Unstopped(x)' => runs'[x].conv \in op[s].below \/ x \in op[s].todo \ {r}
      BY <2>3, <3>3 DEF Found, Unstopped, Alive, ReadsRunning, Linked
    <3>5. QED
      BY <3>2, <3>4 DEF Down, At
  <2>11. CASE RecordCascadedStop(s) \/ RecordFails(s) \/ NextConversation(s)
    <3>1. /\ op'[s].todo = op[s].todo /\ op'[s].branch = op[s].branch
          /\ op'[s].below = op[s].below /\ op[s].pc \in Walking /\ UNCHANGED runs
          /\ op'[s].pc = "runs" \/ (op'[s].pc = "below" /\ op[s].todo = {})
      BY <2>2, <2>11 DEF RecordCascadedStop, RecordFails, NextConversation, OpRec, At, Walking
    <3>2. \A x \in op[s].branch : /\ x \in DOMAIN runs /\ Found(x)
                                  /\ Unstopped(x) => runs[x].conv \in op[s].below \/ x \in op[s].todo
      BY <2>2, <3>1 DEF Down, OpFits
    <3>3. \A x \in op[s].branch :
              /\ Found(x)'
              /\ Unstopped(x)' => runs'[x].conv \in op[s].below \/ x \in op[s].todo
      BY <2>3, <3>2 DEF Found, Unstopped, Alive, ReadsRunning, Linked
    <3>4. QED
      BY <3>1, <3>3 DEF Down, At
  <2>12. ASSUME NEW r \in DOMAIN runs, Kills(s, r) PROVE Down(s)'
    <3> DEFINE c == runs[r].conv
               branch == GoingBelow(c)
    <3>1. op'[s].pc = "walk" /\ op'[s].run = r /\ op'[s].branch = branch
      BY <2>12 DEF Kills, KillAgent, Resting
    <3>2. \A x \in branch : /\ x \in DOMAIN runs /\ Found(x)
                            /\ runs[x].conv \in Descendants(c)
      BY DEF GoingBelow, Going, Found
    <3>3. UNCHANGED parent /\ runs'[r].conv = c
      BY <2>3, <2>12 DEF Kills, KillAgent
    <3>4. Descendants(runs[op[s].run].conv)' = Descendants(c)
      BY <3>1, <3>3 DEF Descendants
    <3> HIDE DEF branch, c
    <3>5. \A x \in branch : Found(x)' /\ runs'[x].conv \in Descendants(c)
      BY <2>3, <3>2
    <3>6. QED
      BY <3>1, <3>4, <3>5 DEF Down, At, Walking
  <2>13. QED
    <3>1. CASE StepOf(s)
      <4>1. CASE \/ \E r \in op[s].todo : ClaimCascadedStop(s, r) \/ ClaimFails(s, r)
                 \/ WalkEnds(s) \/ ResumeCascade(s) \/ BringBack(s) \/ BringBackFails(s)
                 \/ NameCascadeReplacement(s) \/ ResumeEnds(s) \/ Die(s)
                 \/ \E r \in DOMAIN runs : ContinueAgent(s, r)
        <5>1. op'[s].pc \notin Walking \cup {"walk"}
          BY <4>1, WhereTo DEF Walking
        <5>2. QED
          BY <2>4, <5>1
      <4>2. QED
        BY <2>6, <2>7, <2>8, <2>9, <2>10, <2>11, <2>12, <3>1, <4>1
           DEF StepOf, Proceed, Fails, TakesDown
    <3>2. QED
      BY <1>2, <2>5, <3>1, OneMoves
<1>3. QED
  BY <1>1, <1>2

(***************************************************************************)
(* When a walk is over, every run that was going below when the stop was   *)
(* asked for is over, but for those that could not be stopped, read or     *)
(* signalled: to the bottom of any tree, and whatever runs, clients and    *)
(* delegations do before and during the walk.                              *)
(***************************************************************************)
THEOREM BranchDownCorrect == Spec => []BranchIsDown
<1>1. Init => DownInv
  BY DEF Init, DownInv, Down, Resting, At, Walking
<1>2. TypeInv /\ TreeInv /\ DownInv /\ [Next]_vars => DownInv'
  BY DownStep
<1>3. TypeInv /\ [Next]_vars => TypeInv'
  BY TypeStep
<1>4. TypeInv /\ TreeInv /\ [Next]_vars => TreeInv'
  BY TreeAlways
<1>5. DownInv => BranchIsDown
  BY DEF DownInv, Down, BranchIsDown, At, Walking
<1>6. QED
  BY <1>1, <1>2, <1>3, <1>4, <1>5, TypeInit, TreeInit, PTL DEF Spec

-----------------------------------------------------------------------------
(* Of what waited when a resume began, everything has been claimed or is   *)
(* on its list.                                                            *)
Back(p) ==
    /\ At(p, "pending") => \A i \in op[p].branch : rows[i].from = op[p].conv
    /\ op[p].pc \in Bringing => \A i \in op[p].branch : rows[i].claimed \/ i \in op[p].todo

BackInv == \A p \in Clients : Back(p)

LEMMA BackStep == TypeInv /\ BackInv /\ [Next]_vars => BackInv'
<1> SUFFICES ASSUME TypeInv, BackInv, [Next]_vars PROVE BackInv'
  OBVIOUS
<1> USE Facts
<1>1. CASE UNCHANGED vars
  BY <1>1 DEF vars, BackInv, Back, At
<1>2. CASE Next
  <2> SUFFICES ASSUME NEW s \in Clients PROVE Back(s)'
    BY DEF BackInv
  <2>1. RowsGrow
    BY <1>2, RowsStep
  <2>2. op[s] \in OpRec /\ Back(s) /\ OpFits(s)
    BY DEF BackInv
  <2>3. CASE op'[s] = op[s]
    BY <2>1, <2>2, <2>3 DEF Back, At, OpFits, RowsGrow
  <2>4. CASE op'[s].pc \notin Bringing \cup {"pending"}
    BY <2>4 DEF Back, At
  <2>5. ASSUME NEW r \in DOMAIN runs, ContinueAgent(s, r) PROVE Back(s)'
    <3> DEFINE c == runs[r].conv
    <3>1. op'[s].pc = "pending" /\ op'[s].conv = c /\ op'[s].branch = Waiting(c)
      BY <2>5 DEF ContinueAgent, Resting
    <3> HIDE DEF c
    <3>2. \A i \in Waiting(c) : i \in DOMAIN rows /\ rows[i].from = c
      BY DEF Waiting
    <3>3. QED
      BY <2>1, <3>1, <3>2 DEF Back, At, Bringing, RowsGrow
  <2>6. CASE ResumeCascade(s)
    <3> DEFINE todo == Pending(op[s].conv)
               branch == {i \in op[s].branch : Startable(i)}
    <3>1. op'[s] = [op[s] EXCEPT !.pc = "bring", !.todo = todo, !.branch = branch]
          /\ op[s].pc = "pending" /\ UNCHANGED rows
      BY <2>6 DEF ResumeCascade, At
    <3>2. ASSUME NEW i \in branch, ~rows[i].claimed PROVE i \in todo
      <4>1. i \in DOMAIN rows /\ rows[i].from = op[s].conv /\ Startable(i)
        BY <2>2, <3>1 DEF Back, At, OpFits
      <4>2. QED
        BY <3>2, <4>1 DEF Pending, Waiting
    <3> HIDE DEF todo, branch
    <3>3. op'[s].pc = "bring" /\ op'[s].branch = branch /\ op'[s].todo = todo
      BY <2>2, <3>1 DEF OpRec
    <3>4. QED
      BY <3>1, <3>2, <3>3 DEF Back, At
  <2>7. ASSUME NEW i \in op[s].todo, ClaimCascadedStop(s, i) PROVE Back(s)'
    <3>1. i \in DOMAIN rows /\ op[s].pc = "bring"
      BY <2>2, <2>7 DEF ClaimCascadedStop, OpFits, At, Bringing
    <3>2. rows'[i].claimed
      <4>1. rows[i] \in RowRec
        BY <3>1
      <4>2. QED
        BY <2>7, <3>1, <4>1 DEF ClaimCascadedStop, RowRec
    <3>3. op'[s].todo = op[s].todo \ {i} /\ op'[s].branch = op[s].branch
      BY <2>2, <2>7 DEF ClaimCascadedStop, OpRec
    <3>4. op'[s].pc \in {"bring", "spawn"}
      BY <2>2, <2>7 DEF ClaimCascadedStop, OpRec
    <3>5. \A j \in op[s].branch : j \in DOMAIN rows /\ (rows[j].claimed \/ j \in op[s].todo)
      BY <2>2, <3>1 DEF Back, OpFits, Bringing
    <3>6. QED
      BY <2>1, <3>2, <3>3, <3>4, <3>5 DEF Back, At, RowsGrow
  <2>8. CASE BringBack(s) \/ BringBackFails(s) \/ NameCascadeReplacement(s)
    <3>1. op'[s].todo = op[s].todo /\ op'[s].branch = op[s].branch /\ op[s].pc \in Bringing
      BY <2>2, <2>8 DEF BringBack, BringBackFails, NameCascadeReplacement, BackToList, OpRec,
         At, Bringing
    <3>2. op'[s].pc \in Bringing
      BY <2>8, WhereTo DEF Bringing
    <3>3. op[s].branch \subseteq DOMAIN rows
      BY <2>2, <3>1 DEF OpFits
    <3>4. QED
      BY <2>1, <2>2, <3>1, <3>2, <3>3 DEF Back, At, Bringing, RowsGrow
  <2>9. ASSUME NEW i \in op[s].todo, ClaimFails(s, i) PROVE Back(s)'
    <3>1. op[s].pc = "bring" /\ UNCHANGED rows /\ op'[s].pc = "bring"
          /\ op'[s].todo = op[s].todo \ {i} /\ op'[s].branch = op[s].branch \ {i}
      BY <2>2, <2>9 DEF ClaimFails, OpRec, At
    <3>2. QED
      BY <2>2, <3>1 DEF Back, At, Bringing
  <2>10. CASE StepOf(s)
    <3>1. CASE \/ CascadeStop(s)
               \/ \E c \in Convs : ReadRunning(s, c) \/ ReadRunningFails(s, c)
               \/ \E r \in op[s].todo : TakesDown(s, r) \/ TakeDownFails(s, r)
               \/ RecordCascadedStop(s) \/ RecordFails(s) \/ NextConversation(s)
               \/ WalkEnds(s) \/ ResumeEnds(s) \/ Die(s)
               \/ \E r \in DOMAIN runs : Kills(s, r)
      <4>1. op'[s].pc \notin Bringing \cup {"pending"}
        BY <3>1, WhereTo DEF Bringing
      <4>2. QED
        BY <2>4, <4>1
    <3>2. QED
      BY <2>5, <2>6, <2>7, <2>8, <2>9, <2>10, <3>1 DEF StepOf, Proceed, Fails, TakesDown
  <2>11. QED
    BY <1>2, <2>3, <2>10, OneMoves
<1>3. QED
  BY <1>1, <1>2

(***************************************************************************)
(* When a resume is over, everything that waited for the conversation when *)
(* it was continued, and could be started again when the resume read it,   *)
(* has been claimed, at whatever depth it was taken down, by this resume   *)
(* or by one that ran beside it; but for claims that could not be written. *)
(***************************************************************************)
THEOREM BranchBackCorrect == Spec => []BranchComesBack
<1>1. Init => BackInv
  BY DEF Init, BackInv, Back, Resting, At, Bringing
<1>2. TypeInv /\ BackInv /\ [Next]_vars => BackInv'
  BY BackStep
<1>3. TypeInv /\ [Next]_vars => TypeInv'
  BY TypeStep
<1>4. BackInv => BranchComesBack
  BY DEF BackInv, Back, BranchComesBack, At, Bringing
<1>5. QED
  BY <1>1, <1>2, <1>3, <1>4, TypeInit, PTL DEF Spec

-----------------------------------------------------------------------------
(* Every replacement stands for a claimed row, and for one of its own; a   *)
(* client about to start one is the only one with its row, and none has    *)
(* been started for it.                                                    *)
ClaimedFirst == \A x \in DOMAIN runs : runs[x].of # NoRun =>
                    \E i \in DOMAIN rows : rows[i].run = runs[x].of /\ rows[i].claimed
OfItsOwn == \A x, y \in DOMAIN runs : runs[x].of # NoRun /\ runs[x].of = runs[y].of => x = y
NoneYet == \A p \in Clients : At(p, "spawn") =>
                    \A x \in DOMAIN runs : runs[x].of # rows[op[p].cur].run
OneHolder == \A p, q \in Clients : At(p, "spawn") /\ At(q, "spawn") /\ op[p].cur = op[q].cur
                    => p = q

ReplaceInv == ClaimedFirst /\ OfItsOwn /\ NoneYet /\ OneHolder

(* Only a claim that was won comes to a spawn.                             *)
LEMMA SpawnReached ==
    ASSUME TypeInv, Next, NEW s \in Clients, op'[s].pc = "spawn"
    PROVE  \/ op'[s] = op[s]
           \/ \E i \in op[s].todo : /\ ClaimCascadedStop(s, i) /\ ClaimWon(i)
                                    /\ op'[s].cur = i /\ i \in DOMAIN rows
<1>1. CASE op'[s] = op[s]
  BY <1>1
<1>2. ASSUME NEW i \in op[s].todo, ClaimCascadedStop(s, i)
      PROVE  /\ ClaimWon(i) /\ op'[s].cur = i
             /\ i \in DOMAIN rows
  <2>1. ClaimWon(i) /\ op'[s].cur = i
    BY <1>2, WhereTo
  <2>2. i \in DOMAIN rows
    BY <1>2, Facts DEF ClaimCascadedStop, OpFits, At, Bringing
  <2>3. QED
    BY <2>1, <2>2
<1>3. CASE StepOf(s)
  <2>1. \E i \in op[s].todo : ClaimCascadedStop(s, i)
    BY <1>3, WhereTo DEF StepOf, Proceed, Fails, TakesDown
  <2>2. QED
    BY <1>2, <2>1
<1>4. QED
  BY <1>1, <1>3, OneMoves

(* Only bringing a run back starts one in the place of another.            *)
LEMMA OfKept ==
    ASSUME TypeInv, Next, ~\E p \in Clients : BringBack(p)
    PROVE  \A x \in DOMAIN runs' :
               runs'[x].of # NoRun => x \in DOMAIN runs /\ runs[x].of = runs'[x].of
<1> USE Facts
<1>1. RunsGrow
  BY RunsStep
<1>2. CASE Len(runs') = Len(runs)
  BY <1>1, <1>2 DEF RunsGrow, Fades
<1>3. ASSUME NEW c \in Convs, RunAdded(c)
      PROVE  \A x \in DOMAIN runs' :
                 runs'[x].of # NoRun => x \in DOMAIN runs /\ runs[x].of = runs'[x].of
  <2>1. Len(runs') = Len(runs) + 1 /\ runs'[Len(runs) + 1].of = NoRun
    <3>1. NoRun \in 0..Len(runs)
      BY DEF NoRun
    <3>2. QED
      BY <1>3, <3>1, Appended DEF RunAdded
  <2>2. DOMAIN runs' = DOMAIN runs \cup {Len(runs) + 1}
    BY <1>1, <2>1 DEF RunsGrow, Fades
  <2>3. QED
    BY <1>1, <2>1, <2>2 DEF RunsGrow, Fades
<1>4. ASSUME NEW r \in DOMAIN runs, RunFades(r)
      PROVE  Len(runs') = Len(runs)
  BY <1>4 DEF RunFades
<1>5. QED
  BY <1>2, <1>3, <1>4, RunsEffect

LEMMA ReplaceStep == TypeInv /\ ReplaceInv /\ [Next]_vars => ReplaceInv'
<1> SUFFICES ASSUME TypeInv, ReplaceInv, [Next]_vars PROVE ReplaceInv'
  OBVIOUS
<1> USE Facts
<1>1. CASE UNCHANGED vars
  BY <1>1 DEF vars, ReplaceInv, ClaimedFirst, OfItsOwn, NoneYet, OneHolder, At
<1>2. CASE Next
  <2>1. RunsGrow /\ RowsGrow
    BY <1>2, RunsStep, RowsStep
  <2>2. DOMAIN rows \subseteq DOMAIN rows' /\ DOMAIN runs \subseteq DOMAIN runs'
    BY <2>1 DEF RunsGrow, RowsGrow
  <2>3. \A i, j \in DOMAIN rows : rows[i].run = rows[j].run => i = j
    BY DEF TypeInv, TypeOK
  <2>4. \A s \in Clients : At(s, "spawn") => op[s].cur \in DOMAIN rows /\ rows[op[s].cur].claimed
    BY DEF OpFits, At
  <2>5. \A i \in DOMAIN rows : rows[i].run \in DOMAIN runs /\ rows[i].run # NoRun
    BY DEF RowRec, NoRun
  <2>6. ASSUME NEW p \in Clients, BringBack(p) PROVE ReplaceInv'
    <3> DEFINE new == Len(runs) + 1
               cur == op[p].cur
               was == rows[cur].run
    <3>1. op[p].pc = "spawn" /\ UNCHANGED rows /\ op' = [op EXCEPT ![p].pc = "name", ![p].run = new]
      BY <2>6 DEF BringBack, At
    <3>2. cur \in DOMAIN rows /\ rows[cur].claimed /\ was \in DOMAIN runs /\ was # NoRun
      BY <2>4, <2>5, <3>1 DEF At
    <3>3. runs[was].conv \in Convs /\ was \in 0..Len(runs)
      BY <3>2 DEF RunRec
    <3>4. Len(runs') = new /\ runs'[new].of = was /\ \A r \in DOMAIN runs : runs'[r] = runs[r]
      BY <2>6, <3>3, Appended DEF BringBack
    <3>5. DOMAIN runs' = DOMAIN runs \cup {new} /\ new \notin DOMAIN runs
      BY <2>1, <3>4 DEF RunsGrow
    <3>6. \A x \in DOMAIN runs : runs[x].of # was
      BY <3>1 DEF ReplaceInv, NoneYet, At
    <3>7. ClaimedFirst'
      BY <3>1, <3>2, <3>4, <3>5 DEF ReplaceInv, ClaimedFirst
    <3>8. OfItsOwn'
      BY <3>4, <3>5, <3>6 DEF ReplaceInv, OfItsOwn
    <3>9. op[p] \in OpRec /\ \A s \in Clients : At(s, "spawn")' => s # p /\ op'[s] = op[s]
      BY <3>1 DEF At, OpRec
    <3>10. \A s \in Clients : s # p /\ At(s, "spawn") => rows[op[s].cur].run # was
      BY <2>3, <2>4, <3>1, <3>2 DEF ReplaceInv, OneHolder, At
    <3>11. NoneYet'
      <4> SUFFICES ASSUME NEW s \in Clients, At(s, "spawn")', NEW x \in DOMAIN runs'
                   PROVE  runs'[x].of # rows'[op'[s].cur].run
        BY DEF NoneYet
      <4>1. s # p /\ op'[s] = op[s] /\ At(s, "spawn")
        BY <3>9 DEF At
      <4>2. QED
        BY <3>1, <3>4, <3>5, <3>10, <4>1 DEF ReplaceInv, NoneYet
    <3>12. OneHolder'
      BY <3>9 DEF ReplaceInv, OneHolder, At
    <3>13. QED
      BY <3>7, <3>8, <3>11, <3>12 DEF ReplaceInv
  <2>7. ASSUME ~\E p \in Clients : BringBack(p) PROVE ReplaceInv'
    <3>1. \A x \in DOMAIN runs' :
              runs'[x].of # NoRun => x \in DOMAIN runs /\ runs[x].of = runs'[x].of
      BY <1>2, <2>7, OfKept
    <3>2. ClaimedFirst'
      BY <2>1, <2>2, <3>1 DEF ReplaceInv, ClaimedFirst, RowsGrow
    <3>3. OfItsOwn'
      BY <3>1 DEF ReplaceInv, OfItsOwn
    <3>4. ASSUME NEW i \in DOMAIN rows, ~rows[i].claimed
          PROVE  \A x \in DOMAIN runs : runs[x].of # rows[i].run
      BY <2>3, <2>5, <3>4 DEF ReplaceInv, ClaimedFirst
    <3>5. ASSUME NEW s \in Clients, At(s, "spawn")'
          PROVE  /\ op'[s].cur \in DOMAIN rows
                 /\ \A x \in DOMAIN runs : runs[x].of # rows[op'[s].cur].run
      <4>1. CASE op'[s] = op[s]
        BY <2>4, <3>5, <4>1 DEF ReplaceInv, NoneYet, At
      <4>2. ASSUME NEW i \in op[s].todo, ClaimWon(i), op'[s].cur = i, i \in DOMAIN rows
            PROVE  /\ op'[s].cur \in DOMAIN rows
                   /\ \A x \in DOMAIN runs : runs[x].of # rows[op'[s].cur].run
        BY <3>4, <4>2 DEF ClaimWon
      <4>3. QED
        BY <1>2, <3>5, <4>1, <4>2, SpawnReached DEF At
    <3>6. NoneYet'
      <4> SUFFICES ASSUME NEW s \in Clients, At(s, "spawn")', NEW x \in DOMAIN runs'
                   PROVE  runs'[x].of # rows'[op'[s].cur].run
        BY DEF NoneYet
      <4>1. op'[s].cur \in DOMAIN rows /\ rows'[op'[s].cur].run = rows[op'[s].cur].run
        BY <2>1, <3>5 DEF RowsGrow
      <4>2. rows[op'[s].cur].run # NoRun
        BY <2>5, <4>1
      <4>3. QED
        BY <3>1, <3>5, <4>1, <4>2
    <3>7. OneHolder'
      <4> SUFFICES ASSUME NEW s \in Clients, NEW q \in Clients, s # q,
                          At(s, "spawn")', At(q, "spawn")'
                   PROVE  op'[s].cur # op'[q].cur
        BY DEF OneHolder
      <4>1. ASSUME NEW a \in Clients, NEW b \in Clients, op'[a] = op[a], At(a, "spawn")',
                   NEW i \in op[b].todo, ClaimWon(i), op'[b].cur = i
            PROVE  op'[a].cur # op'[b].cur
        BY <2>4, <4>1 DEF ClaimWon, At
      <4>2. CASE op'[s] = op[s] /\ op'[q] = op[q]
        BY <4>2 DEF ReplaceInv, OneHolder, At
      <4>3. ~(\E i \in op[s].todo, j \in op[q].todo :
                  ClaimCascadedStop(s, i) /\ ClaimCascadedStop(q, j)
                  /\ op'[s] # op[s] /\ op'[q] # op[q])
        BY DEF ClaimCascadedStop
      <4>4. QED
        BY <1>2, <4>1, <4>2, <4>3, SpawnReached DEF At
    <3>8. QED
      BY <3>2, <3>3, <3>6, <3>7 DEF ReplaceInv
  <2>8. QED
    BY <2>6, <2>7
<1>3. QED
  BY <1>1, <1>2

LEMMA ReplaceInit == Init => ReplaceInv
<1> SUFFICES ASSUME Init PROVE ReplaceInv
  OBVIOUS
<1>1. \A x \in DOMAIN runs : runs[x].of = NoRun
  <2>1. \A c : StartedIn(c, NoRun).of = NoRun /\ Grown(c).of = NoRun
    BY DEF StartedIn, Grown
  <2>2. \A c, status : Over(c, status).of = NoRun
    BY DEF Over, Grown, StartedIn
  <2>3. QED
    BY <2>1, <2>2 DEF Init
<1>2. \A p \in Clients : ~At(p, "spawn")
  BY DEF Init, At, Resting
<1>3. QED
  BY <1>1, <1>2 DEF ReplaceInv, ClaimedFirst, OfItsOwn, NoneYet, OneHolder

(***************************************************************************)
(* A run that was taken down is replaced at most once, however many        *)
(* resumes race on its conversation and wherever they die.                 *)
(***************************************************************************)
THEOREM ReplacedCorrect == Spec => []ReplacedOnce
<1>1. TypeInv /\ ReplaceInv /\ [Next]_vars => ReplaceInv'
  BY ReplaceStep
<1>2. TypeInv /\ [Next]_vars => TypeInv'
  BY TypeStep
<1>3. TypeInv /\ ReplaceInv => ReplacedOnce
  <2> SUFFICES ASSUME TypeInv, ReplaceInv, NEW r \in DOMAIN runs
               PROVE  Cardinality({x \in DOMAIN runs : runs[x].of = r}) <= 1
    BY DEF ReplacedOnce
  <2> DEFINE S == {x \in DOMAIN runs : runs[x].of = r}
  <2>1. r # NoRun
    BY Facts DEF NoRun
  <2>2. \A x, y \in S : x = y
    BY <2>1 DEF ReplaceInv, OfItsOwn
  <2> HIDE DEF S
  <2>3. S = {} \/ \E x : S = {x}
    BY <2>2
  <2>4. Cardinality(S) = 0 \/ Cardinality(S) = 1
    BY <2>3, FS_EmptySet, FS_Singleton
  <2>5. Cardinality(S) <= 1
    BY <2>4
  <2>6. QED
    BY <2>5 DEF S
<1>4. QED
  BY <1>1, <1>2, <1>3, TypeInit, ReplaceInit, PTL DEF Spec
=============================================================================
