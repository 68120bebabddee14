--------------------------- MODULE RunViewProofs ---------------------------
(***************************************************************************)
(* What RunLifecycle promises those who only look: a run that reads        *)
(* running is watched, a process keeps to its permits, and the machinery   *)
(* as a whole implements RunView.                                          *)
(***************************************************************************)
EXTENDS RunLifecycleProofs, FiniteSetTheorems

USE DEF Terminal, RowStatus, MemStatus, LogState, Watching, SupLive, SupState, Outcome,
        LaunchPC, StopPC, SweepPC, tables, os, memory

(***************************************************************************)
(* A run nobody asked for.                                                 *)
(***************************************************************************)
\* Until a run is registered nobody has heard of it: no row, no memory, no summary.
Unheard ==
    \A r \in Runs : launch[r].pc = "new" =>
        /\ launch[r].by = NoProc
        /\ row[r].status = "none"
        /\ \A p \in Procs : mem[p][r].status = "absent" /\ save[p][r].status = "absent"

\* Every step keeps a run nobody asked for unheard of.
LEMMA UnheardStep == TypeOK /\ Unheard /\ [Next]_vars => Unheard'
<1> SUFFICES ASSUME TypeOK, Unheard, [Next]_vars PROVE Unheard'
  OBVIOUS
<1>0. TablesOK /\ LaunchOK /\ MemoryOK /\ KillOK /\ SweepOK
  BY DEF TypeOK
<1>u. UNCHANGED <<launch, row, mem, save>> => Unheard'
  BY DEF Unheard
<1>1. ASSUME NEW p \in Procs, NEW r \in Runs, Register(p, r) PROVE Unheard'
  BY <1>0, <1>1 DEF Register, SaveRun, TablesOK, MemoryOK, LaunchOK, LaunchRec, Unheard
<1>2. ASSUME NEW r \in Runs,
         Acquire(r) \/ SpawnSupervisor(r) \/ PublishPanics(r) \/ WatchRun(r) \/
         WatchForGoal(r) \/ WatchRefused(r) \/ GoalWatchRefused(r) \/ ReleasePermit(r)
      PROVE  Unheard'
  BY <1>0, <1>2 DEF Acquire, SpawnSupervisor, PublishPanics, WatchRun, WatchForGoal,
     WatchRefused, GoalWatchRefused, ReleasePermit, LaunchOK, LaunchRec, Unheard
<1>3. ASSUME NEW r \in Runs, LaunchError(r) \/ RecordError(r) PROVE Unheard'
  <2>1. FailLaunch(r) /\ launch[r].pc # "new"
    BY <1>3 DEF LaunchError, RecordError
  <2>2. \A s \in Runs \ {r} : launch'[s] = launch[s] /\ row'[s] = row[s]
    BY <1>0, <2>1 DEF FailLaunch, SetStatus, LaunchOK, TablesOK
  <2>3. launch'[r].pc # "new" /\ UNCHANGED save
    BY <1>0, <2>1 DEF FailLaunch, LaunchOK, LaunchRec
  <2>4. \A q \in Procs, s \in Runs \ {r} : mem'[q][s] = mem[q][s]
    BY <1>0, <2>1 DEF FailLaunch, MemoryOK
  <2> QED BY <2>2, <2>3, <2>4 DEF Unheard
<1>4. ASSUME NEW r \in Runs, RecordProcess(r) PROVE Unheard'
  BY <1>0, <1>4 DEF RecordProcess, TablesOK, RowRec, LaunchOK, LaunchRec, Unheard
<1>5. ASSUME NEW r \in Runs, Publish(r) PROVE Unheard'
  BY <1>0, <1>5 DEF Publish, MemoryOK, LaunchOK, LaunchRec, Unheard
<1>6. ASSUME NEW r \in Runs, SupSettles(r) PROVE Unheard'
  BY <1>0, <1>6 DEF SupSettles, SetStatus, TablesOK, RowRec, Unheard
<1>7. ASSUME NEW p \in Procs, KillMark(p) PROVE Unheard'
  <2>1. kill[p].run \in Runs
    BY <1>0, <1>7 DEF KillMark, KillOK
  <2>2. UNCHANGED <<launch, save>>
    BY <1>7 DEF KillMark
  <2>3. \A r \in Runs : row[r].status = "none" => row'[r].status = "none"
    BY <1>0, <1>7, <2>1 DEF KillMark, SetStatus, TablesOK, RowRec
  <2>4. \A q \in Procs, r \in Runs : mem[q][r].status = "absent" => mem'[q][r].status = "absent"
    BY <1>0, <1>7, <2>1 DEF KillMark, MemoryOK, MemRec
  <2> QED BY <2>2, <2>3, <2>4 DEF Unheard
<1>8. ASSUME NEW p \in Procs, SweepFail(p) PROVE Unheard'
  BY <1>0, <1>8 DEF SweepFail, SetStatus, SweepOK, TablesOK, RowRec, Unheard
<1>9. ASSUME NEW p \in Procs, SweepLearn(p) PROVE Unheard'
  <2>1. sweep[p].run \in Runs
    BY <1>0, <1>9 DEF SweepLearn, SweepOK
  <2>2. \A q \in Procs, r \in Runs : mem[q][r].status = "absent" => mem'[q][r].status = "absent"
    BY <1>0, <1>9, <2>1 DEF SweepLearn, MemoryOK, MemRec
  <2> QED BY <1>9, <2>2 DEF SweepLearn, Unheard
<1>10. ASSUME NEW p \in Procs, Crash(p) PROVE Unheard'
  BY <1>0, <1>10, RunLifecycleAssumption DEF Crash, MemoryOK, MemRec, Absent, LaunchOK, LaunchRec, Unheard
<1>11. ASSUME NEW p \in Procs, NEW r \in Runs, ApplyEnvelope(p, r) PROVE Unheard'
  BY <1>0, <1>11 DEF ApplyEnvelope, Applied, MemoryOK, MemRec, Unheard
<1>12. ASSUME NEW p \in Procs, NEW r \in Runs, SaveSummary(p, r) PROVE Unheard'
  BY <1>0, <1>12 DEF SaveSummary, SaveRun, MemoryOK, MemRec, Absent, TablesOK, RowRec, Unheard
<1>13. ASSUME NEW p \in Procs, NEW r \in Runs, Rehydrate(p, r) PROVE Unheard'
  BY <1>0, <1>13 DEF Rehydrate, MemoryOK, MemRec, TablesOK, RowRec, Unheard
<1>14. ASSUME NEW p \in Procs, NEW r \in Runs, Forget(p, r) PROVE Unheard'
  BY <1>0, <1>14 DEF Forget, Absent, MemoryOK, MemRec, TablesOK, RowRec, Unheard
<1>15. ASSUME NEW r \in Runs,
          SupBootFails(r) \/ SupSpawnFails(r) \/ SupSpawnsHarness(r) \/ SupArms(r) \/
          SupEmits(r) \/ SupTakesTerm(r) \/ SupInsists(r) \/ SupPipesClose(r) \/
          SupDrains(r) \/ SupFinishes(r) \/ SupDies(r) \/ HarnessExits(r)
       PROVE  UNCHANGED <<launch, row, mem, save>>
  BY <1>15 DEF SupBootFails, SupSpawnFails, SupSpawnsHarness, SupArms, SupEmits,
     SupTakesTerm, SupInsists, SupPipesClose, SupDrains, SupFinishes, SupDies, HarnessExits
<1>16. ASSUME NEW p \in Procs,
          KillBegin(p) \/ KillTerm(p) \/ KillWaits(p) \/ KillInsists(p)
       PROVE  UNCHANGED <<launch, row, mem, save>>
  BY <1>16 DEF KillBegin, KillTerm, KillWaits, KillInsists, SignalTerm, SignalKill
<1>17. ASSUME NEW p \in Procs,
          SweepEnded(p) \/ SweepVanished(p) \/ SweepBeats(p) \/ SweepStalled(p) \/
          SweepTerm(p) \/ SweepWaits(p) \/ SweepInsists(p) \/ SweepRefused(p) \/
          SweepUnwatch(p) \/ SweepBreaksOff(p)
       PROVE  UNCHANGED <<launch, row, mem, save>>
  BY <1>17 DEF SweepEnded, SweepVanished, SweepBeats, SweepStalled, SweepTerm,
     SweepWaits, SweepInsists, SweepRefused, SweepUnwatch, SweepBreaksOff, SignalTerm,
     SignalKill
<1>18. ASSUME NEW p \in Procs, NEW r \in Runs,
          FollowPull(p, r) \/ FollowGivesUp(p, r) \/ KillAsk(p, r) \/ SweepRead(p, r)
       PROVE  UNCHANGED <<launch, row, mem, save>>
  BY <1>18 DEF FollowPull, FollowGivesUp, KillAsk, SweepRead
<1>19. CASE UNCHANGED vars
  BY <1>19, <1>u DEF vars
<1> QED
  BY <1>u, <1>1, <1>2, <1>3, <1>4, <1>5, <1>6, <1>7, <1>8, <1>9, <1>10, <1>11, <1>12,
     <1>13, <1>14, <1>15, <1>16, <1>17, <1>18, <1>19
  DEF Next, LaunchStep, SupStep, KillStep, SweepStep, ProcStep

(***************************************************************************)
(* Watching.                                                               *)
(***************************************************************************)
\* A run that was registered has a row, and so has one that is watched or swept.
RowKept ==
    /\ \A r \in Runs : launch[r].pc # "new" \/ watch[r] # "none" => row[r].status # "none"
    /\ \A p \in Procs : sweep[p].pc # "idle" => row[sweep[p].run].status # "none"

\* A sweep that is about to drop the watch has seen the ending, or written it.
SawEnd(s) ==
    \/ s.pc \in {"learn", "unwatch"}
    \/ s.pc = "probe" /\ s.seen = "ended"

SweepSawTheEnd ==
    \A p \in Procs : SawEnd(sweep[p]) => row[sweep[p].run].status \in Terminal

\* The inductive invariant of watching.
WatchInv == TypeOK /\ Unheard /\ RowKept /\ SweepSawTheEnd /\ WatchedWhileRunning

\* Rows without Forget: none disappears, and an ending is never taken back.
RowsStay ==
    \A r \in Runs : /\ row[r].status # "none" => row'[r].status # "none"
                    /\ row[r].status \in Terminal => row'[r].status \in Terminal

\* Nothing but Forget deletes a row or reopens an ending.
LEMMA RowsStayStep == ASSUME ~Forgets PROVE TypeOK /\ [Next]_vars => RowsStay
<1> SUFFICES ASSUME TypeOK, [Next]_vars PROVE RowsStay
  OBVIOUS
<1>0. TablesOK /\ LaunchOK /\ MemoryOK /\ KillOK /\ SweepOK
  BY DEF TypeOK
<1>u. UNCHANGED row => RowsStay
  BY DEF RowsStay
<1>1. ASSUME NEW p \in Procs, NEW r \in Runs, Register(p, r) PROVE RowsStay
  BY <1>0, <1>1 DEF Register, SaveRun, TablesOK, RowRec, RowsStay
<1>2. ASSUME NEW r \in Runs, LaunchError(r) \/ RecordError(r) PROVE RowsStay
  BY <1>0, <1>2 DEF LaunchError, RecordError, FailLaunch, SetStatus, TablesOK, RowRec,
     RowsStay
<1>3. ASSUME NEW r \in Runs, RecordProcess(r) PROVE RowsStay
  BY <1>0, <1>3 DEF RecordProcess, TablesOK, RowRec, RowsStay
<1>4. ASSUME NEW r \in Runs, SupSettles(r) PROVE RowsStay
  BY <1>0, <1>4 DEF SupSettles, SetStatus, EndStatus, TablesOK, RowRec, RowsStay
<1>5. ASSUME NEW p \in Procs, NEW r \in Runs, SaveSummary(p, r) PROVE RowsStay
  BY <1>0, <1>5 DEF SaveSummary, SaveRun, TablesOK, RowRec, MemoryOK, MemRec, RowsStay
<1>6. ASSUME NEW p \in Procs, KillMark(p) PROVE RowsStay
  BY <1>0, <1>6 DEF KillMark, SetStatus, KillOK, TablesOK, RowRec, RowsStay
<1>7. ASSUME NEW p \in Procs, SweepFail(p) PROVE RowsStay
  BY <1>0, <1>7 DEF SweepFail, SetStatus, SweepOK, TablesOK, RowRec, RowsStay
<1>8. ASSUME NEW r \in Runs,
         Acquire(r) \/ SpawnSupervisor(r) \/ Publish(r) \/ PublishPanics(r) \/
         WatchRun(r) \/ WatchForGoal(r) \/ WatchRefused(r) \/ GoalWatchRefused(r) \/
         ReleasePermit(r)
      PROVE  UNCHANGED row
  BY <1>8 DEF Acquire, SpawnSupervisor, Publish, PublishPanics, WatchRun, WatchForGoal,
     WatchRefused, GoalWatchRefused, ReleasePermit
<1>9. ASSUME NEW r \in Runs,
         SupBootFails(r) \/ SupSpawnFails(r) \/ SupSpawnsHarness(r) \/ SupArms(r) \/
         SupEmits(r) \/ SupTakesTerm(r) \/ SupInsists(r) \/ SupPipesClose(r) \/
         SupDrains(r) \/ SupFinishes(r) \/ SupDies(r) \/ HarnessExits(r)
      PROVE  UNCHANGED row
  BY <1>9 DEF SupBootFails, SupSpawnFails, SupSpawnsHarness, SupArms, SupEmits,
     SupTakesTerm, SupInsists, SupPipesClose, SupDrains, SupFinishes, SupDies, HarnessExits
<1>10. ASSUME NEW p \in Procs,
          KillBegin(p) \/ KillTerm(p) \/ KillWaits(p) \/ KillInsists(p)
       PROVE  UNCHANGED row
  BY <1>10 DEF KillBegin, KillTerm, KillWaits, KillInsists, SignalTerm, SignalKill
<1>11. ASSUME NEW p \in Procs,
          SweepEnded(p) \/ SweepVanished(p) \/ SweepBeats(p) \/ SweepStalled(p) \/
          SweepTerm(p) \/ SweepWaits(p) \/ SweepInsists(p) \/ SweepLearn(p) \/
          SweepRefused(p) \/ SweepUnwatch(p) \/ SweepBreaksOff(p) \/ Crash(p)
       PROVE  UNCHANGED row
  BY <1>11 DEF SweepEnded, SweepVanished, SweepBeats, SweepStalled, SweepTerm,
     SweepWaits, SweepInsists, SweepLearn, SweepRefused, SweepUnwatch, SweepBreaksOff,
     Crash, SignalTerm, SignalKill
<1>12. ASSUME NEW p \in Procs, NEW r \in Runs,
          FollowPull(p, r) \/ FollowGivesUp(p, r) \/ ApplyEnvelope(p, r) \/
          Rehydrate(p, r) \/ KillAsk(p, r) \/ SweepRead(p, r)
       PROVE  UNCHANGED row
  BY <1>12 DEF FollowPull, FollowGivesUp, ApplyEnvelope, Rehydrate, KillAsk, SweepRead
<1>13. CASE UNCHANGED vars
  BY <1>13, <1>u DEF vars
<1>14. ASSUME NEW p \in Procs, NEW r \in Runs PROVE ~Forget(p, r)
  BY DEF Forget
<1> QED
  BY <1>u, <1>1, <1>2, <1>3, <1>4, <1>5, <1>6, <1>7, <1>8, <1>9, <1>10, <1>11, <1>12,
     <1>13, <1>14
  DEF Next, LaunchStep, SupStep, KillStep, SweepStep, ProcStep

\* What the endings of rows leave of the invariant when the launches, the watches or
\* the sweeps stand still.
LEMMA WatchFrame ==
    ASSUME WatchInv, RowsStay
    PROVE  /\ UNCHANGED <<launch, watch, sweep>> => RowKept'
           /\ UNCHANGED sweep => SweepSawTheEnd'
<1>0. TablesOK /\ LaunchOK /\ SweepOK /\ RowKept /\ SweepSawTheEnd
  BY DEF WatchInv, TypeOK
<1>1. UNCHANGED <<launch, watch, sweep>> => RowKept'
  BY <1>0 DEF RowKept, RowsStay, SweepOK
<1>2. UNCHANGED sweep => SweepSawTheEnd'
  BY <1>0 DEF SweepSawTheEnd, SawEnd, RowsStay, SweepOK
<1> QED BY <1>1, <1>2

\* A launch that is under way, or that broke off.
Excused == {"queued", "permitted", "spawned", "recorded", "published", "lost", "panicked"}

\* A run begins to read running only with its launch: one that loses neither its watch
\* nor its excuse stays watched.
LEMMA WatchedKept ==
    ASSUME WatchInv, RowsStay, Unheard',
           \A s \in Runs : \/ row'[s].status # "running"
                           \/ watch'[s] # "none"
                           \/ launch'[s].pc \in Excused
                           \/ /\ watch[s] = "none"
                              /\ launch[s].pc \in Excused \cup {"new"}
                                    => launch'[s].pc = launch[s].pc
    PROVE  WatchedWhileRunning'
<1>0. TablesOK /\ RowKept /\ WatchedWhileRunning
  BY DEF WatchInv, TypeOK
<1>1. SUFFICES ASSUME NEW s \in Runs, row'[s].status = "running", watch'[s] = "none",
                      launch'[s].pc \notin Excused
               PROVE  FALSE
  BY DEF WatchedWhileRunning, Excused
<1>2. watch[s] = "none" /\ (launch[s].pc \in Excused \cup {"new"} => launch'[s].pc = launch[s].pc)
  BY <1>1
<1>3. row[s].status \in {"none", "running"}
  BY <1>0, <1>1 DEF TablesOK, RowRec, RowStatus, RowsStay, Terminal
<1>4. CASE row[s].status = "running"
  <2>1. launch[s].pc \in Excused
    BY <1>0, <1>2, <1>4 DEF WatchedWhileRunning, Excused
  <2> QED BY <1>1, <1>2, <2>1
<1>5. CASE row[s].status = "none"
  <2>1. launch[s].pc = "new"
    BY <1>0, <1>5 DEF RowKept
  <2>2. launch'[s].pc = "new"
    BY <1>2, <2>1
  <2> QED BY <1>1, <2>2 DEF Unheard
<1> QED BY <1>3, <1>4, <1>5

\* Every step but Forget preserves the invariant of watching.
LEMMA WatchStep == ASSUME ~Forgets PROVE WatchInv /\ [Next]_vars => WatchInv'
<1> SUFFICES ASSUME WatchInv, [Next]_vars PROVE WatchInv'
  OBVIOUS
<1>0. /\ TablesOK /\ LaunchOK /\ MemoryOK /\ KillOK /\ SweepOK /\ Unheard
      /\ RowKept /\ SweepSawTheEnd /\ WatchedWhileRunning
  BY DEF WatchInv, TypeOK
<1>r. RowsStay
  BY RowsStayStep DEF WatchInv
<1>t. TypeOK' /\ Unheard'
  BY TypeStep, UnheardStep DEF WatchInv
<1>i. RowKept' /\ SweepSawTheEnd' /\ WatchedWhileRunning' => WatchInv'
  BY <1>t DEF WatchInv
<1>w. UNCHANGED <<watch, launch>> => WatchedWhileRunning'
  <2> SUFFICES ASSUME UNCHANGED <<watch, launch>> PROVE WatchedWhileRunning'
    OBVIOUS
  <2> QED BY <1>r, <1>t, WatchedKept
<1>u. UNCHANGED <<watch, launch, sweep>> => WatchInv'
  BY <1>i, <1>r, <1>w, WatchFrame
<1>1. ASSUME NEW p \in Procs, NEW r \in Runs, Register(p, r) PROVE WatchInv'
  <2>1. RowKept'
    BY <1>0, <1>r, <1>1 DEF Register, SaveRun, RowKept, RowsStay, SweepOK, LaunchOK, TablesOK
  <2>2. UNCHANGED watch /\ launch'[r].pc = "queued"
    BY <1>0, <1>1 DEF Register, LaunchOK
  <2>3. \A t \in Runs \ {r} : launch'[t] = launch[t]
    BY <1>0, <1>1 DEF Register, LaunchOK
  <2>4. WatchedWhileRunning'
    BY <1>r, <1>t, <2>2, <2>3, WatchedKept DEF Excused
  <2> QED BY <1>i, <1>r, <1>1, <2>1, <2>4, WatchFrame DEF Register
<1>2. ASSUME NEW r \in Runs,
         Acquire(r) \/ SpawnSupervisor(r) \/ RecordProcess(r) \/ Publish(r) \/
         PublishPanics(r) \/ GoalWatchRefused(r) \/ ReleasePermit(r)
      PROVE  WatchInv'
  <2>1. UNCHANGED <<watch, sweep>>
    BY <1>2 DEF Acquire, SpawnSupervisor, RecordProcess, Publish, PublishPanics,
       GoalWatchRefused, ReleasePermit
  <2>2. \A t \in Runs :
           /\ launch'[t].pc # "new" => launch[t].pc # "new"
           /\ launch'[t].pc = launch[t].pc \/ launch'[t].pc \in Excused
                \/ launch[t].pc \notin Excused \cup {"new"}
    BY <1>0, <1>2 DEF Acquire, SpawnSupervisor, RecordProcess, Publish, PublishPanics,
       GoalWatchRefused, ReleasePermit, LaunchOK, LaunchRec, Excused
  <2>3. RowKept'
    BY <1>0, <1>r, <2>1, <2>2 DEF RowKept, RowsStay, SweepOK
  <2>4. WatchedWhileRunning'
    BY <1>r, <1>t, <2>1, <2>2, WatchedKept
  <2> QED BY <1>i, <1>r, <2>1, <2>3, <2>4, WatchFrame
<1>3. ASSUME NEW r \in Runs, LaunchError(r) \/ RecordError(r) PROVE WatchInv'
  <2>1. UNCHANGED <<watch, sweep>> /\ launch[r].pc # "new"
    BY <1>3 DEF LaunchError, RecordError, FailLaunch
  <2>2. \A t \in Runs \ {r} : launch'[t] = launch[t]
    BY <1>0, <1>3 DEF LaunchError, RecordError, FailLaunch, LaunchOK
  <2>3. row'[r].status = "failed"
    BY <1>0, <1>3, <2>1 DEF LaunchError, RecordError, FailLaunch, SetStatus, RowKept,
       TablesOK, RowRec
  <2>4. RowKept'
    BY <1>0, <1>r, <2>1, <2>2 DEF RowKept, RowsStay, SweepOK
  <2>5. WatchedWhileRunning'
    BY <1>r, <1>t, <2>1, <2>2, <2>3, WatchedKept
  <2> QED BY <1>i, <1>r, <2>1, <2>4, <2>5, WatchFrame
<1>4. ASSUME NEW r \in Runs, WatchRun(r) \/ WatchForGoal(r) \/ WatchRefused(r)
      PROVE  WatchInv'
  <2>1. UNCHANGED <<row, sweep>>
    BY <1>4 DEF WatchRun, WatchForGoal, WatchRefused
  <2>2. launch[r].pc # "new" /\ row[r].status # "none"
    BY <1>0, <1>4 DEF WatchRun, WatchForGoal, WatchRefused, RowKept
  <2>3. \A t \in Runs \ {r} : launch'[t] = launch[t] /\ watch'[t] = watch[t]
    BY <1>0, <1>4 DEF WatchRun, WatchForGoal, WatchRefused, LaunchOK, TablesOK
  <2>4. watch'[r] # "none"
    BY <1>0, <1>4, <2>2 DEF WatchRun, WatchForGoal, WatchRefused, TablesOK
  <2>5. RowKept'
    BY <1>0, <2>1, <2>2, <2>3 DEF RowKept
  <2>6. WatchedWhileRunning'
    BY <1>r, <1>t, <2>3, <2>4, WatchedKept
  <2> QED BY <1>i, <1>r, <2>1, <2>5, <2>6, WatchFrame
<1>5. ASSUME NEW r \in Runs, SupSettles(r) PROVE UNCHANGED <<watch, launch, sweep>>
  BY <1>5 DEF SupSettles
<1>6. ASSUME NEW p \in Procs, NEW r \in Runs, SaveSummary(p, r)
      PROVE  UNCHANGED <<watch, launch, sweep>>
  BY <1>6 DEF SaveSummary
<1>7. ASSUME NEW p \in Procs, KillMark(p) PROVE UNCHANGED <<watch, launch, sweep>>
  BY <1>7 DEF KillMark
<1>8. ASSUME NEW p \in Procs, NEW r \in Runs, SweepRead(p, r) PROVE WatchInv'
  <2>1. RowKept'
    BY <1>0, <1>8 DEF SweepRead, RowKept, SweepOK, SweepRec
  <2>2. SweepSawTheEnd'
    BY <1>0, <1>8 DEF SweepRead, SweepSawTheEnd, SawEnd, SweepOK, SweepRec, TablesOK, RowRec, RowKept
  <2> QED BY <1>i, <1>w, <1>8, <2>1, <2>2 DEF SweepRead
<1>9. ASSUME NEW p \in Procs,
         SweepEnded(p) \/ SweepVanished(p) \/ SweepBeats(p) \/ SweepStalled(p) \/
         SweepTerm(p) \/ SweepWaits(p) \/ SweepInsists(p) \/ SweepLearn(p) \/
         SweepRefused(p) \/ SweepBreaksOff(p)
      PROVE  WatchInv'
  <2>1. UNCHANGED <<row, watch, launch>>
    BY <1>9 DEF SweepEnded, SweepVanished, SweepBeats, SweepStalled, SweepTerm, SweepWaits,
       SweepInsists, SweepLearn, SweepRefused, SweepBreaksOff, SignalTerm, SignalKill
  <2>2. \A q \in Procs : sweep'[q].pc # "idle" =>
           /\ sweep[q].pc # "idle" /\ sweep'[q].run = sweep[q].run
           /\ SawEnd(sweep'[q]) => SawEnd(sweep[q])
    <3>1. CASE SweepEnded(p) \/ SweepVanished(p) \/ SweepStalled(p)
      <4>1. PICK pc \in {"unwatch", "fail", "term"} :
               /\ sweep' = [sweep EXCEPT ![p] = Decided(sweep[p], pc)]
               /\ sweep[p].pc = "probe"
               /\ pc = "unwatch" => sweep[p].seen = "ended"
        BY <1>0, <3>1 DEF SweepEnded, SweepVanished, SweepStalled, SweepOK, SweepRec
      <4>2. QED
        BY <1>0, <4>1 DEF Decided, IdleSweep, SweepOK, SweepRec, SawEnd
    <3>2. CASE \/ SweepBeats(p) \/ SweepTerm(p) \/ SweepWaits(p) \/ SweepInsists(p)
               \/ SweepLearn(p) \/ SweepRefused(p) \/ SweepBreaksOff(p)
      BY <1>0, <3>2 DEF SweepBeats, SweepTerm, SweepWaits, SweepInsists, SweepLearn,
         SweepRefused, SweepBreaksOff, IdleSweep, SweepOK, SweepRec, SawEnd
    <3>3. QED
      BY <1>9, <3>1, <3>2
  <2>3. RowKept'
    BY <1>0, <2>1, <2>2 DEF RowKept
  <2>4. SweepSawTheEnd'
    <3>1. \A q \in Procs : SawEnd(sweep[q]) => row[sweep[q].run].status \in Terminal
      BY <1>0 DEF SweepSawTheEnd
    <3>2. \A q \in Procs : SawEnd(sweep'[q]) => sweep'[q].pc # "idle"
      BY DEF SawEnd
    <3> QED BY <2>1, <2>2, <3>1, <3>2 DEF SweepSawTheEnd, SawEnd
  <2> QED BY <1>i, <1>w, <2>1, <2>3, <2>4
<1>10. ASSUME NEW p \in Procs, SweepFail(p) PROVE WatchInv'
  <2>1. sweep[p].run \in Runs /\ row[sweep[p].run].status # "none"
    BY <1>0, <1>10 DEF SweepFail, SweepOK, RowKept
  <2>2. row'[sweep[p].run].status = "failed"
    BY <1>0, <1>10, <2>1 DEF SweepFail, SetStatus, TablesOK, RowRec
  <2>3. \A q \in Procs \ {p} : sweep'[q] = sweep[q]
    BY <1>0, <1>10 DEF SweepFail, SweepOK
  <2>4. sweep'[p].run = sweep[p].run /\ sweep[p].pc # "idle"
    BY <1>0, <1>10 DEF SweepFail, SweepOK, SweepRec
  <2>5. UNCHANGED <<launch, watch>>
    BY <1>10 DEF SweepFail
  <2>6. RowKept'
    BY <1>0, <1>r, <2>3, <2>4, <2>5 DEF RowKept, RowsStay, SweepOK
  <2>7. SweepSawTheEnd'
    BY <1>0, <1>r, <2>2, <2>3, <2>4 DEF SweepSawTheEnd, SawEnd, RowsStay, SweepOK
  <2> QED BY <1>i, <1>w, <2>5, <2>6, <2>7
<1>11. ASSUME NEW p \in Procs, SweepUnwatch(p) PROVE WatchInv'
  <2>1. sweep[p].pc = "unwatch" => row[sweep[p].run].status \in Terminal
    BY <1>0 DEF SweepSawTheEnd, SawEnd
  <2>2. RowKept'
    BY <1>0, <1>11 DEF SweepUnwatch, RowKept, SweepOK, SweepRec, IdleSweep, TablesOK
  <2>3. SweepSawTheEnd'
    BY <1>0, <1>11 DEF SweepUnwatch, SweepSawTheEnd, SawEnd, SweepOK, SweepRec, IdleSweep
  <2>5. UNCHANGED <<row, launch>> /\ sweep[p].run \in Runs
    BY <1>0, <1>11 DEF SweepUnwatch, SweepOK
  <2>6. \A t \in Runs \ {sweep[p].run} : watch'[t] = watch[t]
    BY <1>0, <1>11 DEF SweepUnwatch, TablesOK
  <2>7. sweep[p].pc # "unwatch" => watch'[sweep[p].run] # "none" \/ watch[sweep[p].run] = "none"
    BY <1>0, <1>11, <2>5 DEF SweepUnwatch, TablesOK
  <2>4. WatchedWhileRunning'
    BY <1>r, <1>t, <2>1, <2>5, <2>6, <2>7, WatchedKept DEF Terminal
  <2> QED BY <1>i, <2>2, <2>3, <2>4
<1>12. ASSUME NEW p \in Procs, Crash(p) PROVE WatchInv'
  <2>1. UNCHANGED <<row, watch>>
    BY <1>12 DEF Crash
  <2>2. \A r \in Runs : launch'[r] = launch[r]
                          \/ (launch[r].pc # "new" /\ launch'[r].pc = "lost")
    <3>1. \A r \in Runs : launch[r].pc = "new" => launch[r].by # p
      BY <1>0, RunLifecycleAssumption DEF Unheard
    <3>2. \A r \in Runs : launch'[r] = IF launch[r].by = p
             THEN [pc |-> "lost", by |-> p, permit |-> FALSE] ELSE launch[r]
      BY <1>12 DEF Crash
    <3>3. \A r \in Runs : launch[r].by = p => launch'[r].pc = "lost"
      BY <3>2
    <3>4. \A r \in Runs : launch[r].by # p => launch'[r] = launch[r]
      BY <3>2
    <3> QED BY <3>1, <3>3, <3>4
  <2>3. \A q \in Procs : sweep'[q] = sweep[q] \/ sweep'[q].pc = "idle"
    BY <1>0, <1>12 DEF Crash, SweepOK, IdleSweep
  <2>4. RowKept'
    BY <1>0, <2>1, <2>2, <2>3 DEF RowKept
  <2>5. SweepSawTheEnd'
    BY <1>0, <2>1, <2>3 DEF SweepSawTheEnd, SawEnd
  <2>6. WatchedWhileRunning'
    BY <1>r, <1>t, <2>1, <2>2, WatchedKept DEF Excused
  <2> QED BY <1>i, <2>4, <2>5, <2>6
<1>13. ASSUME NEW r \in Runs,
          SupBootFails(r) \/ SupSpawnFails(r) \/ SupSpawnsHarness(r) \/ SupArms(r) \/
          SupEmits(r) \/ SupTakesTerm(r) \/ SupInsists(r) \/ SupPipesClose(r) \/
          SupDrains(r) \/ SupFinishes(r) \/ SupDies(r) \/ HarnessExits(r)
       PROVE  UNCHANGED <<row, watch, launch, sweep>>
  BY <1>13 DEF SupBootFails, SupSpawnFails, SupSpawnsHarness, SupArms, SupEmits,
     SupTakesTerm, SupInsists, SupPipesClose, SupDrains, SupFinishes, SupDies, HarnessExits
<1>14. ASSUME NEW p \in Procs,
          KillBegin(p) \/ KillTerm(p) \/ KillWaits(p) \/ KillInsists(p)
       PROVE  UNCHANGED <<row, watch, launch, sweep>>
  BY <1>14 DEF KillBegin, KillTerm, KillWaits, KillInsists, SignalTerm, SignalKill
<1>15. ASSUME NEW p \in Procs, NEW r \in Runs,
          FollowPull(p, r) \/ FollowGivesUp(p, r) \/ ApplyEnvelope(p, r) \/
          Rehydrate(p, r) \/ KillAsk(p, r)
       PROVE  UNCHANGED <<row, watch, launch, sweep>>
  BY <1>15 DEF FollowPull, FollowGivesUp, ApplyEnvelope, Rehydrate, KillAsk
<1>16. CASE UNCHANGED vars
  BY <1>16, <1>u DEF vars
<1>17. ASSUME NEW p \in Procs, NEW r \in Runs PROVE ~Forget(p, r)
  BY DEF Forget
<1> QED
  BY <1>u, <1>1, <1>2, <1>3, <1>4, <1>5, <1>6, <1>7, <1>8, <1>9, <1>10, <1>11, <1>12,
     <1>13, <1>14, <1>15, <1>16, <1>17
  DEF Next, LaunchStep, SupStep, KillStep, SweepStep, ProcStep

\* A launched run that reads running is watched unless the store refused its watch or its
\* reaping, whatever dies and whatever the sweeps were about to do when it was launched:
\* as long as no run is forgotten, since a summary saved after the deletion puts the row
\* back without its heartbeat.
THEOREM WatchedCorrect == ASSUME ~Forgets PROVE Spec => []WatchedWhileRunning
<1>1. Init => WatchInv
  <2> SUFFICES ASSUME Init PROVE WatchInv
    OBVIOUS
  <2>1. TypeOK
    BY InitTypes
  <2> QED BY <2>1 DEF Init, WatchInv, Unheard, RowKept, SweepSawTheEnd, SawEnd, WatchedWhileRunning,
             IdleSweep, Absent
<1>2. WatchInv => WatchedWhileRunning
  BY DEF WatchInv
<1>3. WatchInv /\ [Next]_vars => WatchInv'
  BY WatchStep
<1> QED BY <1>1, <1>2, <1>3, PTL DEF Spec

(***************************************************************************)
(* Permits.                                                                *)
(***************************************************************************)
\* Runs that count against the permits of their process.
Covered(r) ==
    \/ launch[r].pc = "permitted"
    \/ GroupAlive(r) /\ launch[r].pc # "lost"

\* A live supervisor of a living process is covered by a permit, and no process hands
\* out more permits than it has.
PermitInv ==
    /\ \A p \in Procs : Cardinality(Held(p)) <= MaxConcurrent
    /\ \A r \in Runs : Covered(r) => launch[r].permit

\* Fewer runs hold permits of a process if none was added.
LEMMA HeldShrinks ==
    ASSUME NEW p \in Procs, Cardinality(Held(p)) <= MaxConcurrent, Held(p)' \subseteq Held(p)
    PROVE  Cardinality(Held(p)') <= MaxConcurrent
<1>1. IsFiniteSet(Held(p))
  BY FS_Subset, RunLifecycleAssumption DEF Held
<1>2. Cardinality(Held(p)') <= Cardinality(Held(p))
  BY <1>1, FS_Subset
<1>3. /\ Cardinality(Held(p)) \in Nat
      /\ Cardinality(Held(p)') \in Nat
  BY <1>1, FS_Subset, FS_CardinalityType
<1> QED BY <1>2, <1>3, RunLifecycleAssumption

\* A step that hands out no permit and starts no supervisor keeps to the permits, if a
\* permit is only returned once the group is gone.
LEMMA PermitFrame ==
    ASSUME PermitInv,
           \A r \in Runs : \/ launch'[r] = launch[r]
                           \/ /\ launch'[r].pc # "permitted"
                              /\ launch'[r].by = launch[r].by /\ launch[r].pc # "lost"
                              /\ launch'[r].permit = launch[r].permit
                           \/ /\ launch'[r].pc # "permitted" /\ ~launch'[r].permit
                              /\ (launch'[r].pc = "lost" \/ ~GroupAlive(r)'),
           \A r \in Runs : GroupAlive(r)' => GroupAlive(r)
    PROVE  PermitInv'
<1>1. \A p \in Procs : Held(p)' \subseteq Held(p)
  BY DEF Held
<1>2. \A p \in Procs : Cardinality(Held(p)') <= MaxConcurrent
  BY <1>1, HeldShrinks DEF PermitInv
<1>3. \A p \in Procs : (Cardinality(Held(p)) <= MaxConcurrent)'
  BY <1>2
<1>4. \A r \in Runs : Covered(r)' => launch'[r].permit
  BY DEF PermitInv, Covered
<1> QED BY <1>3, <1>4 DEF PermitInv

\* Every step keeps to the permits, unless the store fails a launch whose supervisor runs.
LEMMA PermitStep == ASSUME ~StoreFaults PROVE IInv /\ PermitInv /\ [Next]_vars => PermitInv'
<1> SUFFICES ASSUME IInv, PermitInv, [Next]_vars PROVE PermitInv'
  OBVIOUS
<1>0. OsOK /\ LaunchOK /\ LaunchInv /\ KillOK /\ SweepOK
  BY DEF IInv, TypeOK
<1>u. UNCHANGED launch /\ (\A r \in Runs : GroupAlive(r)' => GroupAlive(r)) => PermitInv'
  BY PermitFrame
<1>s. ASSUME NEW r \in Runs, SignalTerm(r) \/ SignalKill(r)
      PROVE  \A s \in Runs : GroupAlive(s)' => GroupAlive(s)
  BY <1>0, <1>s DEF SignalTerm, SignalKill, GroupAlive, OsOK
<1>g. UNCHANGED sup => \A r \in Runs : GroupAlive(r)' => GroupAlive(r)
  BY DEF GroupAlive
<1>1. ASSUME NEW r \in Runs, Acquire(r) PROVE PermitInv'
  <2> DEFINE q == launch[r].by
  <2>1. q \in Procs /\ Cardinality(Held(q)) < MaxConcurrent
    BY <1>0, <1>1 DEF Acquire, LaunchOK
  <2>2. \A s \in Runs \ {r} : launch'[s] = launch[s]
    BY <1>0, <1>1 DEF Acquire, LaunchOK
  <2>3. launch'[r].by = q /\ launch'[r].permit /\ launch'[r].pc = "permitted"
    BY <1>0, <1>1 DEF Acquire, LaunchOK, LaunchRec
  <2>4. \A p \in Procs : (Cardinality(Held(p)) <= MaxConcurrent)'
    <3> SUFFICES ASSUME NEW p \in Procs PROVE Cardinality(Held(p)') <= MaxConcurrent
      OBVIOUS
    <3>1. CASE p # q
      <4>1. Held(p)' \subseteq Held(p)
        BY <2>2, <2>3, <3>1 DEF Held
      <4> QED BY <4>1, HeldShrinks DEF PermitInv
    <3>2. CASE p = q
      <4>1. Held(p)' \subseteq Held(p) \cup {r}
        BY <2>2 DEF Held
      <4>2. IsFiniteSet(Held(p))
        BY FS_Subset, RunLifecycleAssumption DEF Held
      <4>3. /\ IsFiniteSet(Held(p) \cup {r})
            /\ Cardinality(Held(p) \cup {r}) <= Cardinality(Held(p)) + 1
        <5>1. Cardinality(Held(p)) \in Nat
          BY <4>2, FS_CardinalityType
        <5>2. IsFiniteSet(Held(p) \cup {r})
          BY <4>2, FS_AddElement
        <5>3. CASE r \in Held(p)
          <6>1. Held(p) \cup {r} = Held(p)
            BY <5>3
          <6>2. Cardinality(Held(p) \cup {r}) = Cardinality(Held(p))
            BY <6>1
          <6> QED BY <5>1, <5>2, <6>2
        <5>4. CASE r \notin Held(p)
          <6>1. Cardinality(Held(p) \cup {r}) = Cardinality(Held(p)) + 1
            BY <4>2, <5>4, FS_AddElement
          <6> QED BY <5>1, <5>2, <6>1
        <5> QED BY <5>3, <5>4
      <4>4. Cardinality(Held(p)') <= Cardinality(Held(p) \cup {r}) /\ IsFiniteSet(Held(p)')
        BY <4>1, <4>3, FS_Subset
      <4>5. /\ Cardinality(Held(p)) \in Nat
            /\ Cardinality(Held(p)') \in Nat
            /\ Cardinality(Held(p) \cup {r}) \in Nat
        BY <4>2, <4>3, <4>4, FS_CardinalityType
      <4>6. Cardinality(Held(p)) + 1 <= MaxConcurrent
        BY <2>1, <3>2, <4>5, RunLifecycleAssumption
      <4> QED BY <4>3, <4>4, <4>5, <4>6, RunLifecycleAssumption
    <3> QED BY <3>1, <3>2
  <2>5. UNCHANGED sup
    BY <1>1 DEF Acquire
  <2> QED BY <2>2, <2>3, <2>4, <2>5 DEF PermitInv, Covered, GroupAlive
<1>2. ASSUME NEW r \in Runs, SpawnSupervisor(r) PROVE PermitInv'
  <2>1. \A s \in Runs \ {r} : launch'[s] = launch[s] /\ sup'[s] = sup[s]
    BY <1>0, <1>2 DEF SpawnSupervisor, LaunchOK, OsOK
  <2>2. /\ launch'[r].by = launch[r].by
        /\ launch'[r].permit = launch[r].permit
        /\ launch'[r].permit
    BY <1>0, <1>2 DEF SpawnSupervisor, LaunchOK, LaunchRec, PermitInv, Covered
  <2>3. \A p \in Procs : Held(p)' \subseteq Held(p)
    BY <2>1, <2>2 DEF Held
  <2>4. \A p \in Procs : (Cardinality(Held(p)) <= MaxConcurrent)'
    <3>1. \A p \in Procs : Cardinality(Held(p)') <= MaxConcurrent
      BY <2>3, HeldShrinks DEF PermitInv
    <3> QED BY <3>1
  <2> QED BY <2>1, <2>2, <2>4 DEF PermitInv, Covered, GroupAlive
<1>3. ASSUME NEW r \in Runs, LaunchError(r) PROVE PermitInv'
  <2>1. ~GroupAlive(r)' /\ UNCHANGED sup
    BY <1>0, <1>3 DEF LaunchError, FailLaunch, LaunchInv, GroupAlive
  <2>2. \A s \in Runs \ {r} : launch'[s] = launch[s]
    BY <1>0, <1>3 DEF LaunchError, FailLaunch, LaunchOK
  <2>3. launch'[r].pc # "permitted" /\ ~launch'[r].permit
    BY <1>0, <1>3 DEF LaunchError, FailLaunch, LaunchOK, LaunchRec
  <2> QED BY <1>g, <2>1, <2>2, <2>3, PermitFrame
<1>4. ASSUME NEW p \in Procs, NEW r \in Runs, Register(p, r) PROVE PermitInv'
  <2>1. ~GroupAlive(r)' /\ UNCHANGED sup
    BY <1>0, <1>4 DEF Register, LaunchInv, GroupAlive
  <2>2. \A s \in Runs \ {r} : launch'[s] = launch[s]
    BY <1>0, <1>4 DEF Register, LaunchOK
  <2>3. launch'[r].pc # "permitted" /\ ~launch'[r].permit
    BY <1>0, <1>4 DEF Register, LaunchOK, LaunchRec
  <2> QED BY <1>g, <2>1, <2>2, <2>3, PermitFrame
<1>5. ASSUME NEW r \in Runs,
         RecordProcess(r) \/ Publish(r) \/ PublishPanics(r) \/ WatchRun(r) \/ WatchForGoal(r)
      PROVE  PermitInv'
  <2>1. UNCHANGED sup /\ launch[r].pc # "lost"
    BY <1>5 DEF RecordProcess, Publish, PublishPanics, WatchRun, WatchForGoal
  <2>2. \A s \in Runs \ {r} : launch'[s] = launch[s]
    BY <1>0, <1>5 DEF RecordProcess, Publish, PublishPanics, WatchRun, WatchForGoal,
       LaunchOK
  <2>3. /\ launch'[r].pc # "permitted"
        /\ launch'[r].by = launch[r].by
        /\ launch'[r].permit = launch[r].permit
    BY <1>0, <1>5 DEF RecordProcess, Publish, PublishPanics, WatchRun, WatchForGoal,
       LaunchOK, LaunchRec
  <2> QED BY <1>g, <2>1, <2>2, <2>3, PermitFrame
<1>6. ASSUME NEW r \in Runs, ReleasePermit(r) PROVE PermitInv'
  <2>1. UNCHANGED sup /\ ~GroupAlive(r)'
    BY <1>6 DEF ReleasePermit, GroupAlive
  <2>2. \A s \in Runs \ {r} : launch'[s] = launch[s]
    BY <1>0, <1>6 DEF ReleasePermit, LaunchOK
  <2>3. launch'[r].pc # "permitted" /\ ~launch'[r].permit
    BY <1>0, <1>6 DEF ReleasePermit, LaunchOK, LaunchRec
  <2> QED BY <1>g, <2>1, <2>2, <2>3, PermitFrame
<1>7. ASSUME NEW r \in Runs,
         SupBootFails(r) \/ SupSpawnFails(r) \/ SupSpawnsHarness(r) \/ SupArms(r) \/
         SupEmits(r) \/ SupTakesTerm(r) \/ SupInsists(r) \/ SupPipesClose(r) \/
         SupDrains(r) \/ SupFinishes(r) \/ SupSettles(r) \/ SupDies(r) \/ HarnessExits(r)
      PROVE  PermitInv'
  <2>1. UNCHANGED launch
    BY <1>7 DEF SupBootFails, SupSpawnFails, SupSpawnsHarness, SupArms, SupEmits,
       SupTakesTerm, SupInsists, SupPipesClose, SupDrains, SupFinishes, SupSettles, SupDies,
       HarnessExits
  <2>2. \A s \in Runs : GroupAlive(s)' => GroupAlive(s)
    BY <1>0, <1>7 DEF SupBootFails, SupSpawnFails, SupSpawnsHarness, SupArms, SupEmits,
       SupTakesTerm, SupInsists, SupPipesClose, SupDrains, SupFinishes, SupSettles, SupDies,
       HarnessExits, GroupAlive, OsOK
  <2> QED BY <1>u, <2>1, <2>2
<1>8. ASSUME NEW p \in Procs, KillTerm(p) \/ KillInsists(p) \/ SweepTerm(p) \/ SweepInsists(p)
      PROVE  PermitInv'
  <2>1. UNCHANGED launch
    BY <1>8 DEF KillTerm, KillInsists, SweepTerm, SweepInsists
  <2>2. \E r \in Runs : SignalTerm(r) \/ SignalKill(r)
    BY <1>0, <1>8 DEF KillTerm, KillInsists, SweepTerm, SweepInsists, KillOK, SweepOK
  <2> QED BY <1>s, <1>u, <2>1, <2>2
<1>9. ASSUME NEW p \in Procs,
         KillBegin(p) \/ KillWaits(p) \/ KillMark(p) \/ SweepEnded(p) \/ SweepVanished(p) \/
         SweepBeats(p) \/ SweepStalled(p) \/ SweepWaits(p) \/ SweepFail(p) \/
         SweepLearn(p) \/ SweepUnwatch(p)
      PROVE  PermitInv'
  <2>1. UNCHANGED <<launch, sup>>
    BY <1>9 DEF KillBegin, KillWaits, KillMark, SweepEnded, SweepVanished, SweepBeats,
       SweepStalled, SweepWaits, SweepFail, SweepLearn, SweepUnwatch
  <2> QED BY <1>g, <1>u, <2>1
<1>10. ASSUME NEW p \in Procs, NEW r \in Runs,
          FollowPull(p, r) \/ FollowGivesUp(p, r) \/ ApplyEnvelope(p, r) \/
          SaveSummary(p, r) \/ Rehydrate(p, r) \/ KillAsk(p, r) \/ SweepRead(p, r) \/
          Forget(p, r)
       PROVE  PermitInv'
  <2>1. UNCHANGED <<launch, sup>>
    BY <1>10 DEF FollowPull, FollowGivesUp, ApplyEnvelope, SaveSummary, Rehydrate, KillAsk,
       SweepRead, Forget
  <2> QED BY <1>g, <1>u, <2>1
<1>11. ASSUME NEW p \in Procs, Crash(p) PROVE PermitInv'
  <2>1. UNCHANGED sup
    BY <1>11 DEF Crash
  <2>2. \A r \in Runs : launch'[r] = IF launch[r].by = p
                                     THEN [pc |-> "lost", by |-> p, permit |-> FALSE]
                                     ELSE launch[r]
    BY <1>11 DEF Crash
  <2>3. \A r \in Runs : \/ launch'[r] = launch[r]
                        \/ launch'[r].pc = "lost" /\ ~launch'[r].permit
    BY <2>2
  <2> QED BY <1>g, <2>1, <2>3, PermitFrame
<1>12. CASE UNCHANGED vars
  BY <1>12, <1>g, <1>u DEF vars
<1>13. ASSUME NEW r \in Runs
       PROVE  ~RecordError(r) /\ ~WatchRefused(r) /\ ~GoalWatchRefused(r)
  BY DEF RecordError, WatchRefused, GoalWatchRefused
<1>14. ASSUME NEW p \in Procs PROVE ~SweepRefused(p) /\ ~SweepBreaksOff(p)
  BY DEF SweepRefused, SweepBreaksOff
<1> QED
  BY <1>1, <1>2, <1>3, <1>4, <1>5, <1>6, <1>7, <1>8, <1>9, <1>10, <1>11, <1>12, <1>13, <1>14
  DEF Next, LaunchStep, SupStep, KillStep, SweepStep, ProcStep

\* A process that launches many runs at once never has more supervisors alive than it
\* has permits, in every interleaving of launches, deaths and releases: as long as the
\* store does not fail right after a spawn, since that error arm returns the permit of
\* a supervisor that runs.
THEOREM CapCorrect == ASSUME ~StoreFaults PROVE Spec => []ConcurrencyCap
<1>1. Init => PermitInv
  <2> SUFFICES ASSUME Init PROVE PermitInv
    OBVIOUS
  <2>1. \A p \in Procs : Held(p) = {}
    BY DEF Init, Held
  <2>2. \A p \in Procs : Cardinality(Held(p)) <= MaxConcurrent
    BY <2>1, FS_EmptySet, RunLifecycleAssumption
  <2> QED BY <2>2 DEF Init, PermitInv, Covered, GroupAlive
<1>2. PermitInv => ConcurrencyCap
  <2> SUFFICES ASSUME PermitInv, NEW p \in Procs
               PROVE  Cardinality({r \in Runs : /\ launch[r].by = p
                                                /\ launch[r].pc # "lost"
                                                /\ GroupAlive(r)}) <= MaxConcurrent
    BY DEF ConcurrencyCap
  <2> DEFINE Alive == {r \in Runs : /\ launch[r].by = p
                                    /\ launch[r].pc # "lost"
                                    /\ GroupAlive(r)}
  <2>1. Alive \subseteq Held(p)
    BY DEF PermitInv, Covered, Held
  <2>2. IsFiniteSet(Held(p))
    BY FS_Subset, RunLifecycleAssumption DEF Held
  <2>3. /\ Cardinality(Alive) <= Cardinality(Held(p))
        /\ Cardinality(Alive) \in Nat /\ Cardinality(Held(p)) \in Nat
    BY <2>1, <2>2, FS_Subset, FS_CardinalityType
  <2>4. Cardinality(Held(p)) <= MaxConcurrent
    BY DEF PermitInv
  <2> HIDE DEF Alive
  <2>5. Cardinality(Alive) <= MaxConcurrent
    BY <2>3, <2>4, RunLifecycleAssumption
  <2> QED BY <2>5 DEF Alive
<1>3. IInv /\ PermitInv /\ [Next]_vars => PermitInv'
  BY PermitStep
<1> QED BY <1>1, <1>2, <1>3, Inductive, PTL DEF Spec

(***************************************************************************)
(* The refinement of RunView.                                              *)
(***************************************************************************)
\* The invariant of the refinement: what is said of a run was learnt in order.
ViewInv == IInv /\ Unheard

\* RunView!MaySay, in the statuses of rows and records.
MayTurn(r, before, after) ==
    \/ after = before
    \/ after = "running" /\ before \in {"none", "absent"}
    \/ after = "completed" /\ Over(r)
    \/ after \in {"failed", "killed"}
    \/ after \in {"none", "absent"} /\ before # "running"

LEMMA MayTurnMaySay ==
    ASSUME NEW r \in Runs, NEW a \in RowStatus \cup MemStatus, NEW b \in RowStatus \cup MemStatus,
           MayTurn(r, a, b)
    PROVE  View!MaySay(r, Heard(a), Heard(b)) /\ Heard(b) \in View!Said
<1>1. Over(r) => [s \in Runs |-> Work(child[s])][r] = "over"
  BY DEF Over, Work
<1> QED BY <1>1 DEF MayTurn, View!MaySay, Heard, View!Said, View!Ended

\* Nothing a reader sees has changed.
SameWork   == \A r \in Runs : Work(child'[r]) = Work(child[r])
SameRecord == \A r \in Runs : row'[r].status = row[r].status
SameBelief == \A p \in Procs, r \in Runs : mem'[p][r].status = mem[p][r].status

LEMMA ViewSame ==
    /\ SameWork => [r \in Runs |-> Work(child[r])]' = [r \in Runs |-> Work(child[r])]
    /\ SameRecord => [r \in Runs |-> Heard(row[r].status)]' = [r \in Runs |-> Heard(row[r].status)]
    /\ SameBelief => [p \in Procs |-> [r \in Runs |-> Heard(mem[p][r].status)]]'
                        = [p \in Procs |-> [r \in Runs |-> Heard(mem[p][r].status)]]
  BY DEF SameWork, SameRecord, SameBelief

LEMMA ViewStutter == SameWork /\ SameRecord /\ SameBelief => UNCHANGED View!vars
  BY ViewSame DEF View!vars

\* A harness begins, or ends, and nobody has said anything yet.
LEMMA ViewBegin ==
    ASSUME NEW r \in Runs, SameRecord, SameBelief, child[r] = "none", child'[r] = "running",
           \A s \in Runs \ {r} : child'[s] = child[s]
    PROVE  View!Begin(r)
  BY ViewSame DEF View!Begin, Work

LEMMA ViewEnd ==
    ASSUME NEW r \in Runs, SameRecord, SameBelief, ~Over(r), Over(r)',
           child[r] \in {"none", "running"} \cup Outcome,
           \A s \in Runs \ {r} : child'[s] = child[s]
    PROVE  View!End(r)
  BY ViewSame DEF View!End, Work, Over

\* One process says something of one run, to the store, to itself or to both.
LEMMA ViewSay ==
    ASSUME TypeOK, TypeOK', NEW p \in Procs, NEW r \in Runs, SameWork,
           \A s \in Runs \ {r} : row'[s].status = row[s].status,
           \A q \in Procs, s \in Runs :
              q # p \/ s # r => mem'[q][s].status = mem[q][s].status,
           MayTurn(r, row[r].status, row'[r].status),
           MayTurn(r, mem[p][r].status, mem'[p][r].status)
    PROVE  View!Say(p, r)
<1> DEFINE record == [s \in Runs |-> Heard(row[s].status)]
           belief == [q \in Procs |-> [s \in Runs |-> Heard(mem[q][s].status)]]
<1>1. /\ row[r].status \in RowStatus /\ row'[r].status \in RowStatus
      /\ mem[p][r].status \in MemStatus /\ mem'[p][r].status \in MemStatus
  <2>1. row[r] \in RowRec /\ row'[r] \in RowRec /\ mem[p][r] \in MemRec /\ mem'[p][r] \in MemRec
    BY DEF TypeOK, TablesOK, MemoryOK
  <2> QED BY <2>1 DEF RowRec, MemRec
<1>2. View!MaySay(r, Heard(row[r].status), Heard(row'[r].status)) /\ Heard(row'[r].status) \in View!Said
  BY <1>1, MayTurnMaySay
<1>3. View!MaySay(r, Heard(mem[p][r].status), Heard(mem'[p][r].status)) /\ Heard(mem'[p][r].status) \in View!Said
  BY <1>1, MayTurnMaySay
<1>4. record' = [record EXCEPT ![r] = Heard(row'[r].status)]
  OBVIOUS
<1>5. belief' = [belief EXCEPT ![p][r] = Heard(mem'[p][r].status)]
  BY ZenonT(40)
<1>6. record[r] = Heard(row[r].status) /\ belief[p][r] = Heard(mem[p][r].status)
  OBVIOUS
<1>7. [s \in Runs |-> Work(child[s])]' = [s \in Runs |-> Work(child[s])]
  BY ViewSame
<1> QED
  BY <1>2, <1>3, <1>4, <1>5, <1>6, <1>7 DEF View!Say

\* Every step of the machinery is a step of RunView or shows nothing.
LEMMA ViewStep == ViewInv /\ [Next]_vars => [View!Next]_(View!vars)
<1> SUFFICES ASSUME ViewInv, [Next]_vars PROVE View!Next \/ UNCHANGED View!vars
  OBVIOUS
<1>0. /\ TablesOK /\ OsOK /\ MemoryOK /\ LaunchOK /\ KillOK /\ SweepOK
      /\ OsInv /\ LogInv /\ CompletedIsOver /\ Unheard /\ LaunchInv /\ TypeOK
  BY DEF ViewInv, IInv, TypeOK
<1>t. TypeOK'
  BY TypeStep DEF ViewInv, IInv
<1>w. UNCHANGED child => SameWork
  BY DEF SameWork
<1>r. UNCHANGED row => SameRecord
  BY DEF SameRecord
<1>b. UNCHANGED mem => SameBelief
  BY DEF SameBelief
<1>p. ASSUME NEW p \in Procs, NEW r \in Runs, View!Say(p, r) PROVE View!Next
  BY <1>p DEF View!Next
<1>g. ASSUME NEW r \in Runs, View!Begin(r) \/ View!End(r) PROVE View!Next
  BY <1>g DEF View!Next
<1>1. ASSUME NEW p \in Procs, NEW r \in Runs, Register(p, r) PROVE View!Next
  <2>1. /\ \A s \in Runs \ {r} : row'[s].status = row[s].status
        /\ MayTurn(r, row[r].status, row'[r].status)
    BY <1>0, <1>1 DEF Register, SaveRun, TablesOK, RowRec, Unheard, MayTurn
  <2>2. /\ \A q \in Procs, s \in Runs : q # p \/ s # r => mem'[q][s].status = mem[q][s].status
        /\ MayTurn(r, mem[p][r].status, mem'[p][r].status)
    BY <1>0, <1>1 DEF Register, MemoryOK, Unheard, MayTurn
  <2>3. SameWork
    BY <1>1, <1>w DEF Register
  <2> QED BY <1>0, <1>t, <1>p, <2>1, <2>2, <2>3, ViewSay
<1>2. ASSUME NEW r \in Runs, LaunchError(r) \/ RecordError(r) PROVE View!Next
  <2> DEFINE q == launch[r].by
  <2>0. FailLaunch(r) /\ q \in Procs
    BY <1>0, <1>2 DEF LaunchError, RecordError, LaunchOK
  <2>1. /\ \A s \in Runs \ {r} : row'[s].status = row[s].status
        /\ MayTurn(r, row[r].status, row'[r].status)
    BY <1>0, <2>0 DEF FailLaunch, SetStatus, TablesOK, RowRec, MayTurn
  <2>2. \A p \in Procs, s \in Runs : p # q \/ s # r => mem'[p][s] = mem[p][s]
    BY <1>0, <2>0 DEF FailLaunch, MemoryOK
  <2>3. MayTurn(r, mem[q][r].status, mem'[q][r].status)
    BY <1>0, <2>0 DEF FailLaunch, MemoryOK, MemRec, MayTurn
  <2>4. SameWork
    BY <2>0, <1>w DEF FailLaunch
  <2> HIDE DEF q
  <2> QED BY <1>0, <1>t, <1>p, <2>0, <2>1, <2>2, <2>3, <2>4, ViewSay
<1>3. ASSUME NEW r \in Runs, RecordProcess(r) PROVE UNCHANGED View!vars
  BY <1>0, <1>3, <1>w, <1>b, ViewStutter DEF RecordProcess, SameRecord, TablesOK, RowRec
<1>4. ASSUME NEW r \in Runs, Publish(r) PROVE UNCHANGED View!vars
  <2>1. SameBelief
    BY <1>0, <1>4 DEF Publish, SameBelief, MemoryOK, MemRec, LaunchOK
  <2> QED BY <1>4, <1>w, <1>r, <2>1, ViewStutter DEF Publish
<1>5. ASSUME NEW r \in Runs, SupSettles(r) PROVE View!Next
  <2> DEFINE q == launch[r].by
  <2>0. q \in Procs
    BY <1>0, <1>5 DEF SupSettles, LaunchInv, LaunchOK
  <2>1. \A s \in Runs \ {r} : row'[s].status = row[s].status
    BY <1>0, <1>5 DEF SupSettles, SetStatus, TablesOK
  <2>2. MayTurn(r, row[r].status, row'[r].status)
    BY <1>0, <1>5 DEF SupSettles, SetStatus, EndStatus, TablesOK, RowRec, OsInv, MayTurn
  <2>3. SameWork /\ UNCHANGED mem
    BY <1>5, <1>w DEF SupSettles
  <2>4. MayTurn(r, mem[q][r].status, mem'[q][r].status)
    BY <2>3 DEF MayTurn
  <2> HIDE DEF q
  <2> QED BY <1>0, <1>t, <1>p, <2>0, <2>1, <2>2, <2>3, <2>4, ViewSay
<1>6. ASSUME NEW p \in Procs, NEW r \in Runs, SaveSummary(p, r) PROVE View!Next
  <2>1. \A s \in Runs \ {r} : row'[s].status = row[s].status
    BY <1>0, <1>6 DEF SaveSummary, SaveRun, TablesOK
  <2>2. save[p][r] \in MemRec /\ save[p][r].status # "absent"
    BY <1>0, <1>6 DEF SaveSummary, MemoryOK
  <2>3. MayTurn(r, row[r].status, row'[r].status)
    BY <1>0, <1>6, <2>2 DEF SaveSummary, SaveRun, TablesOK, RowRec, MemRec, LogInv, MayTurn
  <2>4. SameWork /\ UNCHANGED mem
    BY <1>6, <1>w DEF SaveSummary
  <2>5. MayTurn(r, mem[p][r].status, mem'[p][r].status)
    BY <2>4 DEF MayTurn
  <2> QED BY <1>0, <1>t, <1>p, <2>1, <2>3, <2>4, <2>5, ViewSay
<1>7. ASSUME NEW p \in Procs, KillMark(p) PROVE View!Next
  <2> DEFINE r == kill[p].run
  <2>0. r \in Runs
    BY <1>0, <1>7 DEF KillMark, KillOK
  <2>1. /\ \A s \in Runs \ {r} : row'[s].status = row[s].status
        /\ MayTurn(r, row[r].status, row'[r].status)
    BY <1>0, <1>7, <2>0 DEF KillMark, SetStatus, TablesOK, RowRec, MayTurn
  <2>2. \A q \in Procs, s \in Runs : q # p \/ s # r => mem'[q][s] = mem[q][s]
    BY <1>0, <1>7 DEF KillMark, MemoryOK
  <2>3. MayTurn(r, mem[p][r].status, mem'[p][r].status)
    BY <1>0, <1>7, <2>0 DEF KillMark, MemoryOK, MemRec, MayTurn
  <2>4. SameWork
    BY <1>7, <1>w DEF KillMark
  <2> HIDE DEF r
  <2> QED BY <1>0, <1>t, <1>p, <2>0, <2>1, <2>2, <2>3, <2>4, ViewSay
<1>8. ASSUME NEW p \in Procs, SweepFail(p) PROVE View!Next
  <2> DEFINE r == sweep[p].run
  <2>0. r \in Runs
    BY <1>0, <1>8 DEF SweepFail, SweepOK
  <2>1. /\ \A s \in Runs \ {r} : row'[s].status = row[s].status
        /\ MayTurn(r, row[r].status, row'[r].status)
    BY <1>0, <1>8, <2>0 DEF SweepFail, SetStatus, TablesOK, RowRec, MayTurn
  <2>2. SameWork /\ UNCHANGED mem
    BY <1>8, <1>w DEF SweepFail
  <2>3. MayTurn(r, mem[p][r].status, mem'[p][r].status)
    BY <2>2 DEF MayTurn
  <2> HIDE DEF r
  <2> QED BY <1>0, <1>t, <1>p, <2>0, <2>1, <2>2, <2>3, ViewSay
<1>9. ASSUME NEW p \in Procs, SweepLearn(p) PROVE View!Next
  <2> DEFINE r == sweep[p].run
  <2>0. r \in Runs
    BY <1>0, <1>9 DEF SweepLearn, SweepOK
  <2>1. \A q \in Procs, s \in Runs : q # p \/ s # r => mem'[q][s] = mem[q][s]
    BY <1>0, <1>9 DEF SweepLearn, MemoryOK
  <2>2. MayTurn(r, mem[p][r].status, mem'[p][r].status)
    BY <1>0, <1>9, <2>0 DEF SweepLearn, MemoryOK, MemRec, MayTurn
  <2>3. SameWork /\ UNCHANGED row
    BY <1>9, <1>w DEF SweepLearn
  <2>4. MayTurn(r, row[r].status, row'[r].status)
    BY <2>3 DEF MayTurn
  <2> HIDE DEF r
  <2> QED BY <1>0, <1>t, <1>p, <2>0, <2>1, <2>2, <2>3, <2>4, ViewSay
<1>10. ASSUME NEW p \in Procs, NEW r \in Runs, ApplyEnvelope(p, r) PROVE View!Next
  <2>1. \A q \in Procs, s \in Runs : q # p \/ s # r => mem'[q][s] = mem[q][s]
    BY <1>0, <1>10 DEF ApplyEnvelope, MemoryOK
  <2>2. MayTurn(r, mem[p][r].status, mem'[p][r].status)
    <3>1. chan[p][r] \in LogState /\ chan[p][r] # "empty"
      BY <1>0, <1>10 DEF ApplyEnvelope, MemoryOK
    <3>2. mem'[p][r].status = Applied(mem[p][r].status, chan[p][r])
      BY <1>0, <1>10 DEF ApplyEnvelope, MemoryOK
    <3> QED BY <1>0, <3>1, <3>2 DEF Applied, MayTurn, LogInv
  <2>3. SameWork /\ UNCHANGED row
    BY <1>10, <1>w DEF ApplyEnvelope
  <2>4. MayTurn(r, row[r].status, row'[r].status)
    BY <2>3 DEF MayTurn
  <2> QED BY <1>0, <1>t, <1>p, <2>1, <2>2, <2>3, <2>4, ViewSay
<1>11. ASSUME NEW p \in Procs, NEW r \in Runs, Rehydrate(p, r) PROVE View!Next
  <2>1. \A q \in Procs, s \in Runs : q # p \/ s # r => mem'[q][s] = mem[q][s]
    BY <1>0, <1>11 DEF Rehydrate, MemoryOK
  <2>2. MayTurn(r, mem[p][r].status, mem'[p][r].status)
    <3>1. row[r].status \in RowStatus /\ log[r] \in LogState
      BY <1>0 DEF TablesOK, RowRec
    <3>2. mem[p][r].status = "absent"
      BY <1>11 DEF Rehydrate
    <3>3. mem'[p][r].status = "completed" => Over(r)
      BY <1>0, <1>11, <3>1 DEF Rehydrate, Applied, MemoryOK, LogInv, CompletedIsOver
    <3>4. mem'[p][r].status \in MemStatus
      BY <1>t DEF TypeOK, MemoryOK, MemRec
    <3> QED BY <3>2, <3>3, <3>4 DEF MayTurn
  <2>3. SameWork /\ UNCHANGED row
    BY <1>11, <1>w DEF Rehydrate
  <2>4. MayTurn(r, row[r].status, row'[r].status)
    BY <2>3 DEF MayTurn
  <2> QED BY <1>0, <1>t, <1>p, <2>1, <2>2, <2>3, <2>4, ViewSay
<1>12. ASSUME NEW p \in Procs, NEW r \in Runs, Forget(p, r) PROVE View!Next
  <2>1. /\ \A s \in Runs \ {r} : row'[s].status = row[s].status
        /\ MayTurn(r, row[r].status, row'[r].status)
    BY <1>0, <1>12 DEF Forget, TablesOK, RowRec, MayTurn
  <2>2. /\ \A q \in Procs, s \in Runs : q # p \/ s # r => mem'[q][s] = mem[q][s]
        /\ MayTurn(r, mem[p][r].status, mem'[p][r].status)
    BY <1>0, <1>12 DEF Forget, Absent, MemoryOK, MayTurn
  <2>3. SameWork
    BY <1>12, <1>w DEF Forget
  <2> QED BY <1>0, <1>t, <1>p, <2>1, <2>2, <2>3, ViewSay
<1>13. ASSUME NEW r \in Runs, SupSpawnsHarness(r) PROVE View!Next
  <2>1. SameRecord /\ SameBelief
    BY <1>13, <1>r, <1>b DEF SupSpawnsHarness
  <2>2. child[r] = "none" /\ child'[r] = "running"
    BY <1>0, <1>13 DEF SupSpawnsHarness, OsInv, OsOK
  <2>3. \A s \in Runs \ {r} : child'[s] = child[s]
    BY <1>0, <1>13 DEF SupSpawnsHarness, OsOK
  <2> QED BY <1>g, <2>1, <2>2, <2>3, ViewBegin
<1>14. ASSUME NEW r \in Runs, SupSpawnFails(r) \/ SupInsists(r) \/ HarnessExits(r) PROVE View!Next
  <2>1. SameRecord /\ SameBelief
    BY <1>14, <1>r, <1>b DEF SupSpawnFails, SupInsists, HarnessExits
  <2>2. ~Over(r) /\ Over(r)'
    BY <1>0, <1>14 DEF SupSpawnFails, SupInsists, HarnessExits, OsInv, OsOK, Over
  <2>3. \A s \in Runs \ {r} : child'[s] = child[s]
    BY <1>0, <1>14 DEF SupSpawnFails, SupInsists, HarnessExits, OsOK
  <2>4. child[r] \in {"none", "running"} \cup Outcome
    BY <1>0 DEF OsOK
  <2> QED BY <1>g, <2>1, <2>2, <2>3, <2>4, ViewEnd
<1>s. ASSUME NEW r \in Runs, SignalTerm(r) \/ SignalKill(r), UNCHANGED <<row, mem>>
      PROVE  View!Next \/ UNCHANGED View!vars
  <2>1. \A s \in Runs \ {r} : child'[s] = child[s]
    BY <1>0, <1>s DEF SignalTerm, SignalKill, OsOK
  <2>2. child'[r] = child[r] \/ (child[r] = "running" /\ child'[r] = "signalled")
    BY <1>0, <1>s DEF SignalTerm, SignalKill, OsOK
  <2>3. SameRecord /\ SameBelief
    BY <1>s, <1>r, <1>b
  <2>4. CASE child'[r] = child[r]
    BY <2>1, <2>3, <2>4, ViewStutter DEF SameWork
  <2>5. CASE child[r] = "running" /\ child'[r] = "signalled"
    BY <1>g, <2>1, <2>3, <2>5, ViewEnd DEF Over
  <2> QED BY <2>2, <2>4, <2>5
<1>15. ASSUME NEW p \in Procs, KillTerm(p) \/ KillInsists(p) \/ SweepTerm(p) \/ SweepInsists(p)
       PROVE  View!Next \/ UNCHANGED View!vars
  <2>1. UNCHANGED <<row, mem>>
    BY <1>15 DEF KillTerm, KillInsists, SweepTerm, SweepInsists
  <2>2. \E r \in Runs : SignalTerm(r) \/ SignalKill(r)
    BY <1>0, <1>15 DEF KillTerm, KillInsists, SweepTerm, SweepInsists, KillOK, SweepOK
  <2> QED BY <1>s, <2>1, <2>2
<1>16. ASSUME NEW p \in Procs, Crash(p) PROVE View!Next
  <2>1. SameWork /\ SameRecord
    BY <1>16, <1>w, <1>r DEF Crash
  <2>2. mem' = [mem EXCEPT ![p] = [r \in Runs |-> Absent]]
    BY <1>16 DEF Crash
  <2> DEFINE belief == [q \in Procs |-> [s \in Runs |-> Heard(mem[q][s].status)]]
  <2>3. belief' = [belief EXCEPT ![p] = [r \in Runs |-> "unknown"]]
    <3>1. \A q \in Procs, s \in Runs :
             Heard(mem'[q][s].status) = IF q = p THEN "unknown" ELSE Heard(mem[q][s].status)
      BY <1>0, <2>2 DEF MemoryOK, Absent, Heard
    <3> QED BY <3>1
  <2>4. View!Lose(p)
    BY <2>1, <2>3, ViewSame DEF View!Lose
  <2> QED BY <2>4 DEF View!Next
<1>17. ASSUME NEW r \in Runs,
          Acquire(r) \/ SpawnSupervisor(r) \/ PublishPanics(r) \/ WatchRun(r) \/
          WatchForGoal(r) \/ WatchRefused(r) \/ GoalWatchRefused(r) \/ ReleasePermit(r) \/ SupBootFails(r) \/ SupArms(r) \/ SupEmits(r) \/
          SupTakesTerm(r) \/ SupPipesClose(r) \/ SupDrains(r) \/ SupFinishes(r) \/ SupDies(r)
       PROVE  UNCHANGED <<child, row, mem>>
  BY <1>17 DEF Acquire, SpawnSupervisor, PublishPanics, WatchRun, WatchForGoal,
     WatchRefused, GoalWatchRefused, ReleasePermit,
     SupBootFails, SupArms, SupEmits, SupTakesTerm, SupPipesClose, SupDrains, SupFinishes, SupDies
<1>18. ASSUME NEW p \in Procs,
          KillBegin(p) \/ KillWaits(p) \/ SweepEnded(p) \/ SweepVanished(p) \/
          SweepBeats(p) \/ SweepStalled(p) \/ SweepWaits(p) \/ SweepRefused(p) \/
          SweepUnwatch(p) \/ SweepBreaksOff(p)
       PROVE  UNCHANGED <<child, row, mem>>
  BY <1>18 DEF KillBegin, KillWaits, SweepEnded, SweepVanished, SweepBeats, SweepStalled,
     SweepWaits, SweepRefused, SweepUnwatch, SweepBreaksOff
<1>19. ASSUME NEW p \in Procs, NEW r \in Runs,
          FollowPull(p, r) \/ FollowGivesUp(p, r) \/ KillAsk(p, r) \/ SweepRead(p, r)
       PROVE  UNCHANGED <<child, row, mem>>
  BY <1>19 DEF FollowPull, FollowGivesUp, KillAsk, SweepRead
<1>20. UNCHANGED vars => UNCHANGED <<child, row, mem>>
  BY DEF vars
<1>u. UNCHANGED <<child, row, mem>> => UNCHANGED View!vars
  BY <1>w, <1>r, <1>b, ViewStutter
<1> QED
  BY <1>u, <1>1, <1>2, <1>3, <1>4, <1>5, <1>6, <1>7, <1>8, <1>9, <1>10, <1>11, <1>12,
     <1>13, <1>14, <1>15, <1>16, <1>17, <1>18, <1>19, <1>20
  DEF Next, LaunchStep, SupStep, KillStep, SweepStep, ProcStep

\* The refinement, for every number of runs and processes and every fault: whatever the
\* launchers, supervisors, followers, stops, sweeps and deaths do, a reader of the rows
\* and of any process's memory sees a behaviour of RunView.
THEOREM RunViewImplemented == Spec => ImplementsRunView
<1>1. Init => ViewInv /\ View!Init
  <2> SUFFICES ASSUME Init PROVE ViewInv /\ View!Init
    OBVIOUS
  <2>1. ViewInv
    BY InvInit DEF Init, ViewInv, Unheard, Absent
  <2>2. View!Init
    BY DEF Init, View!Init, Absent, Heard, Work
  <2> QED BY <2>1, <2>2
<1>2. ViewInv /\ [Next]_vars => ViewInv'
  BY InvStep, UnheardStep DEF ViewInv, IInv
<1>3. ViewInv /\ [Next]_vars => [View!Next]_(View!vars)
  BY ViewStep
<1> QED BY <1>1, <1>2, <1>3, PTL DEF Spec, ImplementsRunView, View!Spec
=============================================================================
