------------------------ MODULE RunLifecycleProofs ------------------------
(***************************************************************************)
(* What holds of RunLifecycle for every number of runs, processes and      *)
(* permits and for every choice of faults.                                 *)
(***************************************************************************)
EXTENDS RunLifecycle, TLAPS

USE DEF Terminal, RowStatus, MemStatus, LogState, Watching, SupLive, SupState, Outcome,
        LaunchPC, StopPC, SweepPC, tables, os, memory

\* A group of variables a step leaves alone keeps its types.
LEMMA Frame ==
    /\ TablesOK /\ UNCHANGED tables => TablesOK'
    /\ OsOK /\ UNCHANGED os => OsOK'
    /\ MemoryOK /\ UNCHANGED memory => MemoryOK'
    /\ LaunchOK /\ UNCHANGED launch => LaunchOK'
    /\ KillOK /\ UNCHANGED kill => KillOK'
    /\ SweepOK /\ UNCHANGED sweep => SweepOK'
  BY DEF TablesOK, OsOK, MemoryOK, LaunchOK, KillOK, SweepOK

\* One record of one process's memory is replaced.
LEMMA MemUpdate ==
    ASSUME mem \in [Procs -> [Runs -> MemRec]], NEW q \in Procs, NEW r \in Runs,
           NEW m \in MemRec
    PROVE  [mem EXCEPT ![q][r] = m] \in [Procs -> [Runs -> MemRec]]
  OBVIOUS

\* Every step of the specification is a step of one actor.
LEMMA TypeStep == TypeOK /\ [Next]_vars => TypeOK'
<1> SUFFICES ASSUME TypeOK, [Next]_vars PROVE TypeOK'
  OBVIOUS
<1>0. /\ TablesOK /\ OsOK /\ MemoryOK /\ LaunchOK /\ KillOK /\ SweepOK
      /\ deaths \in 0..MaxDeaths
  BY DEF TypeOK
<1>1. ASSUME NEW p \in Procs, NEW r \in Runs, Register(p, r) PROVE TypeOK'
  <2>1. TablesOK'
    BY <1>0, <1>1 DEF Register, TablesOK, RowRec, SaveRun
  <2>2. MemoryOK'
    BY <1>0, <1>1 DEF Register, MemoryOK, MemRec
  <2>3. LaunchOK'
    BY <1>0, <1>1 DEF Register, LaunchOK, LaunchRec
  <2> QED BY <1>0, <1>1, <2>1, <2>2, <2>3, Frame DEF Register, TypeOK
<1>2. ASSUME NEW r \in Runs, Acquire(r) PROVE TypeOK'
  <2>1. LaunchOK'
    BY <1>0, <1>2 DEF Acquire, LaunchOK, LaunchRec
  <2> QED BY <1>0, <1>2, <2>1, Frame DEF Acquire, TypeOK
<1>3. ASSUME NEW r \in Runs, SpawnSupervisor(r) PROVE TypeOK'
  <2>1. OsOK'
    BY <1>0, <1>3 DEF SpawnSupervisor, OsOK
  <2>2. LaunchOK'
    BY <1>0, <1>3 DEF SpawnSupervisor, LaunchOK, LaunchRec
  <2> QED BY <1>0, <1>3, <2>1, <2>2, Frame DEF SpawnSupervisor, TypeOK
<1>4. ASSUME NEW r \in Runs, LaunchError(r) PROVE TypeOK'
  <2>1. TablesOK'
    BY <1>0, <1>4 DEF LaunchError, TablesOK, RowRec, FailLaunch, SetStatus
  <2>2. MemoryOK'
    <3> DEFINE q == launch[r].by
               r0 == r
               m == IF mem[q][r].status = "absent" THEN mem[q][r] ELSE [mem[q][r] EXCEPT !.status = "failed"]
    <3>1. q \in Procs /\ r0 \in Runs
      BY <1>0, <1>4 DEF LaunchError, FailLaunch, LaunchOK
    <3>2. m \in MemRec
      <4>1. mem[q][r0] \in MemRec
        BY <1>0, <3>1 DEF MemoryOK
      <4> QED BY <4>1 DEF MemRec
    <3>3. mem' = [mem EXCEPT ![q][r0] = m]
      BY <1>0, <3>1, <1>4 DEF LaunchError, FailLaunch, MemoryOK, MemRec
    <3>4. [mem EXCEPT ![q][r0] = m] \in [Procs -> [Runs -> MemRec]]
      <4> HIDE DEF m, q, r0
      <4> QED BY <1>0, <3>1, <3>2, MemUpdate DEF MemoryOK
    <3> QED BY <1>0, <3>3, <3>4, <1>4 DEF LaunchError, FailLaunch, MemoryOK
  <2>3. LaunchOK'
    BY <1>0, <1>4 DEF LaunchError, LaunchOK, LaunchRec, FailLaunch
  <2> QED BY <1>0, <1>4, <2>1, <2>2, <2>3, Frame DEF LaunchError, TypeOK, FailLaunch
<1>5. ASSUME NEW r \in Runs, RecordError(r) PROVE TypeOK'
  <2>1. TablesOK'
    BY <1>0, <1>5 DEF RecordError, TablesOK, RowRec, FailLaunch, SetStatus
  <2>2. MemoryOK'
    <3> DEFINE q == launch[r].by
               r0 == r
               m == IF mem[q][r].status = "absent" THEN mem[q][r] ELSE [mem[q][r] EXCEPT !.status = "failed"]
    <3>1. q \in Procs /\ r0 \in Runs
      BY <1>0, <1>5 DEF RecordError, FailLaunch, LaunchOK
    <3>2. m \in MemRec
      <4>1. mem[q][r0] \in MemRec
        BY <1>0, <3>1 DEF MemoryOK
      <4> QED BY <4>1 DEF MemRec
    <3>3. mem' = [mem EXCEPT ![q][r0] = m]
      BY <1>0, <3>1, <1>5 DEF RecordError, FailLaunch, MemoryOK, MemRec
    <3>4. [mem EXCEPT ![q][r0] = m] \in [Procs -> [Runs -> MemRec]]
      <4> HIDE DEF m, q, r0
      <4> QED BY <1>0, <3>1, <3>2, MemUpdate DEF MemoryOK
    <3> QED BY <1>0, <3>3, <3>4, <1>5 DEF RecordError, FailLaunch, MemoryOK
  <2>3. LaunchOK'
    BY <1>0, <1>5 DEF RecordError, LaunchOK, LaunchRec, FailLaunch
  <2> QED BY <1>0, <1>5, <2>1, <2>2, <2>3, Frame DEF RecordError, TypeOK, FailLaunch
<1>6. ASSUME NEW r \in Runs, RecordProcess(r) PROVE TypeOK'
  <2>1. TablesOK'
    BY <1>0, <1>6 DEF RecordProcess, TablesOK, RowRec
  <2>2. MemoryOK'
    BY <1>0, <1>6 DEF RecordProcess, MemoryOK, MemRec, LaunchOK, LaunchRec
  <2>3. LaunchOK'
    BY <1>0, <1>6 DEF RecordProcess, LaunchOK, LaunchRec
  <2> QED BY <1>0, <1>6, <2>1, <2>2, <2>3, Frame DEF RecordProcess, TypeOK
<1>7. ASSUME NEW r \in Runs, Publish(r) PROVE TypeOK'
  <2>2. MemoryOK'
    <3> DEFINE q == launch[r].by
               r0 == r
               m == [mem[q][r] EXCEPT !.pgid = TRUE]
    <3>1. q \in Procs /\ r0 \in Runs
      BY <1>0, <1>7 DEF Publish, LaunchOK
    <3>2. m \in MemRec
      <4>1. mem[q][r0] \in MemRec
        BY <1>0, <3>1 DEF MemoryOK
      <4> QED BY <4>1 DEF MemRec
    <3>3. mem' = [mem EXCEPT ![q][r0] = m]
      BY <1>0, <3>1, <1>7 DEF Publish, MemoryOK, MemRec
    <3>4. [mem EXCEPT ![q][r0] = m] \in [Procs -> [Runs -> MemRec]]
      <4> HIDE DEF m, q, r0
      <4> QED BY <1>0, <3>1, <3>2, MemUpdate DEF MemoryOK
    <3> QED BY <1>0, <3>3, <3>4, <1>7 DEF Publish, MemoryOK
  <2>3. LaunchOK'
    BY <1>0, <1>7 DEF Publish, LaunchOK, LaunchRec
  <2> QED BY <1>0, <1>7, <2>2, <2>3, Frame DEF Publish, TypeOK
<1>8. ASSUME NEW r \in Runs, PublishPanics(r) PROVE TypeOK'
  <2>1. LaunchOK'
    BY <1>0, <1>8 DEF PublishPanics, LaunchOK, LaunchRec
  <2> QED BY <1>0, <1>8, <2>1, Frame DEF PublishPanics, TypeOK
<1>9. ASSUME NEW r \in Runs, WatchForGoal(r) PROVE TypeOK'
  <2>1. TablesOK'
    BY <1>0, <1>9 DEF WatchForGoal, TablesOK, RowRec
  <2>2. LaunchOK'
    BY <1>0, <1>9 DEF WatchForGoal, LaunchOK, LaunchRec
  <2> QED BY <1>0, <1>9, <2>1, <2>2, Frame DEF WatchForGoal, TypeOK
<1>10. ASSUME NEW r \in Runs, ReleasePermit(r) PROVE TypeOK'
  <2>1. LaunchOK'
    BY <1>0, <1>10 DEF ReleasePermit, LaunchOK, LaunchRec
  <2> QED BY <1>0, <1>10, <2>1, Frame DEF ReleasePermit, TypeOK
<1>11. ASSUME NEW r \in Runs, SupBootFails(r) PROVE TypeOK'
  <2>1. OsOK'
    BY <1>0, <1>11 DEF SupBootFails, OsOK
  <2> QED BY <1>0, <1>11, <2>1, Frame DEF SupBootFails, TypeOK
<1>12. ASSUME NEW r \in Runs, SupSpawnFails(r) PROVE TypeOK'
  <2>1. TablesOK'
    BY <1>0, <1>12 DEF SupSpawnFails, TablesOK, RowRec
  <2>2. OsOK'
    BY <1>0, <1>12 DEF SupSpawnFails, OsOK
  <2> QED BY <1>0, <1>12, <2>1, <2>2, Frame DEF SupSpawnFails, TypeOK
<1>13. ASSUME NEW r \in Runs, SupSpawnsHarness(r) PROVE TypeOK'
  <2>1. OsOK'
    BY <1>0, <1>13 DEF SupSpawnsHarness, OsOK
  <2> QED BY <1>0, <1>13, <2>1, Frame DEF SupSpawnsHarness, TypeOK
<1>14. ASSUME NEW r \in Runs, SupArms(r) PROVE TypeOK'
  <2>1. OsOK'
    BY <1>0, <1>14 DEF SupArms, OsOK
  <2> QED BY <1>0, <1>14, <2>1, Frame DEF SupArms, TypeOK
<1>15. ASSUME NEW r \in Runs, SupEmits(r) PROVE TypeOK'
  <2>1. TablesOK'
    BY <1>0, <1>15 DEF SupEmits, TablesOK, RowRec
  <2> QED BY <1>0, <1>15, <2>1, Frame DEF SupEmits, TypeOK
<1>16. ASSUME NEW r \in Runs, SupTakesTerm(r) PROVE TypeOK'
  <2>1. OsOK'
    BY <1>0, <1>16 DEF SupTakesTerm, OsOK
  <2> QED BY <1>0, <1>16, <2>1, Frame DEF SupTakesTerm, TypeOK
<1>17. ASSUME NEW r \in Runs, SupInsists(r) PROVE TypeOK'
  <2>1. OsOK'
    BY <1>0, <1>17 DEF SupInsists, OsOK
  <2> QED BY <1>0, <1>17, <2>1, Frame DEF SupInsists, TypeOK
<1>18. ASSUME NEW r \in Runs, SupPipesClose(r) PROVE TypeOK'
  <2>1. OsOK'
    BY <1>0, <1>18 DEF SupPipesClose, OsOK
  <2> QED BY <1>0, <1>18, <2>1, Frame DEF SupPipesClose, TypeOK
<1>19. ASSUME NEW r \in Runs, SupDrains(r) PROVE TypeOK'
  <2>1. OsOK'
    BY <1>0, <1>19 DEF SupDrains, OsOK
  <2> QED BY <1>0, <1>19, <2>1, Frame DEF SupDrains, TypeOK
<1>20. ASSUME NEW r \in Runs, SupFinishes(r) PROVE TypeOK'
  <2>1. TablesOK'
    BY <1>0, <1>20 DEF SupFinishes, TablesOK, RowRec, Finished
  <2>2. OsOK'
    BY <1>0, <1>20 DEF SupFinishes, OsOK
  <2> QED BY <1>0, <1>20, <2>1, <2>2, Frame DEF SupFinishes, TypeOK
<1>21. ASSUME NEW r \in Runs, SupSettles(r) PROVE TypeOK'
  <2>1. TablesOK'
    BY <1>0, <1>21 DEF SupSettles, TablesOK, RowRec, SetStatus, EndStatus
  <2>2. OsOK'
    BY <1>0, <1>21 DEF SupSettles, OsOK
  <2> QED BY <1>0, <1>21, <2>1, <2>2, Frame DEF SupSettles, TypeOK
<1>22. ASSUME NEW r \in Runs, SupDies(r) PROVE TypeOK'
  <2>1. OsOK'
    BY <1>0, <1>22 DEF SupDies, OsOK
  <2> QED BY <1>0, <1>22, <2>1, Frame DEF SupDies, TypeOK
<1>23. ASSUME NEW r \in Runs, HarnessExits(r) PROVE TypeOK'
  <2>1. OsOK'
    BY <1>0, <1>23 DEF HarnessExits, OsOK
  <2> QED BY <1>0, <1>23, <2>1, Frame DEF HarnessExits, TypeOK
<1>24. ASSUME NEW p \in Procs, KillBegin(p) PROVE TypeOK'
  <2>1. KillOK'
    <3> DEFINE r0 == kill[p].run
               held == IF mem[p][r0].status # "absent" THEN mem[p][r0] ELSE row[r0]
               k == [pc |-> IF held.pgid THEN "term" ELSE "mark", run |-> r0,
                     was |-> held.status = "running", pgid |-> held.pgid]
    <3>1. r0 \in Runs
      BY <1>0, <1>24 DEF KillBegin, KillOK
    <3>2. mem[p][r0] \in MemRec /\ row[r0] \in RowRec
      BY <1>0, <3>1 DEF MemoryOK, TablesOK
    <3>3. held.pgid \in BOOLEAN
      BY <3>2 DEF MemRec, RowRec
    <3>4. k \in KillRec /\ k.run \in Runs
      <4> HIDE DEF held, r0
      <4> QED BY <3>1, <3>3 DEF KillRec
    <3>5. IdleKill \in KillRec /\ IdleKill.pc = "idle"
      BY DEF IdleKill, KillRec
    <3>6. kill' = [kill EXCEPT ![p] = IF held.status = "none" THEN IdleKill ELSE k]
      BY <1>24 DEF KillBegin
    <3> QED
      <4> HIDE DEF k, held
      <4> QED BY <1>0, <3>4, <3>5, <3>6 DEF KillOK
  <2> QED BY <1>0, <1>24, <2>1, Frame DEF KillBegin, TypeOK
<1>25. ASSUME NEW p \in Procs, KillTerm(p) PROVE TypeOK'
  <2>1. OsOK'
    BY <1>0, <1>25 DEF KillTerm, OsOK, SignalTerm, KillOK, KillRec
  <2>2. KillOK'
    BY <1>0, <1>25 DEF KillTerm, KillOK, KillRec
  <2> QED BY <1>0, <1>25, <2>1, <2>2, Frame DEF KillTerm, TypeOK, SignalTerm
<1>26. ASSUME NEW p \in Procs, KillWaits(p) PROVE TypeOK'
  <2>1. KillOK'
    BY <1>0, <1>26 DEF KillWaits, KillOK, KillRec
  <2> QED BY <1>0, <1>26, <2>1, Frame DEF KillWaits, TypeOK
<1>27. ASSUME NEW p \in Procs, KillInsists(p) PROVE TypeOK'
  <2>1. OsOK'
    BY <1>0, <1>27 DEF KillInsists, OsOK, SignalKill, KillOK, KillRec
  <2>2. KillOK'
    BY <1>0, <1>27 DEF KillInsists, KillOK, KillRec
  <2> QED BY <1>0, <1>27, <2>1, <2>2, Frame DEF KillInsists, TypeOK, SignalKill
<1>28. ASSUME NEW p \in Procs, KillMark(p) PROVE TypeOK'
  <2>1. TablesOK'
    BY <1>0, <1>28 DEF KillMark, TablesOK, RowRec, SetStatus, KillOK, KillRec
  <2>2. MemoryOK'
    <3> DEFINE q == p
               r0 == kill[p].run
               m == [mem[q][r0] EXCEPT !.status = IF (kill[p].was /\ (mem[q][r0].status # "absent" => mem[q][r0].status \in {"running", "failed"})) /\ mem[q][r0].status # "absent" THEN "killed" ELSE mem[q][r0].status]
    <3>1. q \in Procs /\ r0 \in Runs
      BY <1>0, <1>28 DEF KillMark, KillOK
    <3>2. m \in MemRec
      <4>1. mem[q][r0] \in MemRec
        BY <1>0, <3>1 DEF MemoryOK
      <4> QED BY <4>1 DEF MemRec
    <3>3. mem' = [mem EXCEPT ![q][r0] = m]
      BY <1>0, <3>1, <1>28 DEF KillMark, MemoryOK, MemRec
    <3>4. [mem EXCEPT ![q][r0] = m] \in [Procs -> [Runs -> MemRec]]
      <4> HIDE DEF m, q, r0
      <4> QED BY <1>0, <3>1, <3>2, MemUpdate DEF MemoryOK
    <3> QED BY <1>0, <3>3, <3>4, <1>28 DEF KillMark, MemoryOK
  <2>3. KillOK'
    BY <1>0, <1>28 DEF KillMark, KillOK, KillRec, IdleKill
  <2> QED BY <1>0, <1>28, <2>1, <2>2, <2>3, Frame DEF KillMark, TypeOK
<1>29. ASSUME NEW p \in Procs, SweepEnded(p) PROVE TypeOK'
  <2>1. SweepOK'
    BY <1>0, <1>29 DEF SweepEnded, Decided, IdleSweep, SweepOK, SweepRec
  <2> QED BY <1>0, <1>29, <2>1, Frame DEF SweepEnded, TypeOK
<1>30. ASSUME NEW p \in Procs, SweepVanished(p) PROVE TypeOK'
  <2>1. SweepOK'
    BY <1>0, <1>30 DEF SweepVanished, Decided, IdleSweep, SweepOK, SweepRec
  <2> QED BY <1>0, <1>30, <2>1, Frame DEF SweepVanished, TypeOK
<1>31. ASSUME NEW p \in Procs, SweepBeats(p) PROVE TypeOK'
  <2>1. SweepOK'
    BY <1>0, <1>31 DEF SweepBeats, SweepOK, SweepRec, IdleSweep
  <2> QED BY <1>0, <1>31, <2>1, Frame DEF SweepBeats, TypeOK
<1>32. ASSUME NEW p \in Procs, SweepStalled(p) PROVE TypeOK'
  <2>1. SweepOK'
    BY <1>0, <1>32 DEF SweepStalled, Decided, IdleSweep, SweepOK, SweepRec
  <2> QED BY <1>0, <1>32, <2>1, Frame DEF SweepStalled, TypeOK
<1>33. ASSUME NEW p \in Procs, SweepTerm(p) PROVE TypeOK'
  <2>1. OsOK'
    BY <1>0, <1>33 DEF SweepTerm, OsOK, SignalTerm, SweepOK, SweepRec
  <2>2. SweepOK'
    BY <1>0, <1>33 DEF SweepTerm, SweepOK, SweepRec
  <2> QED BY <1>0, <1>33, <2>1, <2>2, Frame DEF SweepTerm, TypeOK, SignalTerm
<1>34. ASSUME NEW p \in Procs, SweepWaits(p) PROVE TypeOK'
  <2>1. SweepOK'
    BY <1>0, <1>34 DEF SweepWaits, SweepOK, SweepRec
  <2> QED BY <1>0, <1>34, <2>1, Frame DEF SweepWaits, TypeOK
<1>35. ASSUME NEW p \in Procs, SweepInsists(p) PROVE TypeOK'
  <2>1. OsOK'
    BY <1>0, <1>35 DEF SweepInsists, OsOK, SignalKill, SweepOK, SweepRec
  <2>2. SweepOK'
    BY <1>0, <1>35 DEF SweepInsists, SweepOK, SweepRec
  <2> QED BY <1>0, <1>35, <2>1, <2>2, Frame DEF SweepInsists, TypeOK, SignalKill
<1>36. ASSUME NEW p \in Procs, SweepFail(p) PROVE TypeOK'
  <2>1. TablesOK'
    BY <1>0, <1>36 DEF SweepFail, TablesOK, RowRec, SetStatus, SweepOK, SweepRec
  <2>2. SweepOK'
    BY <1>0, <1>36 DEF SweepFail, SweepOK, SweepRec
  <2> QED BY <1>0, <1>36, <2>1, <2>2, Frame DEF SweepFail, TypeOK
<1>37. ASSUME NEW p \in Procs, SweepLearn(p) PROVE TypeOK'
  <2>1. MemoryOK'
    <3> DEFINE q == p
               r0 == sweep[p].run
               m == [mem[q][r0] EXCEPT !.status = IF mem[q][r0].status = "running" THEN "failed" ELSE mem[q][r0].status]
    <3>1. q \in Procs /\ r0 \in Runs
      BY <1>0, <1>37 DEF SweepLearn, SweepOK
    <3>2. m \in MemRec
      <4>1. mem[q][r0] \in MemRec
        BY <1>0, <3>1 DEF MemoryOK
      <4> QED BY <4>1 DEF MemRec
    <3>3. mem' = [mem EXCEPT ![q][r0] = m]
      BY <1>0, <3>1, <1>37 DEF SweepLearn, MemoryOK, MemRec
    <3>4. [mem EXCEPT ![q][r0] = m] \in [Procs -> [Runs -> MemRec]]
      <4> HIDE DEF m, q, r0
      <4> QED BY <1>0, <3>1, <3>2, MemUpdate DEF MemoryOK
    <3> QED BY <1>0, <3>3, <3>4, <1>37 DEF SweepLearn, MemoryOK
  <2>2. SweepOK'
    BY <1>0, <1>37 DEF SweepLearn, SweepOK, SweepRec
  <2> QED BY <1>0, <1>37, <2>1, <2>2, Frame DEF SweepLearn, TypeOK
<1>38. ASSUME NEW p \in Procs, SweepUnwatch(p) PROVE TypeOK'
  <2>1. TablesOK'
    BY <1>0, <1>38 DEF SweepUnwatch, TablesOK, RowRec, SweepOK, SweepRec
  <2>2. SweepOK'
    BY <1>0, <1>38 DEF SweepUnwatch, SweepOK, SweepRec, IdleSweep
  <2> QED BY <1>0, <1>38, <2>1, <2>2, Frame DEF SweepUnwatch, TypeOK
<1>39. ASSUME NEW p \in Procs, Crash(p) PROVE TypeOK'
  <2>1. MemoryOK'
    BY <1>0, <1>39 DEF Crash, MemoryOK, MemRec, Absent
  <2>2. LaunchOK'
    BY <1>0, <1>39 DEF Crash, LaunchOK, LaunchRec
  <2>3. KillOK'
    BY <1>0, <1>39 DEF Crash, KillOK, KillRec, IdleKill
  <2>4. SweepOK'
    BY <1>0, <1>39 DEF Crash, SweepOK, SweepRec, IdleSweep
  <2>5. deaths' \in 0..MaxDeaths
    BY <1>0, <1>39, RunLifecycleAssumption DEF Crash
  <2> QED BY <1>0, <1>39, <2>1, <2>2, <2>3, <2>4, <2>5, Frame DEF Crash, TypeOK
<1>40. ASSUME NEW p \in Procs, NEW r \in Runs, FollowPull(p, r) PROVE TypeOK'
  <2>1. MemoryOK'
    BY <1>0, <1>40 DEF FollowPull, MemoryOK, MemRec, TablesOK, RowRec
  <2> QED BY <1>0, <1>40, <2>1, Frame DEF FollowPull, TypeOK
<1>41. ASSUME NEW p \in Procs, NEW r \in Runs, FollowGivesUp(p, r) PROVE TypeOK'
  <2>1. MemoryOK'
    BY <1>0, <1>41 DEF FollowGivesUp, MemoryOK, MemRec
  <2> QED BY <1>0, <1>41, <2>1, Frame DEF FollowGivesUp, TypeOK
<1>42. ASSUME NEW p \in Procs, NEW r \in Runs, ApplyEnvelope(p, r) PROVE TypeOK'
  <2>1. TablesOK'
    BY <1>0, <1>42 DEF ApplyEnvelope, TablesOK, RowRec, MemoryOK, MemRec
  <2>2. MemoryOK'
    <3> DEFINE m == [status |-> Applied(mem[p][r].status, chan[p][r]), pgid |-> mem[p][r].pgid]
    <3>1. mem[p][r] \in MemRec
      BY <1>0 DEF MemoryOK
    <3>2. m \in MemRec
      BY <3>1 DEF MemRec, Applied
    <3>3. /\ mem' = [mem EXCEPT ![p][r] = m]
          /\ save' = [save EXCEPT ![p][r] = m]
          /\ chan' = [chan EXCEPT ![p][r] = "empty"]
          /\ UNCHANGED follow
      BY <1>42 DEF ApplyEnvelope
    <3> QED
      <4> HIDE DEF m
      <4> QED BY <1>0, <3>2, <3>3 DEF MemoryOK
  <2> QED BY <1>0, <1>42, <2>1, <2>2, Frame DEF ApplyEnvelope, TypeOK
<1>43. ASSUME NEW p \in Procs, NEW r \in Runs, SaveSummary(p, r) PROVE TypeOK'
  <2>1. TablesOK'
    BY <1>0, <1>43 DEF SaveSummary, TablesOK, RowRec, SaveRun, MemoryOK, MemRec
  <2>2. MemoryOK'
    BY <1>0, <1>43 DEF SaveSummary, MemoryOK, MemRec, Absent
  <2> QED BY <1>0, <1>43, <2>1, <2>2, Frame DEF SaveSummary, TypeOK
<1>44. ASSUME NEW p \in Procs, NEW r \in Runs, Rehydrate(p, r) PROVE TypeOK'
  <2>1. MemoryOK'
    BY <1>0, <1>44 DEF Rehydrate, MemoryOK, MemRec, Applied, TablesOK, RowRec
  <2> QED BY <1>0, <1>44, <2>1, Frame DEF Rehydrate, TypeOK
<1>45. ASSUME NEW p \in Procs, NEW r \in Runs, KillAsk(p, r) PROVE TypeOK'
  <2>1. KillOK'
    BY <1>0, <1>45 DEF KillAsk, KillOK, KillRec, IdleKill
  <2> QED BY <1>0, <1>45, <2>1, Frame DEF KillAsk, TypeOK
<1>46. ASSUME NEW p \in Procs, NEW r \in Runs, SweepRead(p, r) PROVE TypeOK'
  <2>1. SweepOK'
    BY <1>0, <1>46 DEF SweepRead, SweepOK, SweepRec, TablesOK, RowRec
  <2> QED BY <1>0, <1>46, <2>1, Frame DEF SweepRead, TypeOK
<1>47. ASSUME NEW p \in Procs, NEW r \in Runs, Forget(p, r) PROVE TypeOK'
  <2>1. TablesOK'
    <3>1. CASE row[r].status = "none"
      BY <1>0, <3>1, <1>47, Frame DEF Forget
    <3>2. CASE row[r].status # "none"
      <4>1. /\ row' = [row EXCEPT ![r] = [status |-> "none", pgid |-> FALSE]]
            /\ watch' = [watch EXCEPT ![r] = "none"]
            /\ log' = [log EXCEPT ![r] = "empty"]
        BY <3>2, <1>47 DEF Forget
      <4> QED BY <1>0, <4>1 DEF TablesOK, RowRec
    <3> QED BY <3>1, <3>2
  <2>2. MemoryOK'
    BY <1>0, <1>47 DEF Forget, MemoryOK, MemRec, Absent
  <2> QED BY <1>0, <1>47, <2>1, <2>2, Frame DEF Forget, TypeOK
<1>49. ASSUME NEW r \in Runs, WatchRun(r) PROVE TypeOK'
  <2>1. TablesOK'
    BY <1>0, <1>49 DEF WatchRun, TablesOK, RowRec, Watching
  <2>2. LaunchOK'
    BY <1>0, <1>49 DEF WatchRun, LaunchOK, LaunchRec
  <2> QED BY <1>0, <1>49, <2>1, <2>2, Frame DEF WatchRun, TypeOK
<1>50. ASSUME NEW r \in Runs, WatchRefused(r) PROVE TypeOK'
  <2>1. TablesOK'
    BY <1>0, <1>50 DEF WatchRefused, TablesOK, RowRec, Watching
  <2>2. LaunchOK'
    BY <1>0, <1>50 DEF WatchRefused, LaunchOK, LaunchRec
  <2> QED BY <1>0, <1>50, <2>1, <2>2, Frame DEF WatchRefused, TypeOK
<1>51. ASSUME NEW r \in Runs, GoalWatchRefused(r) PROVE TypeOK'
  <2>1. LaunchOK'
    BY <1>0, <1>51 DEF GoalWatchRefused, LaunchOK, LaunchRec
  <2> QED BY <1>0, <1>51, <2>1, Frame DEF GoalWatchRefused, TypeOK
<1>52. ASSUME NEW p \in Procs, SweepRefused(p) PROVE TypeOK'
  <2>1. SweepOK'
    BY <1>0, <1>52 DEF SweepRefused, SweepOK, SweepRec, IdleSweep
  <2> QED BY <1>0, <1>52, <2>1, Frame DEF SweepRefused, TypeOK
<1>53. ASSUME NEW p \in Procs, SweepBreaksOff(p) PROVE TypeOK'
  <2>1. SweepOK'
    BY <1>0, <1>53 DEF SweepBreaksOff, SweepOK, SweepRec, IdleSweep
  <2> QED BY <1>0, <1>53, <2>1, Frame DEF SweepBreaksOff, TypeOK
<1>48. CASE UNCHANGED vars
  BY <1>0, <1>48, Frame DEF vars, TypeOK
<1> QED
  BY <1>1, <1>2, <1>3, <1>4, <1>5, <1>6, <1>7, <1>8, <1>9, <1>10, <1>11, <1>12, <1>13,
      <1>14, <1>15, <1>16, <1>17, <1>18, <1>19, <1>20, <1>21, <1>22, <1>23, <1>24, <1>25,
      <1>26, <1>27, <1>28, <1>29, <1>30, <1>31, <1>32, <1>33, <1>34, <1>35, <1>36, <1>37,
      <1>38, <1>39, <1>40, <1>41, <1>42, <1>43, <1>44, <1>45, <1>46, <1>47, <1>48,
      <1>49, <1>50, <1>51, <1>52, <1>53
  DEF Next, LaunchStep, SupStep, KillStep, SweepStep, ProcStep

\* Before anything was asked for, every variable is within its vocabulary.
LEMMA InitTypes == Init => TypeOK
  BY RunLifecycleAssumption
  DEF Init, TypeOK, TablesOK, OsOK, MemoryOK, LaunchOK, KillOK, SweepOK, RowRec, MemRec,
      LaunchRec, KillRec, SweepRec, IdleKill, IdleSweep, Absent

\* Type correctness: no step of any process, supervisor or sweep writes a status,
\* a phase or a run outside its vocabulary, whatever the order of the steps.
THEOREM TypeCorrect == Spec => []TypeOK
  BY InitTypes, TypeStep, PTL DEF Spec

(***************************************************************************)
(* The inductive invariant.                                                *)
(***************************************************************************)
\* What no step undoes: a harness that is over stays over, a supervisor that was
\* started was started, one that is gone is gone.
Progress ==
    \A r \in Runs :
        /\ Over(r) => Over(r)'
        /\ sup[r] # "none" => sup'[r] # "none"
        /\ sup[r] # "none" /\ ~GroupAlive(r) => ~GroupAlive(r)'

\* A part of the invariant whose own variables a step leaves alone survives
\* whatever progress the processes make.
LEMMA InvFrame ==
    ASSUME IInv
    PROVE  /\ UNCHANGED <<sup, child>> => Progress
           /\ UNCHANGED <<launch, sup>> => LaunchInv'
           /\ UNCHANGED <<sup, child>> => OsInv'
           /\ Progress /\ UNCHANGED <<log, chan, save>> => LogInv'
           /\ Progress /\ UNCHANGED <<row, mem, save>> => PgidInv'
           /\ Progress /\ UNCHANGED <<row, mem>> => CompletedIsOver'
           /\ Progress /\ UNCHANGED kill => KillInv'
           /\ Progress /\ UNCHANGED kill => StoppedMeansStopped'
<1> USE DEF IInv, TypeOK
<1>1. UNCHANGED <<sup, child>> => Progress
  BY DEF Progress, Over, GroupAlive
<1>2. UNCHANGED <<launch, sup>> => LaunchInv'
  BY DEF LaunchInv
<1>3. UNCHANGED <<sup, child>> => OsInv'
  BY DEF OsInv, Over
<1>4. Progress /\ UNCHANGED <<log, chan, save>> => LogInv'
  BY DEF LogInv, Progress
<1>5. Progress /\ UNCHANGED <<row, mem, save>> => PgidInv'
  BY DEF PgidInv, Progress
<1>6. Progress /\ UNCHANGED <<row, mem>> => CompletedIsOver'
  BY DEF CompletedIsOver, Progress
<1>7. Progress /\ UNCHANGED kill => KillInv'
  BY DEF KillInv, KillOK, Progress
<1>8. Progress /\ UNCHANGED kill => StoppedMeansStopped'
  BY DEF StoppedMeansStopped, KillInv, KillOK, Progress, StopPC
<1> QED BY <1>1, <1>2, <1>3, <1>4, <1>5, <1>6, <1>7, <1>8

\* Every step preserves the invariant: per action, the parts it can disturb.
LEMMA InvStep == IInv /\ [Next]_vars => IInv'
<1> SUFFICES ASSUME IInv, [Next]_vars PROVE IInv'
  OBVIOUS
<1>0. /\ TablesOK /\ OsOK /\ MemoryOK /\ LaunchOK /\ KillOK
      /\ LaunchInv /\ OsInv /\ LogInv /\ PgidInv /\ KillInv
      /\ CompletedIsOver /\ StoppedMeansStopped
  BY DEF IInv, TypeOK
<1>t. TypeOK'
  BY TypeStep DEF IInv
<1>i. LaunchInv' /\ OsInv' /\ LogInv' /\ PgidInv' /\ KillInv' /\ CompletedIsOver'
        /\ StoppedMeansStopped' => IInv'
  BY <1>t DEF IInv
<1>1. ASSUME NEW p \in Procs, NEW r \in Runs, Register(p, r) PROVE IInv'
  <2>1. Progress
    BY <1>1, InvFrame DEF Register
  <2>2. LaunchInv'
    BY <1>0, <1>1, <2>1 DEF Register, SaveRun, LaunchInv, LaunchOK, LaunchRec, OsOK
  <2>3. PgidInv'
    BY <1>0, <1>1, <2>1 DEF Register, SaveRun, PgidInv, TablesOK, MemoryOK, RowRec,
        MemRec, Progress
  <2>4. CompletedIsOver'
    BY <1>0, <1>1, <2>1 DEF Register, SaveRun, CompletedIsOver, TablesOK, MemoryOK,
        RowRec, MemRec, Over, Progress
  <2> QED BY <1>i, <1>1, <2>1, <2>2, <2>3, <2>4, InvFrame DEF Register
<1>2. ASSUME NEW r \in Runs, Acquire(r) PROVE IInv'
  <2>1. Progress
    BY <1>2, InvFrame DEF Acquire
  <2>2. LaunchInv'
    BY <1>0, <1>2, <2>1 DEF Acquire, LaunchInv, LaunchOK, LaunchRec, OsOK
  <2> QED BY <1>i, <1>2, <2>1, <2>2, InvFrame DEF Acquire
<1>3. ASSUME NEW r \in Runs, SpawnSupervisor(r) PROVE IInv'
  <2>1. Progress
    BY <1>0, <1>3 DEF SpawnSupervisor, Progress, LaunchInv, OsInv, OsOK, Over, GroupAlive
  <2>2. LaunchInv'
    BY <1>0, <1>3, <2>1 DEF SpawnSupervisor, LaunchInv, LaunchOK, LaunchRec, OsOK
  <2>3. OsInv'
    BY <1>0, <1>3, <2>1 DEF SpawnSupervisor, OsInv, OsOK, Over, LaunchInv, LaunchOK,
        LaunchRec
  <2> QED BY <1>i, <1>3, <2>1, <2>2, <2>3, InvFrame DEF SpawnSupervisor
<1>4. ASSUME NEW r \in Runs, LaunchError(r) PROVE IInv'
  <2>1. Progress
    BY <1>4, InvFrame DEF LaunchError, FailLaunch, SetStatus
  <2>2. LaunchInv'
    BY <1>0, <1>4, <2>1 DEF LaunchError, FailLaunch, SetStatus, LaunchInv, LaunchOK,
        LaunchRec, OsOK
  <2>3. PgidInv'
    <3>1. \A q \in Procs, s \in Runs : mem'[q][s].pgid = mem[q][s].pgid
      BY <1>0, <1>4 DEF LaunchError, FailLaunch, MemoryOK, MemRec, LaunchOK, LaunchRec
    <3>2. \A s \in Runs : row'[s].pgid = row[s].pgid
      BY <1>0, <1>4 DEF LaunchError, FailLaunch, SetStatus, TablesOK, RowRec, LaunchOK,
          LaunchRec
    <3>3. UNCHANGED save
      BY <1>4 DEF LaunchError, FailLaunch
    <3> QED BY <1>0, <2>1, <3>1, <3>2, <3>3 DEF PgidInv, Progress
  <2>4. CompletedIsOver'
    BY <1>0, <1>4, <2>1 DEF LaunchError, FailLaunch, SetStatus, CompletedIsOver,
        TablesOK, MemoryOK, RowRec, MemRec, Over, Progress
  <2> QED BY <1>i, <1>4, <2>1, <2>2, <2>3, <2>4, InvFrame DEF LaunchError, FailLaunch
<1>5. ASSUME NEW r \in Runs, RecordError(r) PROVE IInv'
  <2>1. Progress
    BY <1>5, InvFrame DEF RecordError, FailLaunch, SetStatus
  <2>2. LaunchInv'
    BY <1>0, <1>5, <2>1 DEF RecordError, FailLaunch, SetStatus, LaunchInv, LaunchOK,
        LaunchRec, OsOK
  <2>3. PgidInv'
    <3>1. \A q \in Procs, s \in Runs : mem'[q][s].pgid = mem[q][s].pgid
      BY <1>0, <1>5 DEF RecordError, FailLaunch, MemoryOK, MemRec, LaunchOK, LaunchRec
    <3>2. \A s \in Runs : row'[s].pgid = row[s].pgid
      BY <1>0, <1>5 DEF RecordError, FailLaunch, SetStatus, TablesOK, RowRec, LaunchOK,
          LaunchRec
    <3>3. UNCHANGED save
      BY <1>5 DEF RecordError, FailLaunch
    <3> QED BY <1>0, <2>1, <3>1, <3>2, <3>3 DEF PgidInv, Progress
  <2>4. CompletedIsOver'
    BY <1>0, <1>5, <2>1 DEF RecordError, FailLaunch, SetStatus, CompletedIsOver,
        TablesOK, MemoryOK, RowRec, MemRec, Over, Progress
  <2> QED BY <1>i, <1>5, <2>1, <2>2, <2>3, <2>4, InvFrame DEF RecordError, FailLaunch
<1>6. ASSUME NEW r \in Runs, RecordProcess(r) PROVE IInv'
  <2>1. Progress
    BY <1>6, InvFrame DEF RecordProcess
  <2>2. LaunchInv'
    BY <1>0, <1>6, <2>1 DEF RecordProcess, LaunchInv, LaunchOK, LaunchRec, OsOK
  <2>3. PgidInv'
    BY <1>0, <1>6, <2>1 DEF RecordProcess, PgidInv, TablesOK, MemoryOK, RowRec, MemRec,
        Progress, LaunchInv
  <2>4. CompletedIsOver'
    BY <1>0, <1>6, <2>1 DEF RecordProcess, CompletedIsOver, TablesOK, MemoryOK, RowRec,
        MemRec, Over, Progress
  <2> QED BY <1>i, <1>6, <2>1, <2>2, <2>3, <2>4, InvFrame DEF RecordProcess
<1>7. ASSUME NEW r \in Runs, Publish(r) PROVE IInv'
  <2>1. Progress
    BY <1>7, InvFrame DEF Publish
  <2>2. LaunchInv'
    BY <1>0, <1>7, <2>1 DEF Publish, LaunchInv, LaunchOK, LaunchRec, OsOK
  <2>3. PgidInv'
    BY <1>0, <1>7, <2>1 DEF Publish, PgidInv, TablesOK, MemoryOK,
        RowRec, MemRec, Progress, LaunchInv, LaunchOK, LaunchRec
  <2>4. CompletedIsOver'
    BY <1>0, <1>7, <2>1 DEF Publish, CompletedIsOver, TablesOK,
        MemoryOK, RowRec, MemRec, Over, Progress
  <2> QED BY <1>i, <1>7, <2>1, <2>2, <2>3, <2>4, InvFrame DEF Publish
<1>8. ASSUME NEW r \in Runs, PublishPanics(r) PROVE IInv'
  <2>1. Progress
    BY <1>8, InvFrame DEF PublishPanics
  <2>2. LaunchInv'
    BY <1>0, <1>8, <2>1 DEF PublishPanics, LaunchInv, LaunchOK, LaunchRec, OsOK
  <2> QED BY <1>i, <1>8, <2>1, <2>2, InvFrame DEF PublishPanics
<1>9. ASSUME NEW r \in Runs, WatchForGoal(r) PROVE IInv'
  <2>1. Progress
    BY <1>9, InvFrame DEF WatchForGoal
  <2>2. LaunchInv'
    BY <1>0, <1>9, <2>1 DEF WatchForGoal, LaunchInv, LaunchOK, LaunchRec, OsOK
  <2> QED BY <1>i, <1>9, <2>1, <2>2, InvFrame DEF WatchForGoal
<1>10. ASSUME NEW r \in Runs, ReleasePermit(r) PROVE IInv'
  <2>1. Progress
    BY <1>10, InvFrame DEF ReleasePermit
  <2>2. LaunchInv'
    BY <1>0, <1>10, <2>1 DEF ReleasePermit, LaunchInv, LaunchOK, LaunchRec, OsOK
  <2> QED BY <1>i, <1>10, <2>1, <2>2, InvFrame DEF ReleasePermit
<1>11. ASSUME NEW r \in Runs, SupBootFails(r) PROVE IInv'
  <2>1. Progress
    BY <1>0, <1>11 DEF SupBootFails, Progress, LaunchInv, OsInv, OsOK, Over, GroupAlive
  <2>2. LaunchInv'
    BY <1>0, <1>11, <2>1 DEF SupBootFails, LaunchInv, LaunchOK, LaunchRec, OsOK
  <2>3. OsInv'
    BY <1>0, <1>11, <2>1 DEF SupBootFails, OsInv, OsOK, Over
  <2> QED BY <1>i, <1>11, <2>1, <2>2, <2>3, InvFrame DEF SupBootFails
<1>12. ASSUME NEW r \in Runs, SupSpawnFails(r) PROVE IInv'
  <2>1. Progress
    BY <1>0, <1>12 DEF SupSpawnFails, Progress, LaunchInv, OsInv, OsOK, Over, GroupAlive
  <2>2. LaunchInv'
    BY <1>0, <1>12, <2>1 DEF SupSpawnFails, LaunchInv, LaunchOK, LaunchRec, OsOK
  <2>3. OsInv'
    BY <1>0, <1>12, <2>1 DEF SupSpawnFails, OsInv, OsOK, Over
  <2>4. LogInv'
    BY <1>0, <1>12, <2>1 DEF SupSpawnFails, LogInv, TablesOK, MemoryOK, MemRec, Over,
        OsInv, Progress, OsOK
  <2> QED BY <1>i, <1>12, <2>1, <2>2, <2>3, <2>4, InvFrame DEF SupSpawnFails
<1>13. ASSUME NEW r \in Runs, SupSpawnsHarness(r) PROVE IInv'
  <2>1. Progress
    BY <1>0, <1>13 DEF SupSpawnsHarness, Progress, LaunchInv, OsInv, OsOK, Over, GroupAlive
  <2>2. LaunchInv'
    BY <1>0, <1>13, <2>1 DEF SupSpawnsHarness, LaunchInv, LaunchOK, LaunchRec, OsOK
  <2>3. OsInv'
    BY <1>0, <1>13, <2>1 DEF SupSpawnsHarness, OsInv, OsOK, Over
  <2> QED BY <1>i, <1>13, <2>1, <2>2, <2>3, InvFrame DEF SupSpawnsHarness
<1>14. ASSUME NEW r \in Runs, SupArms(r) PROVE IInv'
  <2>1. Progress
    BY <1>0, <1>14 DEF SupArms, Progress, LaunchInv, OsInv, OsOK, Over, GroupAlive
  <2>2. LaunchInv'
    BY <1>0, <1>14, <2>1 DEF SupArms, LaunchInv, LaunchOK, LaunchRec, OsOK
  <2>3. OsInv'
    BY <1>0, <1>14, <2>1 DEF SupArms, OsInv, OsOK, Over
  <2> QED BY <1>i, <1>14, <2>1, <2>2, <2>3, InvFrame DEF SupArms
<1>15. ASSUME NEW r \in Runs, SupEmits(r) PROVE IInv'
  <2>1. Progress
    BY <1>15, InvFrame DEF SupEmits
  <2>2. LogInv'
    BY <1>0, <1>15, <2>1 DEF SupEmits, LogInv, TablesOK, MemoryOK, MemRec, Over, OsInv,
        Progress
  <2> QED BY <1>i, <1>15, <2>1, <2>2, InvFrame DEF SupEmits
<1>16. ASSUME NEW r \in Runs, SupTakesTerm(r) PROVE IInv'
  <2>1. Progress
    BY <1>16, InvFrame DEF SupTakesTerm
  <2> QED BY <1>i, <1>16, <2>1, InvFrame DEF SupTakesTerm
<1>17. ASSUME NEW r \in Runs, SupInsists(r) PROVE IInv'
  <2>1. Progress
    BY <1>0, <1>17 DEF SupInsists, Progress, LaunchInv, OsInv, OsOK, Over, GroupAlive
  <2>2. OsInv'
    BY <1>0, <1>17, <2>1 DEF SupInsists, OsInv, OsOK, Over
  <2> QED BY <1>i, <1>17, <2>1, <2>2, InvFrame DEF SupInsists
<1>18. ASSUME NEW r \in Runs, SupPipesClose(r) PROVE IInv'
  <2>1. Progress
    BY <1>0, <1>18 DEF SupPipesClose, Progress, LaunchInv, OsInv, OsOK, Over, GroupAlive
  <2>2. LaunchInv'
    BY <1>0, <1>18, <2>1 DEF SupPipesClose, LaunchInv, LaunchOK, LaunchRec, OsOK
  <2>3. OsInv'
    BY <1>0, <1>18, <2>1 DEF SupPipesClose, OsInv, OsOK, Over
  <2> QED BY <1>i, <1>18, <2>1, <2>2, <2>3, InvFrame DEF SupPipesClose
<1>19. ASSUME NEW r \in Runs, SupDrains(r) PROVE IInv'
  <2>1. Progress
    BY <1>0, <1>19 DEF SupDrains, Progress, LaunchInv, OsInv, OsOK, Over, GroupAlive
  <2>2. LaunchInv'
    BY <1>0, <1>19, <2>1 DEF SupDrains, LaunchInv, LaunchOK, LaunchRec, OsOK
  <2>3. OsInv'
    BY <1>0, <1>19, <2>1 DEF SupDrains, OsInv, OsOK, Over
  <2> QED BY <1>i, <1>19, <2>1, <2>2, <2>3, InvFrame DEF SupDrains
<1>20. ASSUME NEW r \in Runs, SupFinishes(r) PROVE IInv'
  <2>1. Progress
    BY <1>0, <1>20 DEF SupFinishes, Finished, Progress, LaunchInv, OsInv, OsOK, Over,
        GroupAlive
  <2>2. LaunchInv'
    BY <1>0, <1>20, <2>1 DEF SupFinishes, Finished, LaunchInv, LaunchOK, LaunchRec, OsOK
  <2>3. OsInv'
    BY <1>0, <1>20, <2>1 DEF SupFinishes, Finished, OsInv, OsOK, Over
  <2>4. LogInv'
    BY <1>0, <1>20, <2>1 DEF SupFinishes, Finished, LogInv, TablesOK, MemoryOK, MemRec,
        Over, OsInv, Progress
  <2> QED BY <1>i, <1>20, <2>1, <2>2, <2>3, <2>4, InvFrame DEF SupFinishes
<1>21. ASSUME NEW r \in Runs, SupSettles(r) PROVE IInv'
  <2>1. Progress
    BY <1>0, <1>21 DEF SupSettles, SetStatus, EndStatus, Progress, LaunchInv, OsInv,
        OsOK, Over, GroupAlive
  <2>2. LaunchInv'
    BY <1>0, <1>21, <2>1 DEF SupSettles, SetStatus, EndStatus, LaunchInv, LaunchOK,
        LaunchRec, OsOK
  <2>3. OsInv'
    BY <1>0, <1>21, <2>1 DEF SupSettles, SetStatus, EndStatus, OsInv, OsOK, Over
  <2>4. PgidInv'
    BY <1>0, <1>21, <2>1 DEF SupSettles, SetStatus, EndStatus, PgidInv, TablesOK,
        MemoryOK, RowRec, MemRec, Progress
  <2>5. CompletedIsOver'
    BY <1>0, <1>21, <2>1 DEF SupSettles, SetStatus, EndStatus, CompletedIsOver, TablesOK,
        MemoryOK, RowRec, MemRec, Over, Progress, OsInv
  <2> QED BY <1>i, <1>21, <2>1, <2>2, <2>3, <2>4, <2>5, InvFrame DEF SupSettles
<1>22. ASSUME NEW r \in Runs, SupDies(r) PROVE IInv'
  <2>1. Progress
    BY <1>0, <1>22 DEF SupDies, Progress, LaunchInv, OsInv, OsOK, Over, GroupAlive
  <2>2. LaunchInv'
    BY <1>0, <1>22, <2>1 DEF SupDies, LaunchInv, LaunchOK, LaunchRec, OsOK
  <2>3. OsInv'
    BY <1>0, <1>22, <2>1 DEF SupDies, OsInv, OsOK, Over
  <2> QED BY <1>i, <1>22, <2>1, <2>2, <2>3, InvFrame DEF SupDies
<1>23. ASSUME NEW r \in Runs, HarnessExits(r) PROVE IInv'
  <2>1. Progress
    BY <1>0, <1>23 DEF HarnessExits, Progress, LaunchInv, OsInv, OsOK, Over, GroupAlive
  <2>2. OsInv'
    BY <1>0, <1>23, <2>1 DEF HarnessExits, OsInv, OsOK, Over
  <2> QED BY <1>i, <1>23, <2>1, <2>2, InvFrame DEF HarnessExits
<1>24. ASSUME NEW p \in Procs, KillBegin(p) PROVE IInv'
  <2>1. Progress
    BY <1>24, InvFrame DEF KillBegin
  <2>2. KillInv'
    BY <1>0, <1>24, <2>1 DEF KillBegin, IdleKill, KillInv, KillOK, KillRec, Progress,
        PgidInv, TablesOK, MemoryOK, RowRec, MemRec
  <2>3. StoppedMeansStopped'
    BY <1>0, <1>24, <2>1 DEF KillBegin, IdleKill, StoppedMeansStopped, KillOK, KillRec,
        GroupAlive, Progress
  <2> QED BY <1>i, <1>24, <2>1, <2>2, <2>3, InvFrame DEF KillBegin
<1>25. ASSUME NEW p \in Procs, KillTerm(p) PROVE IInv'
  <2>1. Progress
    BY <1>0, <1>25 DEF KillTerm, SignalTerm, Progress, LaunchInv, OsInv, OsOK, Over,
        GroupAlive, KillOK
  <2>2. LaunchInv'
    BY <1>0, <1>25, <2>1 DEF KillTerm, SignalTerm, LaunchInv, LaunchOK, LaunchRec, OsOK,
        KillOK
  <2>3. OsInv'
    BY <1>0, <1>25, <2>1 DEF KillTerm, SignalTerm, OsInv, OsOK, Over, KillOK
  <2>4. KillInv'
    BY <1>0, <1>25, <2>1 DEF KillTerm, SignalTerm, KillInv, KillOK, KillRec, Progress
  <2>5. StoppedMeansStopped'
    BY <1>0, <1>25, <2>1 DEF KillTerm, SignalTerm, StoppedMeansStopped, KillOK, KillRec,
        GroupAlive, Progress
  <2> QED BY <1>i, <1>25, <2>1, <2>2, <2>3, <2>4, <2>5, InvFrame DEF KillTerm, SignalTerm
<1>26. ASSUME NEW p \in Procs, KillWaits(p) PROVE IInv'
  <2>1. Progress
    BY <1>26, InvFrame DEF KillWaits
  <2>2. KillInv'
    BY <1>0, <1>26, <2>1 DEF KillWaits, KillInv, KillOK, KillRec, Progress
  <2>3. StoppedMeansStopped'
    BY <1>0, <1>26, <2>1 DEF KillWaits, StoppedMeansStopped, KillOK, KillRec, GroupAlive,
        Progress
  <2> QED BY <1>i, <1>26, <2>1, <2>2, <2>3, InvFrame DEF KillWaits
<1>27. ASSUME NEW p \in Procs, KillInsists(p) PROVE IInv'
  <2>1. Progress
    BY <1>0, <1>27 DEF KillInsists, SignalKill, Progress, LaunchInv, OsInv, OsOK, Over,
        GroupAlive, KillOK
  <2>2. LaunchInv'
    BY <1>0, <1>27, <2>1 DEF KillInsists, SignalKill, LaunchInv, LaunchOK, LaunchRec,
        OsOK, KillOK
  <2>3. OsInv'
    BY <1>0, <1>27, <2>1 DEF KillInsists, SignalKill, OsInv, OsOK, Over, KillOK
  <2>4. KillInv'
    BY <1>0, <1>27, <2>1 DEF KillInsists, SignalKill, KillInv, KillOK, KillRec, Progress
  <2>5. StoppedMeansStopped'
    BY <1>0, <1>27, <2>1 DEF KillInsists, SignalKill, StoppedMeansStopped, KillOK,
        KillRec, GroupAlive, Progress, OsOK
  <2> QED BY <1>i, <1>27, <2>1, <2>2, <2>3, <2>4, <2>5, InvFrame DEF KillInsists, SignalKill
<1>28. ASSUME NEW p \in Procs, KillMark(p) PROVE IInv'
  <2>1. Progress
    BY <1>28, InvFrame DEF KillMark
  <2>2. KillInv'
    BY <1>0, <1>28, <2>1 DEF KillMark, SetStatus, IdleKill, KillInv, KillOK, KillRec,
        Progress
  <2>3. StoppedMeansStopped'
    BY <1>0, <1>28, <2>1 DEF KillMark, SetStatus, IdleKill, StoppedMeansStopped, KillOK,
        KillRec, GroupAlive, Progress
  <2>4. PgidInv'
    <3>1. \A q \in Procs, s \in Runs : mem'[q][s].pgid = mem[q][s].pgid
      BY <1>0, <1>28 DEF KillMark, MemoryOK, MemRec, KillOK
    <3>2. \A s \in Runs : row'[s].pgid = row[s].pgid
      BY <1>0, <1>28 DEF KillMark, SetStatus, TablesOK, RowRec, KillOK
    <3>3. UNCHANGED save
      BY <1>28 DEF KillMark
    <3> QED BY <1>0, <2>1, <3>1, <3>2, <3>3 DEF PgidInv, Progress
  <2>5. CompletedIsOver'
    BY <1>0, <1>28, <2>1 DEF KillMark, SetStatus, IdleKill, CompletedIsOver, TablesOK,
        MemoryOK, RowRec, MemRec, Over, Progress, KillOK
  <2> QED BY <1>i, <1>28, <2>1, <2>2, <2>3, <2>4, <2>5, InvFrame DEF KillMark
<1>29. ASSUME NEW p \in Procs, SweepEnded(p) PROVE IInv'
  <2>1. Progress
    BY <1>29, InvFrame DEF SweepEnded
  <2> QED BY <1>i, <1>29, <2>1, InvFrame DEF SweepEnded
<1>30. ASSUME NEW p \in Procs, SweepVanished(p) PROVE IInv'
  <2>1. Progress
    BY <1>30, InvFrame DEF SweepVanished
  <2> QED BY <1>i, <1>30, <2>1, InvFrame DEF SweepVanished
<1>31. ASSUME NEW p \in Procs, SweepBeats(p) PROVE IInv'
  <2>1. Progress
    BY <1>31, InvFrame DEF SweepBeats
  <2> QED BY <1>i, <1>31, <2>1, InvFrame DEF SweepBeats
<1>32. ASSUME NEW p \in Procs, SweepStalled(p) PROVE IInv'
  <2>1. Progress
    BY <1>32, InvFrame DEF SweepStalled
  <2> QED BY <1>i, <1>32, <2>1, InvFrame DEF SweepStalled
<1>33. ASSUME NEW p \in Procs, SweepTerm(p) PROVE IInv'
  <2>1. Progress
    BY <1>0, <1>33 DEF SweepTerm, SignalTerm, Progress, LaunchInv, OsInv, OsOK, Over,
        GroupAlive, SweepOK
  <2>2. LaunchInv'
    BY <1>0, <1>33, <2>1 DEF SweepTerm, SignalTerm, LaunchInv, LaunchOK, LaunchRec, OsOK,
        SweepOK
  <2>3. OsInv'
    BY <1>0, <1>33, <2>1 DEF SweepTerm, SignalTerm, OsInv, OsOK, Over, SweepOK
  <2> QED BY <1>i, <1>33, <2>1, <2>2, <2>3, InvFrame DEF SweepTerm, SignalTerm
<1>34. ASSUME NEW p \in Procs, SweepWaits(p) PROVE IInv'
  <2>1. Progress
    BY <1>34, InvFrame DEF SweepWaits
  <2> QED BY <1>i, <1>34, <2>1, InvFrame DEF SweepWaits
<1>35. ASSUME NEW p \in Procs, SweepInsists(p) PROVE IInv'
  <2>1. Progress
    BY <1>0, <1>35 DEF SweepInsists, SignalKill, Progress, LaunchInv, OsInv, OsOK, Over,
        GroupAlive, SweepOK
  <2>2. LaunchInv'
    BY <1>0, <1>35, <2>1 DEF SweepInsists, SignalKill, LaunchInv, LaunchOK, LaunchRec,
        OsOK, SweepOK
  <2>3. OsInv'
    BY <1>0, <1>35, <2>1 DEF SweepInsists, SignalKill, OsInv, OsOK, Over, SweepOK
  <2> QED BY <1>i, <1>35, <2>1, <2>2, <2>3, InvFrame DEF SweepInsists, SignalKill
<1>36. ASSUME NEW p \in Procs, SweepFail(p) PROVE IInv'
  <2>1. Progress
    BY <1>36, InvFrame DEF SweepFail
  <2>2. PgidInv'
    BY <1>0, <1>36, <2>1 DEF SweepFail, SetStatus, PgidInv, TablesOK, MemoryOK, RowRec,
        MemRec, Progress, SweepOK
  <2>3. CompletedIsOver'
    BY <1>0, <1>36, <2>1 DEF SweepFail, SetStatus, CompletedIsOver, TablesOK, MemoryOK,
        RowRec, MemRec, Over, Progress, SweepOK
  <2> QED BY <1>i, <1>36, <2>1, <2>2, <2>3, InvFrame DEF SweepFail
<1>37. ASSUME NEW p \in Procs, SweepLearn(p) PROVE IInv'
  <2>1. Progress
    BY <1>37, InvFrame DEF SweepLearn
  <2>2. PgidInv'
    <3>1. \A q \in Procs, s \in Runs : mem'[q][s].pgid = mem[q][s].pgid
      BY <1>0, <1>37 DEF SweepLearn, MemoryOK, MemRec, SweepOK
    <3>2. \A s \in Runs : row'[s].pgid = row[s].pgid
      BY <1>0, <1>37 DEF SweepLearn, TablesOK, RowRec, SweepOK
    <3>3. UNCHANGED save
      BY <1>37 DEF SweepLearn
    <3> QED BY <1>0, <2>1, <3>1, <3>2, <3>3 DEF PgidInv, Progress
  <2>3. CompletedIsOver'
    BY <1>0, <1>37, <2>1 DEF SweepLearn, CompletedIsOver, TablesOK, MemoryOK, RowRec,
        MemRec, Over, Progress, SweepOK
  <2> QED BY <1>i, <1>37, <2>1, <2>2, <2>3, InvFrame DEF SweepLearn
<1>38. ASSUME NEW p \in Procs, SweepUnwatch(p) PROVE IInv'
  <2>1. Progress
    BY <1>38, InvFrame DEF SweepUnwatch
  <2> QED BY <1>i, <1>38, <2>1, InvFrame DEF SweepUnwatch
<1>39. ASSUME NEW p \in Procs, Crash(p) PROVE IInv'
  <2>1. Progress
    BY <1>39, InvFrame DEF Crash
  <2>2. LaunchInv'
    BY <1>0, <1>39, <2>1 DEF Crash, Absent, IdleKill, LaunchInv, LaunchOK, LaunchRec, OsOK
  <2>3. LogInv'
    BY <1>0, <1>39, <2>1 DEF Crash, Absent, IdleKill, LogInv, TablesOK, MemoryOK, MemRec,
        Over, OsInv, Progress
  <2>4. PgidInv'
    BY <1>0, <1>39, <2>1 DEF Crash, Absent, IdleKill, PgidInv, TablesOK, MemoryOK,
        RowRec, MemRec, Progress
  <2>5. CompletedIsOver'
    BY <1>0, <1>39, <2>1 DEF Crash, Absent, IdleKill, CompletedIsOver, TablesOK,
        MemoryOK, RowRec, MemRec, Over, Progress
  <2>6. KillInv'
    BY <1>0, <1>39, <2>1 DEF Crash, Absent, IdleKill, KillInv, KillOK, KillRec, Progress
  <2>7. StoppedMeansStopped'
    BY <1>0, <1>39, <2>1 DEF Crash, Absent, IdleKill, StoppedMeansStopped, KillOK,
        KillRec, GroupAlive, Progress
  <2> QED BY <1>i, <1>39, <2>1, <2>2, <2>3, <2>4, <2>5, <2>6, <2>7, InvFrame DEF Crash
<1>40. ASSUME NEW p \in Procs, NEW r \in Runs, FollowPull(p, r) PROVE IInv'
  <2>1. Progress
    BY <1>40, InvFrame DEF FollowPull
  <2>2. LogInv'
    BY <1>0, <1>40, <2>1 DEF FollowPull, LogInv, TablesOK, MemoryOK, MemRec, Over, OsInv,
        Progress
  <2> QED BY <1>i, <1>40, <2>1, <2>2, InvFrame DEF FollowPull
<1>41. ASSUME NEW p \in Procs, NEW r \in Runs, FollowGivesUp(p, r) PROVE IInv'
  <2>1. Progress
    BY <1>41, InvFrame DEF FollowGivesUp
  <2> QED BY <1>i, <1>41, <2>1, InvFrame DEF FollowGivesUp
<1>42. ASSUME NEW p \in Procs, NEW r \in Runs, ApplyEnvelope(p, r) PROVE IInv'
  <2>1. Progress
    BY <1>42, InvFrame DEF ApplyEnvelope
  <2>2. LogInv'
    <3> DEFINE after == Applied(mem[p][r].status, chan[p][r])
    <3>1. after = "completed" => Over(r)
      BY <1>0, <1>42 DEF ApplyEnvelope, Applied, LogInv, CompletedIsOver, MemoryOK, MemRec
    <3>2. chan[p][r] \in {"ok", "error"} => Over(r)
      BY <1>0 DEF LogInv
    <3>3. \A s \in Runs : log'[s] \in {"ok", "error"} => Over(s)
      BY <1>0, <3>2, <1>42 DEF ApplyEnvelope, LogInv, TablesOK
    <3>4. \A q \in Procs, s \in Runs : chan'[q][s] \in {"ok", "error"} => Over(s)
      BY <1>0, <1>42 DEF ApplyEnvelope, LogInv, MemoryOK
    <3>5. save' = [save EXCEPT ![p][r] = [status |-> after, pgid |-> mem[p][r].pgid]]
      BY <1>42 DEF ApplyEnvelope
    <3>6. \A q \in Procs, s \in Runs : save'[q][s].status = "completed" => Over(s)
      <4> HIDE DEF after
      <4> QED BY <1>0, <3>1, <3>5 DEF LogInv, MemoryOK
    <3> QED BY <2>1, <3>3, <3>4, <3>6 DEF LogInv, Progress
  <2>3. PgidInv'
    BY <1>0, <1>42, <2>1 DEF ApplyEnvelope, Applied, Absent, PgidInv, TablesOK, MemoryOK,
        RowRec, MemRec, Progress
  <2>4. CompletedIsOver'
    BY <1>0, <1>42, <2>1 DEF ApplyEnvelope, Applied, Absent, CompletedIsOver, TablesOK,
        MemoryOK, RowRec, MemRec, Over, Progress, LogInv
  <2> QED BY <1>i, <1>42, <2>1, <2>2, <2>3, <2>4, InvFrame DEF ApplyEnvelope
<1>43. ASSUME NEW p \in Procs, NEW r \in Runs, SaveSummary(p, r) PROVE IInv'
  <2>1. Progress
    BY <1>43, InvFrame DEF SaveSummary
  <2>2. LogInv'
    BY <1>0, <1>43, <2>1 DEF SaveSummary, SaveRun, Absent, LogInv, TablesOK, MemoryOK,
        MemRec, Over, OsInv, Progress
  <2>3. PgidInv'
    BY <1>0, <1>43, <2>1 DEF SaveSummary, SaveRun, Absent, PgidInv, TablesOK, MemoryOK,
        RowRec, MemRec, Progress
  <2>4. CompletedIsOver'
    BY <1>0, <1>43, <2>1 DEF SaveSummary, SaveRun, Absent, CompletedIsOver, TablesOK,
        MemoryOK, RowRec, MemRec, Over, Progress, LogInv
  <2> QED BY <1>i, <1>43, <2>1, <2>2, <2>3, <2>4, InvFrame DEF SaveSummary
<1>44. ASSUME NEW p \in Procs, NEW r \in Runs, Rehydrate(p, r) PROVE IInv'
  <2>1. Progress
    BY <1>44, InvFrame DEF Rehydrate
  <2>2. PgidInv'
    BY <1>0, <1>44, <2>1 DEF Rehydrate, Applied, PgidInv, TablesOK, MemoryOK, RowRec,
        MemRec, Progress
  <2>3. CompletedIsOver'
    BY <1>0, <1>44, <2>1 DEF Rehydrate, Applied, CompletedIsOver, TablesOK, MemoryOK,
        RowRec, MemRec, Over, Progress, LogInv
  <2> QED BY <1>i, <1>44, <2>1, <2>2, <2>3, InvFrame DEF Rehydrate
<1>45. ASSUME NEW p \in Procs, NEW r \in Runs, KillAsk(p, r) PROVE IInv'
  <2>1. Progress
    BY <1>45, InvFrame DEF KillAsk
  <2>2. KillInv'
    BY <1>0, <1>45, <2>1 DEF KillAsk, IdleKill, KillInv, KillOK, KillRec, Progress
  <2>3. StoppedMeansStopped'
    BY <1>0, <1>45, <2>1 DEF KillAsk, IdleKill, StoppedMeansStopped, KillOK, KillRec,
        GroupAlive, Progress
  <2> QED BY <1>i, <1>45, <2>1, <2>2, <2>3, InvFrame DEF KillAsk
<1>46. ASSUME NEW p \in Procs, NEW r \in Runs, SweepRead(p, r) PROVE IInv'
  <2>1. Progress
    BY <1>46, InvFrame DEF SweepRead
  <2> QED BY <1>i, <1>46, <2>1, InvFrame DEF SweepRead
<1>47. ASSUME NEW p \in Procs, NEW r \in Runs, Forget(p, r) PROVE IInv'
  <2>1. Progress
    BY <1>47, InvFrame DEF Forget
  <2>2. LogInv'
    BY <1>0, <1>47, <2>1 DEF Forget, Absent, LogInv, TablesOK, MemoryOK, MemRec, Over,
        OsInv, Progress
  <2>3. PgidInv'
    BY <1>0, <1>47, <2>1 DEF Forget, Absent, PgidInv, TablesOK, MemoryOK, RowRec, MemRec,
        Progress
  <2>4. CompletedIsOver'
    BY <1>0, <1>47, <2>1 DEF Forget, Absent, CompletedIsOver, TablesOK, MemoryOK, RowRec,
        MemRec, Over, Progress
  <2> QED BY <1>i, <1>47, <2>1, <2>2, <2>3, <2>4, InvFrame DEF Forget
<1>49. ASSUME NEW r \in Runs, WatchRun(r) PROVE IInv'
  <2>1. Progress
    BY <1>49, InvFrame DEF WatchRun
  <2>2. LaunchInv'
    BY <1>0, <1>49, <2>1 DEF WatchRun, LaunchInv, LaunchOK, LaunchRec, OsOK
  <2> QED BY <1>i, <1>49, <2>1, <2>2, InvFrame DEF WatchRun
<1>50. ASSUME NEW r \in Runs, WatchRefused(r) PROVE IInv'
  <2>1. Progress
    BY <1>50, InvFrame DEF WatchRefused
  <2>2. LaunchInv'
    BY <1>0, <1>50, <2>1 DEF WatchRefused, LaunchInv, LaunchOK, LaunchRec, OsOK
  <2> QED BY <1>i, <1>50, <2>1, <2>2, InvFrame DEF WatchRefused
<1>51. ASSUME NEW r \in Runs, GoalWatchRefused(r) PROVE IInv'
  <2>1. Progress
    BY <1>51, InvFrame DEF GoalWatchRefused
  <2>2. LaunchInv'
    BY <1>0, <1>51, <2>1 DEF GoalWatchRefused, LaunchInv, LaunchOK, LaunchRec, OsOK
  <2> QED BY <1>i, <1>51, <2>1, <2>2, InvFrame DEF GoalWatchRefused
<1>52. ASSUME NEW p \in Procs, SweepRefused(p) PROVE IInv'
  <2>1. Progress
    BY <1>52, InvFrame DEF SweepRefused
  <2> QED BY <1>i, <1>52, <2>1, InvFrame DEF SweepRefused
<1>53. ASSUME NEW p \in Procs, SweepBreaksOff(p) PROVE IInv'
  <2>1. Progress
    BY <1>53, InvFrame DEF SweepBreaksOff
  <2> QED BY <1>i, <1>53, <2>1, InvFrame DEF SweepBreaksOff
<1>48. CASE UNCHANGED vars
  <2>1. Progress
    BY <1>48, InvFrame DEF vars
  <2> QED BY <1>i, <1>48, <2>1, InvFrame DEF vars
<1> QED
  BY <1>1, <1>2, <1>3, <1>4, <1>5, <1>6, <1>7, <1>8, <1>9, <1>10, <1>11, <1>12, <1>13,
      <1>14, <1>15, <1>16, <1>17, <1>18, <1>19, <1>20, <1>21, <1>22, <1>23, <1>24, <1>25,
      <1>26, <1>27, <1>28, <1>29, <1>30, <1>31, <1>32, <1>33, <1>34, <1>35, <1>36, <1>37,
      <1>38, <1>39, <1>40, <1>41, <1>42, <1>43, <1>44, <1>45, <1>46, <1>47, <1>48,
      <1>49, <1>50, <1>51, <1>52, <1>53
  DEF Next, LaunchStep, SupStep, KillStep, SweepStep, ProcStep

\* Before anything was asked for, nothing has been started, written or signalled.
LEMMA InvInit == Init => IInv
<1> SUFFICES ASSUME Init PROVE IInv
  OBVIOUS
<1>1. TypeOK
  BY InitTypes
<1> QED
  BY <1>1 DEF Init, IInv, LaunchInv, OsInv, LogInv, PgidInv, KillInv, CompletedIsOver,
     StoppedMeansStopped, IdleKill, Absent, Over

\* Launching, supervising, following, stopping, sweeping and forgetting keep the
\* order that the inductive invariant states, in every reachable state.
THEOREM Inductive == Spec => []IInv
  BY InvInit, InvStep, PTL DEF Spec

\* `completed` is only ever said of a run whose harness has ended, in the row and in
\* every process's memory: the supervisor waits before it writes, and a follower
\* learns of an ending from the event that is written after the wait.
THEOREM CompletedCorrect == Spec => []CompletedIsOver
<1>1. IInv => CompletedIsOver
  BY DEF IInv
<1> QED BY <1>1, Inductive, PTL

\* When kill_agent comes to write the status of a run it signalled, the run's
\* supervisor is gone and stays gone: terminate_group returned only after that.
THEOREM StopCorrect == Spec => []StoppedMeansStopped
<1>1. IInv => StoppedMeansStopped
  BY DEF IInv
<1> QED BY <1>1, Inductive, PTL

\* No step reopens a row that says how its run ended: the guard of save_run against
\* the summaries other processes cloned earlier, and nobody else writes running.
THEOREM NeverReopens == Spec => StatusNeverReopens
<1>1. TypeOK /\ [Next]_vars => [KeepsEnding]_vars
  <2> SUFFICES ASSUME TypeOK, [Next]_vars PROVE KeepsEnding
    OBVIOUS
  <2>0. TablesOK /\ LaunchOK /\ MemoryOK /\ KillOK /\ SweepOK
    BY DEF TypeOK
  <2>u. UNCHANGED row => KeepsEnding
    BY DEF KeepsEnding
  <2>1. ASSUME NEW p \in Procs, NEW r \in Runs, Register(p, r) PROVE KeepsEnding
    BY <2>0, <2>1 DEF Register, SaveRun, TablesOK, RowRec, KeepsEnding
  <2>2. ASSUME NEW r \in Runs, LaunchError(r) PROVE KeepsEnding
    BY <2>0, <2>2 DEF LaunchError, FailLaunch, SetStatus, TablesOK, RowRec, KeepsEnding
  <2>3. ASSUME NEW r \in Runs, RecordError(r) PROVE KeepsEnding
    BY <2>0, <2>3 DEF RecordError, FailLaunch, SetStatus, TablesOK, RowRec, KeepsEnding
  <2>4. ASSUME NEW r \in Runs, RecordProcess(r) PROVE KeepsEnding
    BY <2>0, <2>4 DEF RecordProcess, TablesOK, RowRec, KeepsEnding
  <2>5. ASSUME NEW r \in Runs, SupSettles(r) PROVE KeepsEnding
    BY <2>0, <2>5 DEF SupSettles, SetStatus, EndStatus, TablesOK, RowRec, KeepsEnding
  <2>6. ASSUME NEW p \in Procs, NEW r \in Runs, SaveSummary(p, r) PROVE KeepsEnding
    BY <2>0, <2>6 DEF SaveSummary, SaveRun, TablesOK, RowRec, KeepsEnding
  <2>7. ASSUME NEW p \in Procs, KillMark(p) PROVE KeepsEnding
    BY <2>0, <2>7 DEF KillMark, SetStatus, KillOK, TablesOK, RowRec, KeepsEnding
  <2>8. ASSUME NEW p \in Procs, SweepFail(p) PROVE KeepsEnding
    BY <2>0, <2>8 DEF SweepFail, SetStatus, SweepOK, TablesOK, RowRec, KeepsEnding
  <2>9. ASSUME NEW p \in Procs, NEW r \in Runs, Forget(p, r) PROVE KeepsEnding
    BY <2>0, <2>9 DEF Forget, TablesOK, RowRec, KeepsEnding
  <2>10. ASSUME NEW r \in Runs,
          Acquire(r) \/ SpawnSupervisor(r) \/ Publish(r) \/ PublishPanics(r) \/
          WatchRun(r) \/ WatchForGoal(r) \/ WatchRefused(r) \/ GoalWatchRefused(r) \/
          ReleasePermit(r)
         PROVE  UNCHANGED row
    BY <2>10 DEF Acquire, SpawnSupervisor, Publish, PublishPanics, WatchRun, WatchForGoal,
       WatchRefused, GoalWatchRefused, ReleasePermit
  <2>11. ASSUME NEW r \in Runs,
          SupBootFails(r) \/ SupSpawnFails(r) \/ SupSpawnsHarness(r) \/ SupArms(r) \/
          SupEmits(r) \/ SupTakesTerm(r) \/ SupInsists(r) \/ SupPipesClose(r) \/
          SupDrains(r) \/ SupFinishes(r) \/ SupDies(r) \/ HarnessExits(r)
         PROVE  UNCHANGED row
    BY <2>11 DEF SupBootFails, SupSpawnFails, SupSpawnsHarness, SupArms, SupEmits,
       SupTakesTerm, SupInsists, SupPipesClose, SupDrains, SupFinishes, SupDies,
       HarnessExits
  <2>12. ASSUME NEW p \in Procs,
          KillBegin(p) \/ KillTerm(p) \/ KillWaits(p) \/ KillInsists(p)
         PROVE  UNCHANGED row
    BY <2>12 DEF KillBegin, KillTerm, KillWaits, KillInsists, SignalTerm, SignalKill
  <2>13. ASSUME NEW p \in Procs,
          SweepEnded(p) \/ SweepVanished(p) \/ SweepBeats(p) \/ SweepStalled(p) \/
          SweepTerm(p) \/ SweepWaits(p) \/ SweepInsists(p) \/ SweepLearn(p) \/
          SweepRefused(p) \/ SweepUnwatch(p) \/ SweepBreaksOff(p) \/ Crash(p)
         PROVE  UNCHANGED row
    BY <2>13 DEF SweepEnded, SweepVanished, SweepBeats, SweepStalled, SweepTerm,
       SweepWaits, SweepInsists, SweepLearn, SweepRefused, SweepUnwatch, SweepBreaksOff, Crash,
       SignalTerm, SignalKill
  <2>14. ASSUME NEW p \in Procs, NEW r \in Runs,
          FollowPull(p, r) \/ FollowGivesUp(p, r) \/ ApplyEnvelope(p, r) \/
          Rehydrate(p, r) \/ KillAsk(p, r) \/ SweepRead(p, r)
         PROVE  UNCHANGED row
    BY <2>14 DEF FollowPull, FollowGivesUp, ApplyEnvelope, Rehydrate, KillAsk, SweepRead
  <2>15. CASE UNCHANGED vars
    BY <2>15, <2>u DEF vars
  <2> QED
    BY <2>u, <2>1, <2>2, <2>3, <2>4, <2>5, <2>6, <2>7, <2>8, <2>9, <2>10, <2>11, <2>12,
        <2>13, <2>14, <2>15
    DEF Next, LaunchStep, SupStep, KillStep, SweepStep, ProcStep
<1> QED BY <1>1, TypeCorrect, PTL DEF Spec, StatusNeverReopens

=============================================================================
