---------------------------- MODULE LeasesProofs ----------------------------
(***************************************************************************)
(* What holds of worktrees for any number of works, sessions, leases and   *)
(* deaths: the types and the foreign keys, that a held lease has its tree, *)
(* that no dirty tree disappears, that a tree in use by a sharer stays,    *)
(* and that a deletion leaves no tree nobody was told of.                  *)
(***************************************************************************)
EXTENDS Leases, TLAPS

(* Where a session has a lease in hand. *)
OnLease == {"cut", "undo", "bind", "collide", "join", "sharers", "status", "merged",
            "remove", "unroot", "mark_released", "mark_removed"}

(* What a session has in hand is there: a lease whose row was written; and *)
(* a session that is not there yet does nothing.                           *)
Fits(s) ==
    /\ op[s].pc \in OnLease => op[s].l \in LeaseIds /\ lease[op[s].l].state # "none"
    /\ sess[s].at = "none" => op[s].pc = "idle"

(* The types and foreign keys of the store; a session that is there has a  *)
(* work.                                                                   *)
StoreOK ==
    /\ work \in [Works -> {"none", "live", "deleted"}]
    /\ sess \in [Sessions -> SessRec]
    /\ lease \in [LeaseIds -> LeaseRec]
    /\ sharers \in [LeaseIds -> SUBSET Sessions]
    /\ roots \in [Sessions -> SUBSET LeaseIds]
    /\ \A l \in LeaseIds : lease[l].work # NoWork => work[lease[l].work] = "live"
    /\ \A s \in Sessions : sess[s].at = "deleted" =>
         roots[s] = {} /\ \A l \in LeaseIds : lease[l].by # s /\ s \notin sharers[l]
    /\ \A s \in Sessions : sess[s].at # "none" => sess[s].work \in Works

DiskOK ==
    /\ tree \in [LeaseIds -> {"none", "clean", "dirty"}]
    /\ ahead \in [LeaseIds -> BOOLEAN]

HumanOK ==
    /\ del \in [pc : {"idle", "decide", "tx"}, work : Works \cup {NoWork}, doomed : SUBSET LeaseIds]
    /\ armed \in [Works -> SUBSET LeaseIds]
    /\ del.pc # "idle" => del.work \in Works

OpOK == op \in [Sessions -> OpRec] /\ \A s \in Sessions : Fits(s)

HistOK == hist \in HistRec /\ deaths \in 0..MaxDeaths

(* The inductive invariant that types rest on. *)
TypeInv == StoreOK /\ DiskOK /\ HumanOK /\ OpOK /\ HistOK

LEMMA TypeInvGives ==
    ASSUME TypeInv PROVE TypeOK
BY DEF TypeInv, TypeOK, StoreOK, DiskOK, HumanOK, OpOK, HistOK

LEMMA InitTyped ==
    ASSUME Init PROVE TypeInv
<1> USE DEF Init
<1>1. StoreOK
  BY NoneAssumption DEF StoreOK, SessRec, LeaseRec
<1>2. DiskOK
  BY DEF DiskOK
<1>3. HumanOK
  BY DEF HumanOK, NoDel
<1>4. OpOK
  <2>1. Idle \in OpRec
    BY DEF Idle, OpRec, OpPcs
  <2>2. QED
    BY <2>1 DEF OpOK, Fits, Idle, OnLease
<1>5. HistOK
  BY BoundAssumption DEF HistOK, HistRec
<1>6. QED
  BY <1>1, <1>2, <1>3, <1>4, <1>5 DEF TypeInv

(* A row once written is never a row nobody wrote, and a session that came *)
(* to be does not vanish.                                                  *)
Kept ==
    /\ \A l \in LeaseIds : lease[l].state # "none" => lease'[l].state # "none"
    /\ \A s \in Sessions : sess[s].at # "none" => sess'[s].at # "none"

(* A session that was not there is attached to a work.                     *)
LEMMA NewSession ==
    ASSUME TypeInv, NEW s \in Sessions, NEW w \in Works, NEW at \in {"opening", "live"},
           sess[s].at = "none", sess' = [sess EXCEPT ![s] = [@ EXCEPT !.at = at, !.work = w]],
           work' \in [Works -> {"none", "live", "deleted"}],
           \A v \in Works : work[v] = "live" => work'[v] = "live",
           UNCHANGED <<lease, sharers, roots>>
    PROVE  StoreOK' /\ Kept
<1> DEFINE q == [sess[s] EXCEPT !.at = at, !.work = w]
<1>1. sess' = [sess EXCEPT ![s] = q]
  OBVIOUS
<1>2. q \in SessRec /\ q.at = at /\ q.work = w
  <2>1. sess[s] \in SessRec
    BY DEF TypeInv, StoreOK
  <2>2. at \in {"none", "opening", "live", "deleted"}
    OBVIOUS
  <2>3. QED
    BY <2>1, <2>2 DEF SessRec
<1> HIDE DEF q
<1>3. \A l \in LeaseIds : lease[l].work \in Works \cup {NoWork}
  BY DEF TypeInv, StoreOK, LeaseRec
<1>4. QED
  BY <1>1, <1>2, <1>3 DEF TypeInv, StoreOK, Kept

LEMMA StoreStep ==
    ASSUME TypeInv, Next
    PROVE  StoreOK' /\ Kept
<1> USE DEF TypeInv
<1>1. CASE UNCHANGED store
  BY <1>1 DEF StoreOK, store, Kept
<1>2. ASSUME NEW s \in Sessions, NEW w \in Works, AttachConversation(s, w)
      PROVE  StoreOK' /\ Kept
  <2>1. work' \in [Works -> {"none", "live", "deleted"}]
        /\ \A v \in Works : work[v] = "live" => work'[v] = "live"
    BY <1>2 DEF AttachConversation, StoreOK
  <2>2. QED
    BY <1>2, <2>1, NewSession DEF AttachConversation
<1>3. ASSUME NEW s \in Sessions, NEW w \in Works, NEW place, OpenWork(s, w, place)
      PROVE  StoreOK' /\ Kept
  <2>1. work' \in [Works -> {"none", "live", "deleted"}]
        /\ \A v \in Works : work[v] = "live" => work'[v] = "live"
    BY <1>3 DEF OpenWork, StoreOK
  <2>2. QED
    BY <1>3, <2>1, NewSession DEF OpenWork
<1>4. ASSUME NEW s \in Sessions, NEW owns \in SUBSET Files, SpawnOntoFirstTask(s, owns)
      PROVE  StoreOK' /\ Kept
  <2> DEFINE q == [sess[s] EXCEPT !.at = "live", !.owns = owns]
  <2>1. sess' = [sess EXCEPT ![s] = q]
    BY <1>4 DEF SpawnOntoFirstTask
  <2>2. q \in SessRec /\ q.at = "live" /\ q.work = sess[s].work /\ sess[s].at = "opening"
    <3>1. sess[s] \in SessRec /\ sess[s].at = "opening"
      BY <1>4 DEF SpawnOntoFirstTask, StoreOK
    <3>2. QED
      BY <3>1 DEF SessRec
  <2> HIDE DEF q
  <2>3. QED
    BY <1>4, <2>1, <2>2 DEF SpawnOntoFirstTask, StoreOK, Kept
<1>5. ASSUME NEW s \in Sessions, NEW l \in LeaseIds, OpOK,
             op[s].pc = "reserve", lease[l].state = "none",
             sess[s].at # "deleted", work[sess[s].work] = "live",
             lease' = [lease EXCEPT ![l] = [state |-> "held", work |-> sess[s].work, by |-> s]],
             UNCHANGED <<work, sess, sharers, roots>>
      PROVE  StoreOK' /\ Kept
  <2>1. sess[s].work \in Works
    BY <1>5 DEF StoreOK, OpOK, Fits
  <2>2. QED
    BY <1>5, <2>1, NoneAssumption DEF StoreOK, LeaseRec, Kept
<1>6. ASSUME NEW s \in Sessions, ClaimReserve(s)
      PROVE  StoreOK' /\ Kept
  BY <1>1, <1>5, <1>6 DEF ClaimReserve
<1>7. ASSUME NEW s \in Sessions, ClaimUndo(s)
      PROVE  StoreOK' /\ Kept
  <2>1. op[s].l \in LeaseIds
    BY <1>7 DEF ClaimUndo, OpOK, Fits, OnLease
  <2>2. QED
    BY <1>7, <2>1, NoneAssumption DEF ClaimUndo, StoreOK, LeaseRec, Kept
<1>8. ASSUME NEW s \in Sessions, BindLeaseRoots(s)
      PROVE  StoreOK' /\ Kept
  <2>1. op[s].l \in LeaseIds
    BY <1>8 DEF BindLeaseRoots, OpOK, Fits, OnLease
  <2>2. QED
    BY <1>8, <2>1 DEF BindLeaseRoots, StoreOK, Kept
<1>9. ASSUME NEW s \in Sessions, ShareJoin(s)
      PROVE  StoreOK' /\ Kept
  <2>1. op[s].l \in LeaseIds
    BY <1>9 DEF ShareJoin, OpOK, Fits, OnLease
  <2>2. QED
    BY <1>9, <2>1 DEF ShareJoin, StoreOK, Kept
<1>10. ASSUME NEW s \in Sessions, RemoveRoot(s)
      PROVE  StoreOK' /\ Kept
  BY <1>10 DEF RemoveRoot, StoreOK, Kept
<1>11. ASSUME NEW s \in Sessions, MarkLease(s)
      PROVE  StoreOK' /\ Kept
  <2>1. op[s].l \in LeaseIds
    BY <1>11 DEF MarkLease, OpOK, Fits, OnLease
  <2>2. QED
    BY <1>11, <2>1 DEF MarkLease, StoreOK, Kept, LeaseRec
<1>12. ASSUME NEW s \in Sessions, CompleteTask(s)
      PROVE  StoreOK' /\ Kept
  BY <1>12 DEF CompleteTask, StoreOK, SessRec, Kept
<1>13. CASE DeleteTx
  <2>1. del.work \in Works
    BY <1>13 DEF DeleteTx, HumanOK
  <2> DEFINE w == del.work
             gone == {s \in Sessions : sess[s].work = w}
  <2>2. work' \in [Works -> {"none", "live", "deleted"}]
        /\ \A v \in Works : v # w => work'[v] = work[v]
    BY <1>13, <2>1 DEF DeleteTx, StoreOK
  <2>3. \A s \in Sessions :
           /\ sess'[s] \in SessRec /\ sess'[s].work = sess[s].work
           /\ sess'[s].at = IF s \in gone THEN "deleted" ELSE sess[s].at
    <3> TAKE s \in Sessions
    <3>1. sess[s] \in SessRec
      BY DEF StoreOK
    <3>2. sess'[s] = IF s \in gone THEN [sess[s] EXCEPT !.at = "deleted", !.owns = {}] ELSE sess[s]
      BY <1>13 DEF DeleteTx
    <3> HIDE DEF gone
    <3>3. QED
      BY <3>1, <3>2 DEF SessRec
  <2>4. sess' \in [Sessions -> SessRec]
    BY <1>13, <2>3 DEF DeleteTx
  <2>5. \A l \in LeaseIds :
           /\ lease'[l] \in LeaseRec /\ lease'[l].state = lease[l].state
           /\ lease'[l].work = IF lease[l].work = w THEN NoWork ELSE lease[l].work
           /\ lease'[l].by = IF lease[l].by \in gone THEN NoSession ELSE lease[l].by
    BY <1>13 DEF DeleteTx, StoreOK, LeaseRec
  <2>6. lease' \in [LeaseIds -> LeaseRec]
    BY <1>13, <2>5 DEF DeleteTx
  <2>7. /\ roots' \in [Sessions -> SUBSET LeaseIds]
        /\ \A s \in Sessions : roots'[s] = IF s \in gone THEN {} ELSE roots[s]
        /\ sharers' \in [LeaseIds -> SUBSET Sessions]
        /\ \A l \in LeaseIds : sharers'[l] = sharers[l] \ gone
    BY <1>13 DEF DeleteTx, StoreOK
  <2>8. \A l \in LeaseIds : lease'[l].work # NoWork => work'[lease'[l].work] = "live"
    BY <2>2, <2>5 DEF StoreOK, LeaseRec
  <2>9. \A s \in Sessions : sess'[s].at = "deleted" =>
          roots'[s] = {} /\ \A l \in LeaseIds : lease'[l].by # s /\ s \notin sharers'[l]
    BY <2>3, <2>5, <2>7, NoneAssumption DEF StoreOK
  <2>10. \A s \in Sessions : sess'[s].at # "none" => sess'[s].work \in Works
    BY <2>1, <2>3 DEF StoreOK
  <2>11. Kept
    BY <2>3, <2>5 DEF Kept
  <2>12. QED
    <3> HIDE DEF w, gone
    <3>1. QED
      BY <2>2, <2>4, <2>6, <2>7, <2>8, <2>9, <2>10, <2>11 DEF StoreOK
<1>14. QED
  BY <1>1, <1>2, <1>3, <1>4, <1>6, <1>7, <1>8, <1>9, <1>10, <1>11, <1>12, <1>13
  DEF Next, SessionStep, ClaimWorktree, ClaimLook, ClaimCut, ShareLook, RefuseACollision,
      ReleaseWorktree, KeptForASharer, ConditionStatus, ConditionMerged, RemoveWorktreeOf,
      Edit, Commit, Merge, PreviewDeletion, DeleteWork, ConfirmationExpires, Die

LEMMA DiskStep ==
    ASSUME TypeInv, Next
    PROVE  DiskOK'
<1> USE DEF TypeInv
<1>1. CASE UNCHANGED disk
  BY <1>1 DEF DiskOK, disk
<1>2. ASSUME NEW s \in Sessions, ClaimCut(s) PROVE DiskOK'
  BY <1>2 DEF ClaimCut, DiskOK
<1>3. ASSUME NEW s \in Sessions, RemoveWorktreeOf(s) PROVE DiskOK'
  BY <1>3 DEF RemoveWorktreeOf, DiskOK
<1>4. ASSUME NEW s \in Sessions, NEW l \in LeaseIds, Edit(s, l) \/ Commit(s, l) PROVE DiskOK'
  BY <1>4 DEF Edit, Commit, DiskOK
<1>5. ASSUME NEW l \in LeaseIds, Merge(l) PROVE DiskOK'
  BY <1>5 DEF Merge, DiskOK
<1>6. QED
  BY ZenonT(40), <1>1, <1>2, <1>3, <1>4, <1>5
  DEF Next, SessionStep, AttachConversation, OpenWork, SpawnOntoFirstTask, ClaimWorktree,
      ClaimLook, ClaimReserve, ClaimUndo, BindLeaseRoots, ShareLook, RefuseACollision, ShareJoin,
      ReleaseWorktree, KeptForASharer, ConditionStatus, ConditionMerged, RemoveRoot, MarkLease,
      CompleteTask, PreviewDeletion, DeleteWork, ConfirmationExpires, DeleteTx, Die

LEMMA HumanStep ==
    ASSUME TypeInv, Next
    PROVE  HumanOK'
<1> USE DEF TypeInv
<1>1. CASE UNCHANGED human
  BY <1>1 DEF HumanOK, human
<1>2. ASSUME NEW w \in Works, PreviewDeletion(w) PROVE HumanOK'
  <2>1. Listed(w) \in SUBSET LeaseIds
    BY DEF Listed
  <2>2. QED
    BY <1>2, <2>1 DEF PreviewDeletion, HumanOK
<1>6. CASE DeleteWork
  BY <1>6 DEF DeleteWork, HumanOK, NoDel
<1>3. ASSUME NEW w \in Works, ConfirmationExpires(w) PROVE HumanOK'
  BY <1>3 DEF ConfirmationExpires, HumanOK
<1>4. CASE DeleteTx
  BY <1>4 DEF DeleteTx, HumanOK, NoDel
<1>5. QED
  BY ZenonT(40), <1>1, <1>2, <1>3, <1>4, <1>6
  DEF Next, SessionStep, AttachConversation, OpenWork, SpawnOntoFirstTask, ClaimWorktree,
      ClaimLook, ClaimReserve, ClaimCut, ClaimUndo, BindLeaseRoots, ShareLook, RefuseACollision,
      ShareJoin, ReleaseWorktree, KeptForASharer, ConditionStatus, ConditionMerged,
      RemoveWorktreeOf, RemoveRoot, MarkLease, Edit, Commit, Merge, CompleteTask, Die

LEMMA HistStep ==
    ASSUME TypeInv, Next
    PROVE  HistOK'
<1> USE DEF TypeInv
<1>1. CASE UNCHANGED <<hist, deaths>>
  BY <1>1 DEF HistOK
<1>2. ASSUME NEW s \in Sessions, ClaimReserve(s) PROVE HistOK'
  BY <1>2 DEF ClaimReserve, HistOK, HistRec
<1>3. ASSUME NEW s \in Sessions, ClaimCut(s) PROVE HistOK'
  BY <1>3 DEF ClaimCut, HistOK, HistRec, OpOK, Fits, OnLease
<1>4. ASSUME NEW s \in Sessions, ShareJoin(s) PROVE HistOK'
  BY <1>4 DEF ShareJoin, HistOK, HistRec
<1>5. ASSUME NEW s \in Sessions, KeptForASharer(s) PROVE HistOK'
  BY <1>5 DEF KeptForASharer, HistOK, HistRec
<1>6. ASSUME NEW s \in Sessions, RemoveWorktreeOf(s) PROVE HistOK'
  BY <1>6 DEF RemoveWorktreeOf, HistOK, HistRec, OpOK, Fits, OnLease
<1>7. CASE DeleteWork
  <2>1. Listed(del.work) \in SUBSET LeaseIds /\ del.doomed \in SUBSET LeaseIds
    BY DEF Listed, HumanOK
  <2>2. QED
    BY <1>7, <2>1 DEF DeleteWork, HistOK, HistRec
<1>8. ASSUME NEW s \in Sessions, Die(s) PROVE HistOK'
  <2>1. op[s].l \in LeaseIds \cup {NoLease}
    BY DEF OpOK, OpRec
  <2>2. hist' \in HistRec
    BY <1>8, <2>1 DEF Die, HistOK, HistRec
  <2>3. deaths' \in 0..MaxDeaths
    BY <1>8, BoundAssumption DEF Die, HistOK
  <2>4. QED
    BY <2>2, <2>3 DEF HistOK
<1>9. QED
  BY <1>1, <1>2, <1>3, <1>4, <1>5, <1>6, <1>7, <1>8
  DEF Next, SessionStep, AttachConversation, OpenWork, SpawnOntoFirstTask, ClaimWorktree,
      ClaimLook, ClaimUndo, BindLeaseRoots, ShareLook, RefuseACollision, ReleaseWorktree,
      ConditionStatus, ConditionMerged, RemoveRoot, MarkLease, Edit, Commit, Merge,
      CompleteTask, PreviewDeletion, ConfirmationExpires, DeleteTx

-----------------------------------------------------------------------------
(* What a step may leave in the hand of the session that took it.          *)
Hands(s, q) ==
    /\ op' = [op EXCEPT ![s] = q] /\ q \in OpRec
    /\ q.pc \in OnLease => q.l \in LeaseIds /\ lease'[q.l].state # "none"
    /\ sess'[s].at # "none"

LEMMA IdleRecords ==
    /\ Idle \in OpRec /\ Idle.pc = "idle" /\ Idle.l = NoLease
    /\ \A pc \in OpPcs : /\ [Idle EXCEPT !.pc = pc] \in OpRec
                         /\ [Idle EXCEPT !.pc = pc].pc = pc
                         /\ [Idle EXCEPT !.pc = pc, !.opens = TRUE] \in OpRec
                         /\ [Idle EXCEPT !.pc = pc, !.opens = TRUE].pc = pc
<1>1. Idle \in OpRec /\ Idle.pc = "idle" /\ Idle.l = NoLease
  BY DEF Idle, OpRec, OpPcs
<1>2. QED
  BY <1>1 DEF OpRec

LEMMA GoesOn ==
    ASSUME NEW q \in OpRec, NEW pc \in OpPcs
    PROVE  /\ [q EXCEPT !.pc = pc] \in OpRec
           /\ [q EXCEPT !.pc = pc].pc = pc /\ [q EXCEPT !.pc = pc].l = q.l
           /\ [q EXCEPT !.pc = pc].by = q.by
BY DEF OpRec

(* A held lease that was found is one that was written. *)
LEMMA FoundLease ==
    ASSUME NEW w, HeldLease(w) # NoLease
    PROVE  /\ HeldLease(w) \in LeaseIds /\ lease[HeldLease(w)].state = "held"
           /\ lease[HeldLease(w)].work = w
BY DEF HeldLease, HeldLeases

LEMMA Ended ==
    ASSUME TypeInv, NEW s \in Sessions, sess'[s].at # "none",
           Fails(s) \/ op' = [op EXCEPT ![s] = Idle] \/ op' = [op EXCEPT ![s] = After(s)]
    PROVE  \E q : Hands(s, q)
<1>1. {"idle", "dead", "spawn"} \subseteq OpPcs
      /\ \A pc \in {"idle", "dead", "spawn"} : pc \notin OnLease
  BY DEF OpPcs, OnLease
<1>2. ASSUME NEW q \in OpRec, q.pc \in {"idle", "dead", "spawn"}, op' = [op EXCEPT ![s] = q]
      PROVE  Hands(s, q)
  BY <1>1, <1>2 DEF Hands
<1> DEFINE dead == [Idle EXCEPT !.pc = "dead"]
           spawn == [Idle EXCEPT !.pc = "spawn", !.opens = TRUE]
<1>3. Idle \in OpRec /\ dead \in OpRec /\ spawn \in OpRec
      /\ Idle.pc = "idle" /\ dead.pc = "dead" /\ spawn.pc = "spawn"
  BY <1>1, IdleRecords
<1>4. \E q \in {Idle, dead, spawn} : op' = [op EXCEPT ![s] = q]
  BY DEF Fails, After
<1> HIDE DEF dead, spawn
<1>5. QED
  BY <1>2, <1>3, <1>4

LEMMA SessionMoves ==
    ASSUME TypeInv, NEW s \in Sessions, SessionStep(s), Kept
    PROVE  \/ op' = op /\ (sess'[s].at = "none" => op[s].pc = "idle")
           \/ \E q : Hands(s, q)
<1> USE DEF TypeInv
<1>1. op[s] \in OpRec /\ Fits(s)
  BY DEF OpOK
<1>2. ASSUME op[s].pc # "idle" PROVE sess'[s].at # "none"
  BY <1>1, <1>2 DEF Fits, Kept
<1>3. ASSUME op[s].pc \in OnLease
      PROVE  op[s].l \in LeaseIds /\ lease'[op[s].l].state # "none"
  BY <1>1, <1>3 DEF Fits, Kept
<1> DEFINE to(pc) == [op[s] EXCEPT !.pc = pc]
           onto(pc, l) == [op[s] EXCEPT !.pc = pc, !.l = l]
<1>4. ASSUME NEW pc \in OpPcs, op' = [op EXCEPT ![s] = to(pc)], sess'[s].at # "none",
             pc \in OnLease => op[s].pc \in OnLease
      PROVE  \E q : Hands(s, q)
  <2>1. to(pc) \in OpRec /\ to(pc).pc = pc /\ to(pc).l = op[s].l
    BY <1>1, GoesOn
  <2> HIDE DEF to
  <2>2. Hands(s, to(pc))
    BY <1>3, <1>4, <2>1 DEF Hands
  <2>3. QED
    BY <2>2
<1>5. ASSUME NEW pc \in OpPcs, NEW l \in LeaseIds, op' = [op EXCEPT ![s] = onto(pc, l)],
             sess'[s].at # "none", lease'[l].state # "none"
      PROVE  \E q : Hands(s, q)
  <2>1. onto(pc, l) \in OpRec /\ onto(pc, l).pc = pc /\ onto(pc, l).l = l
    BY <1>1, <1>5 DEF OpRec
  <2> HIDE DEF onto
  <2>2. Hands(s, onto(pc, l))
    BY <1>5, <2>1 DEF Hands
  <2>3. QED
    BY <2>2
<1>6. CASE ClaimWorktree(s)
  <2>1. op' = [op EXCEPT ![s] = to("look")] /\ sess'[s].at # "none"
    BY <1>6 DEF ClaimWorktree, store, Running
  <2>2. "look" \in OpPcs /\ "look" \notin OnLease
    BY DEF OpPcs, OnLease
  <2>3. QED
    BY <1>4, <2>1, <2>2
<1>7. CASE ClaimLook(s)
  <2> DEFINE l == HeldLease(sess[s].work)
  <2>1. op[s].pc # "idle" /\ lease' = lease
    BY <1>7 DEF ClaimLook, store
  <2>2. CASE l # NoLease
    <3>1. op' = [op EXCEPT ![s] = onto("bind", l)]
      BY <1>7, <2>2 DEF ClaimLook
    <3>2. l \in LeaseIds /\ lease'[l].state # "none" /\ "bind" \in OpPcs
      BY <2>1, <2>2, FoundLease DEF OpPcs
    <3>3. QED
      BY <1>2, <1>5, <2>1, <3>1, <3>2
  <2>3. CASE l = NoLease /\ op[s].pc = "look"
    <3>1. op' = [op EXCEPT ![s] = to("reserve")]
      BY <1>7, <2>3 DEF ClaimLook
    <3>2. "reserve" \in OpPcs /\ "reserve" \notin OnLease
      BY DEF OpPcs, OnLease
    <3>3. QED
      BY <1>2, <1>4, <2>1, <3>1, <3>2
  <2>4. QED
    BY <1>2, <1>7, <2>1, <2>2, <2>3, Ended DEF ClaimLook
<1>8. CASE ClaimReserve(s)
  <2>1. op[s].pc # "idle"
    BY <1>8 DEF ClaimReserve
  <2>2. CASE op' = [op EXCEPT ![s] = to("readback")]
    <3>1. "readback" \in OpPcs /\ "readback" \notin OnLease
      BY DEF OpPcs, OnLease
    <3>2. QED
      BY <1>2, <1>4, <2>1, <2>2, <3>1
  <2>3. ASSUME NEW l \in LeaseIds, op' = [op EXCEPT ![s].pc = "cut", ![s].l = l],
               lease' = [lease EXCEPT ![l] = [state |-> "held", work |-> sess[s].work, by |-> s]]
        PROVE  \E q : Hands(s, q)
    <3>1. op' = [op EXCEPT ![s] = onto("cut", l)]
      BY <2>3
    <3>2. lease'[l].state # "none" /\ "cut" \in OpPcs
      BY <2>3 DEF StoreOK, OpPcs
    <3>3. QED
      BY <1>2, <1>5, <2>1, <3>1, <3>2
  <2>4. QED
    BY <1>2, <1>8, <2>1, <2>2, <2>3, Ended DEF ClaimReserve
<1>9. CASE ClaimCut(s)
  <2>1. op[s].pc # "idle" /\ op[s].pc \in OnLease /\ "bind" \in OpPcs /\ "undo" \in OpPcs
    BY <1>9 DEF ClaimCut, OnLease, OpPcs
  <2>2. \/ op' = [op EXCEPT ![s] = to("bind")] \/ op' = [op EXCEPT ![s] = to("undo")] \/ Fails(s)
    BY <1>9 DEF ClaimCut
  <2>3. QED
    BY <1>2, <1>4, <2>1, <2>2, Ended
<1>10. CASE ClaimUndo(s) \/ BindLeaseRoots(s) \/ MarkLease(s) \/ (\E owns \in SUBSET Files : SpawnOntoFirstTask(s, owns))
  <2>1. /\ op[s].pc # "idle"
        /\ Fails(s) \/ op' = [op EXCEPT ![s] = Idle] \/ op' = [op EXCEPT ![s] = After(s)]
    BY <1>10 DEF ClaimUndo, BindLeaseRoots, MarkLease, SpawnOntoFirstTask
  <2>2. QED
    BY <1>2, <2>1, Ended
<1>11. CASE ShareLook(s)
  <2> DEFINE l == HeldLease(op[s].lender)
  <2>1. op[s].pc # "idle" /\ lease' = lease
    BY <1>11 DEF ShareLook, store
  <2>2. CASE l # NoLease /\ op' = [op EXCEPT ![s] = onto("collide", l)]
    <3>1. l \in LeaseIds /\ lease'[l].state # "none" /\ "collide" \in OpPcs
      BY <2>1, <2>2, FoundLease DEF OpPcs
    <3>2. QED
      BY <1>2, <1>5, <2>1, <2>2, <3>1
  <2>3. QED
    BY <1>2, <1>11, <2>1, <2>2, Ended DEF ShareLook
<1>12. CASE RefuseACollision(s) \/ ShareJoin(s)
  <2>1. op[s].pc # "idle" /\ op[s].pc \in OnLease /\ "bind" \in OpPcs /\ "join" \in OpPcs
    BY <1>12 DEF RefuseACollision, ShareJoin, OnLease, OpPcs
  <2>2. op' = [op EXCEPT ![s] = to("join")] \/ op' = [op EXCEPT ![s] = to("bind")] \/ Fails(s)
    BY <1>12 DEF RefuseACollision, ShareJoin
  <2>3. QED
    BY <1>2, <1>4, <2>1, <2>2, Ended
<1>13. ASSUME NEW l \in LeaseIds, ReleaseWorktree(s, l) PROVE \E q : Hands(s, q)
  <2> DEFINE q == [Idle EXCEPT !.pc = "sharers", !.l = l, !.by = lease[l].by]
  <2>1. q \in OpRec /\ q.l = l
    <3>1. "sharers" \in OpPcs /\ lease[l].by \in Sessions \cup {NoSession}
      BY DEF OpPcs, StoreOK, LeaseRec
    <3>2. QED
      BY <3>1, IdleRecords DEF OpRec
  <2>2. op' = [op EXCEPT ![s] = q] /\ lease' = lease /\ lease[l].state # "none" /\ sess'[s].at # "none"
    BY <1>13 DEF ReleaseWorktree, store, Running
  <2> HIDE DEF q
  <2>3. Hands(s, q)
    BY <2>1, <2>2 DEF Hands
  <2>4. QED
    BY <2>3
<1>14. CASE KeptForASharer(s) \/ ConditionMerged(s) \/ RemoveWorktreeOf(s) \/ RemoveRoot(s)
  <2>1. /\ op[s].pc # "idle" /\ op[s].pc \in OnLease /\ "status" \in OpPcs /\ "remove" \in OpPcs
        /\ "mark_released" \in OpPcs /\ "unroot" \in OpPcs /\ "mark_removed" \in OpPcs
    BY <1>14 DEF KeptForASharer, ConditionMerged, RemoveWorktreeOf, RemoveRoot, OnLease, OpPcs
  <2>2. \/ op' = [op EXCEPT ![s] = to("status")] \/ op' = [op EXCEPT ![s] = to("remove")]
        \/ op' = [op EXCEPT ![s] = to("mark_released")] \/ op' = [op EXCEPT ![s] = to("unroot")]
        \/ op' = [op EXCEPT ![s] = to("mark_removed")] \/ op' = [op EXCEPT ![s] = Idle]
    BY <1>14 DEF KeptForASharer, ConditionMerged, RemoveWorktreeOf, RemoveRoot
  <2>3. QED
    BY <1>2, <1>4, <2>1, <2>2, Ended
<1>15. CASE ConditionStatus(s)
  <2> DEFINE q == [op[s] EXCEPT !.pc = "merged", !.missing = (tree[op[s].l] = "none"),
                                !.dirty = (tree[op[s].l] = "dirty")]
  <2>1. q \in OpRec /\ q.l = op[s].l
    BY <1>1 DEF OpRec, OpPcs
  <2>2. op' = [op EXCEPT ![s] = q] /\ op[s].pc \in OnLease /\ op[s].pc # "idle"
    BY <1>15 DEF ConditionStatus, OnLease
  <2> HIDE DEF q
  <2>3. Hands(s, q)
    BY <1>2, <1>3, <2>1, <2>2 DEF Hands
  <2>4. QED
    BY <2>3
<1>16. CASE Die(s)
  <2>1. op[s].pc # "idle" /\ op' = [op EXCEPT ![s] = [Idle EXCEPT !.pc = "dead"]]
    BY <1>16 DEF Die
  <2>2. "dead" \in OpPcs /\ "dead" \notin OnLease
    BY DEF OpPcs, OnLease
  <2>3. Hands(s, [Idle EXCEPT !.pc = "dead"])
    BY <1>2, <2>1, <2>2, IdleRecords DEF Hands
  <2>4. QED
    BY <2>3
<1>17. ASSUME NEW w \in Works, NEW place \in {"explore", "worktree"} \cup Works, OpenWork(s, w, place)
       PROVE  \E q : Hands(s, q)
  <2>1. PICK pc \in {"spawn", "look", "lend"}, lender \in Works \cup {NoWork} :
          op' = [op EXCEPT ![s] = [Idle EXCEPT !.opens = TRUE, !.pc = pc, !.lender = lender]]
    BY <1>17 DEF OpenWork
  <2> DEFINE q == [Idle EXCEPT !.opens = TRUE, !.pc = pc, !.lender = lender]
  <2>2. pc \in OpPcs /\ pc \notin OnLease
    BY DEF OpPcs, OnLease
  <2>3. q \in OpRec /\ q.pc = pc
    BY <2>2, IdleRecords DEF OpRec
  <2>4. sess'[s].at # "none"
    BY <1>17 DEF OpenWork, StoreOK, SessRec
  <2>5. Hands(s, q)
    <3> HIDE DEF q
    <3>1. op' = [op EXCEPT ![s] = q]
      BY <2>1 DEF q
    <3>2. QED
      BY <2>2, <2>3, <2>4, <3>1 DEF Hands
  <2>6. QED
    BY <2>5
<1>18. ASSUME NEW l \in LeaseIds, Edit(s, l) \/ Commit(s, l)
       PROVE  op' = op /\ (sess'[s].at = "none" => op[s].pc = "idle")
  BY <1>18 DEF Edit, Commit, store
<1>19. ASSUME CompleteTask(s) \/ \E w \in Works : AttachConversation(s, w)
       PROVE  op' = op /\ (sess'[s].at = "none" => op[s].pc = "idle")
  BY <1>1, <1>2, <1>19 DEF CompleteTask, AttachConversation
<1>20. QED
  BY <1>6, <1>7, <1>8, <1>9, <1>10, <1>11, <1>12, <1>13, <1>14, <1>15, <1>16, <1>17, <1>18, <1>19
  DEF SessionStep

LEMMA OpStep ==
    ASSUME TypeInv, Next, Kept
    PROVE  OpOK'
<1> USE DEF TypeInv
<1>1. ASSUME op' = op
      PROVE  OpOK'
  BY <1>1 DEF OpOK, Fits, Kept
<1>2. ASSUME NEW s \in Sessions, NEW q, Hands(s, q)
      PROVE  OpOK'
  <2>1. op' \in [Sessions -> OpRec] /\ op'[s] = q
    BY <1>2 DEF Hands, OpOK
  <2>2. Fits(s)'
    BY <1>2, <2>1 DEF Hands, Fits
  <2>3. ASSUME NEW r \in Sessions, r # s PROVE Fits(r)'
    <3>1. op'[r] = op[r] /\ Fits(r)
      BY <1>2, <2>3 DEF Hands, OpOK
    <3>2. QED
      BY <3>1 DEF Fits, Kept
  <2>4. QED
    BY <2>1, <2>2, <2>3 DEF OpOK
<1>3. ASSUME NEW s \in Sessions, SessionStep(s) PROVE OpOK'
  BY <1>1, <1>2, <1>3, SessionMoves
<1>4. CASE ~\E s \in Sessions : SessionStep(s)
  BY <1>1, <1>4 DEF Next, Merge, PreviewDeletion, DeleteWork, ConfirmationExpires, DeleteTx
<1>5. QED
  BY <1>3, <1>4

LEMMA TypeStep ==
    ASSUME TypeInv, [Next]_vars
    PROVE  TypeInv'
<1>1. CASE Next
  BY <1>1, StoreStep, DiskStep, HumanStep, HistStep, OpStep DEF TypeInv
<1>2. CASE UNCHANGED vars
  BY <1>2 DEF vars, store, disk, human, TypeInv, StoreOK, DiskOK, HumanOK, HistOK, OpOK, Fits
<1>3. QED
  BY <1>1, <1>2

(* The types, and the foreign keys, hold throughout: a row names a work or *)
(* a session only while that exists, also when the write and the deletion  *)
(* of the work overlapped (claim_lease, bind_lease_roots, delete_work).    *)
THEOREM TypeCorrect == Spec => []TypeOK
<1>1. Init => TypeInv
  BY InitTyped
<1>2. TypeInv /\ [Next]_vars => TypeInv'
  BY TypeStep
<1>3. TypeInv => TypeOK
  BY TypeInvGives
<1>4. QED
  BY <1>1, <1>2, <1>3, PTL DEF Spec

-----------------------------------------------------------------------------
(* What every proof below reads off the types.                             *)
LEMMA Facts ==
    ASSUME TypeInv
    PROVE  /\ lease \in [LeaseIds -> LeaseRec] /\ op \in [Sessions -> OpRec]
           /\ tree \in [LeaseIds -> {"none", "clean", "dirty"}]
           /\ sharers \in [LeaseIds -> SUBSET Sessions]
           /\ hist \in HistRec
           /\ \A s \in Sessions : op[s].pc \in OnLease =>
                op[s].l \in LeaseIds /\ lease[op[s].l].state # "none"
BY DEF TypeInv, StoreOK, DiskOK, OpOK, HistOK, Fits

LEMMA EndedPc ==
    ASSUME TypeInv, NEW s \in Sessions,
           Fails(s) \/ op' = [op EXCEPT ![s] = Idle] \/ op' = [op EXCEPT ![s] = After(s)]
    PROVE  op'[s].pc \in {"idle", "dead", "spawn"}
<1> DEFINE dead == [Idle EXCEPT !.pc = "dead"]
           spawn == [Idle EXCEPT !.pc = "spawn", !.opens = TRUE]
<1>1. Idle.pc = "idle" /\ dead.pc = "dead" /\ spawn.pc = "spawn"
  BY IdleRecords DEF OpPcs
<1>2. \E q \in {Idle, dead, spawn} : op'[s] = q
  BY Facts DEF Fails, After
<1> HIDE DEF dead, spawn
<1>3. QED
  BY <1>1, <1>2

(* Only the session itself moves what it has in hand. *)
LEMMA OwnHand ==
    ASSUME TypeInv, Next, NEW s \in Sessions, op'[s] # op[s]
    PROVE  SessionStep(s)
<1>1. ASSUME NEW r \in Sessions, SessionStep(r), r # s PROVE FALSE
  <2>1. op' = op \/ \E q : Hands(r, q)
    BY <1>1, StoreStep, SessionMoves
  <2>2. op'[s] = op[s]
    BY <1>1, <2>1, Facts DEF Hands
  <2>3. QED
    BY <2>2
<1>2. CASE ~\E r \in Sessions : SessionStep(r)
  BY <1>2 DEF Next, Merge, PreviewDeletion, DeleteWork, ConfirmationExpires, DeleteTx
<1>3. QED
  BY <1>1, <1>2

(* How a tree comes and goes. *)
LEMMA TreeEffect ==
    ASSUME TypeInv, Next, NEW l \in LeaseIds
    PROVE  \/ tree'[l] = tree[l]
           \/ tree[l] # "none" /\ tree'[l] # "none"
           \/ \E s \in Sessions : ClaimCut(s) /\ op[s].l = l
           \/ \E s \in Sessions : RemoveWorktreeOf(s) /\ op[s].l = l
<1> USE Facts
<1>1. CASE UNCHANGED tree
  BY <1>1
<1>2. ASSUME NEW s \in Sessions, ClaimCut(s) PROVE tree'[l] = tree[l] \/ op[s].l = l
  BY <1>2 DEF ClaimCut
<1>3. ASSUME NEW s \in Sessions, RemoveWorktreeOf(s) PROVE tree'[l] = tree[l] \/ op[s].l = l
  BY <1>3 DEF RemoveWorktreeOf
<1>4. ASSUME NEW s \in Sessions, NEW k \in LeaseIds, Edit(s, k) \/ Commit(s, k)
      PROVE  tree'[l] = tree[l] \/ (tree[l] # "none" /\ tree'[l] # "none")
  BY <1>4 DEF Edit, Commit
<1>5. QED
  BY ZenonT(40), <1>1, <1>2, <1>3, <1>4
  DEF Next, SessionStep, AttachConversation, OpenWork, SpawnOntoFirstTask, ClaimWorktree,
      ClaimLook, ClaimReserve, ClaimUndo, BindLeaseRoots, ShareLook, RefuseACollision, ShareJoin,
      ReleaseWorktree, KeptForASharer, ConditionStatus, ConditionMerged, RemoveRoot, MarkLease,
      CompleteTask, PreviewDeletion, DeleteWork, ConfirmationExpires, DeleteTx, Die, Merge, disk

(* The row of a lease is written. *)
Reserved(s, l) ==
    /\ op[s].pc = "reserve" /\ lease[l].state = "none" /\ sess[s].work \in Works
    /\ lease'[l] = [state |-> "held", work |-> sess[s].work, by |-> s]
    /\ op'[s].pc = "cut" /\ op'[s].l = l
    /\ UNCHANGED <<tree, del>>
    /\ (del.pc = "tx" /\ del.work = sess[s].work) => l \in hist'.late

LEMMA ReserveEffect ==
    ASSUME TypeInv, NEW s \in Sessions, ClaimReserve(s)
    PROVE  \/ UNCHANGED lease /\ op'[s].pc # "cut"
           \/ \E l \in LeaseIds : Reserved(s, l) /\ \A k \in LeaseIds \ {l} : lease'[k] = lease[k]
<1> USE Facts
<1>1. sess[s].work \in Works /\ op[s].pc = "reserve"
  BY DEF TypeInv, StoreOK, OpOK, Fits, ClaimReserve
<1>2. ASSUME Fails(s) PROVE op'[s].pc # "cut"
  BY <1>2, IdleRecords DEF Fails, OpPcs
<1>3. ASSUME op' = [op EXCEPT ![s].pc = "readback"] PROVE op'[s].pc # "cut"
  BY <1>3 DEF OpRec
<1>4. ASSUME NEW l \in LeaseIds, lease[l].state = "none",
             lease' = [lease EXCEPT ![l] = [state |-> "held", work |-> sess[s].work, by |-> s]],
             op' = [op EXCEPT ![s].pc = "cut", ![s].l = l],
             hist' = [hist EXCEPT !.late =
                        IF del.pc = "tx" /\ del.work = sess[s].work THEN @ \cup {l} ELSE @],
             UNCHANGED <<disk, human>>
      PROVE  Reserved(s, l) /\ \A k \in LeaseIds \ {l} : lease'[k] = lease[k]
  <2>1. op'[s].pc = "cut" /\ op'[s].l = l
    BY <1>4 DEF OpRec
  <2>2. (del.pc = "tx" /\ del.work = sess[s].work) => l \in hist'.late
    BY <1>4 DEF HistRec
  <2>3. QED
    BY <1>1, <1>4, <2>1, <2>2 DEF Reserved, disk, human
<1>5. QED
  BY <1>2, <1>3, <1>4 DEF ClaimReserve, store

(* How the row of a lease changes. *)
LEMMA LeaseEffect ==
    ASSUME TypeInv, Next, NEW l \in LeaseIds
    PROVE  \/ lease'[l] = lease[l]
           \/ \E s \in Sessions : Reserved(s, l)
           \/ \E s \in Sessions : ClaimUndo(s) /\ op[s].l = l /\ lease'[l].state = "void"
           \/ \E s \in Sessions : /\ MarkLease(s) /\ op[s].l = l /\ lease'[l].work = lease[l].work
                                  /\ lease'[l].state = IF lease[l].state = "void" THEN "void"
                                       ELSE IF op[s].pc = "mark_removed" THEN "removed" ELSE "released"
           \/ DeleteTx /\ lease'[l].state = lease[l].state
                /\ lease'[l].work = IF lease[l].work = del.work THEN NoWork ELSE lease[l].work
<1> USE Facts
<1>1. CASE UNCHANGED lease
  BY <1>1
<1>2. ASSUME NEW s \in Sessions, ClaimReserve(s)
      PROVE  lease'[l] = lease[l] \/ Reserved(s, l)
  BY <1>2, ReserveEffect
<1>3. ASSUME NEW s \in Sessions, ClaimUndo(s)
      PROVE  lease'[l] = lease[l] \/ (op[s].l = l /\ lease'[l].state = "void")
  BY <1>3 DEF ClaimUndo
<1>4. ASSUME NEW s \in Sessions, MarkLease(s)
      PROVE  \/ lease'[l] = lease[l]
             \/ /\ op[s].l = l /\ lease'[l].work = lease[l].work
                /\ lease'[l].state = IF lease[l].state = "void" THEN "void"
                                       ELSE IF op[s].pc = "mark_removed" THEN "removed" ELSE "released"
  BY <1>4 DEF MarkLease, LeaseRec
<1>5. CASE DeleteTx
  BY <1>5 DEF DeleteTx
<1>6. QED
  BY ZenonT(40), <1>1, <1>2, <1>3, <1>4, <1>5
  DEF Next, SessionStep, AttachConversation, OpenWork, SpawnOntoFirstTask, ClaimWorktree,
      ClaimLook, ClaimCut, BindLeaseRoots, ShareLook, RefuseACollision, ShareJoin,
      ReleaseWorktree, KeptForASharer, ConditionStatus, ConditionMerged, RemoveWorktreeOf,
      RemoveRoot, Edit, Commit, Merge, CompleteTask, PreviewDeletion, DeleteWork, ConfirmationExpires, Die, store

(* What was noted of a lease stays noted. *)
LEMMA HistGrows ==
    ASSUME TypeInv, Next
    PROVE  /\ hist.died \subseteq hist'.died /\ hist.left \subseteq hist'.left
           /\ hist.shown \subseteq hist'.shown /\ hist.late \subseteq hist'.late
           /\ hist.uncut \subseteq hist'.uncut
<1> DEFINE Grow == /\ hist.died \subseteq hist'.died /\ hist.left \subseteq hist'.left
                   /\ hist.shown \subseteq hist'.shown /\ hist.late \subseteq hist'.late
                   /\ hist.uncut \subseteq hist'.uncut
<1> USE Facts DEF HistRec
<1>1. CASE UNCHANGED hist
  BY <1>1
<1>2. ASSUME NEW s \in Sessions,
             ClaimReserve(s) \/ ClaimCut(s) \/ ShareJoin(s) \/ KeptForASharer(s) \/ RemoveWorktreeOf(s) \/ Die(s)
      PROVE  Grow
  <2>1. CASE ClaimReserve(s)
    BY <2>1 DEF ClaimReserve
  <2>2. CASE ClaimCut(s) \/ RemoveWorktreeOf(s)
    BY <2>2 DEF ClaimCut, RemoveWorktreeOf
  <2>3. CASE ShareJoin(s) \/ KeptForASharer(s)
    BY <2>3 DEF ShareJoin, KeptForASharer
  <2>4. CASE Die(s)
    BY <2>4 DEF Die
  <2>5. QED
    BY <1>2, <2>1, <2>2, <2>3, <2>4
<1>3. CASE DeleteWork
  BY <1>3 DEF DeleteWork
<1>4. QED
  BY <1>1, <1>2, <1>3
  DEF Next, SessionStep, AttachConversation, OpenWork, SpawnOntoFirstTask, ClaimWorktree,
      ClaimLook, ClaimUndo, BindLeaseRoots, ShareLook, RefuseACollision, ReleaseWorktree,
      ConditionStatus, ConditionMerged, RemoveRoot, MarkLease, Edit, Commit, Merge,
      CompleteTask, PreviewDeletion, ConfirmationExpires, DeleteTx

-----------------------------------------------------------------------------
(* A session that is between the row and the tree of a lease leaves with   *)
(* the tree cut, the row changed, or the lease noted.                      *)
Between == {"cut", "undo", "unroot", "mark_removed"}

LEMMA LeavesBetween ==
    ASSUME TypeInv, Next, NEW s \in Sessions, NEW l \in LeaseIds,
           op[s].l = l, op[s].pc \in Between
    PROVE  \/ op'[s].l = l /\ op'[s].pc \in Between
           \/ tree'[l] # "none" \/ lease'[l].state # "held"
           \/ l \in hist'.died \cup hist'.left
<1> USE Facts DEF Between
<1>1. CASE op'[s] = op[s]
  BY <1>1
<1>2. CASE op'[s] # op[s]
  <2>1. SessionStep(s)
    BY <1>2, OwnHand
  <2>2. CASE ClaimCut(s)
    BY <2>2 DEF ClaimCut, OpRec, HistRec
  <2>3. CASE ClaimUndo(s)
    BY <2>3 DEF ClaimUndo
  <2>4. CASE RemoveRoot(s)
    BY <2>4 DEF RemoveRoot, OpRec
  <2>5. CASE MarkLease(s)
    <3>1. op[s].pc = "mark_removed"
      BY <2>5 DEF MarkLease
    <3>2. lease'[l].state # "held"
      BY <2>5, <3>1 DEF MarkLease, LeaseRec
    <3>3. QED
      BY <3>2
  <2>6. CASE Die(s)
    BY <2>6, NoneAssumption DEF Die, HistRec
  <2>7. QED
    BY <1>2, <2>1, <2>2, <2>3, <2>4, <2>5, <2>6
    DEF SessionStep, AttachConversation, OpenWork, SpawnOntoFirstTask, ClaimWorktree, Running,
        ClaimLook, ClaimReserve, BindLeaseRoots, ShareLook, RefuseACollision, ShareJoin,
        ReleaseWorktree, KeptForASharer, ConditionStatus, ConditionMerged, RemoveWorktreeOf,
        Edit, Commit, CompleteTask, TypeInv, OpOK, Fits
<1>3. QED
  BY <1>1, <1>2

LEMMA HeldStep ==
    ASSUME TypeInv, HeldHasTree, [Next]_vars
    PROVE  HeldHasTree'
<1>1. CASE UNCHANGED vars
  BY <1>1 DEF vars, store, disk, HeldHasTree
<1>2. ASSUME Next, NEW l \in LeaseIds, lease'[l].state = "held", tree'[l] = "none"
      PROVE  l \in hist'.died \cup hist'.left
             \/ \E s \in Sessions : op'[s].l = l /\ op'[s].pc \in Between
  <2> USE Facts
  <2>1. CASE lease[l].state = "held" /\ tree[l] = "none"
    <3>1. CASE l \in hist.died \cup hist.left
      BY <1>2, <3>1, HistGrows
    <3>2. ASSUME NEW s \in Sessions, op[s].l = l, op[s].pc \in Between
          PROVE  l \in hist'.died \cup hist'.left \/ (op'[s].l = l /\ op'[s].pc \in Between)
      BY <1>2, <3>2, LeavesBetween
    <3>3. QED
      BY <2>1, <3>1, <3>2 DEF HeldHasTree, Between
  <2>2. CASE lease[l].state # "held"
    <3>1. PICK s \in Sessions : Reserved(s, l)
      BY <1>2, <2>2, LeaseEffect
    <3>2. QED
      BY <3>1 DEF Reserved, Between
  <2>3. CASE tree[l] # "none"
    <3>1. PICK s \in Sessions : (ClaimCut(s) \/ RemoveWorktreeOf(s)) /\ op[s].l = l
      BY <1>2, <2>3, TreeEffect
    <3>2. ~ClaimCut(s)
      BY <1>2, <2>3, <3>1 DEF ClaimCut
    <3>3. op'[s].l = l /\ op'[s].pc = "unroot"
      BY <1>2, <2>3, <3>1, <3>2 DEF RemoveWorktreeOf, OpRec
    <3>4. QED
      BY <3>3 DEF Between
  <2>4. QED
    BY <2>1, <2>2, <2>3
<1>3. QED
  BY <1>1, <1>2 DEF HeldHasTree, Between

(* A held lease has its worktree, or somebody is between the row and the   *)
(* tree or stopped there; so a claim that git refused never leaves a work  *)
(* with a lease and no tree (claim_lease, release_lease).                  *)
THEOREM HeldCorrect == Spec => []HeldHasTree
<1>1. Init => TypeInv /\ HeldHasTree
  BY InitTyped DEF Init, HeldHasTree
<1>2. TypeInv /\ HeldHasTree /\ [Next]_vars => TypeInv' /\ HeldHasTree'
  BY TypeStep, HeldStep
<1>3. QED
  BY <1>1, <1>2, PTL DEF Spec

(* No step removes a tree with uncommitted changes, however long ago the   *)
(* release looked at it (remove_worktree_of).                              *)
THEOREM DirtyCorrect == Spec => DirtyTreeStays
<1>1. Init => TypeInv
  BY InitTyped
<1>2. TypeInv /\ [Next]_vars => TypeInv'
  BY TypeStep
<1>3. TypeInv /\ [Next]_vars => [\A l \in LeaseIds : tree[l] = "dirty" => tree'[l] # "none"]_vars
  <2> SUFFICES ASSUME TypeInv, Next, NEW l \in LeaseIds, tree[l] = "dirty"
               PROVE  tree'[l] # "none"
    BY DEF vars
  <2> USE Facts
  <2>1. ASSUME NEW s \in Sessions, ClaimCut(s), op[s].l = l PROVE tree'[l] # "none"
    BY <2>1 DEF ClaimCut
  <2>2. ASSUME NEW s \in Sessions, RemoveWorktreeOf(s), op[s].l = l PROVE tree'[l] # "none"
    BY <2>2 DEF RemoveWorktreeOf
  <2>3. QED
    BY <2>1, <2>2, TreeEffect
<1>4. QED
  BY <1>1, <1>2, <1>3, PTL DEF Spec, DirtyTreeStays

-----------------------------------------------------------------------------
(* A release that goes on after it asked who shares the lease knows them,  *)
(* but for those who joined since.                                         *)
Asked(s) ==
    op[s].pc \in {"status", "merged", "remove"} =>
      sharers[op[s].l] \subseteq {op[s].by} \/ s \in hist.joined

AskedInv == \A s \in Sessions : Asked(s)

(* A session shares a lease, and who is releasing it is noted. *)
LEMMA SharersEffect ==
    ASSUME TypeInv, Next, NEW l \in LeaseIds
    PROVE  sharers'[l] \subseteq sharers[l] \/ \E r \in Sessions : ShareJoin(r) /\ op[r].l = l
<1> USE Facts
<1>1. CASE UNCHANGED sharers
  BY <1>1
<1>2. ASSUME NEW r \in Sessions, ClaimUndo(r) PROVE sharers'[l] \subseteq sharers[l]
  BY <1>2 DEF ClaimUndo
<1>3. ASSUME NEW r \in Sessions, ShareJoin(r)
      PROVE  sharers'[l] \subseteq sharers[l] \/ op[r].l = l
  BY <1>3 DEF ShareJoin
<1>4. CASE DeleteTx
  BY <1>4 DEF DeleteTx
<1>5. QED
  BY ZenonT(40), <1>1, <1>2, <1>3, <1>4
  DEF Next, SessionStep, AttachConversation, OpenWork, SpawnOntoFirstTask, ClaimWorktree,
      ClaimLook, ClaimReserve, ClaimCut, BindLeaseRoots, ShareLook, RefuseACollision,
      ReleaseWorktree, KeptForASharer, ConditionStatus, ConditionMerged, RemoveWorktreeOf,
      RemoveRoot, MarkLease, Edit, Commit, Merge, CompleteTask, PreviewDeletion, DeleteWork,
      ConfirmationExpires, Die, store

LEMMA JoinedEffect ==
    ASSUME TypeInv, Next, NEW s \in Sessions, s \in hist.joined
    PROVE  s \in hist'.joined \/ KeptForASharer(s) \/ Die(s)
<1> USE Facts DEF HistRec
<1>1. CASE UNCHANGED hist
  BY <1>1
<1>2. ASSUME NEW r \in Sessions,
             ClaimReserve(r) \/ ClaimCut(r) \/ ShareJoin(r) \/ KeptForASharer(r) \/ RemoveWorktreeOf(r) \/ Die(r)
      PROVE  s \in hist'.joined \/ (r = s /\ (KeptForASharer(r) \/ Die(r)))
  <2>1. CASE ClaimReserve(r)
    BY <2>1 DEF ClaimReserve
  <2>2. CASE ClaimCut(r) \/ RemoveWorktreeOf(r)
    BY <2>2 DEF ClaimCut, RemoveWorktreeOf
  <2>3. CASE ShareJoin(r)
    BY <2>3 DEF ShareJoin
  <2>4. CASE Die(r)
    BY <2>4 DEF Die
  <2>5. CASE KeptForASharer(r)
    BY <2>5 DEF KeptForASharer
  <2>6. QED
    BY <1>2, <2>1, <2>2, <2>3, <2>4, <2>5
<1>3. CASE DeleteWork
  BY <1>3 DEF DeleteWork
<1>4. QED
  BY ZenonT(40), <1>1, <1>2, <1>3
  DEF Next, SessionStep, AttachConversation, OpenWork, SpawnOntoFirstTask, ClaimWorktree,
      ClaimLook, ClaimUndo, BindLeaseRoots, ShareLook, RefuseACollision, ReleaseWorktree,
      ConditionStatus, ConditionMerged, RemoveRoot, MarkLease, Edit, Commit, Merge,
      CompleteTask, PreviewDeletion, ConfirmationExpires, DeleteTx

(* A release comes to these steps from the question, or from one of them   *)
(* with the same lease in hand.                                            *)
LEMMA ReachesStatus ==
    ASSUME TypeInv, Next, NEW s \in Sessions, op'[s].pc \in {"status", "merged", "remove"}
    PROVE  /\ \/ op[s].pc \in {"status", "merged", "remove"}
              \/ KeptForASharer(s) /\ sharers[op[s].l] \subseteq {op[s].by}
           /\ op'[s].l = op[s].l /\ op'[s].by = op[s].by
           /\ ~Die(s) /\ (KeptForASharer(s) => sharers[op[s].l] \subseteq {op[s].by})
<1> USE Facts DEF OpRec
<1>1. ~Die(s)
  BY IdleRecords DEF Die, OpPcs
<1>2. CASE KeptForASharer(s)
  <2>1. sharers[op[s].l] \ {op[s].by} = {}
    BY <1>2, IdleRecords DEF KeptForASharer
  <2>2. op'[s] = [op[s] EXCEPT !.pc = "status"]
    BY <1>2, <2>1 DEF KeptForASharer
  <2>3. op'[s].l = op[s].l /\ op'[s].by = op[s].by
    BY <2>2, GoesOn DEF OpPcs
  <2>4. QED
    BY <1>1, <1>2, <2>1, <2>3
<1>3. CASE op'[s] = op[s]
  BY <1>1, <1>3 DEF KeptForASharer
<1>4. CASE op'[s] # op[s] /\ ~KeptForASharer(s)
  <2>1. SessionStep(s)
    BY <1>4, OwnHand
  <2>2. ASSUME Fails(s) \/ op' = [op EXCEPT ![s] = Idle] \/ op' = [op EXCEPT ![s] = After(s)]
        PROVE  FALSE
    BY <2>2, EndedPc
  <2>4. CASE ConditionStatus(s)
    BY <1>1, <1>4, <2>4 DEF ConditionStatus
  <2>5. CASE ConditionMerged(s)
    BY <1>1, <1>4, <2>5 DEF ConditionMerged
  <2>6. ~ClaimWorktree(s)
    BY DEF ClaimWorktree
  <2>7. ~ClaimLook(s)
    BY <2>2 DEF ClaimLook
  <2>8. ~ClaimReserve(s)
    BY <2>2 DEF ClaimReserve
  <2>9. ~ClaimCut(s) /\ ~ClaimUndo(s) /\ ~BindLeaseRoots(s)
    BY <2>2 DEF ClaimCut, ClaimUndo, BindLeaseRoots
  <2>10. ~ShareLook(s) /\ ~RefuseACollision(s) /\ ~ShareJoin(s)
    BY <2>2 DEF ShareLook, RefuseACollision, ShareJoin
  <2>11. \A l \in LeaseIds : ~ReleaseWorktree(s, l)
    BY ZenonT(40) DEF ReleaseWorktree, Idle
  <2>12. ~RemoveWorktreeOf(s) /\ ~RemoveRoot(s) /\ ~MarkLease(s)
    BY <2>2 DEF RemoveWorktreeOf, RemoveRoot, MarkLease
  <2>13. \A owns : ~SpawnOntoFirstTask(s, owns)
    BY <2>2 DEF SpawnOntoFirstTask
  <2>14. \A w, place : ~OpenWork(s, w, place)
    <3> SUFFICES ASSUME NEW w, NEW place, OpenWork(s, w, place) PROVE FALSE
      OBVIOUS
    <3>1. PICK pc \in {"spawn", "look", "lend"}, lender \in Works \cup {NoWork} :
            op' = [op EXCEPT ![s] = [Idle EXCEPT !.opens = TRUE, !.pc = pc, !.lender = lender]]
      BY DEF OpenWork
    <3>2. QED
      BY <3>1 DEF Idle
  <2>15. QED
    BY <1>1, <1>4, <2>1, <2>4, <2>5, <2>6, <2>7, <2>8, <2>9, <2>10, <2>11, <2>12, <2>13, <2>14
    DEF SessionStep, AttachConversation, Edit, Commit, CompleteTask
<1>5. QED
  BY <1>2, <1>3, <1>4

LEMMA AskedStep ==
    ASSUME TypeInv, AskedInv, [Next]_vars
    PROVE  AskedInv'
<1>1. CASE UNCHANGED vars
  BY <1>1 DEF vars, store, AskedInv, Asked
<1>2. ASSUME Next, NEW s \in Sessions, op'[s].pc \in {"status", "merged", "remove"}
      PROVE  sharers'[op[s].l] \subseteq {op[s].by} \/ s \in hist'.joined
  <2> DEFINE l == op[s].l
  <2>1. l \in LeaseIds
    BY <1>2, ReachesStatus, Facts DEF OnLease, KeptForASharer
  <2>2. sharers[l] \subseteq {op[s].by} \/ s \in hist'.joined
    BY <1>2, ReachesStatus, JoinedEffect DEF AskedInv, Asked
  <2>3. ASSUME NEW r \in Sessions, ShareJoin(r), op[r].l = l
        PROVE  sharers'[l] \subseteq sharers[l] \/ s \in hist'.joined
    <3>1. CASE op[s].pc \in {"status", "merged", "remove"}
      BY <2>3, <3>1, Facts DEF ShareJoin, HistRec
    <3>2. CASE KeptForASharer(s)
      <4>1. sharers' = sharers
        BY <3>2 DEF KeptForASharer, store
      <4>2. QED
        BY <4>1
    <3>3. QED
      BY <1>2, <3>1, <3>2, ReachesStatus
  <2>4. QED
    BY <1>2, <2>1, <2>2, <2>3, SharersEffect
<1>3. QED
  BY <1>1, <1>2, ReachesStatus DEF AskedInv, Asked

(* A tree is not removed from under a session that shares it, unless that  *)
(* session joined after the release had asked (kept_for_a_sharer).         *)
THEOREM SharersCorrect == Spec => SharersKeepTheTree
<1>1. Init => TypeInv /\ AskedInv
  BY InitTyped DEF Init, AskedInv, Asked, Idle
<1>2. TypeInv /\ AskedInv /\ [Next]_vars => TypeInv' /\ AskedInv'
  BY TypeStep, AskedStep
<1>3. AskedInv /\ [Next]_vars =>
        [\A s \in Sessions : op[s].pc = "remove" /\ tree' # tree /\ op'[s] # op[s]
           => sharers[op[s].l] \subseteq {op[s].by} \/ s \in hist.joined]_vars
  BY DEF AskedInv, Asked
<1>4. QED
  BY <1>1, <1>2, <1>3, PTL DEF Spec, SharersKeepTheTree

-----------------------------------------------------------------------------
(* A lease is real when its tree is on disk or about to be.                *)
Cutting(s, l) == op[s].pc = "cut" /\ op[s].l = l

Real(l) == tree[l] # "none" \/ \E s \in Sessions : Cutting(s, l)

(* A tree is cut once, by the one who wrote the row, and before that there *)
(* is none.                                                                *)
CutInv ==
    /\ \A l \in LeaseIds : lease[l].state = "none" => tree[l] = "none"
    /\ \A s \in Sessions, l \in LeaseIds :
         Cutting(s, l) => tree[l] = "none" /\ \A r \in Sessions : Cutting(r, l) => r = s

(* A lease whose tree was taken away, or is marked so, is not real, unless *)
(* its tree was missing when the release looked and was cut after that.    *)
GoneInv ==
    /\ \A s \in Sessions : op[s].pc \in {"unroot", "mark_removed"} =>
         op[s].l \in hist.uncut \/ ~Real(op[s].l)
    /\ \A l \in LeaseIds : lease[l].state = "removed" => l \in hist.uncut \/ ~Real(l)

Known == hist.shown \cup hist.late \cup hist.uncut

(* What arms a deletion was shown; and a real lease that is open belongs   *)
(* to a work that is not being deleted, or is known.                       *)
ShownInv ==
    /\ \A w \in Works : armed[w] \subseteq hist.shown
    /\ \A l \in LeaseIds : lease[l].state \in {"held", "released"} /\ Real(l) =>
         \/ lease[l].work # NoWork /\ ~(del.pc = "tx" /\ del.work = lease[l].work)
         \/ l \in Known

(* A session comes to cut a tree by writing the row. *)
LEMMA ReachesCut ==
    ASSUME TypeInv, Next, NEW s \in Sessions, op'[s].pc = "cut"
    PROVE  op'[s] = op[s] \/ (op'[s].l \in LeaseIds /\ Reserved(s, op'[s].l))
<1> USE Facts DEF OpRec
<1>1. CASE op'[s] # op[s]
  <2>1. SessionStep(s)
    BY <1>1, OwnHand
  <2>2. ASSUME Fails(s) \/ op' = [op EXCEPT ![s] = Idle] \/ op' = [op EXCEPT ![s] = After(s)]
        PROVE  FALSE
    BY <2>2, EndedPc
  <2>3. CASE ClaimReserve(s)
    BY <2>3, ReserveEffect DEF Reserved
  <2>4. ~ClaimWorktree(s) /\ ~ConditionStatus(s) /\ ~ConditionMerged(s)
    BY DEF ClaimWorktree, ConditionStatus, ConditionMerged
  <2>5. ~ClaimLook(s)
    BY <2>2 DEF ClaimLook
  <2>6. ~KeptForASharer(s)
    BY <2>2 DEF KeptForASharer
  <2>7. ~ClaimCut(s) /\ ~ClaimUndo(s) /\ ~BindLeaseRoots(s)
    BY <2>2 DEF ClaimCut, ClaimUndo, BindLeaseRoots
  <2>8. ~ShareLook(s) /\ ~RefuseACollision(s) /\ ~ShareJoin(s)
    BY <2>2 DEF ShareLook, RefuseACollision, ShareJoin
  <2>9. (\A l \in LeaseIds : ~ReleaseWorktree(s, l)) /\ ~Die(s)
    <3>1. \A l \in LeaseIds : ~ReleaseWorktree(s, l)
      BY DEF ReleaseWorktree, Idle
    <3>2. ~Die(s)
      BY DEF Die, Idle
    <3>3. QED
      BY <3>1, <3>2
  <2>10. ~RemoveWorktreeOf(s) /\ ~RemoveRoot(s) /\ ~MarkLease(s)
    BY <2>2 DEF RemoveWorktreeOf, RemoveRoot, MarkLease
  <2>11. \A owns : ~SpawnOntoFirstTask(s, owns)
    BY <2>2 DEF SpawnOntoFirstTask
  <2>12. \A w, place : ~OpenWork(s, w, place)
    <3> SUFFICES ASSUME NEW w, NEW place, OpenWork(s, w, place) PROVE FALSE
      OBVIOUS
    <3>1. PICK pc \in {"spawn", "look", "lend"}, lender \in Works \cup {NoWork} :
            op' = [op EXCEPT ![s] = [Idle EXCEPT !.opens = TRUE, !.pc = pc, !.lender = lender]]
      BY DEF OpenWork
    <3>2. QED
      BY <3>1 DEF Idle
  <2>13. QED
    BY <1>1, <2>1, <2>3, <2>4, <2>5, <2>6, <2>7, <2>8, <2>9, <2>10, <2>11, <2>12
    DEF SessionStep, AttachConversation, Edit, Commit, CompleteTask
<1>2. QED
  BY <1>1

LEMMA CutStep ==
    ASSUME TypeInv, CutInv, [Next]_vars
    PROVE  CutInv'
<1>1. CASE UNCHANGED vars
  BY <1>1 DEF vars, store, disk, CutInv, Cutting
<1>2. CASE Next
  <2> USE Facts
  <2>1. ASSUME NEW l \in LeaseIds, lease'[l].state = "none" PROVE tree'[l] = "none"
    <3>1. lease[l].state = "none" /\ tree[l] = "none"
      BY <1>2, <2>1, StoreStep DEF Kept, CutInv
    <3>2. \A s \in Sessions : ~(ClaimCut(s) /\ op[s].l = l)
      BY <3>1 DEF ClaimCut, OnLease
    <3>3. \A s \in Sessions : ~(RemoveWorktreeOf(s) /\ op[s].l = l)
      BY <3>1 DEF RemoveWorktreeOf, OnLease
    <3>4. QED
      BY <1>2, <3>1, <3>2, <3>3, TreeEffect
  <2>2. ASSUME NEW s \in Sessions, NEW l \in LeaseIds, Cutting(s, l)'
        PROVE  \/ Cutting(s, l) /\ op'[s] = op[s]
               \/ Reserved(s, l)
    BY <1>2, <2>2, ReachesCut DEF Cutting
  <2>3. ASSUME NEW s \in Sessions, NEW l \in LeaseIds, Reserved(s, l)
        PROVE  tree'[l] = "none" /\ \A r \in Sessions : Cutting(r, l)' => r = s
    <3>1. tree'[l] = "none"
      BY <2>3 DEF Reserved, CutInv
    <3>2. ASSUME NEW r \in Sessions, Cutting(r, l)' PROVE r = s
      <4>1. ~Cutting(r, l)
        BY <2>3 DEF Cutting, Reserved, OnLease
      <4>2. op'[s] # op[s] /\ op'[r] # op[r]
        BY <2>3, <3>2, <4>1 DEF Reserved, Cutting
      <4>3. SessionStep(s)
        BY <1>2, <4>2, OwnHand
      <4>4. op' = op \/ \E q : Hands(s, q)
        BY <1>2, <4>3, StoreStep, SessionMoves
      <4>5. QED
        BY <4>2, <4>4 DEF Hands
    <3>3. QED
      BY <3>1, <3>2
  <2>4. ASSUME NEW s \in Sessions, NEW l \in LeaseIds, Cutting(s, l), op'[s] = op[s]
        PROVE  tree'[l] = "none"
    <3>1. tree[l] = "none"
      BY <2>4 DEF CutInv
    <3>2. ASSUME NEW r \in Sessions, ClaimCut(r), op[r].l = l PROVE FALSE
      <4>1. r = s
        BY <2>4, <3>2 DEF CutInv, Cutting, ClaimCut
      <4>2. op'[s].pc # "cut"
        BY <3>2, <4>1 DEF ClaimCut, Fails, OpRec, Idle
      <4>3. QED
        BY <2>4, <4>2 DEF Cutting
    <3>3. ASSUME NEW r \in Sessions, RemoveWorktreeOf(r), op[r].l = l PROVE tree'[l] = "none"
      BY <3>1, <3>3 DEF RemoveWorktreeOf
    <3>4. QED
      BY <1>2, <3>1, <3>2, <3>3, TreeEffect
  <2>5. ASSUME NEW s \in Sessions, NEW l \in LeaseIds, Cutting(s, l)'
        PROVE  tree'[l] = "none" /\ \A r \in Sessions : Cutting(r, l)' => r = s
    <3>1. CASE Reserved(s, l)
      BY <2>3, <3>1
    <3>2. CASE Cutting(s, l) /\ op'[s] = op[s]
      <4>1. ASSUME NEW r \in Sessions, Cutting(r, l)' PROVE r = s
        BY <2>2, <2>3, <2>5, <3>2, <4>1 DEF CutInv
      <4>2. QED
        BY <2>4, <3>2, <4>1
    <3>3. QED
      BY <2>2, <2>5, <3>1, <3>2
  <2>6. QED
    BY <2>1, <2>5 DEF CutInv
<1>3. QED
  BY <1>1, <1>2

(* A lease becomes real when its row is written, and not again. *)
LEMMA RealStays ==
    ASSUME TypeInv, CutInv, Next, NEW l \in LeaseIds, Real(l)'
    PROVE  Real(l) \/ \E s \in Sessions : Reserved(s, l)
<1> USE Facts
<1>1. CASE tree'[l] # "none" /\ tree[l] = "none"
  <2>1. PICK s \in Sessions : (ClaimCut(s) \/ RemoveWorktreeOf(s)) /\ op[s].l = l
    BY <1>1, TreeEffect
  <2>2. ~RemoveWorktreeOf(s)
    BY <1>1, <2>1 DEF RemoveWorktreeOf
  <2>3. QED
    BY <2>1, <2>2 DEF ClaimCut, Real, Cutting
<1>2. ASSUME NEW s \in Sessions, Cutting(s, l)' PROVE Cutting(s, l) \/ Reserved(s, l)
  BY <1>2, ReachesCut DEF Cutting
<1>3. QED
  BY <1>1, <1>2 DEF Real

(* A release comes to the marking of a removal by removing the tree. *)
LEMMA ReachesGone ==
    ASSUME TypeInv, Next, NEW s \in Sessions, op'[s].pc \in {"unroot", "mark_removed"}
    PROVE  /\ op'[s].l = op[s].l
           /\ op[s].pc \in {"unroot", "mark_removed"} \/ RemoveWorktreeOf(s)
<1> USE Facts DEF OpRec
<1>1. CASE op'[s] # op[s]
  <2>1. SessionStep(s)
    BY <1>1, OwnHand
  <2>2. ASSUME Fails(s) \/ op' = [op EXCEPT ![s] = Idle] \/ op' = [op EXCEPT ![s] = After(s)]
        PROVE  FALSE
    BY <2>2, EndedPc
  <2>3. CASE RemoveWorktreeOf(s)
    BY <2>2, <2>3 DEF RemoveWorktreeOf
  <2>4. CASE RemoveRoot(s)
    BY <2>4 DEF RemoveRoot
  <2>5. ~ClaimWorktree(s) /\ ~ConditionStatus(s) /\ ~ConditionMerged(s)
    BY DEF ClaimWorktree, ConditionStatus, ConditionMerged
  <2>6. ~ClaimLook(s) /\ ~ClaimReserve(s)
    BY <2>2 DEF ClaimLook, ClaimReserve
  <2>7. ~KeptForASharer(s)
    BY <2>2 DEF KeptForASharer
  <2>8. ~ClaimCut(s) /\ ~ClaimUndo(s) /\ ~BindLeaseRoots(s)
    BY <2>2 DEF ClaimCut, ClaimUndo, BindLeaseRoots
  <2>9. ~ShareLook(s) /\ ~RefuseACollision(s) /\ ~ShareJoin(s)
    BY <2>2 DEF ShareLook, RefuseACollision, ShareJoin
  <2>10. \A l \in LeaseIds : ~ReleaseWorktree(s, l)
    BY DEF ReleaseWorktree, Idle
  <2>11. ~Die(s)
    BY DEF Die, Idle
  <2>12. ~MarkLease(s)
    BY <2>2 DEF MarkLease
  <2>13. \A owns : ~SpawnOntoFirstTask(s, owns)
    BY <2>2 DEF SpawnOntoFirstTask
  <2>14. \A w, place : ~OpenWork(s, w, place)
    <3> SUFFICES ASSUME NEW w, NEW place, OpenWork(s, w, place) PROVE FALSE
      OBVIOUS
    <3>1. PICK pc \in {"spawn", "look", "lend"}, lender \in Works \cup {NoWork} :
            op' = [op EXCEPT ![s] = [Idle EXCEPT !.opens = TRUE, !.pc = pc, !.lender = lender]]
      BY DEF OpenWork
    <3>2. QED
      BY <3>1 DEF Idle
  <2>15. QED
    BY <1>1, <2>1, <2>3, <2>4, <2>5, <2>6, <2>7, <2>8, <2>9, <2>10, <2>11, <2>12, <2>13, <2>14
    DEF SessionStep, AttachConversation, Edit, Commit, CompleteTask
<1>2. QED
  BY <1>1

LEMMA GoneStep ==
    ASSUME TypeInv, CutInv, GoneInv, [Next]_vars
    PROVE  GoneInv'
<1>1. CASE UNCHANGED vars
  BY <1>1 DEF vars, store, disk, GoneInv, Real, Cutting
<1>2. CASE Next
  <2> USE Facts
  <2>1. ASSUME NEW l \in LeaseIds, lease[l].state # "none", l \in hist.uncut \/ ~Real(l)
        PROVE  l \in hist'.uncut \/ ~Real(l)'
    <3>1. hist.uncut \subseteq hist'.uncut
      BY <1>2, HistGrows
    <3>2. Real(l)' => Real(l)
      BY <1>2, <2>1, RealStays DEF Reserved
    <3>3. QED
      BY <2>1, <3>1, <3>2
  <2>2. ASSUME NEW s \in Sessions, RemoveWorktreeOf(s), op'[s].pc \in {"unroot", "mark_removed"},
               NEW l \in LeaseIds, op[s].l = l
        PROVE  l \in hist'.uncut \/ ~Real(l)'
    <3>1. CASE op[s].missing
      BY <2>2, <3>1 DEF RemoveWorktreeOf, HistRec
    <3>2. CASE ~op[s].missing
      <4>1. tree[l] = "clean" /\ tree'[l] = "none"
        BY <2>2, <3>2 DEF RemoveWorktreeOf, Idle
      <4>2. ASSUME NEW r \in Sessions, Cutting(r, l)' PROVE FALSE
        <5>1. ~Cutting(r, l) /\ lease[l].state # "none"
          BY <2>2, <4>1 DEF CutInv, RemoveWorktreeOf, OnLease
        <5>2. QED
          BY <1>2, <4>2, <5>1, ReachesCut DEF Cutting, Reserved
      <4>3. QED
        BY <4>1, <4>2 DEF Real
    <3>3. QED
      BY <3>1, <3>2
  <2>3. ASSUME NEW s \in Sessions, op'[s].pc \in {"unroot", "mark_removed"}
        PROVE  (op[s].l \in hist.uncut \/ ~Real(op[s].l))'
    <3>1. op'[s].l = op[s].l
          /\ (op[s].pc \in {"unroot", "mark_removed"} \/ RemoveWorktreeOf(s))
      BY <1>2, <2>3, ReachesGone
    <3>2. PICK l \in LeaseIds : l = op[s].l /\ lease[l].state # "none"
      BY <3>1 DEF OnLease, RemoveWorktreeOf
    <3>3. op[s].pc \in {"unroot", "mark_removed"} => l \in hist.uncut \/ ~Real(l)
      BY <3>2 DEF GoneInv, Real, Cutting
    <3>4. l \in hist'.uncut \/ ~Real(l)'
      BY <2>1, <2>2, <2>3, <3>1, <3>2, <3>3
    <3>5. QED
      BY <3>1, <3>2, <3>4 DEF Real, Cutting
  <2>4. ASSUME NEW l \in LeaseIds, lease'[l].state = "removed"
        PROVE  l \in hist'.uncut \/ ~Real(l)'
    <3>1. CASE lease[l].state = "removed"
      BY <2>1, <3>1 DEF GoneInv
    <3>2. CASE lease[l].state # "removed"
      <4>1. PICK s \in Sessions : op[s].pc = "mark_removed" /\ op[s].l = l
        <5>1. \A s \in Sessions : ~Reserved(s, l)
          BY <2>4 DEF Reserved
        <5>2. QED
          BY <1>2, <2>4, <3>2, <5>1, LeaseEffect
      <4>2. l \in hist.uncut \/ ~Real(l)
        BY <4>1 DEF GoneInv, Real, Cutting
      <4>3. QED
        BY <2>1, <4>1, <4>2 DEF OnLease
    <3>3. QED
      BY <3>1, <3>2
  <2>5. QED
    BY <2>3, <2>4 DEF GoneInv
<1>3. QED
  BY <1>1, <1>2

LEMMA ShownStep ==
    ASSUME TypeInv, CutInv, GoneInv, ShownInv, [Next]_vars
    PROVE  ShownInv'
<1>1. CASE UNCHANGED vars
  BY <1>1 DEF vars, store, disk, human, ShownInv, Real, Cutting, Known
<1>2. CASE Next
  <2> USE Facts
  <2>1. armed \in [Works -> SUBSET LeaseIds] /\ HumanOK
    BY DEF TypeInv, HumanOK
  <2>2. \A w \in Works : armed'[w] \subseteq hist'.shown
    <3>1. hist.shown \subseteq hist'.shown
      BY <1>2, HistGrows
    <3>2. ASSUME DeleteWork, NEW w \in Works
          PROVE  armed'[w] \subseteq hist'.shown
      BY <2>1, <3>1, <3>2 DEF DeleteWork, ShownInv, HistRec
    <3>3. ASSUME NEW v \in Works, ConfirmationExpires(v), NEW w \in Works
          PROVE  armed'[w] \subseteq hist'.shown
      BY <2>1, <3>1, <3>3 DEF ConfirmationExpires, ShownInv
    <3>4. CASE UNCHANGED armed
      BY <3>1, <3>4 DEF ShownInv
    <3>5. QED
      BY ZenonT(40), <1>2, <3>2, <3>3, <3>4
      DEF Next, SessionStep, AttachConversation, OpenWork, SpawnOntoFirstTask, ClaimWorktree,
          ClaimLook, ClaimReserve, ClaimCut, ClaimUndo, BindLeaseRoots, ShareLook,
          RefuseACollision, ShareJoin, ReleaseWorktree, KeptForASharer, ConditionStatus,
          ConditionMerged, RemoveWorktreeOf, RemoveRoot, MarkLease, Edit, Commit, Merge,
          CompleteTask, Die, PreviewDeletion, DeleteTx, human
  <2>3. Known \subseteq Known'
    BY <1>2, HistGrows DEF Known
  <2>4. ASSUME NEW l \in LeaseIds, lease'[l].state \in {"held", "released"}, Real(l)', l \notin Known'
        PROVE  lease'[l].work # NoWork /\ ~(del'.pc = "tx" /\ del'.work = lease'[l].work)
    <3>1. CASE \E s \in Sessions : Reserved(s, l)
      BY <2>4, <3>1, NoneAssumption DEF Reserved, Known
    <3>2. CASE ~\E s \in Sessions : Reserved(s, l)
      <4>1. Real(l) /\ l \notin Known
        BY <1>2, <2>3, <2>4, <3>2, RealStays
      <4>2. lease[l].state \in {"held", "released"}
        <5>1. lease[l].state # "none"
          <6>1. ASSUME NEW s \in Sessions, ClaimUndo(s) \/ MarkLease(s), op[s].l = l
                PROVE  lease[l].state # "none"
            BY <6>1 DEF ClaimUndo, MarkLease, OnLease
          <6>2. QED
            BY <1>2, <2>4, <3>2, <6>1, LeaseEffect
        <5>2. lease[l].state # "removed"
          BY <4>1 DEF GoneInv, Known
        <5>3. lease[l].state # "void"
          BY <1>2, <2>4, <3>2, LeaseEffect
        <5>4. QED
          BY <5>1, <5>2, <5>3 DEF LeaseRec
      <4>3. lease[l].work # NoWork /\ ~(del.pc = "tx" /\ del.work = lease[l].work)
        BY <4>1, <4>2 DEF ShownInv
      <4>4. CASE DeleteTx
        <5>1. lease'[l].work = lease[l].work /\ del' = NoDel
          BY <4>3, <4>4, <2>1 DEF DeleteTx
        <5>2. QED
          BY <4>3, <5>1 DEF NoDel
      <4>5. CASE DeleteWork
        <5>1. lease' = lease
          BY <4>5 DEF DeleteWork, store
        <5>2. CASE del' = NoDel
          BY <4>3, <5>1, <5>2 DEF NoDel
        <5>3. CASE del' # NoDel
          <6>1. /\ del' = [del EXCEPT !.pc = "tx"]
                /\ del.doomed = {} \/ armed[del.work] = del.doomed
                /\ Listed(del.work) \ del.doomed \subseteq hist'.late
                /\ del.work \in Works
            BY <4>5, <5>3, <2>1 DEF DeleteWork, Arms, HumanOK, HistRec
          <6>2. l \notin del.doomed
            BY <4>1, <6>1 DEF ShownInv, Known
          <6>3. l \notin Listed(del.work)
            BY <2>4, <6>1, <6>2 DEF Known
          <6>4. lease[l].work # del.work
            BY <4>2, <6>3 DEF Listed
          <6>5. del'.work = del.work
            BY <2>1, <6>1 DEF HumanOK
          <6>6. QED
            BY <4>3, <5>1, <6>4, <6>5
        <5>4. QED
          BY <5>2, <5>3
      <4>8. ASSUME NEW w \in Works, PreviewDeletion(w)
            PROVE  lease'[l].work # NoWork /\ ~(del'.pc = "tx" /\ del'.work = lease'[l].work)
        BY <4>3, <4>8 DEF PreviewDeletion, store
      <4>6. CASE UNCHANGED del
        BY <1>2, <2>4, <3>2, <4>3, <4>4, <4>6, LeaseEffect
      <4>7. QED
        BY ZenonT(40), <1>2, <4>4, <4>5, <4>6, <4>8
        DEF Next, SessionStep, AttachConversation, OpenWork, SpawnOntoFirstTask, ClaimWorktree,
            ClaimLook, ClaimReserve, ClaimCut, ClaimUndo, BindLeaseRoots, ShareLook,
            RefuseACollision, ShareJoin, ReleaseWorktree, KeptForASharer, ConditionStatus,
            ConditionMerged, RemoveWorktreeOf, RemoveRoot, MarkLease, Edit, Commit, Merge,
            CompleteTask, Die, ConfirmationExpires, human
    <3>3. QED
      BY <3>1, <3>2
  <2>5. QED
    BY <2>2, <2>4 DEF ShownInv
<1>3. QED
  BY <1>1, <1>2

(* A worktree on disk that lost its work to a deletion was named in a      *)
(* refusal before, or came after the deletion had looked: what a person    *)
(* confirms is what is left behind (delete_work, Confirmation::arms).      *)
THEOREM OrphansCorrect == Spec => []OrphansWereShown
<1> DEFINE Inv == TypeInv /\ CutInv /\ GoneInv /\ ShownInv
<1>1. Init => Inv
  <2> SUFFICES ASSUME Init PROVE CutInv /\ GoneInv /\ ShownInv
    BY InitTyped
  <2>1. CutInv
    BY DEF Init, CutInv, Cutting, Idle
  <2>2. GoneInv
    BY DEF Init, GoneInv, Idle
  <2>3. ShownInv
    BY DEF Init, ShownInv
  <2>4. QED
    BY <2>1, <2>2, <2>3
<1>2. Inv /\ [Next]_vars => Inv'
  BY TypeStep, CutStep, GoneStep, ShownStep
<1>3. Inv => OrphansWereShown
  BY DEF ShownInv, OrphansWereShown, Real, Known
<1> HIDE DEF Inv
<1>4. QED
  BY <1>1, <1>2, <1>3, PTL DEF Spec
=============================================================================
