------------------------------- MODULE Leases -------------------------------
(***************************************************************************)
(* Worktrees: how a session comes to write in a checkout of its own, how   *)
(* a second work is let into it, how it is given back, and what deleting a *)
(* work does to it.  core/src/leases.rs, the deletion in core/src/works.rs *)
(* and the opening in core/src/orchestrator.rs and core/src/mcp.rs.        *)
(*                                                                         *)
(* A lease is a row and a directory, and no step changes both: the row is  *)
(* written before git cuts the tree and marked after git removed it.       *)
(* Every store write and every git command is a step; between two of them  *)
(* any other session may move and the process may die.                     *)
(*                                                                         *)
(* One repository.  A path is the set of the files it covers, so two paths *)
(* overlap (works::overlapping) when the sets meet.                        *)
(***************************************************************************)
EXTENDS Naturals, FiniteSets

CONSTANTS
    Works,      \* ids of works
    Sessions,   \* ids of conversations; each is attached to one work
    LeaseIds,   \* ids of leases, and with them of worktrees and branches
    Files,      \* the files of the repository a task may own
    NoWork, NoSession, NoLease,
    MaxDeaths,  \* how many operations die half way
    Deletes     \* whether the person deletes works

ASSUME NoneAssumption ==
    /\ NoWork \notin Works /\ NoSession \notin Sessions /\ NoLease \notin LeaseIds
ASSUME BoundAssumption == MaxDeaths \in Nat /\ Deletes \in BOOLEAN

VARIABLES
    work,       \* works: "none", "live" or "deleted"
    sess,       \* conversations: [at, work, owns], owns what the unfinished task owns
    lease,      \* leases: [state, work, by]; "void" is a row taken back
    sharers,    \* lease_sharers
    roots,      \* conversation_roots that are writable worktrees
    tree,       \* the worktree on disk: "none", "clean" or "dirty"
    ahead,      \* whether the branch has commits its base has not
    op,         \* what each session, or the one opening it, is in the middle of
    del,        \* the deletion under way: [pc, work, doomed]
    armed,      \* the settings row that arms a deletion: a set of leases, {} if none
    hist,       \* history, read by properties only
    deaths

store == <<work, sess, lease, sharers, roots>>
disk == <<tree, ahead>>
human == <<del, armed>>
vars == <<store, disk, op, human, hist, deaths>>

Idle == [pc |-> "idle", l |-> NoLease, lender |-> NoWork, opens |-> FALSE,
         by |-> NoSession, missing |-> FALSE, dirty |-> FALSE]

NoDel == [pc |-> "idle", work |-> NoWork, doomed |-> {}]

Init ==
    /\ work = [w \in Works |-> "none"]
    /\ sess = [s \in Sessions |->
                 [at |-> "none", work |-> NoWork, owns |-> {}]]
    /\ lease = [l \in LeaseIds |-> [state |-> "none", work |-> NoWork, by |-> NoSession]]
    /\ sharers = [l \in LeaseIds |-> {}]
    /\ roots = [s \in Sessions |-> {}]
    /\ tree = [l \in LeaseIds |-> "none"]
    /\ ahead = [l \in LeaseIds |-> FALSE]
    /\ op = [s \in Sessions |-> Idle]
    /\ del = NoDel
    /\ armed = [w \in Works |-> {}]
    /\ hist = [shown |-> {}, late |-> {}, uncut |-> {}, died |-> {}, left |-> {}, joined |-> {}]
    /\ deaths = 0

-----------------------------------------------------------------------------
(* Reads.                                                                  *)

HeldLeases(w) == {l \in LeaseIds : lease[l].state = "held" /\ lease[l].work = w}

\* held_lease: the partial unique index leaves at most one.
HeldLease(w) == IF HeldLeases(w) = {} THEN NoLease ELSE CHOOSE l \in HeldLeases(w) : TRUE

\* Mutant: a released worktree is not listed.
ListedHeld(w) == HeldLeases(w)

\* work_leases without the removed ones, as a preview lists them.
Listed(w) == {l \in LeaseIds : lease[l].work = w /\ lease[l].state \in {"held", "released"}}

Occupants(l) == ({lease[l].by} \ {NoSession}) \cup sharers[l]

SafeToRemove(o, merged) == o.missing \/ (~o.dirty /\ merged)

Running(s) == sess[s].at = "live" /\ op[s].pc = "idle"

-----------------------------------------------------------------------------
(* Opening a work: a work, its first task, a conversation attached to it,  *)
(* and then the placement.  Nobody knows the new ids before the placement  *)
(* begins, so what precedes it is one step.                                *)

OpenWork(s, w, place) ==
    /\ work[w] = "none" /\ sess[s].at = "none"
    /\ work' = [work EXCEPT ![w] = "live"]
    /\ sess' = [sess EXCEPT ![s] = [@ EXCEPT !.at = "opening", !.work = w]]
    /\ op' = [op EXCEPT ![s] =
                [Idle EXCEPT !.opens = TRUE,
                             !.pc = CASE place = "explore" -> "spawn"
                                      [] place = "worktree" -> "look"
                                      [] OTHER -> "lend",
                             !.lender = IF place \in Works THEN place ELSE NoWork]]
    /\ UNCHANGED <<lease, sharers, roots, disk, human, hist, deaths>>

\* A further session of a work, attached with attach_conversation.
AttachConversation(s, w) ==
    /\ sess[s].at = "none" /\ work[w] = "live"
    /\ sess' = [sess EXCEPT ![s] = [@ EXCEPT !.at = "live", !.work = w]]
    /\ UNCHANGED <<work, lease, sharers, roots, disk, op, human, hist, deaths>>

\* The spawn succeeded: the session runs, and only now is it given the first
\* task of the work and the files that task owns.
SpawnOntoFirstTask(s, owns) ==
    /\ op[s].pc = "spawn" /\ sess[s].at = "opening"
    /\ sess' = [sess EXCEPT ![s] = [@ EXCEPT !.at = "live", !.owns = owns]]
    /\ op' = [op EXCEPT ![s] = Idle]
    /\ UNCHANGED <<work, lease, sharers, roots, disk, human, hist, deaths>>

\* Where an operation that began inside open_work goes on, and where one that a
\* running session called ends.
After(s) == IF op[s].opens THEN [Idle EXCEPT !.pc = "spawn", !.opens = TRUE] ELSE Idle

\* An error leaves open_work as it is: the work and the session stay, nothing
\* is spawned.  A call of a running session is refused.
Fails(s) == op' = [op EXCEPT ![s] = IF op[s].opens THEN [Idle EXCEPT !.pc = "dead"] ELSE Idle]

-----------------------------------------------------------------------------
(* claim_lease                                                             *)

ClaimWorktree(s) ==
    /\ Running(s) /\ sess[s].work # NoWork
    /\ op' = [op EXCEPT ![s].pc = "look"]
    /\ UNCHANGED <<store, disk, human, hist, deaths>>

\* The first look, and the one after the index refused the reservation.
ClaimLook(s) ==
    /\ op[s].pc \in {"look", "readback"}
    /\ LET l == HeldLease(sess[s].work) IN
       \/ l # NoLease /\ op' = [op EXCEPT ![s].pc = "bind", ![s].l = l]
       \/ l = NoLease /\ op[s].pc = "look" /\ op' = [op EXCEPT ![s].pc = "reserve"]
       \/ l = NoLease /\ op[s].pc = "readback" /\ Fails(s)
    /\ UNCHANGED <<store, disk, human, hist, deaths>>

\* The row is inserted before the worktree exists.  A deleted work or session
\* is a foreign key that fails.
ClaimReserve(s) ==
    /\ op[s].pc = "reserve"
    /\ \/ /\ sess[s].at = "deleted" \/ work[sess[s].work] # "live"
          /\ Fails(s)
          /\ UNCHANGED <<store, hist>>
       \/ /\ sess[s].at # "deleted" /\ work[sess[s].work] = "live"
          /\ HeldLeases(sess[s].work) # {}
          /\ op' = [op EXCEPT ![s].pc = "readback"]
          /\ UNCHANGED <<store, hist>>
       \/ /\ sess[s].at # "deleted" /\ work[sess[s].work] = "live"
          /\ HeldLeases(sess[s].work) = {}
          /\ \E l \in LeaseIds :
               /\ lease[l].state = "none"
               /\ lease' = [lease EXCEPT ![l] =
                              [state |-> "held", work |-> sess[s].work, by |-> s]]
               /\ op' = [op EXCEPT ![s].pc = "cut", ![s].l = l]
               /\ hist' = [hist EXCEPT !.late =
                             IF del.pc = "tx" /\ del.work = sess[s].work THEN @ \cup {l} ELSE @]
          /\ UNCHANGED <<work, sess, sharers, roots>>
    /\ UNCHANGED <<disk, human, deaths>>

\* create_dir_all and git worktree add.  When git refuses, the reservation is
\* taken back; when the directory above cannot be made, the call returns at once.
ClaimCut(s) ==
    /\ op[s].pc = "cut"
    /\ \/ /\ tree' = [tree EXCEPT ![op[s].l] = "clean"]
          /\ op' = [op EXCEPT ![s].pc = "bind"]
          /\ UNCHANGED hist
       \/ /\ op' = [op EXCEPT ![s].pc = "undo"]
          /\ UNCHANGED <<tree, hist>>
       \/ /\ Fails(s)
          /\ hist' = [hist EXCEPT !.left = @ \cup {op[s].l}]
          /\ UNCHANGED tree
    /\ UNCHANGED <<store, ahead, human, deaths>>

\* Mutant: the reservation stays.
UndoKeepsRow(s) ==
    /\ op[s].pc = "undo"
    /\ Fails(s)
    /\ UNCHANGED <<store, disk, human, hist, deaths>>

\* The reservation goes back; its sharers go with the row.
ClaimUndo(s) ==
    /\ op[s].pc = "undo"
    /\ lease' = [lease EXCEPT ![op[s].l] = [state |-> "void", work |-> NoWork, by |-> NoSession]]
    /\ sharers' = [sharers EXCEPT ![op[s].l] = {}]
    /\ Fails(s)
    /\ UNCHANGED <<work, sess, roots, disk, human, hist, deaths>>

\* Mutant: the row is written whether its session exists or not.
BindWithoutKey(s) ==
    /\ op[s].pc = "bind"
    /\ roots' = [roots EXCEPT ![s] = @ \cup {op[s].l}]
    /\ op' = [op EXCEPT ![s] = After(s)]
    /\ UNCHANGED <<work, sess, lease, sharers, disk, human, hist, deaths>>

\* bind_lease_roots: the worktree becomes a writable root of the session.  The
\* calls after that make the repository itself a root to read; when one fails
\* the worktree stays a root and the claim ends in an error.
BindLeaseRoots(s) ==
    /\ op[s].pc = "bind"
    /\ \/ sess[s].at = "deleted" /\ Fails(s) /\ UNCHANGED roots
       \/ /\ sess[s].at # "deleted"
          /\ roots' = [roots EXCEPT ![s] = @ \cup {op[s].l}]
          /\ op' = [op EXCEPT ![s] = After(s)] \/ Fails(s)
    /\ UNCHANGED <<work, sess, lease, sharers, disk, human, hist, deaths>>

-----------------------------------------------------------------------------
(* share_lease                                                             *)

\* The lender's lease is looked up, and a lease of the borrower's own refuses.
ShareLook(s) ==
    /\ op[s].pc = "lend"
    /\ LET l == HeldLease(op[s].lender)
           own == HeldLease(sess[s].work)
       IN IF l = NoLease \/ own \notin {NoLease, l}
          THEN Fails(s)
          ELSE op' = [op EXCEPT ![s].pc = "collide", ![s].l = l]
    /\ UNCHANGED <<store, disk, human, hist, deaths>>

\* refuse_a_collision_in: everybody in the worktree is asked what it owns.
RefuseACollision(s) ==
    /\ op[s].pc = "collide"
    /\ IF \E o \in Occupants(op[s].l) \ {s} : sess[s].owns \cap sess[o].owns # {}
       THEN Fails(s)
       ELSE op' = [op EXCEPT ![s].pc = "join"]
    /\ UNCHANGED <<store, disk, human, hist, deaths>>

ShareJoin(s) ==
    /\ op[s].pc = "join"
    /\ \/ /\ sess[s].at = "deleted" \/ lease[op[s].l].state = "void"
          /\ Fails(s)
          /\ UNCHANGED <<sharers, hist>>
       \/ /\ sess[s].at # "deleted" /\ lease[op[s].l].state # "void"
          /\ sharers' = [sharers EXCEPT ![op[s].l] = @ \cup {s}]
          /\ op' = [op EXCEPT ![s].pc = "bind"]
          /\ hist' = [hist EXCEPT !.joined = @ \cup
                        {r \in Sessions : op[r].l = op[s].l /\ op[r].pc \in {"status", "merged", "remove"}}]
    /\ UNCHANGED <<work, sess, lease, roots, disk, human, deaths>>

-----------------------------------------------------------------------------
(* release_lease, called with any lease id                                 *)

ReleaseWorktree(s, l) ==
    /\ Running(s)
    /\ lease[l].state \in {"held", "released"}
    /\ op' = [op EXCEPT ![s] = [Idle EXCEPT !.pc = "sharers", !.l = l, !.by = lease[l].by]]
    /\ UNCHANGED <<store, disk, human, hist, deaths>>

\* Mutant: nobody asks who shares the lease.
ReleaseBlind(s) ==
    /\ op[s].pc = "sharers"
    /\ op' = [op EXCEPT ![s].pc = "status"]
    /\ hist' = [hist EXCEPT !.joined = @ \ {s}]
    /\ UNCHANGED <<store, disk, human, deaths>>

\* kept_for_a_sharer: the lease stays held when somebody else stands in it.
KeptForASharer(s) ==
    /\ op[s].pc = "sharers"
    /\ op' = [op EXCEPT ![s] = IF sharers[op[s].l] \ {op[s].by} # {}
                               THEN Idle ELSE [@ EXCEPT !.pc = "status"]]
    /\ hist' = [hist EXCEPT !.joined = @ \ {s}]
    /\ UNCHANGED <<store, disk, human, deaths>>

\* lease_condition: is_dir and git status, and then git rev-list.
ConditionStatus(s) ==
    /\ op[s].pc = "status"
    /\ op' = [op EXCEPT ![s].pc = "merged",
                        ![s].missing = (tree[op[s].l] = "none"),
                        ![s].dirty = (tree[op[s].l] = "dirty")]
    /\ UNCHANGED <<store, disk, human, hist, deaths>>

\* Not safe to remove: the lease is released and the tree stays.
ConditionMerged(s) ==
    /\ op[s].pc = "merged"
    /\ op' = [op EXCEPT ![s].pc = IF SafeToRemove(op[s], ~ahead[op[s].l]) THEN "remove" ELSE "mark_released"]
    /\ UNCHANGED <<store, disk, human, hist, deaths>>

\* Mutant: git worktree remove --force.
RemoveForced(s) ==
    /\ op[s].pc = "remove"
    /\ tree' = [tree EXCEPT ![op[s].l] = "none"]
    /\ op' = [op EXCEPT ![s].pc = "unroot"]
    /\ UNCHANGED <<store, ahead, human, hist, deaths>>

\* git worktree remove, without --force: git refuses a tree that is dirty or not
\* there, and the release ends in an error.  A missing tree is pruned.
RemoveWorktreeOf(s) ==
    /\ op[s].pc = "remove"
    /\ \/ /\ op[s].missing
          /\ op' = [op EXCEPT ![s].pc = "unroot"]
          /\ hist' = [hist EXCEPT !.uncut = @ \cup {op[s].l}]
          /\ UNCHANGED tree
       \/ /\ ~op[s].missing /\ tree[op[s].l] = "clean"
          /\ tree' = [tree EXCEPT ![op[s].l] = "none"]
          /\ op' = [op EXCEPT ![s].pc = "unroot"]
          /\ UNCHANGED hist
       \/ /\ ~op[s].missing /\ tree[op[s].l] # "clean"
          /\ op' = [op EXCEPT ![s] = Idle]
          /\ UNCHANGED <<tree, hist>>
    /\ UNCHANGED <<store, ahead, human, deaths>>

\* Only the root of the session that holds the lease is taken back.
RemoveRoot(s) ==
    /\ op[s].pc = "unroot"
    /\ roots' = [r \in Sessions |-> IF r = op[s].by THEN roots[r] \ {op[s].l} ELSE roots[r]]
    /\ op' = [op EXCEPT ![s].pc = "mark_removed"]
    /\ UNCHANGED <<work, sess, lease, sharers, disk, human, hist, deaths>>

\* mark_lease writes the state whatever it is by then.
MarkLease(s) ==
    /\ op[s].pc \in {"mark_released", "mark_removed"}
    /\ lease' = [lease EXCEPT ![op[s].l].state =
                   IF lease[op[s].l].state = "void" THEN "void"
                   ELSE IF op[s].pc = "mark_removed" THEN "removed" ELSE "released"]
    /\ op' = [op EXCEPT ![s] = Idle]
    /\ UNCHANGED <<work, sess, sharers, roots, disk, human, hist, deaths>>

-----------------------------------------------------------------------------
(* What sessions do in a worktree, and what becomes of a branch.  External. *)

Edit(s, l) ==
    /\ sess[s].at = "live" /\ l \in roots[s] /\ tree[l] = "clean"
    /\ tree' = [tree EXCEPT ![l] = "dirty"]
    /\ UNCHANGED <<store, ahead, op, human, hist, deaths>>

Commit(s, l) ==
    /\ sess[s].at = "live" /\ l \in roots[s] /\ tree[l] = "dirty"
    /\ tree' = [tree EXCEPT ![l] = "clean"]
    /\ ahead' = [ahead EXCEPT ![l] = TRUE]
    /\ UNCHANGED <<store, op, human, hist, deaths>>

Merge(l) ==
    /\ ahead[l]
    /\ ahead' = [ahead EXCEPT ![l] = FALSE]
    /\ UNCHANGED <<store, tree, op, human, hist, deaths>>

\* complete_work_task, for the task the session was spawned onto: a task that is
\* done owns nothing.
CompleteTask(s) ==
    /\ Running(s) /\ sess[s].owns # {}
    /\ sess' = [sess EXCEPT ![s].owns = {}]
    /\ UNCHANGED <<work, lease, sharers, roots, disk, op, human, hist, deaths>>

-----------------------------------------------------------------------------
(* delete_work                                                             *)

\* Confirmation::arms: for this work, and for the same set of worktrees.
Arms(w, doomed) == armed[w] = doomed

\* work_deletion_preview lists the worktrees, and asks git about each.
PreviewDeletion(w) ==
    /\ Deletes /\ del.pc = "idle" /\ work[w] = "live"
    /\ del' = [pc |-> "decide", work |-> w, doomed |-> Listed(w)]
    /\ UNCHANGED <<store, disk, op, armed, hist, deaths>>

\* The confirmation is read after that: refused and armed, or spent and on to
\* the transaction.  One person deletes, so nobody writes it in between.
DeleteWork ==
    /\ del.pc = "decide"
    /\ LET w == del.work IN
       IF del.doomed = {} \/ Arms(w, del.doomed)
       THEN /\ del' = [del EXCEPT !.pc = "tx"]
            /\ armed' = [armed EXCEPT ![w] = {}]
            /\ hist' = [hist EXCEPT !.late = @ \cup (Listed(w) \ del.doomed)]
       ELSE /\ armed' = [armed EXCEPT ![w] = del.doomed]
            /\ hist' = [hist EXCEPT !.shown = @ \cup del.doomed]
            /\ del' = NoDel
    /\ UNCHANGED <<store, disk, op, deaths>>

\* The confirmation is older than CONFIRMATION_TTL_MS.
ConfirmationExpires(w) ==
    /\ armed[w] # {}
    /\ armed' = [armed EXCEPT ![w] = {}]
    /\ UNCHANGED <<store, disk, op, del, hist, deaths>>

\* One transaction: sessions go with their roots and shares; leases stay, without
\* a work and without a holder.
DeleteTx ==
    /\ del.pc = "tx"
    /\ LET w == del.work
           gone == {s \in Sessions : sess[s].work = w}
       IN /\ work' = [work EXCEPT ![w] = "deleted"]
          /\ sess' = [s \in Sessions |->
                        IF s \in gone THEN [sess[s] EXCEPT !.at = "deleted", !.owns = {}] ELSE sess[s]]
          /\ roots' = [s \in Sessions |-> IF s \in gone THEN {} ELSE roots[s]]
          /\ sharers' = [l \in LeaseIds |-> sharers[l] \ gone]
          /\ lease' = [l \in LeaseIds |->
                         [state |-> lease[l].state,
                          work |-> IF lease[l].work = w THEN NoWork ELSE lease[l].work,
                          by |-> IF lease[l].by \in gone THEN NoSession ELSE lease[l].by]]
    /\ del' = NoDel
    /\ UNCHANGED <<disk, op, armed, hist, deaths>>

-----------------------------------------------------------------------------
\* The process that runs an operation dies half way.
Die(s) ==
    /\ deaths < MaxDeaths
    /\ op[s].pc \notin {"idle", "dead"}
    /\ deaths' = deaths + 1
    /\ hist' = [hist EXCEPT !.died = IF op[s].l = NoLease THEN @ ELSE @ \cup {op[s].l},
                            !.joined = @ \ {s}]
    /\ op' = [op EXCEPT ![s] = [Idle EXCEPT !.pc = "dead"]]
    /\ UNCHANGED <<store, disk, human>>

SessionStep(s) ==
    \/ \E w \in Works : AttachConversation(s, w)
    \/ \E w \in Works, place \in {"explore", "worktree"} \cup Works : OpenWork(s, w, place)
    \/ \E owns \in SUBSET Files : SpawnOntoFirstTask(s, owns)
    \/ ClaimWorktree(s) \/ ClaimLook(s) \/ ClaimReserve(s) \/ ClaimCut(s) \/ ClaimUndo(s)
    \/ BindLeaseRoots(s)
    \/ ShareLook(s) \/ RefuseACollision(s) \/ ShareJoin(s)
    \/ \E l \in LeaseIds : ReleaseWorktree(s, l)
    \/ KeptForASharer(s) \/ ConditionStatus(s) \/ ConditionMerged(s)
    \/ RemoveWorktreeOf(s) \/ RemoveRoot(s) \/ MarkLease(s)
    \/ \E l \in LeaseIds : Edit(s, l) \/ Commit(s, l)
    \/ CompleteTask(s)
    \/ Die(s)

Next ==
    \/ \E s \in Sessions : SessionStep(s)
    \/ \E l \in LeaseIds : Merge(l)
    \/ \E w \in Works : PreviewDeletion(w) \/ ConfirmationExpires(w)
    \/ DeleteWork
    \/ DeleteTx

Spec == Init /\ [][Next]_vars

-----------------------------------------------------------------------------
(* What holds                                                              *)

OpPcs == {"idle", "dead", "spawn", "look", "reserve", "readback", "cut", "undo", "bind",
          "lend", "collide", "join", "sharers", "status", "merged", "remove", "unroot",
          "mark_released", "mark_removed"}

SessRec == [at : {"none", "opening", "live", "deleted"}, work : Works \cup {NoWork},
            owns : SUBSET Files]

LeaseRec == [state : {"none", "held", "released", "removed", "void"},
             work : Works \cup {NoWork}, by : Sessions \cup {NoSession}]

OpRec == [pc : OpPcs, l : LeaseIds \cup {NoLease}, lender : Works \cup {NoWork},
          opens : BOOLEAN, by : Sessions \cup {NoSession}, missing : BOOLEAN, dirty : BOOLEAN]

HistRec == [shown : SUBSET LeaseIds, late : SUBSET LeaseIds, uncut : SUBSET LeaseIds,
            died : SUBSET LeaseIds, left : SUBSET LeaseIds, joined : SUBSET Sessions]

\* The types, and the foreign keys: a row names a work or a session only while
\* that exists, also when it was being written as the work was deleted.
TypeOK ==
    /\ work \in [Works -> {"none", "live", "deleted"}]
    /\ sess \in [Sessions -> SessRec]
    /\ lease \in [LeaseIds -> LeaseRec]
    /\ sharers \in [LeaseIds -> SUBSET Sessions]
    /\ roots \in [Sessions -> SUBSET LeaseIds]
    /\ tree \in [LeaseIds -> {"none", "clean", "dirty"}]
    /\ ahead \in [LeaseIds -> BOOLEAN]
    /\ op \in [Sessions -> OpRec]
    /\ del \in [pc : {"idle", "decide", "tx"}, work : Works \cup {NoWork}, doomed : SUBSET LeaseIds]
    /\ armed \in [Works -> SUBSET LeaseIds]
    /\ hist \in HistRec
    /\ deaths \in 0..MaxDeaths
    /\ \A l \in LeaseIds : lease[l].work # NoWork => work[lease[l].work] = "live"
    /\ \A s \in Sessions : sess[s].at = "deleted" =>
         roots[s] = {} /\ \A l \in LeaseIds : lease[l].by # s /\ s \notin sharers[l]

\* A worktree with uncommitted changes never disappears, whatever was dirtied
\* between the look at it and its removal (release_lease, remove_worktree_of).
DirtyTreeStays == [][\A l \in LeaseIds : tree[l] = "dirty" => tree'[l] # "none"]_vars

\* A held lease has its worktree, or somebody is between the row and the tree,
\* or stopped there: died, or could not make the directory above.  A claim git
\* refused takes its reservation back, so the work can claim again (claim_lease).
HeldHasTree ==
    \A l \in LeaseIds :
      lease[l].state = "held" /\ tree[l] = "none" =>
        \/ l \in hist.died \cup hist.left
        \/ \E s \in Sessions : op[s].l = l /\ op[s].pc \in {"cut", "undo", "unroot", "mark_removed"}

\* A worktree on disk that lost its work to a deletion was named in a refusal
\* before, or was claimed after the deletion had looked, or its lease said
\* removed when it was cut (delete_work, Confirmation::arms).
OrphansWereShown ==
    \A l \in LeaseIds :
      lease[l].state \in {"held", "released"} /\ lease[l].work = NoWork /\ tree[l] # "none"
        => l \in hist.shown \cup hist.late \cup hist.uncut

\* A worktree is not removed from under a session of another work that shares
\* it, unless that session joined after the release had asked who shares it
\* (kept_for_a_sharer).
SharersKeepTheTree ==
    [][\A s \in Sessions :
         op[s].pc = "remove" /\ tree' # tree /\ op'[s] # op[s]
           => sharers[op[s].l] \subseteq {op[s].by} \/ s \in hist.joined]_vars

=============================================================================
