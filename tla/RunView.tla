------------------------------ MODULE RunView ------------------------------
(***************************************************************************)
(* What the rest of Jod may rely on about a run, and nothing of how it is  *)
(* launched, supervised, followed, stopped or swept: the work itself, the  *)
(* record everybody shares, and what each process believes. RunLifecycle   *)
(* implements it.                                                          *)
(***************************************************************************)
CONSTANTS Runs, Readers

VARIABLES
    work,    \* the harness: not begun, going, or over
    record,  \* what the store says of the run
    belief   \* what each process says of it

vars == <<work, record, belief>>

Ended == {"completed", "failed", "killed"}
Said  == Ended \cup {"unknown", "running"}

Init ==
    /\ work = [r \in Runs |-> "none"]
    /\ record = [r \in Runs |-> "unknown"]
    /\ belief = [p \in Readers |-> [r \in Runs |-> "unknown"]]

(* What may be said next of a run: that it runs only of one not heard of,  *)
(* that it completed only when its work is over, and one that is said to   *)
(* run is not dropped without an ending.                                   *)
MaySay(r, before, after) ==
    \/ after = before
    \/ after = "running" /\ before = "unknown"
    \/ after = "completed" /\ work[r] = "over"
    \/ after \in {"failed", "killed"}
    \/ after = "unknown" /\ before # "running"

Begin(r) ==
    /\ work[r] = "none"
    /\ work' = [work EXCEPT ![r] = "going"]
    /\ UNCHANGED <<record, belief>>

(* Also of work that could not be begun. *)
End(r) ==
    /\ work[r] # "over"
    /\ work' = [work EXCEPT ![r] = "over"]
    /\ UNCHANGED <<record, belief>>

(* A process says something of a run, to the store, to itself or to both. *)
Say(p, r) ==
    /\ \E s \in Said : MaySay(r, record[r], s) /\ record' = [record EXCEPT ![r] = s]
    /\ \E s \in Said : MaySay(r, belief[p][r], s) /\ belief' = [belief EXCEPT ![p][r] = s]
    /\ UNCHANGED work

(* A process dies, and what it believed with it; the record stays. *)
Lose(p) ==
    /\ belief' = [belief EXCEPT ![p] = [r \in Runs |-> "unknown"]]
    /\ UNCHANGED <<work, record>>

Next ==
    \/ \E r \in Runs : Begin(r) \/ End(r)
    \/ \E p \in Readers, r \in Runs : Say(p, r)
    \/ \E p \in Readers : Lose(p)

Spec == Init /\ [][Next]_vars
=============================================================================
