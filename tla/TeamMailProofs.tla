--------------------------- MODULE TeamMailProofs ---------------------------
(***************************************************************************)
(* What holds of the message bus for any team, any number of messages and  *)
(* runs, and any number of ticks, consoles and faults: the types, that     *)
(* the main chat's mail is kept, that only what a turn carried is settled, *)
(* that the budget bounds what agents cost and, where one tick runs at a   *)
(* time, that a message wakes its member once.                             *)
(***************************************************************************)
EXTENDS TeamMail, FiniteSetTheorems, TLAPS

Procs == Tickers \cup Consoles

Waking == {"claimed", "spawned", "taken", "busy"}

(* A wake under way holds the one member it was claimed for, and knows the *)
(* run it started; so does a turn that carries the queue.                  *)
Poised(q) ==
    /\ q.pc \in Waking => \E w \in q.held : q.held = {w} /\ w.m \in Members
    /\ q.pc \notin Waking => q.held = {}
    /\ q.pc \in {"spawned", "taken", "busy", "carried"} => q.run # NoRun

MsgsOK ==
    /\ msgs \in Seq(MsgRec)
    /\ \A i \in Ids : /\ ~msgs[i].flag => msgs[i].state = "queued"
                      /\ msgs[i].parent < i /\ msgs[i].by \in RunIds \cup {NoRun}

(* A row that is off the bus and not yet delivered is in the hands of a    *)
(* read, which has it.                                                     *)
DrainedInv ==
    /\ \A i \in Ids : msgs[i].flag /\ msgs[i].state = "queued" => Drained(i)
    /\ \A r \in RunIds : \A ids \in runs[r].taking : ids \subseteq runs[r].read

RunsOK == runs \in Seq(RunRec)

QueueOK == queue \in Seq(QueueRec)

MemberOK == member \in [Members -> MemberRec]

PassOK == pass \in [Procs -> PassRec] /\ \A d \in Procs : Poised(pass[d])

StartOK ==
    /\ starting \in StartRec
    /\ starting.pc # "idle" => starting.m \in Members /\ starting.run # NoRun

(* The inductive invariant that types rest on. *)
TypeInv ==
    /\ MsgsOK /\ RunsOK /\ QueueOK /\ MemberOK /\ PassOK /\ StartOK /\ faults \in 0..MaxFaults
    /\ DrainedInv

(* Everything that is put before a turn is addressed to it. *)
Addressed ==
    /\ \A r \in RunIds : \A i \in runs[r].prompt : msgs[i].to = runs[r].of
    /\ \A d \in Procs : \A w \in pass[d].todo \cup pass[d].held :
          \A i \in w.pending : msgs[i].to = w.m
    /\ \A k \in DOMAIN queue : msgs[queue[k].msg].to = Main

(* The message is the prompt of a run that was woken for a member. *)
Woke(i) == \E r \in RunIds : runs[r].of # Main /\ i \in runs[r].prompt

(* What a tick that has not died may still say, it has not said; what it   *)
(* has said is off the bus, or is about to be.                             *)
WokenInv ==
    /\ \A t \in Tickers : \A w, x \in pass[t].todo \cup pass[t].held : w.m = x.m => w = x
    /\ \A t \in Tickers : pass[t].todo \cap pass[t].held = {}
    /\ \A t \in Tickers : \A w \in pass[t].todo : \A i \in w.pending : ~Woke(i)
    /\ \A t \in Tickers : At(t, "claimed") => \A w \in pass[t].held : \A i \in w.pending : ~Woke(i)
    /\ \A t \in Tickers : At(t, "spawned") =>
          \A w \in pass[t].held : runs[pass[t].run].of = w.m /\ runs[pass[t].run].prompt = w.pending
    /\ \A r \in RunIds : runs[r].of # Main => \A i \in runs[r].prompt :
          msgs[i].flag \/ \E t \in Tickers : At(t, "spawned") /\ pass[t].run = r
    /\ \A r, s \in RunIds : r # s /\ runs[r].of # Main => runs[r].prompt \cap runs[s].prompt = {}

OnceInv == faults = 0 => WokenInv

(* The message is, or may still become, the prompt of a turn. *)
MayCost(i) ==
    \/ msgs[i].state = "queued"
    \/ \E r \in RunIds : i \in runs[r].prompt
    \/ \E d \in Procs : \E w \in pass[d].todo \cup pass[d].held : i \in w.pending
    \/ \E k \in DOMAIN queue : queue[k].msg = i

Costs == {i \in Ids : msgs[i].by # NoRun /\ MayCost(i)}

BudgetInv ==
    /\ \A i \in Ids : MayCost(i) => msgs[i].state # "undeliverable"
    /\ Cardinality(Costs) <= MessageBudget

(* A turn that carries the queue was told every row it will settle. *)
CarriedInv ==
    /\ \A d \in Procs : At(d, "carried") =>
          \A k \in pass[d].items : queue[k].msg \in runs[pass[d].run].prompt
    /\ SettledWasCarried

(* What is on the queue is off the bus, and is there once. *)
KeptInv ==
    /\ \A k, l \in DOMAIN queue : queue[k].msg = queue[l].msg => k = l
    /\ \A k \in DOMAIN queue : msgs[queue[k].msg].flag
    /\ \A i \in Ids : msgs[i].to = Main /\ msgs[i].flag /\ msgs[i].state # "undeliverable" =>
          (\E k \in DOMAIN queue : queue[k].msg = i) \/ \E r \in RunIds : i \in runs[r].read

(***************************************************************************)
(* The operators: a set listed, and rows added or marked.                  *)
(***************************************************************************)
LEMMA SetListed ==
    ASSUME NEW S, IsFiniteSet(S)
    PROVE  /\ Cardinality(S) \in Nat
           /\ SetToSeq(S) \in [1..Cardinality(S) -> S]
           /\ Len(SetToSeq(S)) = Cardinality(S)
           /\ \A k, l \in 1..Cardinality(S) : SetToSeq(S)[k] = SetToSeq(S)[l] => k = l
           /\ \A x \in S : \E k \in 1..Cardinality(S) : SetToSeq(S)[k] = x
<1> DEFINE n == Cardinality(S)
<1>1. n \in Nat /\ ExistsBijection(1..n, S)
  BY FS_CardinalityType
<1>2. \E f \in [1..n -> S] : IsInjective(f)
  BY <1>1 DEF ExistsBijection, Bijection, Injection
<1>3. SetToSeq(S) \in [1..n -> S] /\ IsInjective(SetToSeq(S))
  BY <1>2 DEF SetToSeq
<1>4. SetToSeq(S) \in Injection(1..n, S)
  BY <1>3 DEF Injection
<1>5. Cardinality(1..n) = n
  BY <1>1, FS_Interval
<1>6. SetToSeq(S) \in Surjection(1..n, S)
  BY <1>4, <1>5, FS_Injection
<1>7. \A x \in S : \E k \in 1..n : SetToSeq(S)[k] = x
  BY <1>6 DEF Surjection
<1>8. \A k, l \in 1..n : SetToSeq(S)[k] = SetToSeq(S)[l] => k = l
  BY <1>3 DEF IsInjective
<1>9. Len(SetToSeq(S)) = n
  BY <1>1, <1>3
<1>10. QED
  BY <1>1, <1>3, <1>7, <1>8, <1>9

LEMMA IdsFinite ==
    ASSUME MsgsOK, NEW S \in SUBSET Ids
    PROVE  IsFiniteSet(S) /\ Cardinality(S) \in Nat
<1>1. Ids = 1..Len(msgs) /\ Len(msgs) \in Nat
  BY DEF MsgsOK, Ids
<1>2. IsFiniteSet(Ids)
  BY <1>1, FS_Interval
<1>3. IsFiniteSet(S)
  BY <1>2, FS_Subset
<1>4. QED
  BY <1>3, FS_CardinalityType

LEMMA UnreadAre ==
    ASSUME MsgsOK, NEW m
    PROVE  /\ Unread(m) \subseteq Ids
           /\ \A i \in Unread(m) : msgs[i].to = m /\ ~msgs[i].flag /\ msgs[i].state = "queued"
           /\ \A i \in Ids : msgs[i].to = m /\ ~msgs[i].flag => i \in Unread(m)
BY DEF Unread, Ids, MsgsOK, MsgRec

(* What marking some rows leaves: nothing else changes, and no row is sent *)
(* back.                                                                   *)
LEMMA FlaggedKeeps ==
    ASSUME MsgsOK, NEW ids \in SUBSET Ids
    PROVE  /\ Flagged(ids) \in Seq(MsgRec)
           /\ DOMAIN Flagged(ids) = Ids
           /\ Len(Flagged(ids)) = Len(msgs)
           /\ \A i \in Ids : Flagged(ids)[i] =
                 IF i \in ids THEN [msgs[i] EXCEPT !.flag = TRUE, !.state = "delivered"]
                 ELSE msgs[i]
<1>1. Ids = 1..Len(msgs) /\ Len(msgs) \in Nat /\ \A i \in Ids : msgs[i] \in MsgRec
  BY DEF MsgsOK, Ids
<1>2. DOMAIN Flagged(ids) = Ids
  BY DEF Flagged, Ids
<1>3. \A i \in Ids : Flagged(ids)[i] =
         IF i \in ids THEN [msgs[i] EXCEPT !.flag = TRUE, !.state = "delivered"] ELSE msgs[i]
  BY DEF Flagged, Ids
<1>4. \A i \in Ids : Flagged(ids)[i] \in MsgRec
  <2>1. SUFFICES ASSUME NEW i \in Ids PROVE Flagged(ids)[i] \in MsgRec
    OBVIOUS
  <2>2. msgs[i] \in MsgRec
    BY <1>1
  <2>3. [msgs[i] EXCEPT !.flag = TRUE, !.state = "delivered"] \in MsgRec
    BY <2>2 DEF MsgRec
  <2>4. QED
    BY <1>3, <2>2, <2>3
<1>5. Flagged(ids) \in [1..Len(msgs) -> MsgRec]
  BY <1>1, <1>4 DEF Flagged, Ids
<1>6. Flagged(ids) \in Seq(MsgRec) /\ Len(Flagged(ids)) = Len(msgs)
  BY <1>1, <1>5
<1>7. QED
  BY <1>2, <1>3, <1>6

LEMMA DrainedKeeps ==
    ASSUME MsgsOK, NEW ids \in SUBSET Ids
    PROVE  /\ FlaggedOnly(ids) \in Seq(MsgRec)
           /\ DOMAIN FlaggedOnly(ids) = Ids
           /\ Len(FlaggedOnly(ids)) = Len(msgs)
           /\ \A i \in Ids : FlaggedOnly(ids)[i] =
                 IF i \in ids THEN [msgs[i] EXCEPT !.flag = TRUE] ELSE msgs[i]
<1>1. Ids = 1..Len(msgs) /\ Len(msgs) \in Nat /\ \A i \in Ids : msgs[i] \in MsgRec
  BY DEF MsgsOK, Ids
<1>2. DOMAIN FlaggedOnly(ids) = Ids
  BY DEF FlaggedOnly, Ids
<1>3. \A i \in Ids : FlaggedOnly(ids)[i] =
         IF i \in ids THEN [msgs[i] EXCEPT !.flag = TRUE] ELSE msgs[i]
  BY DEF FlaggedOnly, Ids
<1>4. \A i \in Ids : FlaggedOnly(ids)[i] \in MsgRec
  <2>1. SUFFICES ASSUME NEW i \in Ids PROVE FlaggedOnly(ids)[i] \in MsgRec
    OBVIOUS
  <2>2. msgs[i] \in MsgRec
    BY <1>1
  <2>3. [msgs[i] EXCEPT !.flag = TRUE] \in MsgRec
    BY <2>2 DEF MsgRec
  <2>4. QED
    BY <1>3, <2>2, <2>3
<1>5. FlaggedOnly(ids) \in [1..Len(msgs) -> MsgRec]
  BY <1>1, <1>4 DEF FlaggedOnly, Ids
<1>6. FlaggedOnly(ids) \in Seq(MsgRec) /\ Len(FlaggedOnly(ids)) = Len(msgs)
  BY <1>1, <1>5
<1>7. QED
  BY <1>2, <1>3, <1>6

(* What a post writes: n rows, all in one state. *)
Posted(r, p, n, state) ==
    /\ state = "queued" => Used + n <= MessageBudget
    /\ Len(msgs') = Len(msgs) + n
    /\ msgs' \in Seq(MsgRec)
    /\ \A i \in Ids : msgs'[i] = msgs[i]
    /\ \A i \in (Len(msgs) + 1)..(Len(msgs) + n) :
          msgs'[i].by = r /\ msgs'[i].parent = p /\ msgs'[i].state = state
          /\ msgs'[i].flag = (state # "queued")

LEMMA PostWrites ==
    ASSUME TypeInv, NEW r \in RunIds, NEW m \in Roster,
           NEW to \in Roster \cup {Everyone, Stranger}, NEW p \in 0..Len(msgs),
           Post(r, m, to, p)
    PROVE  \E n \in Nat, state \in {"queued", "undeliverable"} : Posted(r, p, n, state)
<1> USE DEF TypeInv
<1> DEFINE all   == Recipients(m, to)
           depth == Depth(p)
           state == Outcome(all, depth)
           told  == Told(all, state)
           new   == [k \in 1..Len(told) |-> Record(m, r, told[k], p, depth, state)]
<1>1. all \subseteq Roster \cup {Stranger} /\ IsFiniteSet(all)
  <2>1. IsFiniteSet(Roster)
    BY TeamMailAssumption, FS_AddElement DEF Roster
  <2>2. IsFiniteSet(Roster \ {m}) /\ IsFiniteSet({to})
    BY <2>1, FS_RemoveElement, FS_Singleton
  <2>3. QED
    BY <2>2 DEF Recipients
<1>2. depth \in Nat
  <2>1. CASE p = 0
    BY <2>1 DEF Depth
  <2>2. CASE p # 0
    <3>1. msgs[p] \in MsgRec
      BY <2>2 DEF MsgsOK
    <3>2. msgs[p].depth \in Nat
      BY <3>1 DEF MsgRec
    <3>3. QED
      BY <2>2, <3>2 DEF Depth
  <2>3. QED
    BY <2>1, <2>2
<1>3. state \in {"queued", "undeliverable"}
  BY DEF Outcome
<1>4. /\ Len(told) \in Nat /\ \A k \in 1..Len(told) : told[k] \in Roster \cup {Stranger}
      /\ state = "queued" => Len(told) = Cardinality(all)
  <2>1. CASE state = "queued"
    BY <1>1, <2>1, SetListed DEF Told
  <2>2. CASE state = "undeliverable"
    <3>1. \E x \in Roster \cup {Stranger} : told = <<x>>
      <4>1. CASE all = {}
        BY <2>2, <4>1 DEF Told
      <4>2. CASE all # {}
        <5>1. (CHOOSE n \in all : TRUE) \in all
          BY <4>2
        <5>2. QED
          BY <1>1, <2>2, <4>2, <5>1 DEF Told
      <4>3. QED
        BY <4>1, <4>2
    <3>2. QED
      BY <2>2, <3>1
  <2>3. QED
    BY <1>3, <2>1, <2>2
<1>5. state = "queued" => Used + Len(told) <= MessageBudget
  BY <1>4 DEF Outcome, FitsBudget
<1>6. \A k \in 1..Len(told) : new[k] \in MsgRec
  <2>1. SUFFICES ASSUME NEW k \in 1..Len(told) PROVE Record(m, r, told[k], p, depth, state) \in MsgRec
    OBVIOUS
  <2>2. told[k] \in Roster \cup {Stranger} /\ r \in Nat /\ p \in Nat /\ (state # "queued") \in BOOLEAN
    BY <1>4 DEF RunsOK, RunIds
  <2> HIDE DEF told, depth, state
  <2>3. QED
    BY <1>2, <1>3, <2>2 DEF Record, MsgRec
<1>7. msgs' = msgs \o new
  BY DEF Post
<1>8. new \in Seq(MsgRec) /\ Len(new) = Len(told)
  BY <1>4, <1>6
<1>9. msgs \in Seq(MsgRec) /\ Ids = 1..Len(msgs)
  BY DEF MsgsOK, Ids
<1>10. /\ Len(msgs') = Len(msgs) + Len(told)
       /\ msgs' \in Seq(MsgRec)
       /\ \A i \in Ids : msgs'[i] = msgs[i]
       /\ \A i \in (Len(msgs) + 1)..(Len(msgs) + Len(told)) : msgs'[i] = new[i - Len(msgs)]
  <2> HIDE DEF new, told
  <2>1. msgs \o new \in Seq(MsgRec) /\ Len(msgs \o new) = Len(msgs) + Len(new)
    BY <1>8, <1>9
  <2>2. \A i \in 1..Len(msgs) : (msgs \o new)[i] = msgs[i]
    BY <1>8, <1>9
  <2>3. \A i \in (Len(msgs) + 1)..(Len(msgs) + Len(new)) : (msgs \o new)[i] = new[i - Len(msgs)]
    BY <1>8, <1>9
  <2>4. QED
    BY <1>7, <1>8, <1>9, <2>1, <2>2, <2>3
<1>11. \A i \in (Len(msgs) + 1)..(Len(msgs) + Len(told)) :
          msgs'[i].by = r /\ msgs'[i].parent = p /\ msgs'[i].state = state
          /\ msgs'[i].flag = (state # "queued")
  <2>1. SUFFICES ASSUME NEW i \in (Len(msgs) + 1)..(Len(msgs) + Len(told))
                 PROVE  msgs'[i].by = r /\ msgs'[i].parent = p /\ msgs'[i].state = state
                        /\ msgs'[i].flag = (state # "queued")
    OBVIOUS
  <2>2. i - Len(msgs) \in 1..Len(told)
    BY <1>4, <1>9
  <2>3. msgs'[i] = Record(m, r, told[i - Len(msgs)], p, depth, state)
    BY <1>10, <2>2
  <2> HIDE DEF told, depth, state
  <2>4. QED
    BY <2>3 DEF Record
<1>12. QED
  <2> HIDE DEF told, state
  <2>1. Posted(r, p, Len(told), state)
    BY <1>5, <1>10, <1>11 DEF Posted
  <2>2. QED
    BY <1>3, <1>4, <2>1

LEMMA LeastNat ==
    ASSUME NEW S \in SUBSET Nat, S # {}
    PROVE  Min(S) \in S /\ \A y \in S : Min(S) <= y
<1>1. IsWellFoundedOn(OpToRel(<, Nat), Nat)
  BY NatLessThanWellFounded
<1>2. PICK x \in S : \A y \in S : ~(<<y, x>> \in OpToRel(<, Nat))
  BY <1>1, WFMin
<1>3. ASSUME NEW y \in S PROVE x <= y
  <2>1. x \in Nat /\ y \in Nat
    OBVIOUS
  <2>2. y < x => <<y, x>> \in OpToRel(<, Nat)
    BY <2>1 DEF OpToRel
  <2>3. ~(y < x)
    BY <1>2, <2>2
  <2>4. QED
    BY <2>1, <2>3
<1>4. QED
  BY <1>3 DEF Min

(***************************************************************************)
(* What a step may do to each table.                                       *)
(***************************************************************************)

(* Rows of the bus are added and marked, never taken out or readdressed.   *)
BusGrows ==
    /\ msgs' \in Seq(MsgRec)
    /\ Ids \subseteq Ids'
    /\ \A i \in Ids : /\ msgs'[i].to = msgs[i].to
                      /\ msgs'[i].by = msgs[i].by
                      /\ msgs'[i].parent = msgs[i].parent
                      /\ msgs[i].flag => msgs'[i].flag
                      /\ msgs'[i].state \in {msgs[i].state, "delivered"}
                      /\ ~msgs'[i].flag => msgs'[i].state = "queued"
    /\ \A i \in Ids' \ Ids : /\ msgs'[i].parent < i /\ msgs'[i].by \in RunIds \cup {NoRun}
                             /\ msgs'[i].flag = (msgs'[i].state # "queued")
                             /\ msgs'[i].state # "delivered"
    /\ Ids' # Ids => UNCHANGED <<member, runs, queue, pass, starting, faults>>

LEMMA RunRows ==
    ASSUME RunsOK, NEW r \in RunIds
    PROVE  /\ runs[r] \in RunRec /\ runs[r].of \in Roster
           /\ runs[r].prompt \subseteq Ids /\ runs[r].read \subseteq Ids
           /\ \A ids \in runs[r].taking : ids \in SUBSET Ids
<1>1. runs[r] \in RunRec
  BY DEF RunsOK, RunIds
<1>2. QED
  BY <1>1 DEF RunRec

LEMMA BusStep ==
    ASSUME TypeInv, Next PROVE BusGrows
<1> USE DEF TypeInv
<1>0. /\ Ids = 1..Len(msgs) /\ Len(msgs) \in Nat
      /\ \A i \in Ids : msgs[i] \in MsgRec /\ (~msgs[i].flag => msgs[i].state = "queued")
      /\ msgs \in Seq(MsgRec)
  BY DEF MsgsOK, Ids
<1>1. CASE msgs' = msgs
  BY <1>0, <1>1 DEF Ids, BusGrows, MsgRec
<1>2. ASSUME NEW ids \in SUBSET Ids, msgs' = Flagged(ids) PROVE BusGrows
  <2>1. Ids' = Ids /\ msgs' \in Seq(MsgRec)
    BY <1>2, FlaggedKeeps DEF Ids
  <2>2. ASSUME NEW i \in Ids
        PROVE  /\ msgs'[i].to = msgs[i].to
               /\ msgs'[i].by = msgs[i].by
               /\ msgs'[i].parent = msgs[i].parent
               /\ msgs[i].flag => msgs'[i].flag
               /\ msgs'[i].state \in {msgs[i].state, "delivered"}
               /\ ~msgs'[i].flag => msgs'[i].state = "queued"
    <3>1. msgs'[i] = IF i \in ids THEN [msgs[i] EXCEPT !.flag = TRUE, !.state = "delivered"]
                     ELSE msgs[i]
      BY <1>2, FlaggedKeeps
    <3>2. QED
      BY <1>0, <3>1 DEF MsgRec
  <2>3. QED
    BY <2>1, <2>2 DEF BusGrows
<1>12. ASSUME NEW ids \in SUBSET Ids, msgs' = FlaggedOnly(ids) PROVE BusGrows
  <2>1. Ids' = Ids /\ msgs' \in Seq(MsgRec)
    BY <1>12, DrainedKeeps DEF Ids
  <2>2. ASSUME NEW i \in Ids
        PROVE  /\ msgs'[i].to = msgs[i].to
               /\ msgs'[i].by = msgs[i].by
               /\ msgs'[i].parent = msgs[i].parent
               /\ msgs[i].flag => msgs'[i].flag
               /\ msgs'[i].state \in {msgs[i].state, "delivered"}
               /\ ~msgs'[i].flag => msgs'[i].state = "queued"
    <3>1. msgs'[i] = IF i \in ids THEN [msgs[i] EXCEPT !.flag = TRUE] ELSE msgs[i]
      BY <1>12, DrainedKeeps
    <3>2. QED
      BY <1>0, <3>1 DEF MsgRec
  <2>3. QED
    BY <2>1, <2>2 DEF BusGrows
<1>3. ASSUME NEW r \in RunIds, NEW m \in Roster, NEW to \in Roster \cup {Everyone, Stranger},
             NEW p \in 0..Len(msgs), Post(r, m, to, p)
      PROVE  BusGrows
  <2>0. PICK n \in Nat, state \in {"queued", "undeliverable"} : Posted(r, p, n, state)
    BY <1>3, PostWrites
  <2>1. /\ Len(msgs') = Len(msgs) + n
        /\ msgs' \in Seq(MsgRec)
        /\ \A i \in Ids : msgs'[i] = msgs[i]
        /\ \A i \in (Len(msgs) + 1)..(Len(msgs) + n) :
              msgs'[i].by = r /\ msgs'[i].parent = p /\ msgs'[i].state = state
              /\ msgs'[i].flag = (state # "queued")
    BY <2>0 DEF Posted
  <2>2. Ids' = 1..(Len(msgs) + n) /\ Ids' \ Ids = (Len(msgs) + 1)..(Len(msgs) + n)
    BY <1>0, <2>1 DEF Ids
  <2>3. UNCHANGED <<member, runs, queue, pass, starting, faults>>
    BY <1>3 DEF Post
  <2>4. ASSUME NEW i \in Ids' \ Ids
        PROVE  /\ msgs'[i].parent < i /\ msgs'[i].by \in RunIds \cup {NoRun}
               /\ msgs'[i].flag = (msgs'[i].state # "queued")
               /\ msgs'[i].state # "delivered"
    <3>1. i \in (Len(msgs) + 1)..(Len(msgs) + n)
      BY <2>2
    <3>2. msgs'[i].by = r /\ msgs'[i].parent = p /\ msgs'[i].state = state
          /\ msgs'[i].flag = (state # "queued")
      BY <2>1, <3>1
    <3>3. p < i
      BY <1>0, <3>1
    <3>4. QED
      BY <3>2, <3>3
  <2>5. \A i \in Ids : (~msgs'[i].flag => msgs'[i].state = "queued") /\ msgs'[i] = msgs[i]
    BY <1>0, <2>1
  <2>6. Ids \subseteq Ids'
    BY <1>0, <2>2
  <2>7. QED
    BY <2>1, <2>3, <2>4, <2>5, <2>6 DEF BusGrows
<1>4. ASSUME NEW to \in Roster, TeamMsg(to) PROVE BusGrows
  <2> DEFINE new == Record(Stranger, NoRun, to, 0, 0, "queued")
  <2>1. new \in MsgRec /\ new.parent = 0 /\ new.by = NoRun /\ new.flag = FALSE /\ new.state = "queued"
    BY DEF Record, MsgRec, NoRun
  <2>2. msgs' = Append(msgs, new) /\ UNCHANGED <<member, runs, queue, pass, starting, faults>>
    BY <1>4 DEF TeamMsg
  <2> HIDE DEF new
  <2>3. /\ Ids' = 1..(Len(msgs) + 1) /\ msgs' \in Seq(MsgRec)
        /\ \A i \in Ids : msgs'[i] = msgs[i]
        /\ msgs'[Len(msgs) + 1] = new
    BY <1>0, <2>1, <2>2 DEF Ids
  <2>4. Ids' \ Ids = {Len(msgs) + 1}
    BY <1>0, <2>3
  <2>5. \A i \in Ids' \ Ids : msgs'[i].parent < i /\ msgs'[i].by \in RunIds \cup {NoRun}
                              /\ msgs'[i].flag = (msgs'[i].state # "queued")
                              /\ msgs'[i].state # "delivered"
    <3>1. \A i \in Ids' \ Ids : msgs'[i] = new /\ 0 < i
      BY <1>0, <2>3, <2>4
    <3>2. QED
      BY <2>1, <3>1
  <2>6. QED
    BY <1>0, <2>2, <2>3, <2>5 DEF BusGrows
<1>5. ASSUME NEW r \in RunIds, NEW m \in Roster, DrainInbox(r, m) PROVE BusGrows
  BY <1>5, <1>12, UnreadAre DEF DrainInbox
<1>13. ASSUME NEW r \in RunIds, NEW ids \in runs[r].taking, MarkMailDelivered(r, ids) PROVE BusGrows
  BY <1>2, <1>13, RunRows DEF MarkMailDelivered
<1>6. ASSUME NEW r \in RunIds, NEW q \in Ids, AskAnswered(r, q) PROVE BusGrows
  <2> DEFINE replies == {i \in DOMAIN msgs : msgs[i].parent = q}
  <2>1. replies \subseteq Ids /\ replies \subseteq Nat /\ replies # {} /\ msgs' = Flagged({Min(replies)})
    BY <1>0, <1>6 DEF AskAnswered, Ids
  <2> HIDE DEF replies
  <2>2. {Min(replies)} \in SUBSET Ids
    BY <2>1, LeastNat
  <2>3. QED
    BY <1>2, <2>1, <2>2
<1>7. ASSUME HandMail PROVE BusGrows
  BY <1>2, <1>7, UnreadAre DEF HandMail
<1>8. ASSUME NEW t \in Tickers, TakeMail(t) PROVE BusGrows
  BY <1>2, <1>8, UnreadAre DEF TakeMail
<1>9. ASSUME NEW t \in Tickers, NEW w, HandToConversation(t, w) PROVE BusGrows
  BY <1>1, <1>7, <1>9 DEF HandToConversation
<1>10. ASSUME NEW c \in Consoles, DeliverReports(c) PROVE BusGrows
  BY <1>1, <1>7, <1>10 DEF DeliverReports
<1>11. QED
  BY <1>1, <1>3, <1>4, <1>5, <1>6, <1>8, <1>9, <1>10, <1>13
  DEF Next, AgentStep, PersonStep, StartStep, WakeStep, ChatTurn, TeamStart, TeamStartBusy,
      TeamStartBinds, RunEnds, IntervalPasses, SettleMembers, MailWaiting, SettleBinds,
      SettleFrees, SettleFails, LeaveAsleep, ClaimWake, WakeBusy, WakeBinds, WakeFails,
      DeliverNothing, PlanInjection, SpawnWake, SpawnFails, Carry, CarryFails, MarkDelivered,
      Crash, Ids, RunIds

LEMMA HeldIs ==
    ASSUME TypeInv, NEW d \in Procs, pass[d].pc \in Waking
    PROVE  /\ pass[d].held = {Held(d)} /\ Held(d) \in WaitRec
           /\ Held(d).m \in Members /\ Held(d).pending \subseteq Ids
<1>1. PICK w \in pass[d].held : pass[d].held = {w} /\ w.m \in Members
  BY DEF TypeInv, PassOK, Poised
<1>2. Held(d) = w
  BY <1>1 DEF Held
<1>3. pass[d] \in PassRec
  BY DEF TypeInv, PassOK
<1>4. w \in WaitRec
  BY <1>1, <1>3 DEF PassRec
<1>5. QED
  BY <1>1, <1>2, <1>4 DEF WaitRec

LEMMA QueueRows ==
    ASSUME QueueOK, NEW k \in DOMAIN queue
    PROVE  queue[k] \in QueueRec /\ queue[k].msg \in Ids /\ queue[k].state \in {"queued", "delivered"}
<1>1. queue[k] \in QueueRec
  BY DEF QueueOK
<1>2. QED
  BY <1>1 DEF QueueRec

(* Runs are added; one that is there keeps whose it is and what it was     *)
(* told, forgets nothing it read, and lets go of what it drained only by   *)
(* marking it.                                                             *)
Reads(r, x) ==
    /\ runs[r].read \subseteq x.read
    /\ \/ runs[r].taking \subseteq x.taking
       \/ \E ids \in runs[r].taking : msgs' = Flagged(ids) /\ x.taking = runs[r].taking \ {ids}
    /\ \A ids \in x.taking \ runs[r].taking : ids \subseteq x.read

RunsGrow ==
    /\ RunIds \subseteq RunIds'
    /\ \A r \in RunIds : /\ runs'[r].of = runs[r].of /\ runs'[r].prompt = runs[r].prompt
                         /\ Reads(r, runs'[r])
    /\ \A r \in RunIds' \ RunIds : runs'[r].taking = {}

(* A run that begins. *)
Begun(m, ids) ==
    /\ runs' \in Seq(RunRec')
    /\ RunsGrow
    /\ RunIds' \ RunIds = {Len(runs) + 1}
    /\ runs'[Len(runs) + 1].of = m /\ runs'[Len(runs) + 1].prompt = ids

LEMMA RunBegins ==
    ASSUME TypeInv, Ids \subseteq Ids', NEW m \in Roster, NEW ids \in SUBSET Ids,
           runs' = Append(runs, NewRun(m, ids))
    PROVE  Begun(m, ids)
<1> USE DEF TypeInv
<1>1. /\ NewRun(m, ids) \in RunRec' /\ NewRun(m, ids).of = m /\ NewRun(m, ids).prompt = ids
      /\ NewRun(m, ids).taking = {}
  BY DEF NewRun, RunRec
<1>2. RunRec \subseteq RunRec'
  BY DEF RunRec
<1>3. runs \in Seq(RunRec') /\ RunIds = 1..Len(runs) /\ Len(runs) \in Nat
  BY <1>2 DEF RunsOK, RunIds
<1>4. /\ runs' \in Seq(RunRec') /\ RunIds' = 1..(Len(runs) + 1)
      /\ \A r \in RunIds : runs'[r] = runs[r]
      /\ runs'[Len(runs) + 1] = NewRun(m, ids)
  BY <1>1, <1>3 DEF RunIds
<1>5. RunIds' \ RunIds = {Len(runs) + 1} /\ RunIds \subseteq RunIds'
  BY <1>3, <1>4
<1>6. QED
  BY <1>1, <1>4, <1>5 DEF Begun, RunsGrow, Reads

LEMMA RunsStep ==
    ASSUME TypeInv, Next PROVE RunsOK' /\ RunsGrow
<1> USE DEF TypeInv
<1>0. Ids \subseteq Ids'
  BY BusStep DEF BusGrows
<1>1. /\ RunRec \subseteq RunRec' /\ runs \in Seq(RunRec') /\ RunIds = 1..Len(runs)
      /\ Len(runs) \in Nat
  <2>1. RunRec \subseteq RunRec'
    BY <1>0 DEF RunRec
  <2>2. QED
    BY <2>1 DEF RunsOK, RunIds
<1>2. CASE runs' = runs
  BY <1>1, <1>2 DEF RunsOK, RunsGrow, RunIds, Reads
<1>3. ASSUME NEW m \in Roster, NEW ids \in SUBSET Ids, runs' = Append(runs, NewRun(m, ids))
      PROVE  RunsOK' /\ RunsGrow
  BY <1>0, <1>3, RunBegins DEF Begun, RunsOK
<1>4. ASSUME NEW r \in RunIds, NEW x \in RunRec', runs' = [runs EXCEPT ![r] = x],
             x.of = runs[r].of, x.prompt = runs[r].prompt, Reads(r, x)
      PROVE  RunsOK' /\ RunsGrow
  <2>1. runs' \in Seq(RunRec') /\ RunIds' = RunIds
    BY <1>1, <1>4 DEF RunIds
  <2>2. \A s \in RunIds : runs'[s] = IF s = r THEN x ELSE runs[s]
    BY <1>1, <1>4
  <2>3. \A s \in RunIds : Reads(s, runs'[s])
    BY <1>4, <2>2 DEF Reads
  <2>4. QED
    BY <1>4, <2>1, <2>2, <2>3 DEF RunsOK, RunsGrow
<1>5. ASSUME NEW r \in RunIds, NEW ids \in SUBSET Ids,
             runs' = [runs EXCEPT ![r].read = @ \cup ids]
      PROVE  RunsOK' /\ RunsGrow
  <2> DEFINE x == [runs[r] EXCEPT !.read = runs[r].read \cup ids]
  <2>1. runs[r] \in RunRec
    BY RunRows
  <2>2. x \in RunRec' /\ x.of = runs[r].of /\ x.prompt = runs[r].prompt /\ Reads(r, x)
    BY <1>0, <2>1 DEF RunRec, Reads
  <2>3. runs' = [runs EXCEPT ![r] = x]
    BY <1>5
  <2> HIDE DEF x
  <2>4. QED
    BY <1>4, <2>2, <2>3
<1>6. ASSUME NEW r \in RunIds, NEW m \in Roster, DrainInbox(r, m) PROVE RunsOK' /\ RunsGrow
  <2> DEFINE ids == Unread(m)
             x == [runs[r] EXCEPT !.read = runs[r].read \cup ids, !.taking = runs[r].taking \cup {ids}]
  <2>1. runs[r] \in RunRec
    BY RunRows
  <2>2. ids \in SUBSET Ids
    BY UnreadAre
  <2>3. runs' = [runs EXCEPT ![r] = x]
    BY <1>6 DEF DrainInbox
  <2> HIDE DEF ids
  <2>4. /\ x.of = runs[r].of /\ x.live = runs[r].live /\ x.session = runs[r].session
        /\ x.prompt = runs[r].prompt /\ x.read = runs[r].read \cup ids
        /\ x.taking = runs[r].taking \cup {ids}
    BY <2>1 DEF RunRec
  <2>5. x.read \in SUBSET Ids' /\ x.taking \in SUBSET SUBSET Ids'
    BY <1>0, <2>1, <2>2, <2>4 DEF RunRec
  <2>6. x \in RunRec'
    BY <1>0, <2>1, <2>5, <2>4 DEF RunRec
  <2>7. Reads(r, x)
    BY <2>4 DEF Reads
  <2> HIDE DEF x
  <2>8. QED
    BY <1>4, <2>3, <2>4, <2>6, <2>7
<1>14. ASSUME NEW r \in RunIds, NEW ids \in runs[r].taking, MarkMailDelivered(r, ids)
       PROVE  RunsOK' /\ RunsGrow
  <2> DEFINE x == [runs[r] EXCEPT !.taking = runs[r].taking \ {ids}]
  <2>1. runs[r] \in RunRec
    BY RunRows
  <2>2. x \in RunRec' /\ x.of = runs[r].of /\ x.prompt = runs[r].prompt
        /\ x.read = runs[r].read /\ x.taking = runs[r].taking \ {ids}
    BY <1>0, <2>1 DEF RunRec
  <2>3. runs' = [runs EXCEPT ![r] = x] /\ msgs' = Flagged(ids)
    BY <1>14 DEF MarkMailDelivered
  <2> HIDE DEF x
  <2>4. Reads(r, x)
    BY <2>2, <2>3 DEF Reads
  <2>5. QED
    BY <1>4, <2>2, <2>3, <2>4
<1>7. ASSUME NEW r \in RunIds, NEW q \in Ids, AskAnswered(r, q) PROVE RunsOK' /\ RunsGrow
  <2> DEFINE replies == {i \in DOMAIN msgs : msgs[i].parent = q}
  <2>1. /\ replies \subseteq Ids /\ replies \subseteq Nat /\ replies # {}
        /\ runs' = [runs EXCEPT ![r].read = @ \cup {Min(replies)}]
    BY <1>7 DEF AskAnswered, Ids, MsgsOK
  <2> HIDE DEF replies
  <2>2. {Min(replies)} \in SUBSET Ids
    BY <2>1, LeastNat
  <2>3. QED
    BY <1>5, <2>1, <2>2
<1>8. ASSUME NEW r \in RunIds, NEW named \in BOOLEAN, RunEnds(r, named) PROVE RunsOK' /\ RunsGrow
  <2> DEFINE x == [runs[r] EXCEPT !.live = FALSE, !.session = named]
  <2>1. runs[r] \in RunRec
    BY RunRows
  <2>2. x \in RunRec' /\ x.of = runs[r].of /\ x.prompt = runs[r].prompt /\ Reads(r, x)
    BY <1>0, <2>1 DEF RunRec, Reads
  <2>3. runs' = [runs EXCEPT ![r] = x]
    BY <1>8 DEF RunEnds
  <2> HIDE DEF x
  <2>4. QED
    BY <1>4, <2>2, <2>3
<1>9. CASE ChatTurn
  <2>1. Main \in Roster /\ {} \in SUBSET Ids /\ runs' = Append(runs, NewRun(Main, {}))
    BY <1>9 DEF ChatTurn, Roster
  <2>2. QED
    BY <1>3, <2>1
<1>10. ASSUME NEW m \in Members, TeamStart(m) PROVE RunsOK' /\ RunsGrow
  BY <1>3, <1>10 DEF TeamStart, Roster
<1>11. ASSUME NEW t \in Tickers, SpawnWake(t) PROVE RunsOK' /\ RunsGrow
  <2>1. Held(t).m \in Roster /\ Held(t).pending \in SUBSET Ids
    BY <1>11, HeldIs DEF SpawnWake, At, Procs, Waking, Roster
  <2>2. QED
    BY <1>3, <1>11, <2>1 DEF SpawnWake
<1>12. ASSUME NEW d \in Procs, Carry(d) PROVE RunsOK' /\ RunsGrow
  <2>1. pass[d].items \subseteq DOMAIN queue
    BY DEF PassOK, PassRec
  <2>2. {queue[k].msg : k \in pass[d].items} \in SUBSET Ids
    BY <2>1, QueueRows
  <2>3. QED
    BY <1>3, <1>12, <2>2 DEF Carry, Roster
<1>13. QED
  BY ZenonT(40), <1>2, <1>6, <1>7, <1>8, <1>9, <1>10, <1>11, <1>12, <1>14
  DEF Next, AgentStep, PersonStep, StartStep, WakeStep, Post, TeamMsg, TeamStartBusy,
      TeamStartBinds, IntervalPasses, SettleMembers, MailWaiting, SettleBinds, SettleFrees,
      SettleFails, HandToConversation, LeaveAsleep, ClaimWake, TakeMail, WakeBusy, WakeBinds,
      WakeFails, DeliverNothing, PlanInjection, SpawnFails, DeliverReports, CarryFails,
      MarkDelivered, Crash, Ids, RunIds, Procs

(***************************************************************************)
(* The queue: rows are added from the bus, and marked.                     *)
(***************************************************************************)
QueueGrows ==
    /\ DOMAIN queue \subseteq DOMAIN queue'
    /\ \A k \in DOMAIN queue : queue'[k].msg = queue[k].msg

(* What a hand-over writes: the main chat's unread mail, each once. *)
Handed ==
    /\ queue' \in Seq(QueueRec')
    /\ QueueGrows
    /\ \A k \in DOMAIN queue : queue'[k] = queue[k]
    /\ \A k \in DOMAIN queue' \ DOMAIN queue :
          queue'[k].msg \in Unread(Main) /\ queue'[k].state = "queued"
    /\ \A k, l \in DOMAIN queue' \ DOMAIN queue : queue'[k].msg = queue'[l].msg => k = l
    /\ \A i \in Unread(Main) : \E k \in DOMAIN queue' : queue'[k].msg = i

LEMMA MailHanded ==
    ASSUME TypeInv, Ids \subseteq Ids', HandMail
    PROVE  Handed
<1> USE DEF TypeInv
<1> DEFINE ids == Unread(Main)
           n == Cardinality(ids)
           new == QueuedRows(ids)
<1>1. ids \subseteq Ids /\ IsFiniteSet(ids)
  BY UnreadAre, IdsFinite
<1>2. /\ n \in Nat
      /\ \A k \in 1..n : SetToSeq(ids)[k] \in ids
      /\ \A k, l \in 1..n : SetToSeq(ids)[k] = SetToSeq(ids)[l] => k = l
      /\ \A x \in ids : \E k \in 1..n : SetToSeq(ids)[k] = x
  BY <1>1, SetListed
<1>3. /\ DOMAIN new = 1..n
      /\ \A k \in 1..n : new[k] = [msg |-> SetToSeq(ids)[k], state |-> "queued"]
  BY DEF QueuedRows
<1>4. \A k \in 1..n : new[k] \in QueueRec' /\ new[k].msg = SetToSeq(ids)[k] /\ new[k].state = "queued"
  BY <1>1, <1>2, <1>3 DEF QueueRec
<1>5. new \in Seq(QueueRec') /\ Len(new) = n
  <2>1. new \in [1..n -> QueueRec']
    BY <1>3, <1>4 DEF QueuedRows
  <2>2. QED
    BY <1>2, <2>1
<1>6. /\ QueueRec \subseteq QueueRec'
      /\ queue \in Seq(QueueRec') /\ DOMAIN queue = 1..Len(queue) /\ Len(queue) \in Nat
  <2>1. QueueRec \subseteq QueueRec'
    BY DEF QueueRec
  <2>2. QED
    BY <2>1 DEF QueueOK
<1>7. queue' = queue \o new
  BY DEF HandMail
<1> HIDE DEF new, n, ids
<1>8. /\ queue' \in Seq(QueueRec') /\ Len(queue') = Len(queue) + n
      /\ DOMAIN queue' = 1..(Len(queue) + n)
  <2>1. queue \o new \in Seq(QueueRec') /\ Len(queue \o new) = Len(queue) + Len(new)
    BY <1>5, <1>6
  <2>2. DOMAIN queue' = 1..Len(queue')
    BY <1>7, <2>1
  <2>3. QED
    BY <1>5, <1>7, <2>1, <2>2
<1>9. \A k \in 1..Len(queue) : queue'[k] = queue[k]
  BY <1>5, <1>6, <1>7
<1>10. \A k \in (Len(queue) + 1)..(Len(queue) + n) : queue'[k] = new[k - Len(queue)]
  BY <1>5, <1>6, <1>7
<1>11. DOMAIN queue' \ DOMAIN queue = (Len(queue) + 1)..(Len(queue) + n)
  BY <1>2, <1>6, <1>8
<1>12. ASSUME NEW k \in DOMAIN queue' \ DOMAIN queue
       PROVE  /\ k - Len(queue) \in 1..n
              /\ queue'[k].msg = SetToSeq(ids)[k - Len(queue)] /\ queue'[k].state = "queued"
  <2>1. k - Len(queue) \in 1..n
    BY <1>2, <1>6, <1>11
  <2>2. queue'[k] = new[k - Len(queue)]
    BY <1>10, <1>11
  <2>3. QED
    BY <1>4, <2>1, <2>2
<1>13. \A k \in DOMAIN queue' \ DOMAIN queue : queue'[k].msg \in ids /\ queue'[k].state = "queued"
  BY <1>2, <1>12
<1>14. ASSUME NEW k \in DOMAIN queue' \ DOMAIN queue, NEW l \in DOMAIN queue' \ DOMAIN queue,
              queue'[k].msg = queue'[l].msg
       PROVE  k = l
  <2>1. k - Len(queue) = l - Len(queue)
    BY <1>2, <1>12, <1>14
  <2>2. QED
    BY <1>6, <1>8, <2>1
<1>15. ASSUME NEW i \in ids PROVE \E k \in DOMAIN queue' : queue'[k].msg = i
  <2>1. PICK j \in 1..n : SetToSeq(ids)[j] = i
    BY <1>2
  <2>2. j + Len(queue) \in DOMAIN queue' \ DOMAIN queue /\ (j + Len(queue)) - Len(queue) = j
    BY <1>2, <1>6, <1>11
  <2>3. queue'[j + Len(queue)].msg = i
    BY <1>12, <2>1, <2>2
  <2>4. QED
    BY <2>2, <2>3
<1>16. QueueGrows
  BY <1>2, <1>6, <1>8, <1>9 DEF QueueGrows
<1>17. QED
  BY <1>6, <1>8, <1>9, <1>13, <1>14, <1>15, <1>16 DEF Handed, ids

(* What settling a plan writes: the rows of the plan, and no other. *)
RowsSettle(d) ==
    /\ DOMAIN queue' = DOMAIN queue
    /\ \A k \in DOMAIN queue : /\ queue'[k].msg = queue[k].msg
                               /\ queue'[k].state \in {queue[k].state, "delivered"}
                               /\ k \notin pass[d].items => queue'[k] = queue[k]
    /\ queue' \in Seq(QueueRec)

LEMMA Settling ==
    ASSUME TypeInv, NEW d \in Procs, MarkDelivered(d)
    PROVE  RowsSettle(d)
<1> USE DEF TypeInv
<1> DEFINE ids == pass[d].items
<1>0. queue' = Settle(ids)
  BY DEF MarkDelivered
<1>1. DOMAIN queue' = DOMAIN queue /\ DOMAIN queue = 1..Len(queue) /\ Len(queue) \in Nat
  BY <1>0 DEF Settle, QueueOK
<1>2. ASSUME NEW k \in DOMAIN queue
      PROVE  /\ queue'[k].msg = queue[k].msg
             /\ queue'[k].state \in {queue[k].state, "delivered"}
             /\ k \notin ids => queue'[k] = queue[k]
             /\ queue'[k] \in QueueRec
  <2>1. queue[k] \in QueueRec
    BY QueueRows
  <2>2. queue'[k] \in {queue[k], [queue[k] EXCEPT !.state = "delivered"]}
        /\ (k \notin ids => queue'[k] = queue[k])
    BY <1>0 DEF Settle
  <2>3. QED
    BY <2>1, <2>2 DEF QueueRec
<1>3. queue' \in [1..Len(queue) -> QueueRec]
  BY <1>0, <1>1, <1>2 DEF Settle
<1>4. QED
  BY <1>1, <1>2, <1>3 DEF RowsSettle

LEMMA QueueStep ==
    ASSUME TypeInv, Next PROVE QueueOK' /\ QueueGrows
<1> USE DEF TypeInv
<1>0. Ids \subseteq Ids'
  BY BusStep DEF BusGrows
<1>1. QueueRec \subseteq QueueRec' /\ queue \in Seq(QueueRec')
  <2>1. QueueRec \subseteq QueueRec'
    BY <1>0 DEF QueueRec
  <2>2. QED
    BY <2>1 DEF QueueOK
<1>2. CASE queue' = queue
  BY <1>1, <1>2 DEF QueueOK, QueueGrows
<1>3. ASSUME HandMail PROVE QueueOK' /\ QueueGrows
  BY <1>0, <1>3, MailHanded DEF Handed, QueueOK
<1>4. ASSUME NEW d \in Procs, MarkDelivered(d) PROVE QueueOK' /\ QueueGrows
  <2>0. RowsSettle(d)
    BY <1>4, Settling
  <2>1. queue' \in Seq(QueueRec)
    BY <2>0 DEF RowsSettle
  <2>2. DOMAIN queue \subseteq DOMAIN queue'
    BY <2>0 DEF RowsSettle
  <2>3. ASSUME NEW k \in DOMAIN queue PROVE queue'[k].msg = queue[k].msg
    BY <2>0 DEF RowsSettle
  <2>4. QED
    BY <1>1, <2>1, <2>2, <2>3 DEF QueueOK, QueueGrows
<1>5. ASSUME NEW t \in Tickers, NEW w, HandToConversation(t, w) PROVE QueueOK' /\ QueueGrows
  BY <1>2, <1>3, <1>5 DEF HandToConversation
<1>6. ASSUME NEW c \in Consoles, DeliverReports(c) PROVE QueueOK' /\ QueueGrows
  BY <1>2, <1>3, <1>6 DEF DeliverReports
<1>7. ASSUME NEW t \in Tickers, WakeStep(t) PROVE QueueOK' /\ QueueGrows
  BY <1>2, <1>5, <1>7
  DEF WakeStep, SettleMembers, MailWaiting, SettleBinds, SettleFrees, SettleFails,
      LeaveAsleep, ClaimWake, TakeMail, WakeBusy, WakeBinds, WakeFails, DeliverNothing,
      PlanInjection
<1>8. QED
  BY ZenonT(40), <1>2, <1>4, <1>6, <1>7
  DEF Next, AgentStep, PersonStep, StartStep, Post, DrainInbox, MarkMailDelivered,
      AskAnswered, ChatTurn, TeamMsg, TeamStart, TeamStartBusy, TeamStartBinds, RunEnds,
      IntervalPasses, SpawnWake, SpawnFails, Carry, CarryFails, Crash, Procs

(***************************************************************************)
(* The types.                                                              *)
(***************************************************************************)
LEMMA TypeInvGives ==
    ASSUME TypeInv PROVE TypeOK
BY DEF TypeInv, TypeOK, MsgsOK, RunsOK, QueueOK, MemberOK, PassOK, StartOK, DrainedInv, Procs

LEMMA RestingTyped == Resting \in PassRec /\ Poised(Resting) /\ Resting.pc = "idle"
BY DEF Resting, PassRec, Poised, Waking, NoRun

LEMMA InitTyped ==
    ASSUME Init PROVE TypeInv
<1>1. MsgsOK /\ RunsOK /\ QueueOK
  BY DEF Init, MsgsOK, RunsOK, QueueOK, Ids
<1>2. MemberOK
  BY DEF Init, MemberOK, MemberRec
<1>3. PassOK
  BY RestingTyped DEF Init, PassOK, Procs
<1>4. StartOK
  BY DEF Init, StartOK, Idle, StartRec
<1>5. faults \in 0..MaxFaults /\ DrainedInv
  BY TeamMailAssumption DEF Init, DrainedInv, Ids, RunIds
<1>6. QED
  BY <1>1, <1>2, <1>3, <1>4, <1>5 DEF TypeInv

LEMMA MsgsStep ==
    ASSUME TypeInv, Next PROVE MsgsOK'
<1>1. BusGrows /\ RunIds \subseteq RunIds'
  BY BusStep, RunsStep DEF RunsGrow
<1>2. ASSUME NEW i \in Ids'
      PROVE  /\ ~msgs'[i].flag => msgs'[i].state = "queued"
             /\ msgs'[i].parent < i /\ msgs'[i].by \in RunIds' \cup {NoRun}
  <2>1. CASE i \in Ids
    BY <1>1, <2>1 DEF TypeInv, MsgsOK, BusGrows
  <2>2. CASE i \notin Ids
    BY <1>1, <1>2, <2>2 DEF BusGrows
  <2>3. QED
    BY <2>1, <2>2
<1>3. QED
  BY <1>1, <1>2 DEF MsgsOK, BusGrows, MsgRec

(* What a step does to the rows that were there: nothing, a marking, or a  *)
(* drain.                                                                  *)
LEMMA BusMoves ==
    ASSUME TypeInv, Next
    PROVE  \/ \A i \in Ids : msgs'[i] = msgs[i]
           \/ \E ids \in SUBSET Ids : msgs' = Flagged(ids)
           \/ \E r \in RunIds, m \in Roster : DrainInbox(r, m)
<1> USE DEF TypeInv
<1>1. ASSUME NEW r \in RunIds, NEW m \in Roster, NEW to \in Roster \cup {Everyone, Stranger},
             NEW p \in 0..Len(msgs), Post(r, m, to, p)
      PROVE  \A i \in Ids : msgs'[i] = msgs[i]
  BY <1>1, PostWrites DEF Posted
<1>2. ASSUME NEW to \in Roster, TeamMsg(to) PROVE \A i \in Ids : msgs'[i] = msgs[i]
  <2>1. msgs \in Seq(MsgRec) /\ Ids = 1..Len(msgs)
    BY DEF MsgsOK, Ids
  <2>2. Record(Stranger, NoRun, to, 0, 0, "queued") \in MsgRec
    BY DEF Record, MsgRec, NoRun
  <2>3. QED
    BY <1>2, <2>1, <2>2 DEF TeamMsg
<1>3. ASSUME NEW r \in RunIds, NEW ids \in runs[r].taking, MarkMailDelivered(r, ids)
      PROVE  \E s \in SUBSET Ids : msgs' = Flagged(s)
  BY <1>3, RunRows DEF MarkMailDelivered
<1>4. ASSUME NEW r \in RunIds, NEW q \in Ids, AskAnswered(r, q)
      PROVE  \E s \in SUBSET Ids : msgs' = Flagged(s)
  <2> DEFINE replies == {j \in DOMAIN msgs : msgs[j].parent = q}
  <2>1. replies \subseteq Ids /\ replies \subseteq Nat /\ replies # {} /\ msgs' = Flagged({Min(replies)})
    BY <1>4 DEF AskAnswered, Ids, MsgsOK
  <2> HIDE DEF replies
  <2>2. {Min(replies)} \in SUBSET Ids
    BY <2>1, LeastNat
  <2>3. QED
    BY <2>1, <2>2
<1>5. \A m : Unread(m) \in SUBSET Ids
  BY UnreadAre
<1>6. ASSUME HandMail PROVE \E s \in SUBSET Ids : msgs' = Flagged(s)
  BY <1>5, <1>6 DEF HandMail
<1>7. ASSUME NEW t \in Tickers, WakeStep(t)
      PROVE  msgs' = msgs \/ \E s \in SUBSET Ids : msgs' = Flagged(s)
  BY <1>5, <1>6, <1>7
  DEF WakeStep, SettleMembers, MailWaiting, SettleBinds, SettleFrees, SettleFails,
      HandToConversation, LeaveAsleep, ClaimWake, TakeMail, WakeBusy, WakeBinds, WakeFails,
      DeliverNothing, PlanInjection
<1>8. ASSUME NEW c \in Consoles, DeliverReports(c)
      PROVE  msgs' = msgs \/ \E s \in SUBSET Ids : msgs' = Flagged(s)
  BY <1>6, <1>8 DEF DeliverReports
<1>9. CASE AgentStep
  BY <1>1, <1>3, <1>4, <1>9 DEF AgentStep, RunIds, Ids
<1>10. QED
  BY <1>2, <1>7, <1>8, <1>9
  DEF Next, PersonStep, StartStep, ChatTurn, TeamStart, TeamStartBusy, TeamStartBinds, RunEnds,
      IntervalPasses, SpawnWake, SpawnFails, Carry, CarryFails, MarkDelivered, Crash

LEMMA DrainedStep ==
    ASSUME TypeInv, Next PROVE DrainedInv'
<1>1. BusGrows /\ RunsGrow
  BY BusStep, RunsStep
<1>2. ASSUME NEW r \in RunIds', NEW ids \in runs'[r].taking PROVE ids \subseteq runs'[r].read
  <2>1. CASE r \in RunIds
    <3>1. Reads(r, runs'[r])
      BY <1>1, <2>1 DEF RunsGrow
    <3>2. ids \in runs[r].taking => ids \subseteq runs[r].read
      BY <2>1 DEF TypeInv, DrainedInv
    <3>3. QED
      BY <1>2, <3>1, <3>2 DEF Reads
  <2>2. QED
    BY <1>1, <1>2, <2>1 DEF RunsGrow
<1>3. ASSUME NEW i \in Ids', msgs'[i].flag, msgs'[i].state = "queued" PROVE Drained(i)'
  <2>0. i \in Ids
    <3>1. SUFFICES ASSUME i \in Ids' \ Ids PROVE FALSE
      BY <1>3
    <3>2. msgs'[i].flag = (msgs'[i].state # "queued")
      BY <1>1, <3>1 DEF BusGrows
    <3>3. QED
      BY Zenon, <1>3, <3>2
  <2>1. i \in Ids /\ msgs[i].state = "queued" /\ msgs[i] \in MsgRec
    <3>1. msgs'[i].state \in {msgs[i].state, "delivered"}
      BY <1>1, <2>0 DEF BusGrows
    <3>2. QED
      BY <1>3, <2>0, <3>1 DEF TypeInv, MsgsOK, Ids
  <2>2. ASSUME NEW ids \in SUBSET Ids, msgs' = Flagged(ids) PROVE i \notin ids
    <3>1. SUFFICES ASSUME i \in ids PROVE FALSE
      OBVIOUS
    <3>2. msgs'[i] = [msgs[i] EXCEPT !.flag = TRUE, !.state = "delivered"]
      BY <2>1, <2>2, <3>1, FlaggedKeeps DEF TypeInv
    <3>3. QED
      BY <1>3, <2>1, <3>2 DEF MsgRec
  <2>3. CASE msgs[i].flag
    <3>1. PICK r \in RunIds : \E ids \in runs[r].taking : i \in ids
      BY <2>1, <2>3 DEF TypeInv, DrainedInv, Drained
    <3>2. Reads(r, runs'[r]) /\ r \in RunIds'
      BY <1>1 DEF RunsGrow
    <3>3. \A ids \in runs[r].taking : ids \in SUBSET Ids
      BY RunRows DEF TypeInv
    <3>4. \E ids \in runs'[r].taking : i \in ids
      BY <2>2, <3>1, <3>2, <3>3 DEF Reads
    <3>5. QED
      BY <3>2, <3>4 DEF Drained
  <2>4. CASE ~msgs[i].flag
    <3>1. ASSUME \A j \in Ids : msgs'[j] = msgs[j] PROVE FALSE
      BY <1>3, <2>1, <2>4, <3>1
    <3>2. ASSUME NEW ids \in SUBSET Ids, msgs' = Flagged(ids) PROVE FALSE
      <4>1. msgs'[i] = msgs[i]
        BY <2>1, <2>2, <3>2, FlaggedKeeps DEF TypeInv
      <4>2. QED
        BY <1>3, <2>4, <4>1
    <3>3. ASSUME NEW r \in RunIds, NEW m \in Roster, DrainInbox(r, m) PROVE Drained(i)'
      <4>1. Unread(m) \in SUBSET Ids /\ msgs' = FlaggedOnly(Unread(m))
        BY <3>3, UnreadAre DEF DrainInbox, TypeInv
      <4>2. i \in Unread(m)
        <5>1. i \notin Unread(m) => msgs'[i] = msgs[i]
          BY <2>1, <4>1, DrainedKeeps DEF TypeInv
        <5>2. QED
          BY <1>3, <2>4, <5>1
      <4>3. runs \in Seq(RunRec) /\ runs[r] \in RunRec /\ r \in RunIds'
        BY <1>1, RunRows DEF TypeInv, RunsOK, RunsGrow
      <4>4. runs'[r].taking = runs[r].taking \cup {Unread(m)}
        BY <3>3, <4>3 DEF DrainInbox, RunIds, RunRec
      <4>5. QED
        BY <4>2, <4>3, <4>4 DEF Drained
    <3>4. QED
      BY <3>1, <3>2, <3>3, BusMoves
  <2>5. QED
    BY <2>3, <2>4
<1>4. QED
  BY <1>2, <1>3 DEF DrainedInv

LEMMA MemberStep ==
    ASSUME TypeInv, Next PROVE MemberOK'
<1> USE DEF TypeInv
<1>0. RunIds \subseteq RunIds' /\ MemberRec \subseteq MemberRec'
  BY RunsStep DEF RunsGrow, MemberRec
<1>1. CASE member' = member
  BY <1>0, <1>1 DEF MemberOK
<1>2. ASSUME NEW m \in Members, NEW x \in MemberRec', member' = [member EXCEPT ![m] = x]
      PROVE  MemberOK'
  BY <1>0, <1>2 DEF MemberOK
<1>3. ASSUME NEW m \in Members
      PROVE  /\ member[m] \in MemberRec
             /\ [member[m] EXCEPT !.status = "busy"] \in MemberRec'
             /\ [member[m] EXCEPT !.status = "ready"] \in MemberRec'
             /\ [member[m] EXCEPT !.woken = TRUE] \in MemberRec'
             /\ [member[m] EXCEPT !.woken = FALSE] \in MemberRec'
             /\ \A r \in RunIds \cup {NoRun} : [member[m] EXCEPT !.agent = r] \in MemberRec'
  <2>1. member[m] \in MemberRec
    BY DEF MemberOK
  <2>2. QED
    BY <1>0, <2>1 DEF MemberRec
<1>4. CASE TeamStartBusy
  <2>1. starting.m \in Members /\ member' = [member EXCEPT ![starting.m] = [member[starting.m] EXCEPT !.status = "busy"]]
    BY <1>4 DEF TeamStartBusy, StartOK
  <2>2. QED
    BY <1>2, <1>3, <2>1
<1>5. CASE TeamStartBinds
  <2>1. /\ starting.m \in Members /\ starting.run \in RunIds \cup {NoRun}
        /\ member' = [member EXCEPT ![starting.m] = [member[starting.m] EXCEPT !.agent = starting.run]]
    BY <1>5 DEF TeamStartBinds, StartOK, StartRec
  <2>2. QED
    BY <1>2, <1>3, <2>1
<1>6. ASSUME NEW t \in Tickers, NEW f \in pass[t].frees, SettleBinds(t, f) PROVE MemberOK'
  <2> DEFINE x == [member[f.m] EXCEPT !.agent = f.agent,
                                      !.session = member[f.m].session \/ runs[f.agent].session]
  <2>1. f \in FreeRec
    BY DEF PassOK, PassRec, Procs
  <2>2. f.m \in Members /\ f.agent \in RunIds
    BY <2>1 DEF FreeRec
  <2>3. member[f.m] \in MemberRec
    BY <1>3, <2>2
  <2>4. (member[f.m].session \/ runs[f.agent].session) \in BOOLEAN
    OBVIOUS
  <2>5. x \in MemberRec'
    BY <1>0, <2>2, <2>3, <2>4 DEF MemberRec
  <2>6. member' = [member EXCEPT ![f.m] = x]
    BY <1>6 DEF SettleBinds
  <2> HIDE DEF x
  <2>7. QED
    BY <1>2, <2>2, <2>5, <2>6
<1>7. ASSUME NEW t \in Tickers, NEW f \in pass[t].frees, SettleFrees(t, f) PROVE MemberOK'
  <2>1. f \in FreeRec
    BY DEF PassOK, PassRec, Procs
  <2>2. f.m \in Members /\ member' = [member EXCEPT ![f.m] = [member[f.m] EXCEPT !.status = "ready"]]
    BY <1>7, <2>1 DEF FreeRec, SettleFrees
  <2>3. QED
    BY <1>2, <1>3, <2>2
<1>8. ASSUME NEW t \in Tickers, NEW w \in pass[t].todo, ClaimWake(t, w) PROVE MemberOK'
  <2>1. w \in WaitRec
    BY DEF PassOK, PassRec, Procs
  <2>2. w.m \in Members /\ member' = [member EXCEPT ![w.m] = [member[w.m] EXCEPT !.woken = TRUE]]
    BY <1>8, <2>1 DEF WaitRec, ClaimWake, Roster
  <2>3. QED
    BY <1>2, <1>3, <2>2
<1>9. ASSUME NEW m \in Members, IntervalPasses(m) PROVE MemberOK'
  <2>1. member' = [member EXCEPT ![m] = [member[m] EXCEPT !.woken = FALSE]]
    BY <1>9 DEF IntervalPasses
  <2>2. QED
    BY <1>2, <1>3, <2>1
<1>10. ASSUME NEW t \in Tickers, WakeBusy(t) PROVE MemberOK'
  <2>1. Held(t).m \in Members
    BY <1>10, HeldIs DEF WakeBusy, At, Procs, Waking
  <2>2. member' = [member EXCEPT ![Held(t).m] = [member[Held(t).m] EXCEPT !.status = "busy"]]
    BY <1>10 DEF WakeBusy
  <2>3. QED
    BY <1>2, <1>3, <2>1, <2>2
<1>11. ASSUME NEW t \in Tickers, WakeBinds(t) PROVE MemberOK'
  <2>1. Held(t).m \in Members
    BY <1>11, HeldIs DEF WakeBinds, WakeFails, At, Procs, Waking
  <2>2. pass[t].run \in RunIds \cup {NoRun}
    BY DEF PassOK, PassRec, Procs
  <2>3. member' = [member EXCEPT ![Held(t).m] = [member[Held(t).m] EXCEPT !.agent = pass[t].run]]
    BY <1>11 DEF WakeBinds
  <2>4. QED
    BY <1>2, <1>3, <2>1, <2>2, <2>3
<1>12. QED
  BY ZenonT(40), <1>1, <1>4, <1>5, <1>6, <1>7, <1>8, <1>9, <1>10, <1>11
  DEF Next, AgentStep, PersonStep, StartStep, WakeStep, Post, DrainInbox, MarkMailDelivered,
      AskAnswered, ChatTurn, TeamMsg, TeamStart, RunEnds, SettleMembers, SettleFails,
      WakeFails, MailWaiting, HandToConversation, LeaveAsleep, TakeMail, DeliverNothing,
      PlanInjection, SpawnWake, SpawnFails, DeliverReports, Carry, CarryFails, MarkDelivered,
      Crash

LEMMA StartStepTyped ==
    ASSUME TypeInv, Next PROVE StartOK'
<1> USE DEF TypeInv
<1>0. StartRec \subseteq StartRec'
  BY RunsStep DEF RunsGrow, StartRec
<1>1. CASE starting' = starting
  BY <1>0, <1>1 DEF StartOK
<1>2. ASSUME NEW m \in Members, TeamStart(m) PROVE StartOK'
  <2>1. Begun(m, {})
    <3>1. Ids \subseteq Ids' /\ m \in Roster /\ {} \in SUBSET Ids /\ runs' = Append(runs, NewRun(m, {}))
      BY <1>2, BusStep DEF BusGrows, TeamStart, Roster
    <3>2. QED
      BY <3>1, RunBegins
  <2>2. Len(runs) + 1 \in RunIds' /\ Len(runs) + 1 # NoRun
    BY <2>1 DEF Begun, RunsOK, NoRun
  <2>3. starting' = [m |-> m, run |-> Len(runs) + 1, pc |-> "spawned"]
    BY <1>2 DEF TeamStart
  <2>4. QED
    BY <2>2, <2>3 DEF StartOK, StartRec
<1>3. CASE TeamStartBusy
  BY <1>0, <1>3 DEF TeamStartBusy, StartOK, StartRec
<1>4. CASE TeamStartBinds
  BY <1>4 DEF TeamStartBinds, StartOK, StartRec, Idle
<1>5. ASSUME NEW t \in Tickers, WakeStep(t) PROVE StartOK'
  BY <1>1, <1>5
  DEF WakeStep, SettleMembers, MailWaiting, SettleBinds, SettleFrees, SettleFails,
      HandToConversation, LeaveAsleep, ClaimWake, TakeMail, WakeBusy, WakeBinds, WakeFails,
      DeliverNothing, PlanInjection
<1>6. QED
  BY ZenonT(40), <1>1, <1>2, <1>3, <1>4, <1>5
  DEF Next, AgentStep, PersonStep, StartStep, Post, DrainInbox, MarkMailDelivered,
      AskAnswered, ChatTurn, TeamMsg, RunEnds, IntervalPasses, SpawnWake, SpawnFails,
      DeliverReports, Carry, CarryFails, MarkDelivered, Crash

LEMMA PassStep ==
    ASSUME TypeInv, Next PROVE PassOK'
<1> USE DEF TypeInv
<1>0. /\ Ids \subseteq Ids' /\ RunIds \subseteq RunIds' /\ DOMAIN queue \subseteq DOMAIN queue'
      /\ FreeRec \subseteq FreeRec' /\ WaitRec \subseteq WaitRec' /\ PassRec \subseteq PassRec'
  <2>1. Ids \subseteq Ids' /\ RunIds \subseteq RunIds' /\ DOMAIN queue \subseteq DOMAIN queue'
    BY BusStep, RunsStep, QueueStep DEF BusGrows, RunsGrow, QueueGrows
  <2>2. FreeRec \subseteq FreeRec' /\ WaitRec \subseteq WaitRec'
    BY <2>1 DEF FreeRec, WaitRec
  <2>3. QED
    BY <2>1, <2>2 DEF PassRec
<1>1. CASE pass' = pass
  BY <1>0, <1>1 DEF PassOK
<1>2. ASSUME NEW d \in Procs, NEW q \in PassRec', Poised(q), pass' = [pass EXCEPT ![d] = q]
      PROVE  PassOK'
  BY <1>0, <1>2 DEF PassOK
<1>3. \A d \in Procs : pass[d] \in PassRec /\ pass[d] \in PassRec' /\ Poised(pass[d])
  BY <1>0 DEF PassOK
<1>4. Tickers \subseteq Procs /\ Consoles \subseteq Procs
  BY DEF Procs
<1>5. ASSUME NEW t \in Tickers, SettleMembers(t) PROVE PassOK'
  <2> DEFINE F == {[m |-> m, agent |-> member[m].agent, bound |-> FALSE] :
                      m \in {n \in Members : Settled(n)}}
             q == [pass[t] EXCEPT !.pc = "settling", !.frees = F]
  <2>1. F \subseteq FreeRec
    <3>1. SUFFICES ASSUME NEW m \in Members, Settled(m)
                   PROVE  [m |-> m, agent |-> member[m].agent, bound |-> FALSE] \in FreeRec
      OBVIOUS
    <3>2. member[m] \in MemberRec
      BY DEF MemberOK
    <3>3. member[m].agent \in RunIds
      BY <3>1, <3>2 DEF MemberRec, Settled
    <3>4. QED
      BY <3>3 DEF FreeRec
  <2>2. pass' = [pass EXCEPT ![t] = q] /\ pass[t].pc = "idle"
    BY <1>5 DEF SettleMembers, At
  <2> HIDE DEF F
  <2>3. q \in PassRec' /\ Poised(q)
    <3>1. F \in SUBSET FreeRec'
      BY <1>0, <2>1
    <3>2. q \in PassRec'
      BY <1>3, <1>4, <3>1 DEF PassRec
    <3>3. Poised(q)
      BY <1>3, <1>4, <2>2 DEF PassRec, Poised, Waking
    <3>4. QED
      BY <3>2, <3>3
  <2> HIDE DEF q
  <2>4. QED
    BY <1>2, <1>4, <2>2, <2>3
<1>6. ASSUME NEW t \in Tickers, NEW f \in pass[t].frees, SettleBinds(t, f) PROVE PassOK'
  <2> DEFINE F == (pass[t].frees \ {f}) \cup {[f EXCEPT !.bound = TRUE]}
             q == [pass[t] EXCEPT !.frees = F]
  <2>1. f \in FreeRec /\ pass[t].frees \subseteq FreeRec
    BY <1>3, <1>4 DEF PassRec
  <2>2. F \subseteq FreeRec
    BY <2>1 DEF FreeRec
  <2>3. pass' = [pass EXCEPT ![t] = q]
    BY <1>6 DEF SettleBinds
  <2> HIDE DEF F
  <2>4. q \in PassRec'
    BY <1>0, <1>3, <1>4, <2>2 DEF PassRec
  <2>5. Poised(q)
    BY <1>3, <1>4 DEF PassRec, Poised
  <2> HIDE DEF q
  <2>6. QED
    BY <1>2, <1>4, <2>3, <2>4, <2>5
<1>7. ASSUME NEW t \in Tickers, NEW f \in pass[t].frees, SettleFrees(t, f) \/ SettleFails(t, f)
      PROVE  PassOK'
  <2> DEFINE q == [pass[t] EXCEPT !.frees = pass[t].frees \ {f}]
  <2>1. pass' = [pass EXCEPT ![t] = q]
    BY <1>7 DEF SettleFrees, SettleFails
  <2>2. q \in PassRec'
    BY <1>3, <1>4 DEF PassRec
  <2>3. Poised(q)
    BY <1>3, <1>4 DEF PassRec, Poised
  <2> HIDE DEF q
  <2>4. QED
    BY <1>2, <1>4, <2>1, <2>2, <2>3
<1>8. ASSUME NEW t \in Tickers, MailWaiting(t) PROVE PassOK'
  <2> DEFINE T == {Waiting(m) : m \in {n \in Roster : Unread(n) # {}}}
             q == [pass[t] EXCEPT !.pc = "mail", !.todo = T]
  <2>1. T \subseteq WaitRec
    <3>1. SUFFICES ASSUME NEW m \in Roster PROVE Waiting(m) \in WaitRec
      OBVIOUS
    <3>2. Unread(m) \in SUBSET Ids
      BY UnreadAre
    <3>3. (m \in Members /\ member[m].status = "ready" /\ member[m].session) \in BOOLEAN
      OBVIOUS
    <3>4. QED
      BY <3>2, <3>3 DEF Waiting, WaitRec
  <2>2. pass' = [pass EXCEPT ![t] = q] /\ pass[t].pc = "settling"
    BY <1>8 DEF MailWaiting, At
  <2> HIDE DEF T
  <2>3. q \in PassRec'
    BY ZenonT(40), <1>0, <1>3, <1>4, <2>1 DEF PassRec
  <2>4. Poised(q)
    BY <1>3, <1>4, <2>2 DEF PassRec, Poised, Waking
  <2> HIDE DEF q
  <2>5. QED
    BY <1>2, <1>4, <2>2, <2>3, <2>4
<1>9. ASSUME NEW t \in Tickers, NEW w \in pass[t].todo, HandToConversation(t, w) \/ LeaveAsleep(t, w)
      PROVE  PassOK'
  <2> DEFINE q == [pass[t] EXCEPT !.todo = pass[t].todo \ {w}]
  <2>1. pass' = [pass EXCEPT ![t] = q]
    BY <1>9 DEF HandToConversation, LeaveAsleep
  <2>2. q \in PassRec'
    BY <1>3, <1>4 DEF PassRec
  <2>3. Poised(q)
    BY <1>3, <1>4 DEF PassRec, Poised
  <2> HIDE DEF q
  <2>4. QED
    BY <1>2, <1>4, <2>1, <2>2, <2>3
<1>10. ASSUME NEW t \in Tickers, NEW w \in pass[t].todo, ClaimWake(t, w) PROVE PassOK'
  <2> DEFINE q == [pass[t] EXCEPT !.todo = pass[t].todo \ {w}]
             p == [pass[t] EXCEPT !.todo = pass[t].todo \ {w}, !.held = {w}, !.pc = "claimed"]
  <2>1. pass' = [pass EXCEPT ![t] = q] \/ pass' = [pass EXCEPT ![t] = p]
    BY <1>10 DEF ClaimWake
  <2>2. w \in WaitRec /\ w.m \in Members
    <3>1. w \in WaitRec
      BY <1>3, <1>4 DEF PassRec
    <3>2. QED
      BY <1>10, <3>1 DEF WaitRec, ClaimWake, Roster
  <2>3. q \in PassRec'
    BY <1>3, <1>4 DEF PassRec
  <2>4. p \in PassRec'
    BY ZenonT(40), <1>0, <1>3, <1>4, <2>2 DEF PassRec
  <2>5. Poised(q)
    BY <1>3, <1>4 DEF PassRec, Poised
  <2>6. Poised(p)
    <3>1. p.pc = "claimed" /\ p.held = {w}
      BY <1>3, <1>4 DEF PassRec
    <3>2. QED
      BY <2>2, <3>1 DEF Poised, Waking
  <2> HIDE DEF q, p
  <2>7. QED
    BY <1>2, <1>4, <2>1, <2>3, <2>4, <2>5, <2>6
<1>11. ASSUME NEW t \in Tickers, SpawnWake(t) PROVE PassOK'
  <2> DEFINE q == [pass[t] EXCEPT !.pc = "spawned", !.run = Len(runs) + 1]
  <2>1. Begun(Held(t).m, Held(t).pending)
    <3>1. Held(t).m \in Roster /\ Held(t).pending \in SUBSET Ids
      BY <1>4, <1>11, HeldIs DEF SpawnWake, At, Waking, Roster
    <3>2. QED
      BY <1>0, <1>11, <3>1, RunBegins DEF SpawnWake
  <2>2. Len(runs) + 1 \in RunIds' /\ Len(runs) + 1 # NoRun
    BY <2>1 DEF Begun, RunsOK, NoRun
  <2>3. pass' = [pass EXCEPT ![t] = q] /\ pass[t].pc = "claimed"
    BY <1>11 DEF SpawnWake, At
  <2>4. q \in PassRec'
    BY <1>3, <1>4, <2>2 DEF PassRec
  <2>5. Poised(q)
    BY <1>3, <1>4, <2>2, <2>3 DEF PassRec, Poised, Waking
  <2> HIDE DEF q
  <2>6. QED
    BY <1>2, <1>4, <2>3, <2>4, <2>5
<1>12. ASSUME NEW t \in Tickers, SpawnFails(t) PROVE PassOK'
  <2> DEFINE q == [pass[t] EXCEPT !.pc = "mail", !.held = {}]
  <2>1. pass' = [pass EXCEPT ![t] = q]
    BY <1>12 DEF SpawnFails
  <2>2. q \in PassRec'
    BY <1>3, <1>4 DEF PassRec
  <2>3. Poised(q)
    BY <1>3, <1>4 DEF PassRec, Poised, Waking
  <2> HIDE DEF q
  <2>4. QED
    BY <1>2, <1>4, <2>1, <2>2, <2>3
<1>22. ASSUME NEW t \in Tickers, WakeFails(t) PROVE PassOK'
  <2> DEFINE q == [pass[t] EXCEPT !.pc = "mail", !.held = {}, !.run = NoRun]
  <2>1. pass' = [pass EXCEPT ![t] = q]
    BY <1>22 DEF WakeFails
  <2>2. q \in PassRec'
    BY <1>3, <1>4 DEF PassRec
  <2>3. Poised(q)
    BY <1>3, <1>4 DEF PassRec, Poised, Waking
  <2> HIDE DEF q
  <2>4. QED
    BY <1>2, <1>4, <2>1, <2>2, <2>3
<1>13. ASSUME NEW t \in Tickers, TakeMail(t) \/ WakeBusy(t) PROVE PassOK'
  <2>1. PICK pc \in {"taken", "busy"} : pass' = [pass EXCEPT ![t].pc = pc]
    BY <1>13 DEF TakeMail, WakeBusy
  <2> DEFINE q == [pass[t] EXCEPT !.pc = pc]
  <2>2. pass' = [pass EXCEPT ![t] = q] /\ pass[t].pc \in {"spawned", "taken"}
    BY <1>13, <2>1 DEF TakeMail, WakeBusy, At
  <2>3. q \in PassRec'
    BY <1>3, <1>4 DEF PassRec
  <2>4. Poised(q)
    BY <1>3, <1>4, <2>2 DEF PassRec, Poised, Waking
  <2> HIDE DEF q
  <2>5. QED
    BY <1>2, <1>4, <2>2, <2>3, <2>4
<1>14. ASSUME NEW t \in Tickers, WakeBinds(t) PROVE PassOK'
  <2> DEFINE q == [pass[t] EXCEPT !.pc = "mail", !.held = {}, !.run = NoRun]
  <2>1. pass' = [pass EXCEPT ![t] = q]
    BY <1>14 DEF WakeBinds
  <2>2. q \in PassRec'
    BY <1>3, <1>4 DEF PassRec
  <2>3. Poised(q)
    BY <1>3, <1>4 DEF PassRec, Poised, Waking
  <2> HIDE DEF q
  <2>4. QED
    BY <1>2, <1>4, <2>1, <2>2, <2>3
<1>15. ASSUME NEW t \in Tickers, PlanInjection(t) PROVE PassOK'
  <2> DEFINE q == [pass[t] EXCEPT !.pc = "planned", !.items = PendingFor]
  <2>1. pass' = [pass EXCEPT ![t] = q] /\ pass[t].pc = "mail"
    BY <1>15 DEF PlanInjection, At
  <2>2. q \in PassRec'
    <3>1. PendingFor \in SUBSET DOMAIN queue'
      BY <1>0 DEF PendingFor
    <3>2. QED
      BY <1>3, <1>4, <3>1 DEF PassRec
  <2>3. Poised(q)
    BY <1>3, <1>4, <2>1 DEF PassRec, Poised, Waking
  <2> HIDE DEF q
  <2>4. QED
    BY <1>2, <1>4, <2>1, <2>2, <2>3
<1>16. ASSUME NEW c \in Consoles, DeliverReports(c) PROVE PassOK'
  <2> DEFINE K == {k \in DOMAIN queue' : queue'[k].state = "queued"}
             q == [Resting EXCEPT !.pc = "planned", !.items = K]
  <2>1. pass' = [pass EXCEPT ![c] = q]
    BY <1>16 DEF DeliverReports
  <2>2. K \in SUBSET DOMAIN queue'
    OBVIOUS
  <2> HIDE DEF K
  <2>3. q \in PassRec'
    BY <2>2 DEF Resting, PassRec
  <2>4. Poised(q)
    BY DEF Resting, Poised, Waking
  <2> HIDE DEF q
  <2>5. QED
    BY <1>2, <1>4, <2>1, <2>3, <2>4
<1>17. ASSUME NEW d \in Procs, Carry(d) PROVE PassOK'
  <2> DEFINE q == [pass[d] EXCEPT !.pc = "carried", !.run = Len(runs) + 1]
             ids == {queue[k].msg : k \in pass[d].items}
  <2>1. Begun(Main, ids)
    <3>1. pass[d].items \subseteq DOMAIN queue
      BY <1>3 DEF PassRec
    <3>2. Main \in Roster /\ ids \in SUBSET Ids
      BY <3>1, QueueRows DEF Roster
    <3>3. runs' = Append(runs, NewRun(Main, ids))
      BY <1>17 DEF Carry
    <3> HIDE DEF ids
    <3>4. QED
      BY <1>0, <3>2, <3>3, RunBegins
  <2>2. Len(runs) + 1 \in RunIds' /\ Len(runs) + 1 # NoRun
    BY <2>1 DEF Begun, RunsOK, NoRun
  <2>3. pass' = [pass EXCEPT ![d] = q] /\ pass[d].pc = "planned"
    BY <1>17 DEF Carry, At
  <2>4. q \in PassRec'
    BY <1>3, <2>2 DEF PassRec
  <2>5. Poised(q)
    BY <1>3, <2>2, <2>3 DEF PassRec, Poised, Waking
  <2> HIDE DEF q
  <2>6. QED
    BY <1>2, <2>3, <2>4, <2>5
<1>18. ASSUME NEW d \in Procs, pass' = [pass EXCEPT ![d] = Resting] PROVE PassOK'
  BY <1>0, <1>2, <1>18, RestingTyped
<1>19. ASSUME NEW d \in Procs, MarkDelivered(d) PROVE PassOK'
  <2> DEFINE q == [Resting EXCEPT !.run = IF d \in Consoles THEN pass[d].run ELSE NoRun]
  <2>1. pass' = [pass EXCEPT ![d] = q]
    BY <1>19 DEF MarkDelivered
  <2>2. q \in PassRec'
    BY <1>0, <1>3 DEF Resting, PassRec
  <2>3. Poised(q)
    BY DEF Resting, Poised, Waking
  <2> HIDE DEF q
  <2>4. QED
    BY <1>2, <2>1, <2>2, <2>3
<1>20. ASSUME NEW t \in Tickers, WakeStep(t) PROVE PassOK'
  BY <1>4, <1>5, <1>6, <1>7, <1>8, <1>9, <1>10, <1>13, <1>14, <1>15, <1>18, <1>20, <1>22
  DEF WakeStep, DeliverNothing
<1>21. QED
  BY ZenonT(40), <1>1, <1>11, <1>12, <1>16, <1>17, <1>18, <1>19, <1>20
  DEF Next, AgentStep, PersonStep, StartStep, Post, DrainInbox, MarkMailDelivered,
      AskAnswered, ChatTurn, TeamMsg, TeamStart, TeamStartBusy, TeamStartBinds, RunEnds,
      IntervalPasses, CarryFails, Crash, Procs

LEMMA FaultsStep ==
    ASSUME Next
    PROVE  faults' = faults \/ (faults < MaxFaults /\ faults' = faults + 1)
<1>1. ASSUME NEW t \in Tickers, WakeStep(t)
      PROVE  faults' = faults \/ (faults < MaxFaults /\ faults' = faults + 1)
  BY <1>1 DEF WakeStep, SettleMembers, MailWaiting, SettleBinds, SettleFrees, SettleFails,
     HandToConversation, LeaveAsleep, ClaimWake, TakeMail, WakeBusy, WakeBinds, WakeFails,
     DeliverNothing, PlanInjection
<1>2. QED
  BY ZenonT(40), <1>1 DEF Next, AgentStep, PersonStep, StartStep, Post, DrainInbox,
     MarkMailDelivered, AskAnswered, ChatTurn, TeamMsg, TeamStart, TeamStartBusy,
     TeamStartBinds, RunEnds, IntervalPasses, SpawnWake, SpawnFails, DeliverReports, Carry,
     CarryFails, MarkDelivered, Crash

LEMMA TypeStep ==
    ASSUME TypeInv, [Next]_vars
    PROVE  TypeInv'
<1>1. CASE Next
  <2>1. faults' \in 0..MaxFaults
    BY <1>1, FaultsStep, TeamMailAssumption DEF TypeInv
  <2>2. QED
    BY <1>1, <2>1, MsgsStep, RunsStep, QueueStep, MemberStep, PassStep, StartStepTyped,
       DrainedStep DEF TypeInv
<1>2. CASE UNCHANGED vars
  BY <1>2 DEF vars, TypeInv, MsgsOK, RunsOK, QueueOK, MemberOK, PassOK, StartOK, DrainedInv,
     Drained, Ids, RunIds,
     MemberRec, RunRec, QueueRec, FreeRec, WaitRec, PassRec, StartRec
<1>3. QED
  BY <1>1, <1>2

(* The tables keep their types, and the two columns that say a message was *)
(* handed over agree on every row but those a read drained and has not     *)
(* marked, however many processes move mail, fail and die.                 *)
THEOREM TypeCorrect == Spec => []TypeOK
<1>1. Init => TypeInv
  BY InitTyped
<1>2. TypeInv /\ [Next]_vars => TypeInv'
  BY TypeStep
<1>3. TypeInv => TypeOK
  BY TypeInvGives
<1>4. QED
  BY <1>1, <1>2, <1>3, PTL DEF Spec

(***************************************************************************)
(* What a step adds: to a process's pass, to the runs and to the queue.    *)
(***************************************************************************)
Moves(d) ==
    \/ WakeStep(d) \/ SpawnWake(d) \/ SpawnFails(d) \/ DeliverReports(d)
    \/ Carry(d) \/ CarryFails(d) \/ MarkDelivered(d) \/ Crash(d)

LEMMA OwnPass ==
    ASSUME TypeInv, Next, NEW d \in Procs
    PROVE  pass'[d] = pass[d] \/ Moves(d)
<1>1. pass \in [Procs -> PassRec]
  BY DEF TypeInv, PassOK
<1>2. ASSUME NEW t \in Tickers, t # d, WakeStep(t) PROVE pass'[d] = pass[d]
  BY <1>1, <1>2
  DEF WakeStep, SettleMembers, MailWaiting, SettleBinds, SettleFrees, SettleFails,
      HandToConversation, LeaveAsleep, ClaimWake, TakeMail, WakeBusy, WakeBinds, WakeFails,
      DeliverNothing, PlanInjection
<1>3. ASSUME NEW t, t # d,
             SpawnWake(t) \/ SpawnFails(t) \/ DeliverReports(t) \/ Carry(t) \/ CarryFails(t)
             \/ MarkDelivered(t) \/ Crash(t)
      PROVE  pass'[d] = pass[d]
  BY <1>1, <1>3
  DEF SpawnWake, SpawnFails, DeliverReports, Carry, CarryFails, MarkDelivered, Crash
<1>4. AgentStep \/ PersonStep \/ StartStep \/ (\E r \in DOMAIN runs, named \in BOOLEAN : RunEnds(r, named))
      \/ (\E m \in Members : IntervalPasses(m)) => pass' = pass
  BY ZenonT(40) DEF AgentStep, PersonStep, StartStep, Post, DrainInbox, MarkMailDelivered,
     AskAnswered, ChatTurn, TeamMsg, TeamStart, TeamStartBusy, TeamStartBinds, RunEnds,
     IntervalPasses
<1>5. QED
  BY <1>2, <1>3, <1>4 DEF Next, Moves

LEMMA PassIs ==
    ASSUME TypeInv, NEW d \in Procs
    PROVE  pass \in [Procs -> PassRec] /\ pass[d] \in PassRec /\ Poised(pass[d])
BY DEF TypeInv, PassOK

(* A move that claims nothing and starts nothing only shortens its list. *)
Quiet(d) ==
    /\ pass'[d].pc \notin {"claimed", "spawned", "carried"}
    /\ pass'[d].todo \subseteq pass[d].todo /\ pass'[d].held \subseteq pass[d].held

Claims(d, w) ==
    /\ ClaimWake(d, w)
    /\ pass'[d].pc = "claimed"
    /\ pass'[d].todo = pass[d].todo \ {w} /\ pass'[d].held = {w}

Keeps(d) == pass'[d].todo = pass[d].todo /\ pass'[d].held = pass[d].held

LEMMA MoveWrites ==
    ASSUME TypeInv, NEW d \in Procs, Moves(d)
    PROVE  \/ MailWaiting(d) /\ pass'[d].pc = "mail"
           \/ \E w \in pass[d].todo : Claims(d, w)
           \/ SpawnWake(d) /\ pass'[d].pc = "spawned" /\ Keeps(d)
           \/ Carry(d) /\ pass'[d].pc = "carried" /\ Keeps(d)
           \/ Quiet(d)
<1>1. pass \in [Procs -> PassRec] /\ pass[d] \in PassRec
  BY PassIs
<1>2. ASSUME NEW q, pass' = [pass EXCEPT ![d] = q] PROVE pass'[d] = q
  BY <1>1, <1>2
<1>3. CASE MailWaiting(d)
  BY <1>1, <1>3 DEF MailWaiting, PassRec
<1>4. ASSUME NEW w \in pass[d].todo, ClaimWake(d, w) PROVE Claims(d, w) \/ Quiet(d)
  <2>1. CASE member[w.m].woken
    <3>1. pass'[d] = [pass[d] EXCEPT !.todo = pass[d].todo \ {w}] /\ pass[d].pc = "mail"
      BY <1>1, <1>4, <2>1 DEF ClaimWake, At
    <3>2. QED
      BY <1>1, <3>1 DEF Quiet, PassRec
  <2>2. CASE ~member[w.m].woken
    <3>1. pass'[d] = [pass[d] EXCEPT !.todo = pass[d].todo \ {w}, !.held = {w}, !.pc = "claimed"]
      BY <1>1, <1>4, <2>2 DEF ClaimWake
    <3>2. QED
      BY <1>1, <1>4, <3>1 DEF Claims, PassRec
  <2>3. QED
    BY <2>1, <2>2
<1>5. CASE SpawnWake(d)
  BY <1>1, <1>5 DEF SpawnWake, Keeps, PassRec
<1>6. CASE Carry(d)
  BY <1>1, <1>6 DEF Carry, Keeps, PassRec
<1>7. CASE SettleMembers(d)
  BY <1>1, <1>7 DEF SettleMembers, Quiet, PassRec
<1>8. ASSUME NEW f \in pass[d].frees,
             SettleBinds(d, f) \/ SettleFrees(d, f) \/ SettleFails(d, f)
      PROVE  Quiet(d)
  <2>1. pass[d].pc = "settling"
    BY <1>8 DEF SettleBinds, SettleFrees, SettleFails, At
  <2>2. /\ pass'[d].pc = pass[d].pc /\ pass'[d].todo = pass[d].todo
        /\ pass'[d].held = pass[d].held
    BY <1>1, <1>8 DEF SettleBinds, SettleFrees, SettleFails, PassRec
  <2>3. QED
    BY <2>1, <2>2 DEF Quiet
<1>9. ASSUME NEW w \in pass[d].todo, HandToConversation(d, w) \/ LeaveAsleep(d, w) PROVE Quiet(d)
  <2>1. pass'[d] = [pass[d] EXCEPT !.todo = pass[d].todo \ {w}] /\ pass[d].pc = "mail"
    BY <1>1, <1>9 DEF HandToConversation, LeaveAsleep, At
  <2>2. QED
    BY <1>1, <2>1 DEF Quiet, PassRec
<1>10. CASE TakeMail(d) \/ WakeBusy(d)
  BY <1>1, <1>10 DEF TakeMail, WakeBusy, Quiet, PassRec
<1>11. CASE WakeBinds(d) \/ SpawnFails(d) \/ WakeFails(d)
  BY <1>1, <1>11 DEF WakeBinds, SpawnFails, WakeFails, Quiet, PassRec
<1>12. CASE PlanInjection(d)
  BY <1>1, <1>12 DEF PlanInjection, Quiet, PassRec
<1>13. CASE DeliverNothing(d) \/ CarryFails(d) \/ Crash(d)
  BY <1>1, <1>13 DEF DeliverNothing, CarryFails, Crash, Resting, Quiet
<1>14. CASE DeliverReports(d)
  <2> DEFINE K == {k \in DOMAIN queue' : queue'[k].state = "queued"}
  <2>1. pass'[d] = [Resting EXCEPT !.pc = "planned", !.items = K]
    BY <1>1, <1>14 DEF DeliverReports
  <2> HIDE DEF K
  <2>2. QED
    BY <2>1 DEF Resting, Quiet
<1>15. CASE MarkDelivered(d)
  BY <1>1, <1>15 DEF MarkDelivered, Resting, Quiet
<1>16. QED
  BY <1>3, <1>4, <1>5, <1>6, <1>7, <1>8, <1>9, <1>10, <1>11, <1>12, <1>13, <1>14, <1>15
  DEF Moves, WakeStep

LEMMA ReachesClaimed ==
    ASSUME TypeInv, Next, NEW d \in Procs, At(d, "claimed")'
    PROVE  pass'[d] = pass[d] \/ \E w \in pass[d].todo : Claims(d, w)
BY OwnPass, MoveWrites DEF At, Quiet

LEMMA ReachesSpawned ==
    ASSUME TypeInv, Next, NEW d \in Procs, At(d, "spawned")'
    PROVE  pass'[d] = pass[d] \/ (SpawnWake(d) /\ Keeps(d))
BY OwnPass, MoveWrites DEF At, Quiet, Claims

LEMMA LeavesSpawned ==
    ASSUME TypeInv, Next, NEW d \in Procs, At(d, "spawned"), ~At(d, "spawned")'
    PROVE  TakeMail(d) \/ Crash(d) \/ WakeFails(d)
<1>1. CASE Moves(d)
  BY <1>1 DEF At, Moves, WakeStep, SettleMembers, MailWaiting, SettleBinds, SettleFrees,
     SettleFails, HandToConversation, LeaveAsleep, ClaimWake, WakeBusy, WakeBinds, WakeFails,
     DeliverNothing, PlanInjection, SpawnWake, SpawnFails, DeliverReports, Carry, CarryFails,
     MarkDelivered
<1>2. QED
  BY <1>1, OwnPass DEF At

LEMMA ReachesCarried ==
    ASSUME TypeInv, Next, NEW d \in Procs, At(d, "carried")'
    PROVE  pass'[d] = pass[d] \/ (Carry(d) /\ Keeps(d))
BY OwnPass, MoveWrites DEF At, Quiet, Claims

(* A list of who waits is made by a read, and only shortened after it. *)
LEMMA WaitsShrink ==
    ASSUME TypeInv, Next, NEW d \in Procs
    PROVE  \/ MailWaiting(d)
           \/ /\ pass'[d].todo \subseteq pass[d].todo
              /\ pass'[d].held \subseteq pass[d].held
           \/ \E w \in pass[d].todo : pass'[d].todo = pass[d].todo \ {w} /\ pass'[d].held = {w}
BY OwnPass, MoveWrites DEF Quiet, Claims, Keeps

(* A run that begins is told nothing, the mail its wake was claimed with,  *)
(* or the rows its plan holds.                                             *)
LEMMA NewRuns ==
    ASSUME TypeInv, Next, NEW r \in RunIds' \ RunIds
    PROVE  \/ runs'[r].prompt = {}
           \/ \E t \in Tickers : /\ SpawnWake(t)
                                 /\ runs'[r].of = Held(t).m /\ runs'[r].prompt = Held(t).pending
           \/ \E d \in Procs : /\ Carry(d)
                               /\ runs'[r].of = Main
                               /\ runs'[r].prompt = {queue[k].msg : k \in pass[d].items}
<1>1. ASSUME NEW m \in Roster, NEW ids \in SUBSET Ids, runs' = Append(runs, NewRun(m, ids))
      PROVE  runs'[r].of = m /\ runs'[r].prompt = ids
  <2>1. Begun(m, ids)
    BY <1>1, BusStep, RunBegins DEF BusGrows
  <2>2. QED
    BY <2>1 DEF Begun
<1>2. ASSUME RunIds' = RunIds PROVE FALSE
  BY <1>2
<1>3. CASE ChatTurn
  <2>1. Main \in Roster /\ {} \in SUBSET Ids /\ runs' = Append(runs, NewRun(Main, {}))
    BY <1>3 DEF ChatTurn, Roster
  <2>2. QED
    BY <1>1, <2>1
<1>4. ASSUME NEW m \in Members, TeamStart(m) PROVE runs'[r].prompt = {}
  <2>1. m \in Roster /\ {} \in SUBSET Ids /\ runs' = Append(runs, NewRun(m, {}))
    BY <1>4 DEF TeamStart, Roster
  <2>2. QED
    BY <1>1, <2>1
<1>5. ASSUME NEW t \in Tickers, SpawnWake(t)
      PROVE  runs'[r].of = Held(t).m /\ runs'[r].prompt = Held(t).pending
  <2>1. Held(t).m \in Roster /\ Held(t).pending \in SUBSET Ids
    BY <1>5, HeldIs DEF SpawnWake, At, Procs, Waking, Roster
  <2>2. QED
    BY <1>1, <1>5, <2>1 DEF SpawnWake
<1>6. ASSUME NEW d \in Procs, Carry(d)
      PROVE  runs'[r].of = Main /\ runs'[r].prompt = {queue[k].msg : k \in pass[d].items}
  <2> DEFINE ids == {queue[k].msg : k \in pass[d].items}
  <2>1. pass[d].items \subseteq DOMAIN queue
    BY PassIs DEF PassRec
  <2>2. Main \in Roster /\ ids \in SUBSET Ids
    BY <2>1, QueueRows DEF TypeInv, Roster
  <2>3. runs' = Append(runs, NewRun(Main, ids))
    BY <1>6 DEF Carry
  <2> HIDE DEF ids
  <2>4. runs'[r].of = Main /\ runs'[r].prompt = ids
    BY <1>1, <2>2, <2>3
  <2>5. QED
    BY <2>4 DEF ids
<1>7. runs \in Seq(RunRec)
  BY DEF TypeInv, RunsOK
<1>8. ASSUME NEW t \in Tickers, WakeStep(t) PROVE FALSE
  BY <1>2, <1>8
  DEF WakeStep, SettleMembers, MailWaiting, SettleBinds, SettleFrees, SettleFails,
      HandToConversation, LeaveAsleep, ClaimWake, TakeMail, WakeBusy, WakeBinds, WakeFails,
      DeliverNothing, PlanInjection, RunIds
<1>9. ASSUME AgentStep \/ (\E x \in DOMAIN runs, named \in BOOLEAN : RunEnds(x, named)) PROVE FALSE
  <2>1. DOMAIN runs' = DOMAIN runs
    BY ZenonT(40), <1>7, <1>9 DEF AgentStep, Post, DrainInbox, MarkMailDelivered, AskAnswered,
       RunEnds
  <2>2. QED
    BY <1>2, <2>1 DEF RunIds
<1>10. QED
  BY <1>2, <1>3, <1>4, <1>5, <1>6, <1>8, <1>9
  DEF Next, PersonStep, StartStep, TeamMsg, TeamStartBusy, TeamStartBinds, IntervalPasses,
      SpawnFails, DeliverReports, CarryFails, MarkDelivered, Crash, RunIds, Procs

(* The queue changes by a hand-over, which the bus records, or by a plan   *)
(* that is settled.                                                        *)
LEMMA QueueMoves ==
    ASSUME TypeInv, Next
    PROVE  \/ queue' = queue
           \/ Handed /\ msgs' = Flagged(Unread(Main))
           \/ \E d \in Procs : MarkDelivered(d) /\ RowsSettle(d)
<1>1. ASSUME HandMail PROVE Handed /\ msgs' = Flagged(Unread(Main))
  <2>1. Ids \subseteq Ids'
    BY BusStep DEF BusGrows
  <2>2. QED
    BY <1>1, <2>1, MailHanded DEF HandMail
<1>2. ASSUME NEW d \in Procs, MarkDelivered(d) PROVE RowsSettle(d)
  BY <1>2, Settling
<1>3. ASSUME NEW t \in Tickers, WakeStep(t)
      PROVE  queue' = queue \/ (Handed /\ msgs' = Flagged(Unread(Main)))
  BY <1>1, <1>3
  DEF WakeStep, SettleMembers, MailWaiting, SettleBinds, SettleFrees, SettleFails,
      HandToConversation, LeaveAsleep, ClaimWake, TakeMail, WakeBusy, WakeBinds, WakeFails,
      DeliverNothing, PlanInjection
<1>4. ASSUME NEW c \in Consoles, DeliverReports(c)
      PROVE  queue' = queue \/ (Handed /\ msgs' = Flagged(Unread(Main)))
  BY <1>1, <1>4 DEF DeliverReports
<1>5. QED
  BY ZenonT(40), <1>2, <1>3, <1>4
  DEF Next, AgentStep, PersonStep, StartStep, Post, DrainInbox, MarkMailDelivered,
      AskAnswered, ChatTurn, TeamMsg, TeamStart, TeamStartBusy, TeamStartBinds, RunEnds,
      IntervalPasses, SpawnWake, SpawnFails, Carry, CarryFails, Crash, Procs

(* Mail is taken by a run that hears it, for the queue, or for a wake. *)
LEMMA Taking ==
    ASSUME TypeInv, Next, NEW i \in Ids, msgs'[i] # msgs[i]
    PROVE  \/ \E r \in RunIds' : i \in runs'[r].read
           \/ i \in Unread(Main) /\ HandMail
           \/ \E t \in Tickers : TakeMail(t) /\ i \in Unread(Held(t).m)
<1>0. msgs' # msgs
  OBVIOUS
<1>1. ASSUME NEW ids \in SUBSET Ids, msgs' = Flagged(ids) PROVE i \in ids
  BY <1>1, FlaggedKeeps DEF TypeInv
<1>2. runs \in Seq(RunRec)
  BY DEF TypeInv, RunsOK
<1>3. ASSUME NEW r \in RunIds, NEW ids \in SUBSET Ids, msgs' = Flagged(ids),
             runs' = [runs EXCEPT ![r].read = @ \cup ids]
      PROVE  \E s \in RunIds' : i \in runs'[s].read
  <2>1. i \in ids
    BY <1>1, <1>3
  <2>2. r \in RunIds' /\ runs'[r].read = runs[r].read \cup ids
    BY <1>2, <1>3, RunRows DEF RunIds, TypeInv, RunRec
  <2>3. QED
    BY <2>1, <2>2
<1>4. ASSUME NEW r \in RunIds, NEW m \in Roster, DrainInbox(r, m)
      PROVE  \E s \in RunIds' : i \in runs'[s].read
  <2>1. Unread(m) \in SUBSET Ids /\ msgs' = FlaggedOnly(Unread(m))
    BY <1>4, UnreadAre DEF DrainInbox, TypeInv
  <2>2. i \in Unread(m)
    BY <2>1, DrainedKeeps DEF TypeInv
  <2>3. r \in RunIds' /\ runs'[r].read = runs[r].read \cup Unread(m)
    BY <1>2, <1>4, RunRows DEF DrainInbox, RunIds, TypeInv, RunRec
  <2>4. QED
    BY <2>2, <2>3
<1>13. ASSUME NEW r \in RunIds, NEW ids \in runs[r].taking, MarkMailDelivered(r, ids)
       PROVE  \E s \in RunIds' : i \in runs'[s].read
  <2>1. ids \in SUBSET Ids /\ ids \subseteq runs[r].read
    BY RunRows DEF TypeInv, DrainedInv
  <2>2. i \in ids
    BY <1>1, <1>13, <2>1 DEF MarkMailDelivered
  <2>3. Reads(r, runs'[r]) /\ r \in RunIds'
    BY RunsStep DEF RunsGrow
  <2>4. QED
    BY <2>1, <2>2, <2>3 DEF Reads
<1>5. ASSUME NEW r \in RunIds, NEW q \in Ids, AskAnswered(r, q)
      PROVE  \E s \in RunIds' : i \in runs'[s].read
  <2> DEFINE replies == {j \in DOMAIN msgs : msgs[j].parent = q}
  <2>1. /\ replies \subseteq Ids /\ replies \subseteq Nat /\ replies # {}
        /\ runs' = [runs EXCEPT ![r].read = @ \cup {Min(replies)}]
        /\ msgs' = Flagged({Min(replies)})
    BY <1>5 DEF AskAnswered, Ids, MsgsOK, TypeInv
  <2> HIDE DEF replies
  <2>2. {Min(replies)} \in SUBSET Ids
    BY <2>1, LeastNat
  <2>3. QED
    BY <1>3, <2>1, <2>2
<1>6. ASSUME HandMail PROVE i \in Unread(Main)
  BY <1>1, <1>6, UnreadAre DEF HandMail, TypeInv
<1>7. ASSUME NEW t \in Tickers, TakeMail(t) PROVE i \in Unread(Held(t).m)
  BY <1>1, <1>7, UnreadAre DEF TakeMail, TypeInv
<1>8. ASSUME NEW r \in RunIds, NEW m \in Roster, NEW to \in Roster \cup {Everyone, Stranger},
             NEW p \in 0..Len(msgs), Post(r, m, to, p)
      PROVE  FALSE
  BY <1>8, PostWrites DEF Posted
<1>9. ASSUME NEW to \in Roster, TeamMsg(to) PROVE FALSE
  <2>1. msgs \in Seq(MsgRec) /\ Ids = 1..Len(msgs)
    BY DEF TypeInv, MsgsOK, Ids
  <2>2. Record(Stranger, NoRun, to, 0, 0, "queued") \in MsgRec
    BY DEF Record, MsgRec, NoRun
  <2>3. msgs'[i] = msgs[i]
    BY <1>9, <2>1, <2>2 DEF TeamMsg
  <2>4. QED
    BY <2>3
<1>10. ASSUME NEW t \in Tickers, WakeStep(t)
       PROVE  (i \in Unread(Main) /\ HandMail) \/ (TakeMail(t) /\ i \in Unread(Held(t).m))
  BY <1>0, <1>6, <1>7, <1>10
  DEF WakeStep, SettleMembers, MailWaiting, SettleBinds, SettleFrees, SettleFails,
      HandToConversation, LeaveAsleep, ClaimWake, WakeBusy, WakeBinds, WakeFails,
      DeliverNothing, PlanInjection
<1>11. ASSUME NEW c \in Consoles, DeliverReports(c) PROVE i \in Unread(Main) /\ HandMail
  BY <1>0, <1>6, <1>11 DEF DeliverReports
<1>12. QED
  BY <1>0, <1>4, <1>5, <1>8, <1>9, <1>10, <1>11, <1>13
  DEF Next, AgentStep, PersonStep, StartStep, ChatTurn, TeamStart, TeamStartBusy,
      TeamStartBinds, RunEnds, IntervalPasses, SpawnWake, SpawnFails, Carry, CarryFails,
      MarkDelivered, Crash, RunIds, Ids

(***************************************************************************)
(* Only what a turn carried is settled.                                    *)
(***************************************************************************)
LEMMA CarriedStep ==
    ASSUME TypeInv, CarriedInv, Next
    PROVE  CarriedInv'
<1>1. RunsGrow /\ QueueGrows
  BY RunsStep, QueueStep
<1>2. ASSUME NEW k \in DOMAIN queue, \E r \in RunIds : queue[k].msg \in runs[r].prompt
      PROVE  \E r \in RunIds' : queue'[k].msg \in runs'[r].prompt
  BY <1>1, <1>2 DEF RunsGrow, QueueGrows
<1>3. ASSUME NEW d \in Procs, At(d, "carried")', NEW k \in pass'[d].items
      PROVE  queue'[k].msg \in runs'[pass'[d].run].prompt
  <2>1. pass[d].items \subseteq DOMAIN queue /\ pass[d].run \in RunIds \cup {NoRun}
    BY PassIs DEF PassRec
  <2>2. CASE pass'[d] = pass[d]
    <3>1. At(d, "carried") /\ pass[d].run \in RunIds
      BY <1>3, <2>1, <2>2, PassIs DEF At, Poised
    <3>2. queue[k].msg \in runs[pass[d].run].prompt
      BY <1>3, <2>2, <3>1 DEF CarriedInv
    <3>3. queue'[k].msg = queue[k].msg /\ runs'[pass[d].run].prompt = runs[pass[d].run].prompt
      BY <1>1, <1>3, <2>1, <2>2, <3>1 DEF QueueGrows, RunsGrow
    <3>4. QED
      BY <2>2, <3>2, <3>3
  <2>3. CASE Carry(d)
    <3> DEFINE ids == {queue[l].msg : l \in pass[d].items}
    <3>1. ids \in SUBSET Ids /\ Main \in Roster
      BY <2>1, QueueRows DEF TypeInv, Roster
    <3>2. runs' = Append(runs, NewRun(Main, ids))
      BY <2>3 DEF Carry
    <3>3. pass'[d].run = Len(runs) + 1 /\ pass'[d].items = pass[d].items /\ queue' = queue
      BY <2>3, PassIs DEF Carry, PassRec
    <3>4. queue'[k].msg \in ids
      BY <1>3, <3>3
    <3> HIDE DEF ids
    <3>5. runs'[Len(runs) + 1].prompt = ids
      BY <3>1, <3>2, BusStep, RunBegins DEF BusGrows, Begun
    <3>6. QED
      BY <3>3, <3>4, <3>5
  <2>4. QED
    BY <1>3, <2>2, <2>3, ReachesCarried
<1>4. ASSUME NEW k \in DOMAIN queue', queue'[k].state = "delivered"
      PROVE  \E r \in RunIds' : queue'[k].msg \in runs'[r].prompt
  <2>1. CASE k \in DOMAIN queue /\ queue[k].state = "delivered"
    BY <1>2, <2>1 DEF CarriedInv, SettledWasCarried
  <2>2. CASE queue' = queue
    BY <1>4, <2>1, <2>2
  <2>3. CASE Handed
    BY <1>4, <2>1, <2>3 DEF Handed
  <2>4. ASSUME NEW d \in Procs, MarkDelivered(d), RowsSettle(d), k \in pass[d].items
        PROVE  \E r \in RunIds' : queue'[k].msg \in runs'[r].prompt
    <3>1. At(d, "carried") /\ pass[d].run \in RunIds /\ k \in DOMAIN queue
      BY <2>4, PassIs DEF MarkDelivered, At, Poised, PassRec
    <3>2. queue[k].msg \in runs[pass[d].run].prompt
      BY <2>4, <3>1 DEF CarriedInv
    <3>3. QED
      BY <1>2, <3>1, <3>2
  <2>5. ASSUME NEW d \in Procs, RowsSettle(d), k \notin pass[d].items
        PROVE  \E r \in RunIds' : queue'[k].msg \in runs'[r].prompt
    <3>1. k \in DOMAIN queue
      BY <1>4, <2>5 DEF RowsSettle
    <3>2. queue'[k] = queue[k]
      BY <2>5, <3>1 DEF RowsSettle
    <3>3. QED
      BY <1>4, <2>1, <3>1, <3>2
  <2>6. QED
    BY <2>2, <2>3, <2>4, <2>5, QueueMoves
<1>5. QED
  BY <1>3, <1>4 DEF CarriedInv, SettledWasCarried

(* A row of the queue that says delivered was in the prompt of a turn,     *)
(* although a plan is stale when its turn is spawned and any number of     *)
(* daemons and consoles settle.                                            *)
THEOREM CarriedCorrect == Spec => []SettledWasCarried
<1>1. Init => TypeInv /\ CarriedInv
  <2>1. ASSUME Init PROVE CarriedInv
    BY <2>1 DEF Init, CarriedInv, SettledWasCarried, At, Resting, Procs
  <2>2. QED
    BY <2>1, InitTyped
<1>2. TypeInv /\ CarriedInv /\ [Next]_vars => (TypeInv /\ CarriedInv)'
  <2>1. ASSUME CarriedInv, UNCHANGED vars PROVE CarriedInv'
    BY <2>1 DEF vars, CarriedInv, SettledWasCarried, At, RunIds
  <2>2. QED
    BY <2>1, TypeStep, CarriedStep
<1>3. CarriedInv => SettledWasCarried
  BY DEF CarriedInv
<1>4. QED
  BY <1>1, <1>2, <1>3, PTL DEF Spec

(***************************************************************************)
(* The main chat's mail.                                                   *)
(***************************************************************************)
LEMMA KeptStep ==
    ASSUME TypeInv, KeptInv, Next
    PROVE  KeptInv'
<1>1. BusGrows /\ RunsGrow /\ QueueGrows
  BY BusStep, RunsStep, QueueStep
<1>2. \A k \in DOMAIN queue : queue[k].msg \in Ids
  BY QueueRows DEF TypeInv
<1>3. \A i \in Unread(Main) : i \in Ids /\ ~msgs[i].flag
  BY UnreadAre DEF TypeInv
<1>4. ASSUME NEW k \in DOMAIN queue', NEW l \in DOMAIN queue', queue'[k].msg = queue'[l].msg
      PROVE  k = l
  <2>1. CASE k \in DOMAIN queue /\ l \in DOMAIN queue
    BY <1>1, <1>4, <2>1 DEF QueueGrows, KeptInv
  <2>2. CASE queue' = queue
    BY <1>4, <2>1, <2>2
  <2>3. CASE Handed
    <3>1. \A j \in DOMAIN queue : ~(queue'[j].msg \in Unread(Main))
      BY <1>1, <1>3 DEF QueueGrows, KeptInv
    <3>2. QED
      BY <1>4, <2>1, <2>3, <3>1 DEF Handed
  <2>4. ASSUME NEW d \in Procs, RowsSettle(d) PROVE k = l
    BY <1>4, <2>1, <2>4 DEF RowsSettle
  <2>5. QED
    BY <2>2, <2>3, <2>4, QueueMoves
<1>5. ASSUME NEW k \in DOMAIN queue' PROVE msgs'[queue'[k].msg].flag
  <2>1. CASE k \in DOMAIN queue
    BY <1>1, <1>2, <2>1 DEF QueueGrows, BusGrows, KeptInv
  <2>2. CASE queue' = queue
    BY <1>5, <2>1, <2>2
  <2>3. ASSUME Handed, msgs' = Flagged(Unread(Main)), k \notin DOMAIN queue
        PROVE  msgs'[queue'[k].msg].flag
    <3>1. queue'[k].msg \in Unread(Main) /\ queue'[k].msg \in Ids
      BY <1>3, <1>5, <2>3 DEF Handed
    <3>2. msgs'[queue'[k].msg] = [msgs[queue'[k].msg] EXCEPT !.flag = TRUE, !.state = "delivered"]
      BY <1>3, <2>3, <3>1, FlaggedKeeps DEF TypeInv
    <3>3. msgs[queue'[k].msg] \in MsgRec
      BY <3>1 DEF TypeInv, MsgsOK, Ids
    <3>4. QED
      BY <3>2, <3>3 DEF MsgRec
  <2>4. ASSUME NEW d \in Procs, RowsSettle(d) PROVE k \in DOMAIN queue
    BY <1>5, <2>4 DEF RowsSettle
  <2>5. QED
    BY <2>1, <2>2, <2>3, <2>4, QueueMoves
<1>6. ASSUME NEW i \in Ids', msgs'[i].to = Main, msgs'[i].flag, msgs'[i].state # "undeliverable"
      PROVE  (\E k \in DOMAIN queue' : queue'[k].msg = i) \/ \E r \in RunIds' : i \in runs'[r].read
  <2>0. i \in Ids
    <3>1. SUFFICES ASSUME i \in Ids' \ Ids PROVE FALSE
      BY <1>6
    <3>2. msgs'[i].flag = (msgs'[i].state # "queued") /\ msgs'[i].state # "delivered"
      BY <1>1, <3>1 DEF BusGrows
    <3>3. msgs'[i] \in MsgRec
      BY <1>1, <3>1 DEF BusGrows, Ids
    <3>4. msgs'[i].state \in {"queued", "delivered", "undeliverable"}
      BY <3>3 DEF MsgRec
    <3>5. msgs'[i].state = "queued"
      BY <1>6, <3>2, <3>4
    <3>6. QED
      BY Zenon, <1>6, <3>2, <3>5
  <2>1. i \in Ids /\ msgs[i].to = Main
    BY <1>1, <1>6, <2>0 DEF BusGrows
  <2>2. CASE msgs[i].flag /\ msgs[i].state # "undeliverable"
    <3>1. (\E k \in DOMAIN queue : queue[k].msg = i) \/ \E r \in RunIds : i \in runs[r].read
      BY <2>1, <2>2 DEF KeptInv
    <3>2. QED
      BY <1>1, <3>1 DEF QueueGrows, RunsGrow, Reads
  <2>3. CASE msgs'[i] # msgs[i]
    <3>1. CASE i \in Unread(Main) /\ HandMail
      BY <1>1, <3>1, MailHanded DEF Handed, BusGrows
    <3>2. ASSUME NEW t \in Tickers, TakeMail(t), i \in Unread(Held(t).m) PROVE FALSE
      <4>1. Held(t).m \in Members
        BY <3>2, HeldIs DEF TakeMail, At, Procs, Waking
      <4>2. msgs[i].to = Held(t).m
        BY <3>2 DEF Unread
      <4>3. QED
        BY <2>1, <4>1, <4>2, TeamMailAssumption
    <3>3. QED
      BY <2>1, <2>3, <3>1, <3>2, Taking
  <2>4. QED
    BY <1>6, <2>2, <2>3
<1>7. QED
  BY <1>4, <1>5, <1>6 DEF KeptInv

LEMMA KeptInvGives ==
    ASSUME TypeInv, KeptInv
    PROVE  MainMailKept
<1>1. SUFFICES ASSUME NEW i \in Ids
               PROVE  /\ Cardinality({k \in DOMAIN queue : queue[k].msg = i}) <= 1
                      /\ (msgs[i].to = Main /\ msgs[i].flag /\ msgs[i].state # "undeliverable") =>
                             \/ {k \in DOMAIN queue : queue[k].msg = i} # {}
                             \/ \E r \in RunIds : i \in runs[r].read
  BY DEF MainMailKept
<1> DEFINE rows == {k \in DOMAIN queue : queue[k].msg = i}
<1>2. rows = {} \/ \E k \in rows : rows = {k}
  BY DEF KeptInv
<1>3. Cardinality(rows) <= 1
  <2> HIDE DEF rows
  <2>1. CASE rows = {}
    BY <2>1, FS_EmptySet
  <2>2. ASSUME NEW k \in rows, rows = {k} PROVE Cardinality(rows) <= 1
    <3>1. Cardinality({k}) = 1
      BY FS_Singleton
    <3>2. QED
      BY <2>2, <3>1
  <2>3. QED
    BY <1>2, <2>1, <2>2
<1>4. QED
  BY <1>3 DEF KeptInv

(* The main chat's mail is neither lost nor doubled between the bus and    *)
(* the queue, whoever moves it.                                            *)
THEOREM KeptCorrect == Spec => []MainMailKept
<1>1. Init => TypeInv /\ KeptInv
  <2>1. ASSUME Init PROVE KeptInv
    BY <2>1 DEF Init, KeptInv, Ids
  <2>2. QED
    BY <2>1, InitTyped
<1>2. TypeInv /\ KeptInv /\ [Next]_vars => (TypeInv /\ KeptInv)'
  <2>1. ASSUME KeptInv, UNCHANGED vars PROVE KeptInv'
    BY <2>1 DEF vars, KeptInv, Ids, RunIds
  <2>2. QED
    BY <2>1, TypeStep, KeptStep
<1>3. TypeInv /\ KeptInv => MainMailKept
  BY KeptInvGives
<1>4. QED
  BY <1>1, <1>2, <1>3, PTL DEF Spec

(***************************************************************************)
(* What is put before a turn is addressed to it.                           *)
(***************************************************************************)
LEMMA AddressedStep ==
    ASSUME TypeInv, Addressed, Next
    PROVE  Addressed'
<1>1. BusGrows /\ RunsGrow /\ QueueGrows
  BY BusStep, RunsStep, QueueStep
<1>2. ASSUME NEW r \in RunIds', NEW i \in runs'[r].prompt PROVE msgs'[i].to = runs'[r].of
  <2>1. CASE r \in RunIds
    <3>1. i \in Ids /\ msgs[i].to = runs[r].of
      BY <1>1, <1>2, <2>1, RunRows DEF Addressed, RunsGrow, TypeInv
    <3>2. QED
      BY <1>1, <2>1, <3>1 DEF BusGrows, RunsGrow
  <2>2. ASSUME NEW t \in Tickers, SpawnWake(t),
               runs'[r].of = Held(t).m, runs'[r].prompt = Held(t).pending
        PROVE  msgs'[i].to = runs'[r].of
    <3>1. Held(t) \in pass[t].held /\ Held(t).pending \subseteq Ids
      BY <2>2, HeldIs DEF SpawnWake, At, Procs, Waking
    <3>2. msgs[i].to = Held(t).m /\ i \in Ids
      BY <1>2, <2>2, <3>1 DEF Addressed, Procs
    <3>3. QED
      BY <1>1, <2>2, <3>2 DEF BusGrows
  <2>3. ASSUME NEW d \in Procs, Carry(d), runs'[r].of = Main,
               runs'[r].prompt = {queue[k].msg : k \in pass[d].items}
        PROVE  msgs'[i].to = runs'[r].of
    <3>1. PICK k \in pass[d].items : i = queue[k].msg
      BY <1>2, <2>3
    <3>2. k \in DOMAIN queue
      BY PassIs DEF PassRec
    <3>3. msgs[i].to = Main /\ i \in Ids
      BY <3>1, <3>2, QueueRows DEF Addressed, TypeInv
    <3>4. QED
      BY <1>1, <2>3, <3>3 DEF BusGrows
  <2>4. QED
    BY <1>2, <2>1, <2>2, <2>3, NewRuns
<1>3. ASSUME NEW d \in Procs, NEW w \in pass'[d].todo \cup pass'[d].held, NEW i \in w.pending
      PROVE  msgs'[i].to = w.m
  <2>1. CASE w \in pass[d].todo \cup pass[d].held
    <3>1. w \in WaitRec
      BY <2>1, PassIs DEF PassRec
    <3>2. i \in Ids /\ msgs[i].to = w.m
      BY <1>3, <2>1, <3>1 DEF Addressed, WaitRec
    <3>3. QED
      BY <1>1, <3>2 DEF BusGrows
  <2>2. CASE MailWaiting(d) /\ w \notin pass[d].held
    <3>1. pass'[d].held = pass[d].held
          /\ pass'[d].todo = {Waiting(m) : m \in {n \in Roster : Unread(n) # {}}} /\ msgs' = msgs
      BY <2>2, PassIs DEF MailWaiting, PassRec
    <3>2. PICK m \in Roster : w = Waiting(m)
      BY <1>3, <2>2, <3>1
    <3>3. i \in Unread(m) /\ w.m = m
      BY <1>3, <3>2 DEF Waiting
    <3>4. QED
      BY <3>1, <3>3, UnreadAre DEF TypeInv
  <2>3. QED
    BY <1>3, <2>1, <2>2, WaitsShrink
<1>4. ASSUME NEW k \in DOMAIN queue' PROVE msgs'[queue'[k].msg].to = Main
  <2>1. CASE k \in DOMAIN queue
    BY <1>1, <2>1, QueueRows DEF QueueGrows, BusGrows, Addressed, TypeInv
  <2>2. CASE queue' = queue
    BY <1>4, <2>1, <2>2
  <2>3. ASSUME Handed, k \notin DOMAIN queue PROVE msgs'[queue'[k].msg].to = Main
    <3>1. queue'[k].msg \in Unread(Main)
      BY <1>4, <2>3 DEF Handed
    <3>2. queue'[k].msg \in Ids /\ msgs[queue'[k].msg].to = Main
      BY <3>1, UnreadAre DEF TypeInv
    <3>3. QED
      BY <1>1, <3>2 DEF BusGrows
  <2>4. ASSUME NEW d \in Procs, RowsSettle(d) PROVE k \in DOMAIN queue
    BY <1>4, <2>4 DEF RowsSettle
  <2>5. QED
    BY <2>1, <2>2, <2>3, <2>4, QueueMoves
<1>5. QED
  BY <1>2, <1>3, <1>4 DEF Addressed

(***************************************************************************)
(* A message wakes its member once.                                        *)
(***************************************************************************)
LEMMA WokeStep ==
    ASSUME TypeInv, Next, NEW i, Woke(i)'
    PROVE  Woke(i) \/ \E t \in Tickers : SpawnWake(t) /\ i \in Held(t).pending
<1>1. PICK r \in RunIds' : runs'[r].of # Main /\ i \in runs'[r].prompt
  BY DEF Woke
<1>2. CASE r \in RunIds
  BY <1>1, <1>2, RunsStep DEF RunsGrow, Woke
<1>3. QED
  BY <1>1, <1>2, NewRuns

LEMMA WokenStep ==
    ASSUME \A t, u \in Tickers : t = u,
           TypeInv, Addressed, WokenInv, Next, faults' = faults
    PROVE  WokenInv'
<1>1. BusGrows /\ RunsGrow
  BY BusStep, RunsStep
<1>2. Tickers \subseteq Procs
  BY DEF Procs
<1>3. ASSUME NEW t \in Tickers, NEW w \in pass'[t].todo
      PROVE  w \in pass[t].todo \/ (MailWaiting(t) /\ \E m \in Roster : w = Waiting(m))
  <2>1. CASE MailWaiting(t)
    <3>1. pass'[t].todo = {Waiting(m) : m \in {n \in Roster : Unread(n) # {}}}
      BY <1>2, <2>1, PassIs DEF MailWaiting, PassRec
    <3>2. QED
      BY <1>3, <2>1, <3>1
  <2>2. QED
    BY <1>2, <1>3, <2>1, WaitsShrink
<1>4. ASSUME NEW t \in Tickers, MailWaiting(t)
      PROVE  pass'[t].held = {} /\ runs' = runs /\ ~At(t, "spawned")
  <2>1. pass[t].pc = "settling"
    BY <1>4 DEF MailWaiting, At
  <2>2. pass[t].held = {}
    BY <1>2, <2>1, PassIs DEF Poised, Waking
  <2>3. QED
    BY <1>2, <1>4, <2>1, <2>2, PassIs DEF MailWaiting, PassRec, At
<1>5. ASSUME NEW t \in Tickers, NEW w \in pass'[t].todo \cup pass'[t].held,
             NEW x \in pass'[t].todo \cup pass'[t].held, w.m = x.m
      PROVE  w = x
  <2>1. CASE MailWaiting(t)
    <3>1. pass'[t].todo = {Waiting(m) : m \in {n \in Roster : Unread(n) # {}}}
      BY <1>2, <2>1, PassIs DEF MailWaiting, PassRec
    <3>2. PICK m \in Roster, n \in Roster : w = Waiting(m) /\ x = Waiting(n)
      BY <1>4, <1>5, <2>1, <3>1
    <3>3. w.m = m /\ x.m = n
      BY <3>2 DEF Waiting
    <3>4. QED
      BY <1>5, <3>2, <3>3
  <2>2. CASE ~MailWaiting(t)
    <3>1. {w, x} \subseteq pass[t].todo \cup pass[t].held
      BY <1>2, <1>5, <2>2, WaitsShrink
    <3>2. QED
      BY <1>5, <3>1 DEF WokenInv
  <2>3. QED
    BY <2>1, <2>2
<1>6. ASSUME NEW t \in Tickers PROVE pass'[t].todo \cap pass'[t].held = {}
  <2>1. pass[t].todo \cap pass[t].held = {}
    BY DEF WokenInv
  <2>2. QED
    BY <1>2, <1>4, <2>1, WaitsShrink
<1>7. ASSUME NEW t \in Tickers, NEW w \in pass'[t].todo, NEW i \in w.pending, Woke(i)'
      PROVE  FALSE
  <2>1. CASE w \in pass[t].todo
    <3>1. ~Woke(i)
      BY <1>7, <2>1 DEF WokenInv
    <3>2. PICK u \in Tickers : SpawnWake(u) /\ i \in Held(u).pending
      BY <1>7, <3>1, WokeStep
    <3>3. SpawnWake(t) /\ i \in Held(t).pending
      BY <3>2
    <3>4. Held(t) \in pass[t].held
      BY <1>2, <3>3, HeldIs DEF SpawnWake, At, Waking
    <3>5. msgs[i].to = w.m /\ msgs[i].to = Held(t).m
      BY <1>2, <1>7, <2>1, <3>3, <3>4 DEF Addressed
    <3>6. w = Held(t)
      <4>1. \A a, b \in pass[t].todo \cup pass[t].held : a.m = b.m => a = b
        BY DEF WokenInv
      <4>2. w.m = Held(t).m
        BY <3>5
      <4>3. QED
        BY <2>1, <3>4, <4>1, <4>2
    <3>7. QED
      BY <2>1, <3>4, <3>6 DEF WokenInv
  <2>2. ASSUME NEW m \in Roster, MailWaiting(t), w = Waiting(m) PROVE FALSE
    <3>1. i \in Unread(m)
      BY <1>7, <2>2 DEF Waiting
    <3>2. ~msgs[i].flag
      BY <3>1 DEF Unread
    <3>3. Woke(i)
      BY <1>4, <1>7, <2>2 DEF Woke, RunIds
    <3>4. QED
      BY <1>4, <2>2, <3>2, <3>3 DEF WokenInv, Woke
  <2>3. QED
    BY <1>3, <1>7, <2>1, <2>2
<1>8. ASSUME NEW t \in Tickers, At(t, "claimed")', NEW w \in pass'[t].held, NEW i \in w.pending,
             Woke(i)'
      PROVE  FALSE
  <2>1. ~SpawnWake(t)
    BY <1>2, <1>8, PassIs DEF SpawnWake, At, PassRec
  <2>2. Woke(i)
    BY <1>8, <2>1, WokeStep
  <2>3. CASE pass'[t] = pass[t]
    BY <1>8, <2>2, <2>3 DEF WokenInv, At
  <2>4. ASSUME NEW x \in pass[t].todo, Claims(t, x) PROVE FALSE
    BY <1>8, <2>2, <2>4 DEF WokenInv, Claims
  <2>5. QED
    BY <1>2, <1>8, <2>3, <2>4, ReachesClaimed
<1>9. ASSUME NEW t \in Tickers, At(t, "spawned")', NEW w \in pass'[t].held
      PROVE  runs'[pass'[t].run].of = w.m /\ runs'[pass'[t].run].prompt = w.pending
  <2>1. CASE pass'[t] = pass[t]
    <3>1. At(t, "spawned") /\ pass[t].run \in RunIds
      BY <1>2, <1>9, <2>1, PassIs DEF At, Poised, PassRec
    <3>2. runs[pass[t].run].of = w.m /\ runs[pass[t].run].prompt = w.pending
      BY <1>9, <2>1, <3>1 DEF WokenInv
    <3>3. QED
      BY <1>1, <2>1, <3>1, <3>2 DEF RunsGrow
  <2>2. CASE SpawnWake(t) /\ Keeps(t)
    <3>1. pass[t].held = {Held(t)} /\ Held(t).m \in Roster /\ Held(t).pending \in SUBSET Ids
      BY <1>2, <2>2, HeldIs DEF SpawnWake, At, Waking, Roster
    <3>2. w = Held(t)
      BY <1>9, <2>2, <3>1 DEF Keeps
    <3>3. Begun(Held(t).m, Held(t).pending)
      BY <2>2, <3>1, BusStep, RunBegins DEF SpawnWake, BusGrows
    <3>4. pass'[t].run = Len(runs) + 1
      BY <1>2, <2>2, PassIs DEF SpawnWake, PassRec
    <3>5. QED
      BY <3>2, <3>3, <3>4 DEF Begun
  <2>3. QED
    BY <1>2, <1>9, <2>1, <2>2, ReachesSpawned
<1>10. ASSUME NEW r \in RunIds', runs'[r].of # Main, NEW i \in runs'[r].prompt, ~msgs'[i].flag
       PROVE  \E t \in Tickers : At(t, "spawned")' /\ pass'[t].run = r
  <2>1. CASE r \in RunIds
    <3>1. i \in Ids /\ runs[r].of # Main /\ i \in runs[r].prompt /\ ~msgs[i].flag
      BY <1>1, <1>10, <2>1, RunRows DEF RunsGrow, BusGrows, TypeInv
    <3>2. PICK t \in Tickers : At(t, "spawned") /\ pass[t].run = r
      BY <2>1, <3>1 DEF WokenInv
    <3>3. CASE TakeMail(t)
      <4>1. Held(t) \in pass[t].held
        BY <1>2, <3>2, HeldIs DEF At, Waking
      <4>2. runs[r].of = Held(t).m
        BY <3>2, <4>1 DEF WokenInv
      <4>3. msgs[i].to = Held(t).m
        BY <2>1, <3>1, <4>2 DEF Addressed
      <4>4. i \in Unread(Held(t).m)
        BY <3>1, <4>3, UnreadAre DEF TypeInv
      <4>5. msgs' = Flagged(Unread(Held(t).m)) /\ Unread(Held(t).m) \in SUBSET Ids
        BY <3>3, UnreadAre DEF TakeMail, TypeInv
      <4>6. msgs[i] \in MsgRec
        BY <3>1 DEF TypeInv, MsgsOK, Ids
      <4>7. Flagged(Unread(Held(t).m))[i] = [msgs[i] EXCEPT !.flag = TRUE, !.state = "delivered"]
        BY <3>1, <4>4, <4>5, FlaggedKeeps DEF TypeInv
      <4>8. QED
        BY <1>10, <4>5, <4>6, <4>7 DEF MsgRec
    <3>4. CASE At(t, "spawned")'
      <4>1. ~SpawnWake(t)
        BY <3>2 DEF SpawnWake, At
      <4>2. pass'[t] = pass[t]
        BY <1>2, <3>4, <4>1, ReachesSpawned
      <4>3. QED
        BY <3>2, <3>4, <4>2
    <3>5. ~Crash(t) /\ ~WakeFails(t)
      BY TeamMailAssumption DEF TypeInv, Crash, WakeFails
    <3>6. QED
      BY <1>2, <3>2, <3>3, <3>4, <3>5, LeavesSpawned
  <2>2. ASSUME NEW t \in Tickers, SpawnWake(t), r \notin RunIds
        PROVE  At(t, "spawned")' /\ pass'[t].run = r
    <3>1. Held(t).m \in Roster /\ Held(t).pending \in SUBSET Ids
      BY <1>2, <2>2, HeldIs DEF SpawnWake, At, Waking, Roster
    <3>2. Begun(Held(t).m, Held(t).pending)
      BY <2>2, <3>1, BusStep, RunBegins DEF SpawnWake, BusGrows
    <3>3. r = Len(runs) + 1
      BY <2>2, <3>2 DEF Begun
    <3>4. QED
      BY <1>2, <2>2, <3>3, PassIs DEF SpawnWake, At, PassRec
  <2>3. QED
    BY <1>10, <2>1, <2>2, NewRuns
<1>11. ASSUME NEW r \in RunIds', NEW s \in RunIds', r # s, runs'[r].of # Main,
              NEW i \in runs'[r].prompt, i \in runs'[s].prompt
       PROVE  FALSE
  <2>0. msgs'[i].to = runs'[r].of /\ msgs'[i].to = runs'[s].of
    BY <1>11, AddressedStep DEF Addressed
  <2>1. runs'[s].of # Main
    BY <1>11, <2>0
  <2>2. CASE r \in RunIds /\ s \in RunIds
    BY <1>1, <1>11, <2>2 DEF RunsGrow, WokenInv
  <2>3. ASSUME NEW x \in RunIds', NEW y \in RunIds', x # y, x \notin RunIds,
               runs'[x].of # Main, runs'[y].of # Main,
               i \in runs'[x].prompt, i \in runs'[y].prompt
        PROVE  FALSE
    <3>1. PICK t \in Tickers : SpawnWake(t) /\ runs'[x].prompt = Held(t).pending
      BY <2>3, NewRuns
    <3>2. At(t, "claimed") /\ Held(t) \in pass[t].held
      BY <1>2, <3>1, HeldIs DEF SpawnWake, At, Waking
    <3>3. ~Woke(i)
      BY <2>3, <3>1, <3>2 DEF WokenInv
    <3>4. Held(t).m \in Roster /\ Held(t).pending \in SUBSET Ids
      BY <1>2, <3>2, HeldIs DEF At, Waking, Roster
    <3>5. Begun(Held(t).m, Held(t).pending)
      BY <3>1, <3>4, BusStep, RunBegins DEF SpawnWake, BusGrows
    <3>6. y \in RunIds
      BY <2>3, <3>5 DEF Begun
    <3>7. QED
      BY <1>1, <2>3, <3>3, <3>6 DEF RunsGrow, Woke
  <2>4. QED
    BY <1>11, <2>1, <2>2, <2>3
<1>12. QED
  BY <1>5, <1>6, <1>7, <1>8, <1>9, <1>10, <1>11 DEF WokenInv

LEMMA InitAddressed ==
    ASSUME Init PROVE Addressed /\ WokenInv
BY DEF Init, Addressed, WokenInv, Woke, Resting, Procs, At, RunIds

LEMMA AddressedStays ==
    ASSUME TypeInv, Addressed, [Next]_vars
    PROVE  Addressed'
<1>1. ASSUME UNCHANGED vars PROVE Addressed'
  BY <1>1 DEF vars, Addressed, RunIds
<1>2. QED
  BY <1>1, AddressedStep

(* "the same instruction is never injected into two turns": where one tick *)
(* runs at a time (a second one would read the mail before the first has   *)
(* taken it), and unless a process died or a write failed between a spawn  *)
(* and its take_mail, no message is the prompt of two runs one of which was woken. *)
THEOREM WokenCorrect ==
    ASSUME \A t, u \in Tickers : t = u
    PROVE  Spec => []WokenOnce
<1>1. Init => TypeInv /\ Addressed /\ OnceInv
  BY InitTyped, InitAddressed DEF OnceInv
<1>2. TypeInv /\ Addressed /\ OnceInv /\ [Next]_vars => (TypeInv /\ Addressed /\ OnceInv)'
  <2>1. ASSUME TypeInv, Addressed, OnceInv, Next, faults' = 0 PROVE WokenInv'
    <3>1. faults \in Nat
      BY <2>1, TeamMailAssumption DEF TypeInv
    <3>2. faults = 0
      BY <2>1, <3>1, FaultsStep
    <3>3. WokenInv
      BY <2>1, <3>2 DEF OnceInv
    <3>4. QED
      BY <2>1, <3>2, <3>3, WokenStep
  <2>2. ASSUME OnceInv, UNCHANGED vars PROVE OnceInv'
    BY <2>2 DEF vars, OnceInv, WokenInv, Woke, At, RunIds
  <2>3. QED
    BY <2>1, <2>2, TypeStep, AddressedStays DEF OnceInv
<1>3. OnceInv => WokenOnce
  BY DEF OnceInv, WokenInv, WokenOnce
<1>4. QED
  BY <1>1, <1>2, <1>3, PTL DEF Spec

(***************************************************************************)
(* The budget.                                                             *)
(***************************************************************************)
LEMMA CostsStep ==
    ASSUME TypeInv, Next, NEW i \in Ids, MayCost(i)'
    PROVE  MayCost(i)
<1>1. BusGrows /\ RunsGrow /\ QueueGrows
  BY BusStep, RunsStep, QueueStep
<1>2. \A m : \A j \in Unread(m) : MayCost(j)
  BY UnreadAre DEF TypeInv, MayCost
<1>3. CASE msgs'[i].state = "queued"
  BY <1>1, <1>3 DEF BusGrows, MayCost
<1>4. ASSUME NEW r \in RunIds', i \in runs'[r].prompt PROVE MayCost(i)
  <2>1. CASE r \in RunIds
    BY <1>1, <1>4, <2>1 DEF RunsGrow, MayCost
  <2>2. ASSUME NEW t \in Tickers, SpawnWake(t), i \in Held(t).pending PROVE MayCost(i)
    <3>1. Held(t) \in pass[t].held /\ t \in Procs
      BY <2>2, HeldIs DEF SpawnWake, At, Procs, Waking
    <3>2. QED
      BY <2>2, <3>1 DEF MayCost
  <2>3. ASSUME NEW d \in Procs, NEW k \in pass[d].items, i = queue[k].msg PROVE MayCost(i)
    <3>1. k \in DOMAIN queue
      BY PassIs DEF PassRec
    <3>2. QED
      BY <2>3, <3>1 DEF MayCost
  <2>4. QED
    BY <1>4, <2>1, <2>2, <2>3, NewRuns
<1>5. ASSUME NEW d \in Procs, NEW w \in pass'[d].todo \cup pass'[d].held, i \in w.pending
      PROVE  MayCost(i)
  <2>1. CASE w \in pass[d].todo \cup pass[d].held
    BY <1>5, <2>1 DEF MayCost
  <2>2. CASE MailWaiting(d) /\ w \notin pass[d].held
    <3>1. pass'[d].held = pass[d].held
          /\ pass'[d].todo = {Waiting(m) : m \in {n \in Roster : Unread(n) # {}}}
      BY <2>2, PassIs DEF MailWaiting, PassRec
    <3>2. PICK m \in Roster : w = Waiting(m)
      BY <1>5, <2>2, <3>1
    <3>3. i \in Unread(m)
      BY <1>5, <3>2 DEF Waiting
    <3>4. QED
      BY <1>2, <3>3
  <2>3. QED
    BY <1>5, <2>1, <2>2, WaitsShrink
<1>6. ASSUME NEW k \in DOMAIN queue', queue'[k].msg = i PROVE MayCost(i)
  <2>1. CASE k \in DOMAIN queue
    BY <1>1, <1>6, <2>1 DEF QueueGrows, MayCost
  <2>2. CASE queue' = queue
    BY <1>6, <2>1, <2>2
  <2>3. ASSUME Handed, k \notin DOMAIN queue PROVE MayCost(i)
    BY <1>2, <1>6, <2>3 DEF Handed
  <2>4. ASSUME NEW d \in Procs, RowsSettle(d) PROVE k \in DOMAIN queue
    BY <1>6, <2>4 DEF RowsSettle
  <2>5. QED
    BY <2>1, <2>2, <2>3, <2>4, QueueMoves
<1>7. QED
  BY <1>3, <1>4, <1>5, <1>6 DEF MayCost

(* A row that is new may cost a turn only by waiting to be read. *)
LEMMA NewCosts ==
    ASSUME TypeInv, Next, NEW i \in Ids' \ Ids, MayCost(i)'
    PROVE  msgs'[i].state = "queued"
<1>1. UNCHANGED <<runs, queue, pass>>
  BY BusStep DEF BusGrows
<1>2. \A r \in RunIds : i \notin runs[r].prompt
  BY RunRows DEF TypeInv
<1>3. \A d \in Procs : \A w \in pass[d].todo \cup pass[d].held : i \notin w.pending
  <2>1. ASSUME NEW d \in Procs, NEW w \in pass[d].todo \cup pass[d].held PROVE w.pending \subseteq Ids
    <3>1. w \in WaitRec
      BY PassIs DEF PassRec
    <3>2. QED
      BY <3>1 DEF WaitRec
  <2>2. QED
    BY <2>1
<1>4. \A k \in DOMAIN queue : queue[k].msg # i
  BY QueueRows DEF TypeInv
<1>5. QED
  BY <1>1, <1>2, <1>3, <1>4 DEF MayCost, RunIds

(* Rows are added by a person, or by a post that counted them. *)
LEMMA NewRows ==
    ASSUME TypeInv, Next, Ids' # Ids
    PROVE  \/ \A i \in Ids' \ Ids : msgs'[i].by = NoRun
           \/ \E r \in RunIds, p, n \in Nat, state \in {"queued", "undeliverable"} :
                 Posted(r, p, n, state)
<1>1. msgs \in Seq(MsgRec) /\ Ids = 1..Len(msgs) /\ Len(msgs) \in Nat
  BY DEF TypeInv, MsgsOK, Ids
<1>2. ASSUME NEW ids \in SUBSET Ids, msgs' = Flagged(ids) PROVE FALSE
  BY <1>2, FlaggedKeeps DEF TypeInv, Ids
<1>3. msgs' # msgs
  BY DEF Ids
<1>4. ASSUME NEW r \in RunIds, NEW m \in Roster, NEW to \in Roster \cup {Everyone, Stranger},
             NEW p \in 0..Len(msgs), Post(r, m, to, p)
      PROVE  \E s \in RunIds, q, n \in Nat, state \in {"queued", "undeliverable"} :
                Posted(s, q, n, state)
  <2>1. p \in Nat
    BY <1>1
  <2>2. \E n \in Nat, state \in {"queued", "undeliverable"} : Posted(r, p, n, state)
    BY <1>4, PostWrites
  <2>3. QED
    BY <2>1, <2>2
<1>5. ASSUME NEW to \in Roster, TeamMsg(to) PROVE \A i \in Ids' \ Ids : msgs'[i].by = NoRun
  <2> DEFINE new == Record(Stranger, NoRun, to, 0, 0, "queued")
  <2>1. new \in MsgRec /\ new.by = NoRun
    BY DEF Record, MsgRec, NoRun
  <2>2. msgs' = Append(msgs, new)
    BY <1>5 DEF TeamMsg
  <2> HIDE DEF new
  <2>3. /\ Ids' = 1..(Len(msgs) + 1) /\ msgs' \in Seq(MsgRec)
        /\ msgs'[Len(msgs) + 1] = new
    <3>1. Append(msgs, new) \in Seq(MsgRec) /\ Len(Append(msgs, new)) = Len(msgs) + 1
      BY <1>1, <2>1
    <3>2. Append(msgs, new)[Len(msgs) + 1] = new
      BY <1>1, <2>1
    <3>3. QED
      BY <2>2, <3>1, <3>2 DEF Ids
  <2>4. Ids' \ Ids = {Len(msgs) + 1}
    BY <1>1, <2>3
  <2>5. QED
    BY <2>1, <2>3, <2>4
<1>6. ASSUME NEW r \in RunIds, NEW m \in Roster, DrainInbox(r, m) PROVE FALSE
  <2>1. Unread(m) \in SUBSET Ids /\ msgs' = FlaggedOnly(Unread(m))
    BY <1>6, UnreadAre DEF DrainInbox, TypeInv
  <2>2. QED
    BY <2>1, DrainedKeeps DEF TypeInv, Ids
<1>14. ASSUME NEW r \in RunIds, NEW ids \in runs[r].taking, MarkMailDelivered(r, ids) PROVE FALSE
  BY <1>2, <1>14, RunRows DEF MarkMailDelivered, TypeInv
<1>7. ASSUME NEW r \in RunIds, NEW q \in Ids, AskAnswered(r, q) PROVE FALSE
  <2> DEFINE replies == {j \in DOMAIN msgs : msgs[j].parent = q}
  <2>1. replies \subseteq Ids /\ replies \subseteq Nat /\ replies # {} /\ msgs' = Flagged({Min(replies)})
    BY <1>7 DEF AskAnswered, Ids, MsgsOK, TypeInv
  <2> HIDE DEF replies
  <2>2. {Min(replies)} \in SUBSET Ids
    BY <2>1, LeastNat
  <2>3. QED
    BY <1>2, <2>1, <2>2
<1>8. ASSUME HandMail PROVE FALSE
  BY <1>2, <1>8, UnreadAre DEF HandMail, TypeInv
<1>9. ASSUME NEW t \in Tickers, WakeStep(t) PROVE FALSE
  <2>1. ~TakeMail(t)
    BY <1>2, UnreadAre DEF TakeMail, TypeInv
  <2>2. QED
    BY <1>3, <1>8, <1>9, <2>1
    DEF WakeStep, SettleMembers, MailWaiting, SettleBinds, SettleFrees, SettleFails,
        HandToConversation, LeaveAsleep, ClaimWake, WakeBusy, WakeBinds, WakeFails,
        DeliverNothing, PlanInjection
<1>10. ASSUME NEW c \in Consoles, DeliverReports(c) PROVE FALSE
  BY <1>3, <1>8, <1>10 DEF DeliverReports
<1>11. CASE AgentStep
  BY <1>4, <1>6, <1>7, <1>11, <1>14 DEF AgentStep, RunIds, Ids
<1>12. CASE PersonStep
  BY <1>3, <1>5, <1>12 DEF PersonStep, ChatTurn, TeamStart
<1>13. QED
  BY <1>3, <1>9, <1>10, <1>11, <1>12
  DEF Next, StartStep, TeamStartBusy, TeamStartBinds, RunEnds, IntervalPasses, SpawnWake,
      SpawnFails, Carry, CarryFails, MarkDelivered, Crash

LEMMA BudgetStep ==
    ASSUME TypeInv, BudgetInv, Next
    PROVE  BudgetInv'
<1>1. BusGrows
  BY BusStep
<1>2. ASSUME NEW i \in Ids', MayCost(i)' PROVE msgs'[i].state # "undeliverable"
  <2>1. CASE i \in Ids
    BY <1>1, <1>2, <2>1, CostsStep DEF BusGrows, BudgetInv
  <2>2. CASE i \notin Ids
    BY <1>2, <2>2, NewCosts
  <2>3. QED
    BY <2>1, <2>2
<1>3. Costs' \cap Ids \subseteq Costs
  BY <1>1, CostsStep DEF Costs, BusGrows
<1>4. Costs \subseteq Ids /\ IsFiniteSet(Costs) /\ Cardinality(Costs) \in Nat
  BY IdsFinite DEF TypeInv, Costs
<1>5. CASE Costs' \subseteq Ids
  <2>1. Costs' \subseteq Costs
    BY <1>3, <1>5
  <2>2. Cardinality(Costs') <= Cardinality(Costs) /\ Cardinality(Costs') \in Nat
    BY <1>4, <2>1, FS_Subset, FS_CardinalityType
  <2>3. Cardinality(Costs') <= MessageBudget
    BY <1>4, <2>2, TeamMailAssumption DEF BudgetInv
  <2>4. QED
    BY <1>2, <2>3 DEF BudgetInv
<1>6. ASSUME NEW i \in Costs', i \notin Ids PROVE Cardinality(Costs') <= MessageBudget
  <2>1. i \in Ids' \ Ids /\ msgs'[i].by # NoRun /\ MayCost(i)'
    BY <1>6 DEF Costs
  <2>2. msgs'[i].state = "queued"
    BY <2>1, NewCosts
  <2>3. PICK r \in RunIds, p, n \in Nat, state \in {"queued", "undeliverable"} :
           Posted(r, p, n, state)
    BY <2>1, NewRows
  <2>4. Ids = 1..Len(msgs) /\ Len(msgs) \in Nat /\ Ids' = 1..(Len(msgs) + n)
    BY <2>3 DEF Posted, TypeInv, MsgsOK, Ids
  <2>5. i \in (Len(msgs) + 1)..(Len(msgs) + n)
    BY <2>1, <2>4
  <2>6. state = "queued"
    BY <2>2, <2>3, <2>5 DEF Posted
  <2>7. Used + n <= MessageBudget
    BY <2>3, <2>6 DEF Posted
  <2> DEFINE counted == {j \in DOMAIN msgs : CountsAgainstBudget(msgs[j].state)}
             added   == (Len(msgs) + 1)..(Len(msgs) + n)
  <2>8. counted \subseteq Ids /\ IsFiniteSet(counted) /\ Used = Cardinality(counted)
        /\ Cardinality(counted) \in Nat
    BY IdsFinite DEF TypeInv, Ids, Used
  <2>9. Costs \subseteq counted
    BY DEF BudgetInv, Costs, CountsAgainstBudget, Ids
  <2>10. IsFiniteSet(added) /\ Cardinality(added) = n
    BY <2>4, FS_Interval
  <2>11. Costs' \subseteq counted \cup added
    <3>1. Costs' \subseteq Ids'
      BY DEF Costs
    <3>2. Ids' \subseteq Ids \cup added
      BY <2>4
    <3>3. QED
      BY <1>3, <2>9, <3>1, <3>2
  <2>12. counted \cap added = {}
    BY <2>4, <2>8
  <2> HIDE DEF counted, added
  <2>13. IsFiniteSet(counted \cup added)
         /\ Cardinality(counted \cup added) = Cardinality(counted) + Cardinality(added) - Cardinality({})
    BY <2>8, <2>10, <2>12, FS_Union
  <2>14. Cardinality(counted \cup added) = Used + n
    BY <2>8, <2>10, <2>13, FS_EmptySet
  <2>15. Cardinality(Costs') <= Cardinality(counted \cup added) /\ Cardinality(Costs') \in Nat
    BY <2>11, <2>13, FS_Subset, FS_CardinalityType
  <2>16. QED
    BY <2>7, <2>8, <2>14, <2>15, TeamMailAssumption
<1>7. QED
  BY <1>2, <1>5, <1>6 DEF BudgetInv

LEMMA BudgetGives ==
    ASSUME TypeInv, BudgetInv
    PROVE  TurnsWithinBudget
<1> DEFINE paid == {i \in Ids : msgs[i].by # NoRun /\ \E r \in RunIds : i \in runs[r].prompt}
<1>1. paid \subseteq Costs
  BY DEF Costs, MayCost
<1>2. IsFiniteSet(Costs) /\ Cardinality(Costs) \in Nat
  BY IdsFinite DEF TypeInv, Costs
<1>3. Cardinality(paid) <= Cardinality(Costs) /\ Cardinality(paid) \in Nat
  BY <1>1, <1>2, FS_Subset, FS_CardinalityType
<1>4. Cardinality(paid) <= MessageBudget
  BY <1>2, <1>3, TeamMailAssumption DEF BudgetInv
<1>5. QED
  BY <1>4 DEF TurnsWithinBudget

(* Of the messages agents wrote, no more than the budget are ever put      *)
(* before a turn, in whatever order posts, broadcasts, bounced replies and *)
(* asks come, and whoever dies.                                            *)
THEOREM BudgetCorrect == Spec => []TurnsWithinBudget
<1>1. Init => TypeInv /\ BudgetInv
  <2>1. ASSUME Init PROVE BudgetInv
    <3>1. Ids = {} /\ Costs = {}
      BY <2>1 DEF Init, Ids, Costs
    <3>2. QED
      BY <3>1, FS_EmptySet, TeamMailAssumption DEF BudgetInv
  <2>2. QED
    BY <2>1, InitTyped
<1>2. TypeInv /\ BudgetInv /\ [Next]_vars => (TypeInv /\ BudgetInv)'
  <2>1. ASSUME BudgetInv, UNCHANGED vars PROVE BudgetInv'
    BY <2>1 DEF vars, BudgetInv, Costs, MayCost, Ids, RunIds
  <2>2. QED
    BY <2>1, TypeStep, BudgetStep
<1>3. TypeInv /\ BudgetInv => TurnsWithinBudget
  BY BudgetGives
<1>4. QED
  BY <1>1, <1>2, <1>3, PTL DEF Spec
=============================================================================
