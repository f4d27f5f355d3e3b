------------------------ MODULE CaptureJournalProofs ------------------------
(***************************************************************************)
(* Proofs about CaptureJournal, for any processes, changes and bounds.     *)
(***************************************************************************)
EXTENDS CaptureJournalInv, SequenceTheorems, TLAPS

USE DEF memoryVars, workerVars, ghostVars

-----------------------------------------------------------------------------
(* Sequences: what concatenation and stretches of sequences give.          *)

(* A stretch of a sequence is a sequence over the same set. *)
LEMMA SubSeqType ==
    ASSUME NEW S, NEW s \in Seq(S), NEW m \in Nat \ {0}, NEW n \in Nat, n <= Len(s)
    PROVE  SubSeq(s, m, n) \in Seq(S)
<1>1. \A i \in m..n : s[i] \in S
  BY ElementOfSeq
<1> QED BY <1>1, SubSeqProperties

(* Appending to the second part appends to the whole. *)
LEMMA ConcatAppend ==
    ASSUME NEW s \in Seq(Change), NEW t \in Seq(Change), NEW c \in Change
    PROVE  s \o Append(t, c) = Append(s \o t, c)
<1>1. <<c>> \in Seq(Change) OBVIOUS
<1>2. s \o t \in Seq(Change) BY ConcatProperties
<1>3. (s \o t) \o <<c>> = s \o (t \o <<c>>) BY <1>1, ConcatAssociative
<1> QED BY <1>2, <1>3, AppendIsConcat

(* Concatenation is associative. *)
LEMMA ConcatAssociates ==
    ASSUME NEW s \in Seq(Change), NEW t \in Seq(Change), NEW u \in Seq(Change)
    PROVE  (s \o t) \o u = s \o (t \o u)
BY ConcatAssociative

(* What a suffix adds is the suffix. *)
LEMMA DeltaOfConcat ==
    ASSUME NEW s \in Seq(Change), NEW t \in Seq(Change)
    PROVE  Delta(s, s \o t) = t
<1>1. /\ Len(s) \in Nat /\ Len(t) \in Nat
      /\ Len(s \o t) = Len(s) + Len(t)
  BY LenProperties, ConcatProperties
<1>2. CASE Len(t) = 0
  <2>1. t = <<>> BY <1>2, EmptySeq
  <2> QED BY <1>1, <1>2, <2>1, SubSeqEmpty DEF Delta
<1>3. CASE Len(t) # 0
  <2>1. SubSeq(s \o t, Len(s) + 1, Len(s) + Len(t)) = SubSeq(t, 1, Len(t))
    <3>1. /\ Len(s) + 1 \in Len(s) + 1..Len(s) + Len(t)
          /\ Len(s) + Len(t) \in Len(s) + 1..Len(s) + Len(t)
      BY <1>1, <1>3
    <3>2. Len(s) + 1 - Len(s) = 1 /\ Len(s) + Len(t) - Len(s) = Len(t) BY <1>1
    <3> QED BY <3>1, <3>2, SubSeqOfConcat2
  <2> QED BY <1>1, <2>1, SubSeqFull DEF Delta
<1> QED BY <1>2, <1>3

(* The first k + 1 elements are the first k, and one more. *)
LEMMA PrefixSucc ==
    ASSUME NEW s \in Seq(Change), NEW k \in Nat, k < Len(s)
    PROVE  SubSeq(s, 1, k + 1) = Append(SubSeq(s, 1, k), s[k + 1])
<1>1. Len(s) \in Nat BY LenProperties
<1>2. 1 \in 1..Len(s) /\ k + 1 \in 1..Len(s) /\ (k + 1) - 1 = k BY <1>1
<1>3. SubSeq(s, 1, k + 1) = SubSeq(s, 1, k) \o <<s[k + 1]>>
  BY <1>2, SubSeqRecursiveSecond
<1>4. SubSeq(s, 1, k) \in Seq(Change) /\ s[k + 1] \in Change
  BY <1>1, <1>2, ElementOfSeq, SubSeqType
<1> QED BY <1>3, <1>4, AppendIsConcat

(* A sequence is its first k elements followed by the others. *)
LEMMA CutAt ==
    ASSUME NEW s \in Seq(Change), NEW k \in Nat, k <= Len(s)
    PROVE  SubSeq(s, 1, k) \o SubSeq(s, k + 1, Len(s)) = s
<1>1. Len(s) \in Nat BY LenProperties
<1>2. 1 \in 1..Len(s) + 1 /\ k \in 1 - 1..Len(s) /\ Len(s) \in k..Len(s) BY <1>1
<1> QED BY <1>2, ConcatAdjacentSubSeq, SubSeqFull

(* Appending to a sequence appends to its tails. *)
LEMMA TailOfAppend ==
    ASSUME NEW s \in Seq(Change), NEW c \in Change, NEW k \in Nat, k <= Len(s)
    PROVE  SubSeq(Append(s, c), k + 1, Len(Append(s, c)))
             = Append(SubSeq(s, k + 1, Len(s)), c)
<1> DEFINE a == Append(s, c)
<1>1. /\ a \in Seq(Change) /\ Len(s) \in Nat /\ Len(a) = Len(s) + 1
      /\ a[Len(s) + 1] = c /\ <<c>> \in Seq(Change)
  BY LenProperties, AppendProperties
<1>2. SubSeq(a, k + 1, Len(s) + 1) = SubSeq(a, k + 1, Len(s)) \o <<c>>
  <2> HIDE DEF a
  <2>1. k + 1 \in 1..Len(a) /\ Len(s) + 1 \in k + 1..Len(a) /\ (Len(s) + 1) - 1 = Len(s)
    BY <1>1
  <2> QED BY <1>1, <2>1, SubSeqRecursiveSecond
<1>3. SubSeq(a, k + 1, Len(s)) = SubSeq(s, k + 1, Len(s))
  <2>1. CASE k = Len(s) BY <1>1, <2>1, SubSeqEmpty
  <2>2. CASE k < Len(s)
    <3>1. k + 1 \in 1..Len(s) /\ Len(s) \in 1..Len(s) BY <1>1, <2>2
    <3>2. a = s \o <<c>> BY AppendIsConcat
    <3> QED BY <1>1, <3>1, <3>2, SubSeqOfConcat1
  <2> QED BY <1>1, <2>1, <2>2
<1>4. SubSeq(s, k + 1, Len(s)) \in Seq(Change) BY <1>1, SubSeqType
<1> QED BY <1>1, <1>2, <1>3, <1>4, AppendIsConcat

(* Dropping element d + 1 keeps the first d. *)
LEMMA PrefixOfDrop ==
    ASSUME NEW s \in Seq(Change), NEW d \in Nat, d < Len(s),
           NEW t, t = SubSeq(s, 1, d) \o SubSeq(s, d + 2, Len(s))
    PROVE  /\ t \in Seq(Change) /\ Len(t) = Len(s) - 1
           /\ SubSeq(t, 1, d) = SubSeq(s, 1, d)
<1> DEFINE u == SubSeq(s, 1, d)
           v == SubSeq(s, d + 2, Len(s))
<1>1. Len(s) \in Nat BY LenProperties
<1>2. u \in Seq(Change) /\ v \in Seq(Change) BY <1>1, SubSeqType
<1>3. Len(u) = d /\ Len(v) = Len(s) - d - 1
  <2>1. \A i \in 1..Len(s) : s[i] \in Change BY ElementOfSeq
  <2>2. Len(u) = d
    <3>1. \A i \in 1..d : s[i] \in Change BY <1>1, <2>1
    <3>2. Len(u) = IF 1 <= d THEN d - 1 + 1 ELSE 0 BY <3>1, SubSeqProperties
    <3> QED BY <3>2
  <2>3. Len(v) = Len(s) - d - 1
    <3>1. \A i \in d + 2..Len(s) : s[i] \in Change BY <1>1, <2>1
    <3>2. Len(v) = IF d + 2 <= Len(s) THEN Len(s) - (d + 2) + 1 ELSE 0
      BY <1>1, <3>1, SubSeqProperties
    <3> QED BY <1>1, <3>2
  <2> QED BY <2>2, <2>3
<1>4. t \in Seq(Change) /\ Len(t) = Len(s) - 1
  <2>1. u \o v \in Seq(Change) /\ Len(u \o v) = Len(u) + Len(v) BY <1>2, ConcatProperties
  <2>2. t = u \o v OBVIOUS
  <2>3. t \in Seq(Change) /\ Len(t) = Len(u) + Len(v)
    <3> HIDE DEF u, v
    <3> QED BY <2>1, <2>2
  <2>4. Len(u) + Len(v) = Len(s) - 1
    <3> HIDE DEF u, v
    <3> QED BY <1>1, <1>3
  <2> QED BY <2>3, <2>4
<1>5. SubSeq(t, 1, d) = u
  <2>1. CASE d = 0 BY <2>1, SubSeqEmpty
  <2>2. CASE d # 0
    <3>1. 1 \in 1..Len(u) /\ d \in 1..Len(u) BY <1>3, <2>2
    <3>2. SubSeq(u \o v, 1, d) = SubSeq(u, 1, d)
      <4> HIDE DEF u, v
      <4> QED BY <1>2, <3>1, SubSeqOfConcat1
    <3>3. SubSeq(u, 1, d) = u
      <4> HIDE DEF u
      <4> QED BY <1>2, <1>3, SubSeqFull
    <3> QED BY <3>2, <3>3
  <2> QED BY <2>1, <2>2
<1> QED BY <1>4, <1>5

-----------------------------------------------------------------------------
(* Type correctness. *)

(* What one state contains, as a set of changes. *)
LEMMA EntriesType ==
    ASSUME NEW s \in Seq(Change)
    PROVE  Entries(s) \subseteq Change
BY DEF Entries

(* A mutator returns a state. *)
LEMMA RunType ==
    ASSUME NEW s \in Seq(Change), NEW c \in Change
    PROVE  Run(s, c) \in Seq(Change)
BY AppendProperties DEF Run

(* The initial state has the declared types. *)
LEMMA InitType == ASSUME Init PROVE TypeOK
BY ChangeAssumption, EmptySeq DEF Init, TypeOK, Location

(* Moving the worker keeps the types of what describes it. *)
LEMMA GotoType ==
    ASSUME TypeOK, NEW p \in Proc, NEW l \in Location, Goto(p, l)
    PROVE  /\ pc' \in [Proc -> Location]
           /\ steps' \in [Proc -> Seq(AppendStep)]
           /\ done' \in [Proc -> Nat]
BY EmptySeq DEF TypeOK, Goto

(* And so does ending its call. *)
LEMMA LeaveType ==
    ASSUME TypeOK, NEW p \in Proc, Leave(p)
    PROVE  /\ pc' \in [Proc -> Location]
           /\ steps' \in [Proc -> Seq(AppendStep)]
           /\ done' \in [Proc -> Nat]
           /\ goal' \in [Proc -> Change \cup {NoChange}]
           /\ tries' \in [Proc -> Nat]
<1>1. Goto(p, "idle") BY DEF Leave
<1>2. "idle" \in Location BY DEF Location
<1> QED BY <1>1, <1>2, GotoType DEF TypeOK, Leave

(* The steps of a plan. *)
LEMMA StepType ==
    ASSUME TypeOK, NEW p \in Proc, NEW k \in 1..Len(steps[p])
    PROVE  /\ steps[p][k] \in AppendStep
           /\ steps[p][k].patch \in Seq(Change) /\ steps[p][k].state \in Seq(Change)
           /\ steps[p][k].upto \in Nat
<1>1. steps[p] \in Seq(AppendStep) BY DEF TypeOK
<1>2. steps[p][k] \in AppendStep BY <1>1, ElementOfSeq
<1> QED BY <1>2 DEF AppendStep

(* The listing a refresh works from. *)
LEMMA ListedType ==
    ASSUME TypeOK
    PROVE  Listed \in Seq(Operation)
<1>1. Genesis \in Operation BY EmptySeq DEF Genesis, Operation
<1> QED BY <1>1 DEF TypeOK, Listed

(* Where a refresh starts from. *)
LEMMA BaseType ==
    ASSUME TypeOK, NEW p \in Proc
    PROVE  /\ Base(p) \subseteq Checkpoint
           /\ \A b \in Base(p) : seen[p] <= b.at
BY DEF TypeOK, Position, Checkpoint, Base, NewestCheckpoint

(* A refresh leaves a process at a number of operations and in a state. *)
LEMMA StopsAtType ==
    ASSUME TypeOK, NEW p \in Proc, NEW b \in Checkpoint, NEW k \in Nat,
           k <= b.at \/ k <= Len(Listed), StopsAt(p, b, k)
    PROVE  seen' \in [Proc -> Nat] /\ live' \in [Proc -> Seq(Change)]
<1>1. Listed \in Seq(Operation) /\ Len(Listed) \in Nat BY ListedType, LenProperties
<1>2. b.at \in Nat /\ b.state \in Seq(Change) BY DEF Checkpoint
<1>3. k > b.at => Listed[k].state \in Seq(Change)
  <2>1. k > b.at => k \in 1..Len(Listed) BY <1>1, <1>2
  <2>2. k > b.at => Listed[k] \in Operation BY <1>1, <2>1, ElementOfSeq
  <2> QED BY <2>2 DEF Operation
<1>4. seen' \in [Proc -> Nat] BY DEF TypeOK, StopsAt
<1>5. k < b.at \/ k = b.at \/ k > b.at BY <1>2
<1>6. live' \in [Proc -> Seq(Change)] BY <1>2, <1>3, <1>5 DEF TypeOK, StopsAt
<1> QED BY <1>4, <1>6

(* The three ends of a refresh. *)
LEMMA RefreshType ==
    ASSUME TypeOK, NEW p \in Proc, NEW b \in Checkpoint, seen[p] <= b.at,
           Refreshed(p, b) \/ Unread(p, b) \/ Refuted(p, b)
    PROVE  /\ store' \in Seq(Operation)
           /\ seen' \in [Proc -> Nat]
           /\ live' \in [Proc -> Seq(Change)]
           /\ faults' \in Nat
<1>1. Listed \in Seq(Operation) /\ Len(Listed) \in Nat BY ListedType, LenProperties
<1>2. store' \in Seq(Operation) BY <1>1 DEF TypeOK, Refreshed, Unread, Refuted
<1>3. faults' \in Nat BY DEF TypeOK, Refreshed, Unread, Refuted, Fault
<1>4. b.at \in Nat /\ seen[p] \in Nat BY DEF Checkpoint, TypeOK
<1>5. PICK k \in Nat : (k <= b.at \/ k <= Len(Listed)) /\ StopsAt(p, b, k)
  <2>1. CASE Refreshed(p, b) BY <1>1, <2>1 DEF Refreshed
  <2>2. CASE Unread(p, b)
    <3>1. PICK k \in {seen[p]} \cup (b.at..Len(Listed) - 1) : StopsAt(p, b, k)
      BY <2>2 DEF Unread
    <3>2. k \in Nat /\ (k <= b.at \/ k <= Len(Listed)) BY <1>1, <1>4
    <3> QED BY <3>1, <3>2
  <2>3. CASE Refuted(p, b)
    <3>1. PICK k \in b.at..Len(Listed) - 1 : StopsAt(p, b, k)
      BY <2>3 DEF Refuted
    <3>2. k \in Nat /\ k <= Len(Listed) BY <1>1, <1>4
    <3> QED BY <3>1, <3>2
  <2> QED BY <2>1, <2>2, <2>3
<1> QED BY <1>2, <1>3, <1>5, StopsAtType

(* A create leaves an operation, whatever the storage answers. *)
LEMMA CreateType ==
    ASSUME TypeOK, NEW op \in Operation, NEW i, Created(op) \/ CreateFails(i, op)
    PROVE  store' \in Seq(Operation) /\ faults' \in Nat
<1>1. Append(store, op) \in Seq(Operation) BY AppendProperties DEF TypeOK
<1>2. store' = store \/ store' = Append(store, op) BY DEF Created, CreateFails
<1>3. faults' \in Nat BY DEF TypeOK, Created, CreateFails, Fault
<1> QED BY <1>1, <1>2, <1>3 DEF TypeOK

(* Memory after the finally clause of an append. *)
LEMMA CommitType ==
    ASSUME TypeOK, NEW p \in Proc, done[p] <= Len(steps[p]), Commit(p),
           \A k \in 1..Len(steps[p]) : steps[p][k].upto <= Len(pending[p])
    PROVE  /\ seen' \in [Proc -> Nat]
           /\ durable' \in [Proc -> Seq(Change)]
           /\ pending' \in [Proc -> Seq(Change)]
<1>1. CASE done[p] = 0 BY <1>1 DEF TypeOK, Commit
<1>2. CASE done[p] # 0
  <2> DEFINE last == steps[p][done[p]]
  <2>1. last \in AppendStep /\ last.upto <= Len(pending[p])
    <3>1. steps[p] \in Seq(AppendStep) /\ Len(steps[p]) \in Nat /\ done[p] \in Nat
      BY LenProperties DEF TypeOK
    <3>2. done[p] \in 1..Len(steps[p]) BY <1>2, <3>1
    <3> QED BY <3>1, <3>2, ElementOfSeq
  <2>2. SubSeq(pending[p], last.upto + 1, Len(pending[p])) \in Seq(Change)
    <3>1. pending[p] \in Seq(Change) /\ Len(pending[p]) \in Nat
      BY LenProperties DEF TypeOK
    <3>2. last.upto + 1 \in Nat \ {0} BY <2>1 DEF AppendStep
    <3> QED BY <3>1, <3>2, SubSeqType
  <2>3. last.state \in Seq(Change) BY <2>1 DEF AppendStep
  <2>4. /\ seen' = [seen EXCEPT ![p] = @ + done[p]]
        /\ durable' = [durable EXCEPT ![p] = last.state]
        /\ pending' = [pending EXCEPT ![p] = SubSeq(pending[p], last.upto + 1, Len(pending[p]))]
    BY <1>2 DEF Commit
  <2>5. /\ seen \in [Proc -> Nat] /\ done[p] \in Nat
        /\ durable \in [Proc -> Seq(Change)] /\ pending \in [Proc -> Seq(Change)]
    BY DEF TypeOK
  <2> HIDE DEF last
  <2>6. seen' \in [Proc -> Nat] BY <2>4, <2>5
  <2>7. durable' \in [Proc -> Seq(Change)] BY <2>3, <2>4, <2>5
  <2>8. pending' \in [Proc -> Seq(Change)] BY <2>2, <2>4, <2>5
  <2> QED BY <2>6, <2>7, <2>8
<1> QED BY <1>1, <1>2

-----------------------------------------------------------------------------
(* What a step of one process does to the others.                          *)

(* Retained operations are never changed. *)
Grows ==
    /\ Len(store) <= Len(store')
    /\ \A i \in 1..Len(store) : store'[i] = store[i]

(* Process q is not touched. *)
Frame(q) ==
    /\ seen'[q] = seen[q] /\ live'[q] = live[q] /\ durable'[q] = durable[q]
    /\ pending'[q] = pending[q]
    /\ pc'[q] = pc[q] /\ goal'[q] = goal[q]
    /\ steps'[q] = steps[q] /\ done'[q] = done[q]

(* A step of p that keeps the invariant, seen from p. *)
SoundStep(p) ==
    /\ TypeOK' /\ HistoryReplays' /\ CheckpointsSound'
    /\ ProcessSound(p)'
    /\ Grows
    /\ \A q \in Proc \ {p} : Frame(q)

(* A state that is retained stays the state of its revision. *)
LEMMA StateStays ==
    ASSUME TypeOK, Grows, NEW i \in Nat, i <= Len(store)
    PROVE  StateAt(i)' = StateAt(i)
BY DEF TypeOK, Grows, StateAt

(* What a process relies on survives the steps of the others. *)
LEMMA RelyProcess ==
    ASSUME TypeOK, TypeOK', Grows, NEW q \in Proc, Frame(q), ProcessSound(q)
    PROVE  ProcessSound(q)'
<1>1. /\ Len(store) \in Nat /\ Len(store') \in Nat
      /\ seen[q] \in Nat /\ done[q] \in Nat
  BY LenProperties DEF TypeOK
<1>2. seen[q] <= Len(store) BY DEF ProcessSound, Positioned
<1>3. StateAt(seen[q])' = StateAt(seen[q])
  <2>1. StateAt(seen[q])' = (IF seen[q] = 0 THEN <<>> ELSE store'[seen[q]].state)
    BY DEF Frame, StateAt
  <2>2. seen[q] # 0 => store'[seen[q]] = store[seen[q]] BY <1>1, <1>2 DEF Grows
  <2> QED BY <2>1, <2>2 DEF StateAt
<1>4. Positioned(q)'
  BY <1>1, <1>2 DEF ProcessSound, Positioned, Frame, Grows
<1>5. Settles(q)' BY <1>3 DEF ProcessSound, Settles, Frame
<1>6. Clean(q) => Clean(q)' BY <1>3 DEF Clean, Frame
<1>7. CleanOrBehindAt(q)'
  BY <1>1, <1>6 DEF ProcessSound, CleanOrBehindAt, Frame, Grows
<1>8. Replaying(q) => Replaying(q)' BY <1>3 DEF Replaying, Frame
<1>9. Rebasing(q) => Rebasing(q)' BY <1>1 DEF Rebasing, Frame, Grows
<1>10. Chained(q) => Chained(q)' BY DEF Chained, Before, Rest, Frame
<1>11. Planned(q) => Planned(q)'
  <2> SUFFICES ASSUME Planned(q) PROVE Planned(q)' OBVIOUS
  <2>1. seen[q] + done[q] \in Nat /\ seen[q] + done[q] <= Len(store)
    BY <1>1 DEF Planned
  <2>2. seen'[q] + done'[q] = seen[q] + done[q] /\ done'[q] = done[q]
        /\ steps'[q] = steps[q]
    BY DEF Frame
  <2>3. seen'[q] + done'[q] <= Len(store') BY <1>1, <2>1, <2>2 DEF Grows
  <2>4. done[q] > 0 => store'[seen[q] + done[q]] = store[seen[q] + done[q]]
    BY <1>1, <2>1 DEF Grows
  <2> QED BY <1>6, <1>10, <2>2, <2>3, <2>4 DEF Planned
<1>12. Appending(q) => Appending(q)'
  BY <1>1, <1>11 DEF Appending, Frame, Grows
<1>13. WorkerSound(q)'
  BY <1>6, <1>8, <1>9, <1>12 DEF ProcessSound, WorkerSound, Frame
<1> QED BY <1>4, <1>5, <1>7, <1>13 DEF ProcessSound

(* So a sound step keeps the whole invariant. *)
LEMMA StepKeepsIInv ==
    ASSUME IInv, NEW p \in Proc, SoundStep(p)
    PROVE  IInv'
<1>1. ASSUME NEW q \in Proc PROVE ProcessSound(q)'
  <2>1. CASE q = p BY <2>1 DEF SoundStep
  <2>2. CASE q # p
    BY <2>2, RelyProcess DEF IInv, SoundStep
  <2> QED BY <2>1, <2>2
<1> QED BY <1>1 DEF IInv, SoundStep

-----------------------------------------------------------------------------
(* What a step does to the store.                                          *)

(* A step that leaves the storage alone, and is sound for p, is sound. *)
LEMMA StoreUnchanged ==
    ASSUME IInv, store' = store, checkpoints' = checkpoints
    PROVE  HistoryReplays' /\ CheckpointsSound' /\ Grows
<1>1. Len(store) \in Nat BY LenProperties DEF IInv, TypeOK
<1>2. \A i : StateAt(i)' = StateAt(i) BY DEF StateAt
<1>3. HistoryReplays' BY <1>2 DEF IInv, HistoryReplays
<1>4. CheckpointsSound' BY DEF IInv, CheckpointsSound
<1> QED BY <1>1, <1>3, <1>4 DEF Grows

(* So is one that appends an operation over the retained state. *)
LEMMA StoreAppended ==
    ASSUME IInv, NEW op \in Operation, store' = Append(store, op),
           op.state = Retained \o op.patch
    PROVE  /\ HistoryReplays' /\ Grows
           /\ checkpoints' = checkpoints => CheckpointsSound'
           /\ Len(store') = Len(store) + 1 /\ store'[Len(store) + 1] = op
<1>1. /\ Len(store) \in Nat /\ Len(store') = Len(store) + 1
      /\ \A i \in 1..Len(store) : store'[i] = store[i]
      /\ store'[Len(store) + 1] = op
  BY LenProperties, AppendProperties DEF IInv, TypeOK
<1>2. Grows BY <1>1 DEF Grows
<1>3. ASSUME NEW i \in 1..Len(store') PROVE store'[i].state = StateAt(i - 1)' \o store'[i].patch
  <2>1. i \in Nat /\ i - 1 \in Nat /\ i - 1 <= Len(store) BY <1>1
  <2>2. StateAt(i - 1)' = StateAt(i - 1) BY <1>2, <2>1, StateStays DEF IInv
  <2>3. CASE i <= Len(store)
    <3>1. i \in 1..Len(store) BY <2>1, <2>3
    <3>2. store'[i] = store[i] BY <1>1, <3>1
    <3> QED BY <2>2, <3>1, <3>2 DEF IInv, HistoryReplays
  <2>4. CASE i = Len(store) + 1
    <3>1. i - 1 = Len(store) BY <1>1, <2>4
    <3>2. StateAt(i - 1)' = Retained BY <2>2, <3>1 DEF Retained
    <3>3. store'[i] = op BY <1>1, <2>4
    <3> QED BY <3>2, <3>3
  <2>5. i <= Len(store) \/ i = Len(store) + 1 BY <1>1, <2>1
  <2> QED BY <2>3, <2>4, <2>5
<1>4. checkpoints' = checkpoints => CheckpointsSound'
  BY <1>1 DEF IInv, CheckpointsSound
<1> QED BY <1>1, <1>2, <1>3, <1>4 DEF HistoryReplays

(* Revision 0 is all a refresh may add. *)
LEMMA StoreListed ==
    ASSUME IInv, store' \in {store, Listed}, checkpoints' = checkpoints
    PROVE  HistoryReplays' /\ CheckpointsSound' /\ Grows
<1>1. CASE store' = store BY <1>1, StoreUnchanged
<1>2. CASE store = <<>> /\ store' = <<Genesis>>
  <2>1. Genesis \in Operation BY EmptySeq DEF Genesis, Operation
  <2>2. store' = Append(store, Genesis) BY <1>2
  <2>3. Retained = <<>> BY <1>2 DEF Retained, StateAt
  <2>4. Genesis.state = Retained \o Genesis.patch
    BY <2>3, EmptySeq, ConcatEmptySeq DEF Genesis
  <2> QED BY <2>1, <2>2, <2>4, StoreAppended
<1> QED BY <1>1, <1>2 DEF Listed

-----------------------------------------------------------------------------
(* Steps that move only the worker.                                        *)

(* And one that only moves the worker of p. *)
LEMMA ControlStep ==
    ASSUME IInv, NEW p \in Proc, TypeOK',
           UNCHANGED <<store, checkpoints, seen, live, durable, pending>>,
           pc[p] # "replaying" \/ Clean(p),
           pc'[p] \in {"idle", "flushing", "locking"}
             \/ (pc'[p] = "committing" /\ pending[p] = <<>>),
           done'[p] = 0,
           pc'[p] \in {"locking", "committing"} => goal'[p] # NoChange,
           \A q \in Proc \ {p} : Frame(q)
    PROVE  SoundStep(p)
<1>1. HistoryReplays' /\ CheckpointsSound' /\ Grows BY StoreUnchanged
<1>2. ProcessSound(p) BY DEF IInv
<1>3. \A i : StateAt(i)' = StateAt(i) BY DEF StateAt
<1>4. Positioned(p)' BY <1>2 DEF ProcessSound, Positioned
<1>5. pending[p] \in Seq(Change) /\ durable[p] \in Seq(Change) BY DEF TypeOK, IInv
<1>6. Settles(p)'
  <2>1. CASE pc[p] # "replaying" BY <1>2, <1>3, <2>1 DEF ProcessSound, Settles
  <2>2. CASE Clean(p)
    <3>1. pending[p] = <<>> => durable[p] \o pending[p] = durable[p]
      BY <1>5, ConcatEmptySeq
    <3> QED BY <1>3, <2>2, <3>1 DEF Clean, Settles
  <2> QED BY <2>1, <2>2
<1>7. Clean(p) => Clean(p)' BY <1>3 DEF Clean
<1>8. CleanOrBehindAt(p)' BY <1>2, <1>7 DEF ProcessSound, CleanOrBehindAt
<1>9. WorkerSound(p)' BY DEF WorkerSound
<1> QED BY <1>1, <1>4, <1>6, <1>8, <1>9 DEF SoundStep, ProcessSound

(* The worker moves, and the rest has its type already. *)
LEMMA MovedType ==
    ASSUME TypeOK, NEW p \in Proc, NEW l \in Location,
           Goto(p, l) \/ (pc' = [pc EXCEPT ![p] = l] /\ UNCHANGED <<steps, done>>),
           goal' \in [Proc -> Change \cup {NoChange}], tries' \in [Proc -> Nat],
           published' \subseteq Change, closed' \in [Proc -> BOOLEAN], stops' \in Nat,
           UNCHANGED <<store, checkpoints, seen, live, durable, pending, accepted,
                       refused, lost, faults>>
    PROVE  TypeOK'
<1>1. /\ pc' \in [Proc -> Location]
      /\ steps' \in [Proc -> Seq(AppendStep)]
      /\ done' \in [Proc -> Nat]
  BY GotoType DEF TypeOK
<1> QED BY <1>1 DEF TypeOK

(* A barrier or the flusher takes the flush lock. *)
LEMMA FlushBeginSound ==
    ASSUME IInv, NEW p \in Proc, FlushBegin(p) PROVE SoundStep(p)
<1>1. TypeOK' BY MovedType DEF IInv, TypeOK, FlushBegin, Location
<1>2. done'[p] = 0 BY DEF IInv, TypeOK, ProcessSound, WorkerSound, FlushBegin
<1>3. \A q \in Proc \ {p} : Frame(q) BY DEF IInv, TypeOK, FlushBegin, Frame
<1> QED BY <1>1, <1>2, <1>3, ControlStep DEF IInv, TypeOK, FlushBegin

(* close() ends the flusher and flushes. *)
LEMMA CloseSound ==
    ASSUME IInv, NEW p \in Proc, Close(p) PROVE SoundStep(p)
<1>1. TypeOK'
  <2>1. closed' \in [Proc -> BOOLEAN] BY Zenon DEF IInv, TypeOK, Close
  <2>2. stops' \in Nat BY DEF IInv, TypeOK, Close
  <2> QED BY <2>1, <2>2, MovedType DEF IInv, TypeOK, Close, Location
<1>2. done'[p] = 0 BY DEF IInv, TypeOK, ProcessSound, WorkerSound, Close
<1>3. \A q \in Proc \ {p} : Frame(q) BY DEF IInv, TypeOK, Close, Frame
<1> QED BY <1>1, <1>2, <1>3, ControlStep DEF IInv, TypeOK, Close

(* A durable transaction first flushes. *)
LEMMA DurableBeginSound ==
    ASSUME IInv, NEW p \in Proc, NEW c \in Change, DurableBegin(p, c) PROVE SoundStep(p)
<1>1. TypeOK' BY MovedType DEF IInv, TypeOK, DurableBegin, Location
<1>2. done'[p] = 0 BY DEF IInv, TypeOK, ProcessSound, WorkerSound, DurableBegin
<1>3. \A q \in Proc \ {p} : Frame(q) BY DEF IInv, TypeOK, DurableBegin, Frame
<1> QED BY <1>1, <1>2, <1>3, ControlStep DEF IInv, TypeOK, DurableBegin

(* A barrier returns, or its durable transaction goes on. *)
LEMMA FlushReturnSound ==
    ASSUME IInv, NEW p \in Proc, FlushReturn(p) PROVE SoundStep(p)
<1>1. TypeOK'
  <2>1. CASE goal[p] = NoChange
    <3>1. Entries(live[p]) \subseteq Change BY EntriesType DEF IInv, TypeOK
    <3>2. published' \subseteq Change /\ Leave(p)
      BY <2>1, <3>1 DEF IInv, TypeOK, FlushReturn
    <3>3. goal' \in [Proc -> Change \cup {NoChange}] /\ tries' \in [Proc -> Nat]
      BY <3>2, LeaveType DEF IInv
    <3> QED BY <3>2, <3>3, MovedType DEF IInv, TypeOK, FlushReturn, Leave, Location
  <2>2. CASE goal[p] # NoChange
    BY <2>2, MovedType DEF IInv, TypeOK, FlushReturn, Location
  <2> QED BY <2>1, <2>2
<1>2. /\ done'[p] = 0 /\ pc'[p] \in {"idle", "locking"}
      /\ pc'[p] = "locking" => goal'[p] # NoChange
  BY DEF IInv, TypeOK, ProcessSound, WorkerSound, FlushReturn, Leave, Goto
<1>3. \A q \in Proc \ {p} : Frame(q)
  BY DEF IInv, TypeOK, FlushReturn, Leave, Goto, Frame
<1> QED BY <1>1, <1>2, <1>3, ControlStep DEF IInv, TypeOK, FlushReturn

(* Both kinds of retry loops end the same way. *)
LEMMA ContentionSound ==
    ASSUME IInv, NEW p \in Proc, FlushContention(p) \/ DurableContention(p)
    PROVE  SoundStep(p)
<1> USE DEF FlushContention, DurableContention
<1>1. Leave(p) /\ pc[p] # "replaying" OBVIOUS
<1>2. TypeOK'
  BY <1>1, LeaveType, MovedType DEF IInv, TypeOK, Leave, Location
<1>3. done'[p] = 0 /\ pc'[p] = "idle" BY <1>1 DEF IInv, TypeOK, Leave, Goto
<1>4. \A q \in Proc \ {p} : Frame(q) BY <1>1 DEF IInv, TypeOK, Leave, Goto, Frame
<1> QED BY <1>1, <1>2, <1>3, <1>4, ControlStep DEF IInv, TypeOK

(* A durable transaction that finds nothing pending commits. *)
LEMMA DurableLockSound ==
    ASSUME IInv, NEW p \in Proc, DurableLock(p) PROVE SoundStep(p)
<1> DEFINE l == IF pending[p] = <<>> THEN "committing" ELSE "flushing"
<1>1. Goto(p, l) /\ l \in Location BY DEF DurableLock, Location
<1>2. TypeOK' BY <1>1, MovedType DEF IInv, TypeOK, DurableLock
<1>3. done'[p] = 0 /\ pc'[p] = l BY <1>1 DEF IInv, TypeOK, Goto
<1>4. \A q \in Proc \ {p} : Frame(q)
  BY <1>1 DEF IInv, TypeOK, DurableLock, Goto, Frame
<1>5. goal'[p] # NoChange BY DEF IInv, ProcessSound, WorkerSound, DurableLock
<1> QED BY <1>2, <1>3, <1>4, <1>5, ControlStep DEF IInv, TypeOK, DurableLock

(* A durable transaction whose revision is taken starts over. *)
LEMMA DurableConflictSound ==
    ASSUME IInv, NEW p \in Proc, DurableConflict(p) PROVE SoundStep(p)
<1>1. TypeOK' BY MovedType DEF IInv, TypeOK, DurableConflict, Location
<1>2. done'[p] = 0 /\ pc'[p] = "committing" /\ pending[p] = <<>>
      /\ goal'[p] # NoChange
  BY DEF IInv, TypeOK, ProcessSound, WorkerSound, DurableConflict, Goto
<1>3. \A q \in Proc \ {p} : Frame(q)
  BY DEF IInv, TypeOK, DurableConflict, Goto, Frame
<1> QED BY <1>1, <1>2, <1>3, ControlStep DEF IInv, TypeOK, DurableConflict

(* A replay that is over leaves memory clean. *)
LEMMA RebaseDoneSound ==
    ASSUME IInv, NEW p \in Proc, RebaseDone(p) PROVE SoundStep(p)
<1>1. TypeOK' BY MovedType DEF IInv, TypeOK, RebaseDone, Location
<1>2. done'[p] = 0 /\ pc'[p] = "flushing"
  BY DEF IInv, TypeOK, RebaseDone, Goto
<1>3. \A q \in Proc \ {p} : Frame(q)
  BY DEF IInv, TypeOK, RebaseDone, Goto, Frame
<1>4. Clean(p)
  <2>1. Replaying(p) BY DEF IInv, ProcessSound, WorkerSound, RebaseDone
  <2>2. SubSeq(pending[p], 1, done[p]) = pending[p]
    BY SubSeqFull DEF IInv, TypeOK, RebaseDone
  <2> QED BY <2>1, <2>2 DEF Replaying, Clean
<1> QED BY <1>1, <1>2, <1>3, <1>4, ControlStep DEF IInv, TypeOK, RebaseDone

-----------------------------------------------------------------------------
(* A change is accepted to memory.                                         *)

(* An accepted change extends memory and what is pending alike. *)
LEMMA AcceptSound ==
    ASSUME IInv, NEW p \in Proc, NEW c \in Change, Accept(p, c) PROVE SoundStep(p)
<1>1. /\ live[p] \in Seq(Change) /\ pending[p] \in Seq(Change)
      /\ durable[p] \in Seq(Change) /\ done[p] \in Nat /\ seen[p] \in Nat
      /\ Len(pending[p]) \in Nat /\ Len(steps[p]) \in Nat
  BY LenProperties DEF IInv, TypeOK
<1>2. /\ live'[p] = Append(live[p], c) /\ pending'[p] = Append(pending[p], c)
      /\ live' = [live EXCEPT ![p] = Append(live[p], c)]
      /\ pending' = [pending EXCEPT ![p] = Append(pending[p], c)]
  <2>1. Run(live[p], c) = Append(live[p], c) BY DEF Accept, Effective, Run
  <2> QED BY <2>1 DEF IInv, TypeOK, Accept
<1>3. /\ live'[p] \in Seq(Change)
      /\ pending'[p] \in Seq(Change) /\ pending'[p] # <<>>
      /\ Len(pending'[p]) = Len(pending[p]) + 1
  BY <1>1, <1>2, AppendProperties
<1>4. TypeOK' BY <1>2, <1>3 DEF IInv, TypeOK, Accept
<1>5. HistoryReplays' /\ CheckpointsSound' /\ Grows BY StoreUnchanged DEF Accept
<1>6. \A q \in Proc \ {p} : Frame(q) BY DEF IInv, TypeOK, Accept, Frame
<1>7. ProcessSound(p) BY DEF IInv
<1>8. Positioned(p)' BY <1>7 DEF ProcessSound, Positioned, Accept
<1>9. Settles(p)' BY <1>3 DEF Settles
<1>10. Clean(p) => Clean(p)'
  <2>1. StateAt(seen[p])' = StateAt(seen[p]) BY DEF Accept, StateAt
  <2>2. durable[p] \o pending'[p] = Append(durable[p] \o pending[p], c)
    <3>1. durable[p] \o Append(pending[p], c) = Append(durable[p] \o pending[p], c)
      BY <1>1, ConcatAppend
    <3> QED BY <1>2, <3>1
  <2> QED BY <1>2, <2>1, <2>2 DEF Clean, Accept
<1>11. CleanOrBehindAt(p)' BY <1>7, <1>10 DEF ProcessSound, CleanOrBehindAt, Accept
<1>12. ASSUME pc[p] = "appending" PROVE Appending(p)'
  <2>1. Appending(p) BY <1>7, <1>12 DEF ProcessSound, WorkerSound
  <2>2. ASSUME NEW k \in 1..Len(steps[p])
        PROVE  steps[p][k] \in AppendStep /\ steps[p][k].upto \in Nat
    BY StepType DEF IInv
  <2>3. \A k \in 1..Len(steps[p]) :
           /\ steps[p][k].upto <= Len(pending'[p])
           /\ k < Len(steps[p]) => steps[p][k].upto < Len(pending'[p])
    BY <1>1, <1>3, <2>1, <2>2 DEF Appending
  <2>4. Chained(p) => Chained(p)'
    <3> SUFFICES ASSUME Chained(p), NEW k \in 1..Len(steps[p])
                 PROVE  /\ steps[p][k].state = Before(p, k) \o steps[p][k].patch
                        /\ live'[p] = steps[p][k].state
                             \o SubSeq(pending'[p], steps[p][k].upto + 1, Len(pending'[p]))
      BY DEF Chained, Before, Rest, Accept
    <3>1. /\ steps[p][k].state = Before(p, k) \o steps[p][k].patch
          /\ live[p] = steps[p][k].state \o Rest(p, k)
      BY DEF Chained
    <3>2. steps[p][k].upto \in Nat /\ steps[p][k].upto <= Len(pending[p])
      BY <2>1, <2>2 DEF Appending
    <3>3. SubSeq(pending'[p], steps[p][k].upto + 1, Len(pending'[p])) = Append(Rest(p, k), c)
      <4> DEFINE u == steps[p][k].upto
      <4>1. \A s \in Seq(Change), n \in Nat :
              n <= Len(s) => SubSeq(Append(s, c), n + 1, Len(Append(s, c)))
                               = Append(SubSeq(s, n + 1, Len(s)), c)
        BY TailOfAppend
      <4>2. SubSeq(Append(pending[p], c), u + 1, Len(Append(pending[p], c)))
              = Append(SubSeq(pending[p], u + 1, Len(pending[p])), c)
        <5> HIDE DEF u
        <5>1. u \in Nat /\ u <= Len(pending[p]) /\ pending[p] \in Seq(Change)
          BY <1>1, <3>2 DEF u
        <5> QED BY <4>1, <5>1
      <4>3. pending'[p] = Append(pending[p], c) BY <1>2
      <4> QED BY <4>2, <4>3 DEF Rest
    <3>4. Rest(p, k) \in Seq(Change) BY <1>1, <3>2, SubSeqType DEF Rest
    <3>5. steps[p][k].state \in Seq(Change) BY StepType DEF IInv
    <3>6. steps[p][k].state \o Append(Rest(p, k), c)
            = Append(steps[p][k].state \o Rest(p, k), c)
      BY <3>4, <3>5, ConcatAppend
    <3> QED BY <1>2, <3>1, <3>3, <3>6
  <2>5. Planned(p) => Planned(p)' BY <1>10, <2>4 DEF Planned, Accept
  <2> QED BY <1>3, <2>1, <2>3, <2>5 DEF Appending, Accept
<1>13. WorkerSound(p)'
  <2>1. pc[p] \notin {"replaying", "committing", "creating"} BY DEF Accept, Locked
  <2>2. Rebasing(p) => Rebasing(p)' BY <1>3 DEF Rebasing, Accept
  <2> QED BY <1>7, <1>12, <2>1, <2>2 DEF ProcessSound, WorkerSound, Accept
<1> QED BY <1>4, <1>5, <1>6, <1>8, <1>9, <1>11, <1>13 DEF SoundStep, ProcessSound

-----------------------------------------------------------------------------
(* A flush: the plan, its creates, and what is committed of it.            *)

(* Either plan extends the retained state, step by step, to memory. *)
LEMMA PlanSound ==
    ASSUME IInv, NEW p \in Proc, pending[p] # <<>>, NEW plan \in Plans(p)
    PROVE  /\ plan \in Seq(AppendStep) /\ Len(plan) \in Nat \ {0}
           /\ \A k \in 1..Len(plan) :
                 /\ plan[k].upto \in Nat /\ plan[k].upto <= Len(pending[p])
                 /\ k < Len(plan) => plan[k].upto < Len(pending[p])
                 /\ Clean(p) =>
                      /\ plan[k].state = (IF k = 1 THEN durable[p] ELSE plan[k - 1].state)
                                           \o plan[k].patch
                      /\ live[p] = plan[k].state
                           \o SubSeq(pending[p], plan[k].upto + 1, Len(pending[p]))
<1> DEFINE q == pending[p]
           n == Len(q)
           patch == Delta(durable[p], live[p])
           coalesced == <<[patch |-> patch, state |-> live[p], upto |-> n]>>
           split == [k \in 1..n |->
                       [patch |-> <<q[k]>>, state |-> durable[p] \o SubSeq(q, 1, k), upto |-> k]]
<1>1. /\ q \in Seq(Change) /\ n \in Nat \ {0}
      /\ live[p] \in Seq(Change) /\ durable[p] \in Seq(Change)
      /\ Len(live[p]) \in Nat /\ Len(durable[p]) \in Nat
  BY LenProperties, EmptySeq DEF IInv, TypeOK
<1>2. plan = coalesced \/ plan = split BY DEF Plans
<1>3. CASE plan = coalesced
  <2>1. patch \in Seq(Change) BY <1>1, SubSeqType DEF Delta
  <2>2. [patch |-> patch, state |-> live[p], upto |-> n] \in AppendStep
    BY <1>1, <2>1 DEF AppendStep
  <2>3. plan \in Seq(AppendStep) /\ Len(plan) = 1
        /\ plan[1] = [patch |-> patch, state |-> live[p], upto |-> n]
    BY <1>3, <2>2
  <2>4. Clean(p) => live[p] = durable[p] \o patch
    BY <1>1, DeltaOfConcat DEF Clean
  <2>5. live[p] = live[p] \o SubSeq(q, n + 1, n)
    <3>1. SubSeq(q, n + 1, n) = <<>> BY <1>1, SubSeqEmpty
    <3> QED BY <1>1, <3>1, ConcatEmptySeq
  <2>6. /\ plan[1].patch = patch /\ plan[1].state = live[p] /\ plan[1].upto = n
        /\ \A k \in 1..Len(plan) : k = 1
    BY <2>3
  <2>7. ASSUME NEW k \in 1..Len(plan)
        PROVE  /\ plan[k].upto = n /\ ~(k < Len(plan))
               /\ Clean(p) => plan[k].state = durable[p] \o plan[k].patch
               /\ live[p] = plan[k].state \o SubSeq(q, plan[k].upto + 1, n)
    <3>1. k = 1 BY <2>6
    <3>2. plan[k].upto = n /\ plan[k].state = live[p] /\ plan[k].patch = patch
      BY <2>6, <3>1
    <3>3. ~(k < Len(plan)) BY <2>3, <3>1
    <3>4. live[p] = plan[k].state \o SubSeq(q, plan[k].upto + 1, n) BY <2>5, <3>2
    <3>5. Clean(p) => plan[k].state = durable[p] \o plan[k].patch BY <2>4, <3>2
    <3> QED BY <3>2, <3>3, <3>4, <3>5
  <2>8. n \in Nat /\ n <= Len(q) /\ Len(plan) \in Nat \ {0} BY <1>1, <2>3
  <2>9. ASSUME NEW k \in 1..Len(plan)
        PROVE  /\ plan[k].upto \in Nat /\ plan[k].upto <= Len(q)
               /\ k < Len(plan) => plan[k].upto < Len(q)
               /\ Clean(p) => plan[k].state = (IF k = 1 THEN durable[p] ELSE plan[k - 1].state)
                                                 \o plan[k].patch
    <3>1. k = 1 BY <2>6
    <3>2. plan[k].upto = n /\ ~(k < Len(plan)) BY <2>7
    <3>3. Clean(p) => plan[k].state = durable[p] \o plan[k].patch BY <2>7
    <3> HIDE DEF coalesced, patch, n, q
    <3> QED BY <2>8, <3>1, <3>2, <3>3
  <2> HIDE DEF coalesced, patch
  <2> QED BY <2>3, <2>7, <2>8, <2>9
<1>4. CASE plan = split
  <2>1. ASSUME NEW k \in 1..n
        PROVE  /\ q[k] \in Change /\ SubSeq(q, 1, k) \in Seq(Change)
               /\ durable[p] \o SubSeq(q, 1, k) \in Seq(Change)
    <3>1. q[k] \in Change BY <1>1, ElementOfSeq
    <3>2. SubSeq(q, 1, k) \in Seq(Change) BY <1>1, SubSeqType
    <3> QED BY <1>1, <3>1, <3>2, ConcatProperties
  <2>2. plan \in [1..n -> AppendStep]
    <3>1. ASSUME NEW k \in 1..n
          PROVE  [patch |-> <<q[k]>>, state |-> durable[p] \o SubSeq(q, 1, k), upto |-> k]
                   \in AppendStep
      <4>1. <<q[k]>> \in Seq(Change) /\ k \in Nat BY <2>1
      <4> HIDE DEF q
      <4> QED BY <2>1, <4>1 DEF AppendStep
    <3> HIDE DEF q
    <3> QED BY <1>4, <3>1
  <2>3. plan \in Seq(AppendStep) /\ Len(plan) = n
    <3> HIDE DEF n
    <3> QED BY <1>1, <2>2
  <2>4. ASSUME NEW k \in 1..n
        PROVE  /\ plan[k].patch = <<q[k]>> /\ plan[k].upto = k
               /\ plan[k].state = durable[p] \o SubSeq(q, 1, k)
    BY <1>4
  <2>5. ASSUME NEW k \in 1..n
        PROVE  plan[k].state = (IF k = 1 THEN durable[p] ELSE plan[k - 1].state)
                                 \o plan[k].patch
    <3> DEFINE u == SubSeq(q, 1, k - 1)
    <3>1. k - 1 \in Nat /\ k - 1 < Len(q) /\ (k - 1) + 1 = k BY <1>1
    <3>2. SubSeq(q, 1, k) = Append(u, q[k]) BY <1>1, <3>1, PrefixSucc
    <3>3. u \in Seq(Change) BY <1>1, <3>1, SubSeqType
    <3>4. durable[p] \o Append(u, q[k]) = Append(durable[p] \o u, q[k])
      BY <1>1, <2>1, <3>3, ConcatAppend
    <3>5. durable[p] \o u = IF k = 1 THEN durable[p] ELSE plan[k - 1].state
      <4>1. CASE k = 1
        <5>1. u = <<>> BY <4>1, SubSeqEmpty
        <5> QED BY <1>1, <4>1, <5>1, ConcatEmptySeq
      <4>2. CASE k # 1
        <5>1. k - 1 \in 1..n BY <1>1, <4>2
        <5> QED BY <2>4, <4>2, <5>1
      <4> QED BY <4>1, <4>2
    <3>6. durable[p] \o u \in Seq(Change) BY <1>1, <3>3, ConcatProperties
    <3>7. Append(durable[p] \o u, q[k]) = (durable[p] \o u) \o <<q[k]>>
      BY <2>1, <3>6, AppendIsConcat
    <3> HIDE DEF u, q
    <3> QED BY <2>4, <3>2, <3>4, <3>5, <3>7
  <2>6. ASSUME NEW k \in 1..n, Clean(p)
        PROVE  live[p] = plan[k].state \o SubSeq(q, k + 1, n)
    <3>1. live[p] = durable[p] \o q BY <2>6 DEF Clean
    <3>2. SubSeq(q, 1, k) \o SubSeq(q, k + 1, n) = q BY <1>1, CutAt
    <3>3. SubSeq(q, k + 1, n) \in Seq(Change) BY <1>1, SubSeqType
    <3>4. (durable[p] \o SubSeq(q, 1, k)) \o SubSeq(q, k + 1, n)
            = durable[p] \o (SubSeq(q, 1, k) \o SubSeq(q, k + 1, n))
      <4>1. SubSeq(q, 1, k) \in Seq(Change) BY <2>1
      <4>2. durable[p] \in Seq(Change) BY <1>1
      <4> HIDE DEF q, n
      <4> QED BY <3>3, <4>1, <4>2, ConcatAssociates
    <3>5. plan[k].state = durable[p] \o SubSeq(q, 1, k) BY <2>4
    <3> HIDE DEF q, n, split
    <3> QED BY <3>1, <3>2, <3>4, <3>5
  <2>7. ASSUME NEW k \in 1..Len(plan)
        PROVE  /\ plan[k].upto \in Nat /\ plan[k].upto <= Len(q)
               /\ k < Len(plan) => plan[k].upto < Len(q)
    BY <1>1, <2>3, <2>4
  <2> HIDE DEF split
  <2>8. ASSUME NEW k \in 1..Len(plan)
        PROVE  /\ plan[k].upto \in Nat /\ plan[k].upto <= Len(q)
               /\ k < Len(plan) => plan[k].upto < Len(q)
               /\ Clean(p) =>
                    /\ plan[k].state = (IF k = 1 THEN durable[p] ELSE plan[k - 1].state)
                                          \o plan[k].patch
                    /\ live[p] = plan[k].state \o SubSeq(q, plan[k].upto + 1, n)
    <3>1. k \in 1..n BY <2>3
    <3>2. plan[k].upto = k BY <2>4, <3>1
    <3> HIDE DEF q, n
    <3> QED BY <2>5, <2>6, <2>7, <3>1, <3>2
  <2> QED BY <1>1, <2>3, <2>8
<1> QED BY <1>2, <1>3, <1>4

(* The snapshot of a flush is a plan over the retained state. *)
LEMMA FlushSnapshotSound ==
    ASSUME IInv, NEW p \in Proc, FlushSnapshot(p) PROVE SoundStep(p)
<1>1. PICK plan \in Plans(p) : steps' = [steps EXCEPT ![p] = plan] BY DEF FlushSnapshot
<1>2. pending[p] # <<>> BY DEF FlushSnapshot
<1>3. plan \in Seq(AppendStep) /\ Len(plan) \in Nat \ {0} /\ plan # <<>>
  BY <1>2, PlanSound, EmptySeq
<1>4. /\ steps'[p] = plan /\ done'[p] = 0 /\ pc'[p] = "appending"
      /\ seen[p] \in Nat /\ tries[p] \in Nat
  BY <1>1 DEF IInv, TypeOK, FlushSnapshot
<1>5. TypeOK'
  <2>1. steps' \in [Proc -> Seq(AppendStep)] BY <1>1, <1>3 DEF IInv, TypeOK
  <2>2. /\ pc' \in [Proc -> Location] /\ done' \in [Proc -> Nat]
        /\ tries' \in [Proc -> Nat]
    BY DEF IInv, TypeOK, FlushSnapshot, Location
  <2> QED BY <2>1, <2>2 DEF IInv, TypeOK, FlushSnapshot
<1>6. HistoryReplays' /\ CheckpointsSound' /\ Grows BY StoreUnchanged DEF FlushSnapshot
<1>7. \A q \in Proc \ {p} : Frame(q)
  BY <1>1 DEF IInv, TypeOK, FlushSnapshot, Frame
<1>8. ProcessSound(p) BY DEF IInv
<1>9. Positioned(p)' BY <1>8 DEF ProcessSound, Positioned, FlushSnapshot
<1>10. Settles(p)' BY <1>2 DEF Settles, FlushSnapshot
<1>11. Clean(p)' <=> Clean(p) BY DEF Clean, StateAt, FlushSnapshot
<1>12. CleanOrBehindAt(p)'
  BY <1>4, <1>8, <1>11 DEF ProcessSound, CleanOrBehindAt, FlushSnapshot
<1>13. Appending(p)'
  <2>1. \A k \in 1..Len(plan) :
           /\ plan[k].upto <= Len(pending[p])
           /\ k < Len(plan) => plan[k].upto < Len(pending[p])
    BY <1>2, PlanSound
  <2>2. Clean(p) => Chained(p)'
    <3> SUFFICES ASSUME Clean(p), NEW k \in 1..Len(plan)
                 PROVE  /\ plan[k].state = (IF k = 1 THEN durable[p] ELSE plan[k - 1].state)
                                              \o plan[k].patch
                        /\ live[p] = plan[k].state
                             \o SubSeq(pending[p], plan[k].upto + 1, Len(pending[p]))
      BY <1>4 DEF Chained, Before, Rest, FlushSnapshot
    <3> QED BY <1>2, PlanSound
  <2>3. Clean(p) => Planned(p)'
    <3>1. seen[p] + 0 <= Len(store)
      BY <1>4, <1>8 DEF ProcessSound, Positioned
    <3> QED BY <1>4, <1>11, <2>2, <3>1 DEF Planned, FlushSnapshot
  <2>4. Planned(p)' \/ (done'[p] = 0 /\ seen'[p] < Len(store'))
    BY <1>4, <1>8, <2>3 DEF ProcessSound, CleanOrBehindAt, FlushSnapshot
  <2>5. done'[p] <= Len(steps'[p]) /\ steps'[p] # <<>> BY <1>3, <1>4
  <2>6. \A k \in 1..Len(steps'[p]) :
           /\ steps'[p][k].upto <= Len(pending'[p])
           /\ k < Len(steps'[p]) => steps'[p][k].upto < Len(pending'[p])
    BY <1>4, <2>1 DEF FlushSnapshot
  <2>7. pending'[p] # <<>> BY <1>2 DEF FlushSnapshot
  <2> QED BY <2>4, <2>5, <2>6, <2>7 DEF Appending
<1>14. WorkerSound(p)' BY <1>4, <1>13 DEF WorkerSound
<1> QED BY <1>5, <1>6, <1>7, <1>9, <1>10, <1>12, <1>14 DEF SoundStep, ProcessSound

(* The next index is free only when everything up to it is the process's. *)
LEMMA FreeIndex ==
    ASSUME IInv, NEW p \in Proc, pc[p] = "appending", done[p] < Len(steps[p]),
           ~Occupied(NextIndex(p))
    PROVE  /\ Planned(p) /\ Appending(p)
           /\ Len(store) = seen[p] + done[p]
           /\ Retained = Before(p, done[p] + 1)
           /\ done[p] + 1 \in 1..Len(steps[p])
<1>1. /\ Len(store) \in Nat /\ seen[p] \in Nat /\ done[p] \in Nat
      /\ Len(steps[p]) \in Nat
  BY LenProperties DEF IInv, TypeOK
<1>2. Appending(p) BY DEF IInv, ProcessSound, WorkerSound
<1>3. Len(store) <= seen[p] + done[p] BY <1>1 DEF Occupied, NextIndex
<1>4. Planned(p) BY <1>1, <1>2, <1>3 DEF Appending
<1>5. Len(store) = seen[p] + done[p] BY <1>1, <1>3, <1>4 DEF Planned
<1>6. Retained = Before(p, done[p] + 1)
  <2>1. CASE done[p] = 0
    <3>1. Len(store) = seen[p] /\ done[p] + 1 = 1 BY <1>1, <1>5, <2>1
    <3> QED BY <1>4, <3>1 DEF Planned, Clean, Retained, Before
  <2>2. CASE done[p] > 0
    <3>1. /\ Len(store) # 0 /\ done[p] + 1 # 1 /\ (done[p] + 1) - 1 = done[p]
      BY <1>1, <1>5, <2>2
    <3> QED BY <1>4, <1>5, <2>2, <3>1 DEF Planned, Retained, StateAt, Before
  <2> QED BY <1>1, <2>1, <2>2
<1>7. done[p] + 1 \in 1..Len(steps[p]) BY <1>1
<1> QED BY <1>2, <1>4, <1>5, <1>6, <1>7

(* So what is created extends the retained state. *)
LEMMA NextOpSound ==
    ASSUME IInv, NEW p \in Proc, pc[p] = "appending", done[p] < Len(steps[p]),
           ~Occupied(NextIndex(p)), NEW op, op = Op(steps[p][done[p] + 1])
    PROVE  /\ op \in Operation /\ op.state = Retained \o op.patch
           /\ op.state = steps[p][done[p] + 1].state
<1> DEFINE k == done[p] + 1
<1>1. k \in 1..Len(steps[p]) /\ Planned(p) /\ Retained = Before(p, k) BY FreeIndex
<1>2. steps[p][k].state = Before(p, k) \o steps[p][k].patch BY <1>1 DEF Planned, Chained
<1>3. steps[p][k].patch \in Seq(Change) /\ steps[p][k].state \in Seq(Change)
  BY <1>1, StepType DEF IInv
<1>4. op.patch = steps[p][k].patch /\ op.state = steps[p][k].state BY DEF Op
<1>5. op \in Operation BY <1>3 DEF Op, Operation
<1> QED BY <1>1, <1>2, <1>4, <1>5

(* A create of the next step extends the history, or is refused. *)
LEMMA AppendCreateSound ==
    ASSUME IInv, NEW p \in Proc, AppendCreate(p) PROVE SoundStep(p)
<1> DEFINE k == done[p] + 1
           op == Op(steps[p][k])
<1>1. /\ pc[p] = "appending" /\ done[p] < Len(steps[p]) /\ ~Occupied(NextIndex(p))
      /\ store' = Append(store, op)
  BY DEF AppendCreate, Created
<1>2. /\ op \in Operation /\ op.state = Retained \o op.patch
      /\ op.state = steps[p][k].state
  BY <1>1, NextOpSound
<1>3. /\ Planned(p) /\ Appending(p) /\ Len(store) = seen[p] + done[p]
  BY <1>1, FreeIndex
<1>4. /\ HistoryReplays' /\ Grows /\ CheckpointsSound'
      /\ Len(store') = Len(store) + 1 /\ store'[Len(store) + 1] = op
  <2> HIDE DEF op
  <2> QED BY <1>1, <1>2, StoreAppended DEF AppendCreate
<1>5. /\ Len(store) \in Nat /\ seen[p] \in Nat /\ done[p] \in Nat
      /\ Len(steps[p]) \in Nat /\ done'[p] = done[p] + 1
  BY LenProperties DEF IInv, TypeOK, AppendCreate
<1>6. TypeOK'
  <2>1. store' \in Seq(Operation) /\ faults' \in Nat
    BY <1>2, CreateType DEF IInv, AppendCreate
  <2>2. done' \in [Proc -> Nat] BY DEF IInv, TypeOK, AppendCreate
  <2> QED BY <2>1, <2>2 DEF IInv, TypeOK, AppendCreate
<1>7. \A q \in Proc \ {p} : Frame(q) BY DEF IInv, TypeOK, AppendCreate, Frame
<1>8. Positioned(p)'
  BY <1>4, <1>5 DEF IInv, ProcessSound, Positioned, AppendCreate
<1>9. Settles(p)' BY <1>3 DEF Appending, Settles, AppendCreate
<1>10. Clean(p)'
  <2>1. StateAt(seen[p])' = StateAt(seen[p])
    <3>1. \A i \in Nat : i <= Len(store) => StateAt(i)' = StateAt(i)
      BY <1>4, StateStays DEF IInv
    <3>2. StateAt(seen[p])' = (IF seen[p] = 0 THEN <<>> ELSE store'[seen[p]].state)
      BY DEF AppendCreate, StateAt
    <3>3. seen[p] # 0 => store'[seen[p]] = store[seen[p]]
      BY <1>3, <1>4, <1>5 DEF Grows
    <3> QED BY <3>2, <3>3 DEF StateAt
  <2> QED BY <1>3, <2>1 DEF Planned, Clean, AppendCreate
<1>11. CleanOrBehindAt(p)' BY <1>10 DEF CleanOrBehindAt
<1>12. Planned(p)'
  <2>1. Chained(p)' BY <1>3 DEF Planned, Chained, Before, Rest, AppendCreate
  <2>2. seen'[p] + done'[p] = Len(store) + 1 BY <1>3, <1>5 DEF AppendCreate
  <2>3. store'[seen'[p] + done'[p]].state = steps'[p][done'[p]].state
    BY <1>2, <1>4, <1>5, <2>2 DEF AppendCreate
  <2> QED BY <1>4, <1>5, <1>10, <2>1, <2>2, <2>3 DEF Planned
<1>13. Appending(p)'
  BY <1>1, <1>3, <1>5, <1>12 DEF Appending, AppendCreate
<1>14. WorkerSound(p)' BY <1>1, <1>13 DEF WorkerSound, AppendCreate
<1> QED BY <1>4, <1>6, <1>7, <1>8, <1>9, <1>11, <1>14 DEF SoundStep, ProcessSound

(* What the finally clause leaves: either nothing was created, or memory   *)
(* is at the last created operation and what it left out is pending.       *)
LEMMA CommitSound ==
    ASSUME IInv, NEW p \in Proc, pc[p] = "appending", Commit(p), live' = live,
           Grows, Len(store') \in Nat
    PROVE  /\ seen' \in [Proc -> Nat] /\ durable' \in [Proc -> Seq(Change)]
           /\ pending' \in [Proc -> Seq(Change)]
           /\ Positioned(p)'
           /\ pending'[p] = <<>> => live'[p] = StateAt(seen[p])'
           /\ Clean(p)' \/ (done[p] = 0 /\ seen'[p] < Len(store'))
           /\ seen'[p] = seen[p] + done[p]
           /\ done[p] < Len(steps[p]) => pending'[p] # <<>>
           /\ \A q \in Proc \ {p} : seen'[q] = seen[q] /\ durable'[q] = durable[q]
                                    /\ pending'[q] = pending[q]
<1>1. /\ Len(store) \in Nat /\ seen[p] \in Nat /\ done[p] \in Nat
      /\ Len(steps[p]) \in Nat /\ Len(pending[p]) \in Nat
      /\ pending[p] \in Seq(Change)
  BY LenProperties DEF IInv, TypeOK
<1>2. Appending(p) /\ ProcessSound(p) BY DEF IInv, ProcessSound, WorkerSound
<1>3. /\ seen' \in [Proc -> Nat] /\ durable' \in [Proc -> Seq(Change)]
      /\ pending' \in [Proc -> Seq(Change)]
  BY <1>2, CommitType DEF IInv, Appending
<1>4. CASE done[p] = 0
  <2>1. UNCHANGED <<seen, durable, pending>> BY <1>4 DEF Commit
  <2>2. StateAt(seen[p])' = StateAt(seen[p])
    <3>1. StateAt(seen[p])' = (IF seen[p] = 0 THEN <<>> ELSE store'[seen[p]].state)
      BY <2>1 DEF StateAt
    <3>2. seen[p] # 0 => store'[seen[p]] = store[seen[p]]
      BY <1>1, <1>2 DEF ProcessSound, Positioned, Grows
    <3> QED BY <3>1, <3>2 DEF StateAt
  <2>3. Clean(p) => Clean(p)' BY <2>1, <2>2 DEF Clean
  <2>4. Positioned(p)'
    BY <1>1, <1>2, <2>1 DEF ProcessSound, Positioned, Grows
  <2>5. Clean(p)' \/ seen'[p] < Len(store')
    BY <1>1, <1>2, <2>1, <2>3 DEF Appending, Planned, Grows
  <2>6. pending'[p] # <<>> BY <1>2, <2>1 DEF Appending
  <2> QED BY <1>1, <1>3, <1>4, <2>1, <2>4, <2>5, <2>6
<1>5. CASE done[p] # 0
  <2> DEFINE d == done[p]
             last == steps[p][d]
  <2>1. d \in 1..Len(steps[p]) BY <1>1, <1>2, <1>5 DEF Appending
  <2>2. /\ last.upto \in Nat /\ last.upto <= Len(pending[p])
        /\ d < Len(steps[p]) => last.upto < Len(pending[p])
    BY <1>2, <2>1, StepType DEF IInv, Appending
  <2>3. Planned(p) BY <1>2, <1>5 DEF Appending
  <2>4. /\ seen'[p] = seen[p] + d /\ durable'[p] = last.state
        /\ pending'[p] = SubSeq(pending[p], last.upto + 1, Len(pending[p]))
        /\ \A q \in Proc \ {p} : seen'[q] = seen[q] /\ durable'[q] = durable[q]
                                 /\ pending'[q] = pending[q]
    BY <1>5 DEF IInv, TypeOK, Commit
  <2>5. seen[p] + d \in 1..Len(store) /\ store[seen[p] + d].state = last.state
    BY <1>1, <1>5, <2>3 DEF Planned
  <2>6. StateAt(seen[p])' = last.state
    <3>1. store'[seen[p] + d] = store[seen[p] + d] /\ seen[p] + d # 0
      BY <1>1, <2>5 DEF Grows
    <3> HIDE DEF d, last
    <3> QED BY <2>4, <2>5, <3>1 DEF StateAt
  <2>7. live[p] = last.state \o pending'[p] BY <2>1, <2>3, <2>4 DEF Planned, Chained, Rest
  <2>8. Clean(p)'
    <3> HIDE DEF d, last
    <3> QED BY <2>4, <2>6, <2>7 DEF Clean
  <2>9. Positioned(p)'
    <3> HIDE DEF d, last
    <3> QED BY <1>1, <2>4, <2>5 DEF Positioned, Grows
  <2>10. pending'[p] = <<>> => live'[p] = StateAt(seen[p])'
    <3>1. last.state \in Seq(Change) BY <2>1, StepType DEF IInv
    <3> HIDE DEF d, last
    <3> QED BY <2>6, <2>7, <3>1, ConcatEmptySeq
  <2>11. d < Len(steps[p]) => pending'[p] # <<>>
    <3> SUFFICES ASSUME d < Len(steps[p]) PROVE Len(pending'[p]) # 0
      BY <1>3, EmptySeq
    <3>1. \A i \in last.upto + 1..Len(pending[p]) : pending[p][i] \in Change
      BY <1>1, <2>2, ElementOfSeq
    <3>2. Len(pending'[p]) = IF last.upto + 1 <= Len(pending[p])
                             THEN Len(pending[p]) - (last.upto + 1) + 1 ELSE 0
      <4>1. last.upto + 1 \in Int /\ Len(pending[p]) \in Int BY <1>1, <2>2
      <4> HIDE DEF last
      <4> QED BY <2>4, <3>1, <4>1, SubSeqProperties
    <3> HIDE DEF last
    <3> QED BY <1>1, <2>2, <3>2
  <2> HIDE DEF last
  <2> QED BY <1>3, <2>4, <2>8, <2>9, <2>10, <2>11
<1> QED BY <1>4, <1>5

(* Which is all a flush keeps when it raises or turns to a rebase. *)
LEMMA AppendFailsSound ==
    ASSUME IInv, NEW p \in Proc, AppendFails(p) PROVE SoundStep(p)
<1>1. /\ pc[p] = "appending" /\ done[p] < Len(steps[p]) /\ Commit(p) /\ Leave(p)
      /\ live' = live /\ checkpoints' = checkpoints
  BY DEF AppendFails
<1>2. Len(store) \in Nat BY LenProperties DEF IInv, TypeOK
<1>3. /\ HistoryReplays' /\ CheckpointsSound' /\ Grows
      /\ store' \in Seq(Operation) /\ faults' \in Nat
  <2>1. CASE store' = store
    <3>1. faults' \in Nat BY DEF IInv, TypeOK, AppendFails, CreateFails, Fault
    <3> QED BY <1>1, <2>1, <3>1, StoreUnchanged DEF IInv, TypeOK
  <2>2. CASE store' # store
    <3> DEFINE op == Op(steps[p][done[p] + 1])
    <3>1. CreateFails(NextIndex(p), op) /\ ~Occupied(NextIndex(p)) /\ store' = Append(store, op)
      BY <2>2 DEF AppendFails, CreateFails
    <3>2. op \in Operation /\ op.state = Retained \o op.patch BY <1>1, <3>1, NextOpSound
    <3> HIDE DEF op
    <3> QED BY <1>1, <3>1, <3>2, StoreAppended, CreateType DEF IInv
  <2> QED BY <2>1, <2>2
<1>4. Len(store') \in Nat BY <1>3, LenProperties
<1>5. /\ seen' \in [Proc -> Nat] /\ durable' \in [Proc -> Seq(Change)]
      /\ pending' \in [Proc -> Seq(Change)]
      /\ Positioned(p)'
      /\ pending'[p] = <<>> => live'[p] = StateAt(seen[p])'
      /\ Clean(p)' \/ seen'[p] < Len(store')
      /\ \A q \in Proc \ {p} : seen'[q] = seen[q] /\ durable'[q] = durable[q]
                               /\ pending'[q] = pending[q]
  BY <1>1, <1>3, <1>4, CommitSound
<1>6. TypeOK' BY <1>1, <1>3, <1>5, LeaveType DEF IInv, TypeOK, AppendFails
<1>7. pc'[p] = "idle" /\ done'[p] = 0 BY <1>1 DEF IInv, TypeOK, Leave, Goto
<1>8. \A q \in Proc \ {p} : Frame(q) BY <1>1, <1>5 DEF IInv, TypeOK, Leave, Goto, Frame
<1>9. Settles(p)' BY <1>5 DEF Settles
<1>10. CleanOrBehindAt(p)' BY <1>5, <1>7 DEF CleanOrBehindAt
<1>11. WorkerSound(p)' BY <1>7 DEF WorkerSound
<1> QED BY <1>3, <1>5, <1>6, <1>8, <1>9, <1>10, <1>11 DEF SoundStep, ProcessSound

(* A refused create leaves its process behind, to rebase. *)
LEMMA AppendConflictSound ==
    ASSUME IInv, NEW p \in Proc, AppendConflict(p) PROVE SoundStep(p)
<1>1. /\ pc[p] = "appending" /\ done[p] < Len(steps[p]) /\ Commit(p)
      /\ Goto(p, "rebasing") /\ Occupied(NextIndex(p))
      /\ live' = live /\ checkpoints' = checkpoints /\ store' = store
  BY DEF AppendConflict
<1>2. /\ Len(store) \in Nat /\ seen[p] \in Nat /\ done[p] \in Nat
  BY LenProperties DEF IInv, TypeOK
<1>3. HistoryReplays' /\ CheckpointsSound' /\ Grows BY <1>1, StoreUnchanged
<1>4. Len(store') \in Nat BY <1>1, <1>2
<1>5. /\ seen' \in [Proc -> Nat] /\ durable' \in [Proc -> Seq(Change)]
      /\ pending' \in [Proc -> Seq(Change)]
      /\ Positioned(p)' /\ pending'[p] # <<>>
      /\ seen'[p] = seen[p] + done[p]
      /\ \A q \in Proc \ {p} : seen'[q] = seen[q] /\ durable'[q] = durable[q]
                               /\ pending'[q] = pending[q]
  BY <1>1, <1>3, <1>4, CommitSound
<1>6. TypeOK'
  <2>1. "rebasing" \in Location BY DEF Location
  <2> QED BY <1>1, <1>5, <2>1, GotoType DEF IInv, TypeOK, AppendConflict
<1>7. pc'[p] = "rebasing" /\ done'[p] = 0 BY <1>1 DEF IInv, TypeOK, Goto
<1>8. \A q \in Proc \ {p} : Frame(q) BY <1>1, <1>5 DEF IInv, TypeOK, AppendConflict, Goto, Frame
<1>9. Settles(p)' BY <1>5 DEF Settles
<1>10. seen'[p] < Len(store') BY <1>1, <1>2, <1>5 DEF Occupied, NextIndex
<1>11. CleanOrBehindAt(p)' BY <1>7, <1>10 DEF CleanOrBehindAt
<1>12. WorkerSound(p)' BY <1>5, <1>7, <1>10 DEF WorkerSound, Rebasing
<1> QED BY <1>3, <1>5, <1>6, <1>8, <1>9, <1>11, <1>12 DEF SoundStep, ProcessSound

(* A checkpoint is taken of the operation it names. *)
LEMMA CheckpointedSound ==
    ASSUME IInv, Grows, Len(store) \in Nat, Len(store') \in Nat,
           NEW at \in Nat, at <= Len(store'), NEW state \in Seq(Change),
           at > 0 => store'[at].state = state,
           Checkpointed(at, state)
    PROVE  CheckpointsSound' /\ checkpoints' \subseteq Checkpoint
<1> DEFINE c == [at |-> at, state |-> state]
<1>1. checkpoints' = checkpoints \/ (at > 1 /\ checkpoints' = checkpoints \cup {c})
  BY DEF Checkpointed
<1>2. c \in Checkpoint BY DEF Checkpoint
<1>3. ASSUME NEW d \in checkpoints
      PROVE  d.at \in 1..Len(store') /\ d.state = store'[d.at].state
  <2>1. d.at \in 1..Len(store) /\ d.state = store[d.at].state
    BY DEF IInv, CheckpointsSound
  <2> QED BY <2>1 DEF Grows
<1>4. at > 1 => c.at \in 1..Len(store') /\ c.state = store'[c.at].state OBVIOUS
<1>5. CheckpointsSound'
  <2> HIDE DEF c
  <2> QED BY <1>1, <1>3, <1>4 DEF CheckpointsSound
<1>6. checkpoints' \subseteq Checkpoint
  <2> HIDE DEF c
  <2> QED BY <1>1, <1>2 DEF IInv, TypeOK
<1> QED BY <1>5, <1>6

(* A completed append is the process's new revision. *)
LEMMA AppendDoneSound ==
    ASSUME IInv, NEW p \in Proc, AppendDone(p) PROVE SoundStep(p)
<1> DEFINE at == seen[p] + done[p]
           state == steps[p][done[p]].state
<1>1. /\ pc[p] = "appending" /\ done[p] = Len(steps[p]) /\ Commit(p)
      /\ Goto(p, "flushing") /\ Checkpointed(at, state)
      /\ live' = live /\ store' = store
  BY DEF AppendDone
<1>2. /\ Len(store) \in Nat /\ seen[p] \in Nat /\ done[p] \in Nat
      /\ Len(store') \in Nat
  BY <1>1, LenProperties DEF IInv, TypeOK
<1>3. Appending(p) BY <1>1 DEF IInv, ProcessSound, WorkerSound
<1>4. done[p] > 0 /\ done[p] \in 1..Len(steps[p])
  <2>1. Len(steps[p]) \in Nat \ {0} BY <1>3, EmptySeq DEF IInv, TypeOK, Appending
  <2> QED BY <1>1, <2>1
<1>5. Planned(p) BY <1>3, <1>4 DEF Appending
<1>6. Grows /\ HistoryReplays'
  <2>1. \A i : StateAt(i)' = StateAt(i) BY <1>1 DEF StateAt
  <2>2. HistoryReplays' BY <1>1, <2>1 DEF IInv, HistoryReplays
  <2> QED BY <1>1, <1>2, <2>2 DEF Grows
<1>7. CheckpointsSound' /\ checkpoints' \subseteq Checkpoint
  <2>1. /\ at \in Nat /\ at <= Len(store') /\ state \in Seq(Change)
        /\ at > 0 => store'[at].state = state
    BY <1>1, <1>2, <1>4, <1>5, StepType DEF IInv, Planned
  <2> HIDE DEF at, state
  <2> QED BY <1>1, <1>2, <1>6, <2>1, CheckpointedSound
<1>8. /\ seen' \in [Proc -> Nat] /\ durable' \in [Proc -> Seq(Change)]
      /\ pending' \in [Proc -> Seq(Change)]
      /\ Positioned(p)'
      /\ pending'[p] = <<>> => live'[p] = StateAt(seen[p])'
      /\ Clean(p)'
      /\ \A q \in Proc \ {p} : seen'[q] = seen[q] /\ durable'[q] = durable[q]
                               /\ pending'[q] = pending[q]
  BY <1>1, <1>2, <1>4, <1>6, CommitSound
<1>9. TypeOK'
  <2>1. "flushing" \in Location BY DEF Location
  <2> QED BY <1>1, <1>7, <1>8, <2>1, GotoType DEF IInv, TypeOK, AppendDone
<1>10. pc'[p] = "flushing" /\ done'[p] = 0 BY <1>1 DEF IInv, TypeOK, Goto
<1>11. \A q \in Proc \ {p} : Frame(q) BY <1>1, <1>8 DEF IInv, TypeOK, AppendDone, Goto, Frame
<1>12. Settles(p)' BY <1>8 DEF Settles
<1>13. CleanOrBehindAt(p)' BY <1>8 DEF CleanOrBehindAt
<1>14. WorkerSound(p)' BY <1>10 DEF WorkerSound
<1> QED BY <1>6, <1>7, <1>8, <1>9, <1>11, <1>12, <1>13, <1>14 DEF SoundStep, ProcessSound

-----------------------------------------------------------------------------
(* Refreshes.                                                              *)

(* A process with nothing pending holds the state of its revision. *)
LEMMA SettledState ==
    ASSUME IInv, NEW p \in Proc,
           seen[p] = 0 \/ (pending[p] = <<>> /\ pc[p] # "replaying")
    PROVE  live[p] = StateAt(seen[p])
BY DEF IInv, ProcessSound, Positioned, Settles, StateAt

(* What a refresh starts from is the state of its own revision.            *)
LEMMA BaseSound ==
    ASSUME IInv, NEW p \in Proc, live[p] = StateAt(seen[p]), NEW b \in Base(p)
    PROVE  /\ b \in Checkpoint /\ b.at \in Nat /\ seen[p] \in Nat
           /\ seen[p] <= b.at /\ b.at <= Len(store)
           /\ b.state = StateAt(b.at)
           /\ live[p] = StateAt(seen[p])
<1>1. b \in Checkpoint /\ seen[p] <= b.at BY BaseType DEF IInv
<1>2. b.at \in Nat /\ seen[p] \in Nat BY <1>1 DEF IInv, TypeOK, Checkpoint
<1>3. seen[p] <= Len(store) BY DEF IInv, ProcessSound, Positioned
<1>4. b.at <= Len(store) /\ b.state = StateAt(b.at)
  <2>1. CASE b = Position(p) BY <1>3, <2>1 DEF Position
  <2>2. CASE b \in checkpoints
    <3>1. b.at \in 1..Len(store) /\ b.state = store[b.at].state
      BY <2>2 DEF IInv, CheckpointsSound
    <3> QED BY <1>2, <3>1 DEF StateAt
  <2> QED BY <2>1, <2>2 DEF Base, NewestCheckpoint
<1> QED BY <1>1, <1>2, <1>3, <1>4

(* The listing holds the store, or revision 0 when that is empty. *)
LEMMA ListedSound ==
    ASSUME IInv
    PROVE  /\ Len(Listed) \in Nat \ {0} /\ Len(store) \in Nat
           /\ Len(store) # 0 => Listed = store
           /\ Len(store) = 0 => Listed = <<Genesis>>
<1>1. store \in Seq(Operation) BY DEF IInv, TypeOK
<1>2. CASE store = <<>> BY <1>2, EmptySeq DEF Listed
<1>3. CASE store # <<>> BY <1>1, <1>3, EmptySeq DEF Listed
<1> QED BY <1>2, <1>3

(* A refresh that ends is at the end of the history. *)
LEMMA RefreshedSound ==
    ASSUME IInv, NEW p \in Proc, NEW b \in Checkpoint, b.at <= Len(store),
           b.at < Len(store) \/ b.state = StateAt(b.at),
           Refreshed(p, b)
    PROVE  /\ seen' = [seen EXCEPT ![p] = Len(store')]
           /\ Len(store') \in Nat \ {0} /\ store' = Listed
           /\ live'[p] = StateAt(seen[p])'
           /\ \A q \in Proc \ {p} : live'[q] = live[q]
<1> DEFINE k == Len(Listed)
<1>1. /\ k \in Nat \ {0} /\ Len(store) \in Nat
      /\ Len(store) # 0 => Listed = store
      /\ Len(store) = 0 => Listed = <<Genesis>>
  BY ListedSound
<1>2. b.at \in Nat /\ b.at <= k BY <1>1 DEF Checkpoint
<1>3. store' = Listed /\ seen' = [seen EXCEPT ![p] = k] /\ seen'[p] = k
  BY DEF IInv, TypeOK, Refreshed, StopsAt
<1>4. StateAt(seen[p])' = Listed[k].state BY <1>1, <1>3 DEF StateAt
<1>5. live'[p] = (IF k = b.at THEN b.state ELSE Listed[k].state)
  BY <1>1, <1>2 DEF IInv, TypeOK, Refreshed, StopsAt
<1>6. k = b.at => b.state = Listed[k].state BY <1>1, <1>2 DEF StateAt
<1>7. \A q \in Proc \ {p} : live'[q] = live[q] BY DEF IInv, TypeOK, Refreshed, StopsAt
<1> QED BY <1>1, <1>3, <1>4, <1>5, <1>6, <1>7

(* One that fails is still at a revision that is retained, and has not     *)
(* moved unless it is behind.                                              *)
LEMMA StoppedSound ==
    ASSUME IInv, NEW p \in Proc, NEW b \in Checkpoint,
           seen[p] <= b.at, b.at <= Len(store),
           Unread(p, b) \/ Refuted(p, b)
    PROVE  /\ store' \in {store, Listed}
           /\ seen'[p] \in Nat /\ seen[p] <= seen'[p] /\ seen'[p] <= Len(store')
           /\ seen'[p] = seen[p] \/ seen'[p] < Len(store')
           /\ (b.state = StateAt(b.at) /\ live[p] = StateAt(seen[p]))
                => live'[p] = StateAt(seen[p])'
           /\ \A q \in Proc \ {p} : seen'[q] = seen[q] /\ live'[q] = live[q]
<1>1. /\ Len(Listed) \in Nat \ {0} /\ Len(store) \in Nat
      /\ Len(store) # 0 => Listed = store
      /\ Len(store) = 0 => Listed = <<Genesis>> /\ Len(Listed) = 1
  BY ListedSound
<1>2. b.at \in Nat /\ seen[p] \in Nat BY DEF IInv, TypeOK, Checkpoint
<1>3. store' \in {store, Listed} BY DEF Unread, Refuted
<1>4. PICK k \in {seen[p]} \cup (b.at..Len(Listed) - 1) : StopsAt(p, b, k)
  BY DEF Unread, Refuted
<1>5. k \in Nat /\ seen[p] <= k /\ (k = seen[p] \/ (b.at <= k /\ k < Len(Listed)))
  BY <1>1, <1>2
<1>6. /\ seen'[p] = k
      /\ \A q \in Proc \ {p} : seen'[q] = seen[q] /\ live'[q] = live[q]
      /\ live'[p] = (IF k < b.at THEN live[p]
                     ELSE IF k = b.at THEN b.state ELSE Listed[k].state)
  BY <1>4 DEF IInv, TypeOK, StopsAt
<1>7. Len(store) <= Len(store') /\ Len(store') \in Nat
  BY <1>1, <1>3
<1>8. k = seen[p] \/ k < Len(store')
  <2>1. CASE Len(store) = 0
    <3>1. seen[p] = 0 /\ b.at = 0 BY <1>1, <1>2, <2>1
    <3>2. Len(Listed) = 1 BY <1>1, <2>1
    <3>3. k = 0 BY <1>5, <3>1, <3>2
    <3> QED BY <3>1, <3>3
  <2>2. CASE Len(store) # 0 BY <1>1, <1>3, <1>5, <2>2
  <2> QED BY <2>1, <2>2
<1>9. k <= Len(store') BY <1>2, <1>5, <1>7, <1>8
<1>10. ASSUME b.state = StateAt(b.at), live[p] = StateAt(seen[p])
       PROVE  live'[p] = StateAt(seen[p])'
  <2>1. CASE k = 0
    <3>1. StateAt(seen[p])' = <<>> BY <1>6, <2>1 DEF StateAt
    <3>2. seen[p] = 0 BY <1>2, <1>5, <2>1
    <3>3. live'[p] = <<>> BY <1>2, <1>6, <1>10, <2>1, <3>2 DEF StateAt
    <3> QED BY <3>1, <3>3
  <2>2. CASE k # 0
    <3>1. Len(store) # 0
      <4> SUFFICES ASSUME Len(store) = 0 PROVE FALSE OBVIOUS
      <4>1. seen[p] = 0 /\ b.at = 0 /\ Len(Listed) = 1 BY <1>1, <1>2
      <4> QED BY <1>5, <2>2, <4>1
    <3>2. store' = store /\ Listed = store BY <1>1, <1>3, <3>1
    <3>3. StateAt(seen[p])' = store[k].state BY <1>6, <2>2, <3>2 DEF StateAt
    <3>4. CASE k < b.at
      <4>1. k = seen[p] BY <1>2, <1>5, <3>4
      <4> QED BY <1>6, <1>10, <2>2, <3>3, <3>4, <4>1 DEF StateAt
    <3>5. CASE k = b.at
      <4>1. b.state = store[k].state BY <1>10, <2>2, <3>5 DEF StateAt
      <4>2. live'[p] = b.state BY <1>2, <1>6, <3>5
      <4> QED BY <3>3, <4>1, <4>2
    <3>6. CASE k > b.at BY <1>2, <1>5, <1>6, <3>2, <3>3, <3>6
    <3> QED BY <1>2, <1>5, <3>4, <3>5, <3>6
  <2> QED BY <2>1, <2>2
<1> QED BY <1>3, <1>5, <1>6, <1>8, <1>9, <1>10

(* A load ends at the head of the history, or part way. *)
LEMMA LoadSound ==
    ASSUME IInv, NEW p \in Proc, Load(p) PROVE SoundStep(p)
<1>1. /\ seen[p] = 0 /\ checkpoints' = checkpoints /\ pending' = pending
      /\ UNCHANGED <<pc, goal, tries, steps, done, closed, stops>>
      /\ UNCHANGED <<accepted, refused, lost, published>>
  BY DEF Load
<1>2. /\ live[p] = <<>> /\ durable[p] = <<>> /\ pending[p] = <<>>
      /\ pc[p] \notin {"replaying", "appending", "rebasing"} /\ done[p] = 0
  <2>1. ProcessSound(p) BY DEF IInv
  <2>2. pending[p] = <<>> /\ live[p] = <<>> /\ durable[p] = <<>>
    BY <1>1, <2>1 DEF ProcessSound, Positioned
  <2>3. pc[p] # "replaying" BY DEF Load, Locked
  <2>4. pc[p] \notin {"appending", "rebasing"}
    BY <2>1, <2>2 DEF ProcessSound, WorkerSound, Appending, Rebasing
  <2> QED BY <2>1, <2>2, <2>3, <2>4 DEF ProcessSound, WorkerSound
<1>3. PICK b \in Base(p) :
        \/ Refreshed(p, b) /\ durable' = [durable EXCEPT ![p] = live'[p]]
        \/ Unread(p, b) /\ UNCHANGED durable
  BY DEF Load
<1>4. /\ b \in Checkpoint /\ b.at \in Nat /\ seen[p] <= b.at /\ b.at <= Len(store)
      /\ b.state = StateAt(b.at) /\ live[p] = StateAt(seen[p])
  BY <1>1, SettledState, BaseSound
<1>5. /\ store' \in Seq(Operation) /\ seen' \in [Proc -> Nat]
      /\ live' \in [Proc -> Seq(Change)] /\ faults' \in Nat
  BY <1>3, <1>4, RefreshType DEF IInv
<1>6. TypeOK' BY <1>1, <1>3, <1>5 DEF IInv, TypeOK
<1>7. HistoryReplays' /\ CheckpointsSound' /\ Grows
  <2>1. store' \in {store, Listed} BY <1>3 DEF Refreshed, Unread
  <2> QED BY <1>1, <2>1, StoreListed
<1>8. /\ live'[p] = StateAt(seen[p])' /\ seen'[p] <= Len(store')
      /\ seen'[p] = 0 => durable'[p] = <<>>
      /\ durable'[p] = live'[p] \/ (seen'[p] < Len(store'))
      /\ \A q \in Proc \ {p} : seen'[q] = seen[q] /\ live'[q] = live[q]
                               /\ durable'[q] = durable[q]
  <2>1. CASE Refreshed(p, b) /\ durable' = [durable EXCEPT ![p] = live'[p]]
    <3>1. /\ seen' = [seen EXCEPT ![p] = Len(store')] /\ Len(store') \in Nat \ {0}
          /\ live'[p] = StateAt(seen[p])'
          /\ \A q \in Proc \ {p} : live'[q] = live[q]
      BY <1>4, <2>1, RefreshedSound
    <3> QED BY <2>1, <3>1 DEF IInv, TypeOK
  <2>2. CASE Unread(p, b) /\ UNCHANGED durable
    <3>1. /\ seen'[p] = seen[p] \/ seen'[p] < Len(store')
          /\ seen'[p] <= Len(store')
          /\ live'[p] = StateAt(seen[p])'
          /\ \A q \in Proc \ {p} : seen'[q] = seen[q] /\ live'[q] = live[q]
      BY <1>4, <2>2, StoppedSound
    <3>2. seen'[p] = 0 => live'[p] = <<>> BY <3>1 DEF StateAt
    <3> QED BY <1>1, <1>2, <2>2, <3>1, <3>2
  <2> QED BY <1>3, <2>1, <2>2
<1>9. \A q \in Proc \ {p} : Frame(q) BY <1>1, <1>8 DEF Frame
<1>10. Positioned(p)'
  <2>1. seen'[p] = 0 => live'[p] = <<>> BY <1>8 DEF StateAt
  <2> QED BY <1>1, <1>2, <1>8, <2>1 DEF Positioned
<1>11. Settles(p)' BY <1>8 DEF Settles
<1>12. durable'[p] = live'[p] => Clean(p)'
  <2>1. live'[p] \o <<>> = live'[p] BY <1>5, ConcatEmptySeq
  <2> QED BY <1>1, <1>2, <1>8, <2>1 DEF Clean
<1>13. CleanOrBehindAt(p)' BY <1>1, <1>2, <1>8, <1>12 DEF CleanOrBehindAt
<1>14. WorkerSound(p)'
  <2>1. pc[p] # "creating" BY DEF Load, Locked
  <2>2. pc[p] \in {"locking", "committing"} => goal[p] # NoChange
    BY DEF IInv, ProcessSound, WorkerSound
  <2> QED BY <1>1, <1>2, <2>1, <2>2 DEF WorkerSound
<1> QED BY <1>6, <1>7, <1>9, <1>10, <1>11, <1>13, <1>14 DEF SoundStep, ProcessSound

(* A rebase loads the history its process was behind of. *)
LEMMA RebaseLoadSound ==
    ASSUME IInv, NEW p \in Proc, RebaseLoad(p) PROVE SoundStep(p)
<1> DEFINE b == [at |-> seen[p], state |-> durable[p]]
<1>1. /\ seen[p] \in Nat /\ durable[p] \in Seq(Change) /\ Len(store) \in Nat
      /\ pc[p] = "rebasing" /\ pending[p] # <<>> /\ seen[p] < Len(store)
      /\ seen[p] # 0
  BY LenProperties DEF IInv, TypeOK, ProcessSound, WorkerSound, Rebasing, Positioned,
                       RebaseLoad
<1>2. /\ checkpoints' = checkpoints /\ pending' = pending
      /\ UNCHANGED <<closed, stops, accepted, refused, lost, published>>
      /\ \/ /\ Refreshed(p, b) /\ Goto(p, "replaying")
            /\ durable' = [durable EXCEPT ![p] = live'[p]]
            /\ UNCHANGED <<goal, tries>>
         \/ /\ Unread(p, b) \/ Refuted(p, b)
            /\ Leave(p) /\ durable' = durable
  BY DEF RebaseLoad
<1>3. b \in Checkpoint /\ b.at = seen[p] BY <1>1 DEF Checkpoint
<1> HIDE DEF b
<1>4. /\ store' \in Seq(Operation) /\ seen' \in [Proc -> Nat]
      /\ live' \in [Proc -> Seq(Change)] /\ faults' \in Nat
  BY <1>1, <1>2, <1>3, RefreshType DEF IInv
<1>5. HistoryReplays' /\ CheckpointsSound' /\ Grows
  <2>1. store' \in {store, Listed} BY <1>2 DEF Refreshed, Unread, Refuted
  <2> QED BY <1>2, <2>1, StoreListed
<1>6. Settles(p)' BY <1>1, <1>2 DEF Settles
<1>7. CASE Refreshed(p, b) /\ Goto(p, "replaying")
            /\ durable' = [durable EXCEPT ![p] = live'[p]] /\ UNCHANGED <<goal, tries>>
  <2>1. /\ seen' = [seen EXCEPT ![p] = Len(store')] /\ Len(store') \in Nat \ {0}
        /\ live'[p] = StateAt(seen[p])'
        /\ \A q \in Proc \ {p} : live'[q] = live[q]
    BY <1>1, <1>3, <1>7, RefreshedSound
  <2>2. TypeOK'
    <3>1. "replaying" \in Location BY DEF Location
    <3>2. durable' \in [Proc -> Seq(Change)] BY <1>4, <1>7 DEF IInv, TypeOK
    <3> QED BY <1>2, <1>4, <1>7, <3>1, <3>2, GotoType DEF IInv, TypeOK
  <2>3. pc'[p] = "replaying" /\ done'[p] = 0 BY <1>7 DEF IInv, TypeOK, Goto
  <2>4. \A q \in Proc \ {p} : Frame(q)
    BY <1>2, <1>7, <2>1 DEF IInv, TypeOK, Goto, Frame
  <2>5. durable'[p] = live'[p] /\ seen'[p] = Len(store')
    BY <1>7, <2>1 DEF IInv, TypeOK
  <2>6. Positioned(p)' BY <2>1, <2>5 DEF Positioned
  <2>7. CleanOrBehindAt(p)' BY <2>3 DEF CleanOrBehindAt
  <2>8. Replaying(p)'
    <3>1. SubSeq(pending[p], 1, 0) = <<>> BY SubSeqEmpty
    <3>2. live'[p] \o <<>> = live'[p] BY <1>4, ConcatEmptySeq
    <3>3. 0 <= Len(pending[p]) BY LenProperties DEF IInv, TypeOK
    <3> QED BY <1>2, <2>1, <2>3, <2>5, <3>1, <3>2, <3>3 DEF Replaying
  <2>9. WorkerSound(p)' BY <2>3, <2>8 DEF WorkerSound
  <2> QED BY <1>5, <1>6, <2>2, <2>4, <2>6, <2>7, <2>9 DEF SoundStep, ProcessSound
<1>8. CASE (Unread(p, b) \/ Refuted(p, b)) /\ Leave(p) /\ durable' = durable
  <2>1. /\ seen'[p] \in Nat /\ seen[p] <= seen'[p] /\ seen'[p] <= Len(store')
        /\ seen'[p] = seen[p] \/ seen'[p] < Len(store')
        /\ \A q \in Proc \ {p} : seen'[q] = seen[q] /\ live'[q] = live[q]
    BY <1>1, <1>3, <1>8, StoppedSound
  <2>2. TypeOK' BY <1>2, <1>4, <1>8, LeaveType DEF IInv, TypeOK
  <2>3. pc'[p] = "idle" /\ done'[p] = 0 BY <1>8 DEF IInv, TypeOK, Leave, Goto
  <2>4. \A q \in Proc \ {p} : Frame(q)
    BY <1>2, <1>8, <2>1 DEF IInv, TypeOK, Leave, Goto, Frame
  <2>5. seen'[p] # 0 BY <1>1, <2>1
  <2>6. Positioned(p)' BY <2>1, <2>5 DEF Positioned
  <2>7. seen'[p] < Len(store') BY <1>1, <1>4, <1>5, <2>1, LenProperties DEF Grows
  <2>8. CleanOrBehindAt(p)' BY <2>3, <2>7 DEF CleanOrBehindAt
  <2>9. WorkerSound(p)' BY <2>3 DEF WorkerSound
  <2> QED BY <1>5, <1>6, <2>2, <2>4, <2>6, <2>8, <2>9 DEF SoundStep, ProcessSound
<1> QED BY <1>2, <1>7, <1>8

(* It then replays what was pending, one change at a time. *)
LEMMA RebaseReplaySound ==
    ASSUME IInv, NEW p \in Proc, RebaseReplay(p) PROVE SoundStep(p)
<1> DEFINE q == pending[p]
           d == done[p]
           c == q[d + 1]
<1>1. /\ pc[p] = "replaying" /\ d < Len(q) /\ d \in Nat /\ Len(q) \in Nat
      /\ q \in Seq(Change) /\ live[p] \in Seq(Change) /\ durable[p] \in Seq(Change)
      /\ store' = store /\ checkpoints' = checkpoints
      /\ UNCHANGED <<seen, durable, closed, pc, goal, tries, steps, accepted, lost,
                     published, faults, stops>>
  BY LenProperties DEF IInv, TypeOK, RebaseReplay
<1>2. c \in Change
  <2>1. d + 1 \in 1..Len(q) BY <1>1
  <2> QED BY <1>1, <2>1, ElementOfSeq
<1>3. Replaying(p) /\ Positioned(p)
  BY <1>1 DEF IInv, ProcessSound, WorkerSound
<1>4. HistoryReplays' /\ CheckpointsSound' /\ Grows BY <1>1, StoreUnchanged
<1>5. StateAt(seen[p])' = StateAt(seen[p]) BY <1>1 DEF StateAt
<1>6. seen[p] # 0
  <2>1. q # <<>> BY <1>1, EmptySeq
  <2> QED BY <1>3, <2>1 DEF Positioned
<1>7. Positioned(p)' BY <1>1, <1>3, <1>6 DEF Positioned
<1>8. Settles(p)' /\ CleanOrBehindAt(p)' BY <1>1 DEF Settles, CleanOrBehindAt
<1>9. CASE /\ Effective(live[p], c)
           /\ live' = [live EXCEPT ![p] = Run(live[p], c)]
           /\ done' = [done EXCEPT ![p] = d + 1]
           /\ UNCHANGED <<pending, refused>>
  <2>1. Run(live[p], c) = Append(live[p], c) BY <1>9 DEF Effective, Run
  <2>2. Append(live[p], c) \in Seq(Change) BY <1>1, <1>2, AppendProperties
  <2>3. TypeOK'
    <3>1. live' \in [Proc -> Seq(Change)] /\ done' \in [Proc -> Nat]
      BY <1>1, <1>9, <2>1, <2>2 DEF IInv, TypeOK
    <3> QED BY <1>1, <1>9, <3>1 DEF IInv, TypeOK
  <2>4. \A r \in Proc \ {p} : Frame(r) BY <1>1, <1>9 DEF IInv, TypeOK, Frame
  <2>5. live'[p] = Append(live[p], c) /\ done'[p] = d + 1
    BY <1>9, <2>1 DEF IInv, TypeOK
  <2>6. Append(live[p], c) = durable[p] \o SubSeq(q, 1, d + 1)
    <3> DEFINE u == SubSeq(q, 1, d)
    <3>1. SubSeq(q, 1, d + 1) = Append(u, c) BY <1>1, PrefixSucc
    <3>2. u \in Seq(Change) BY <1>1, SubSeqType
    <3>3. live[p] = durable[p] \o u BY <1>3 DEF Replaying
    <3>4. durable[p] \o Append(u, c) = Append(durable[p] \o u, c)
      BY <1>1, <1>2, <3>2, ConcatAppend
    <3> HIDE DEF u, c, q, d
    <3> QED BY <3>1, <3>3, <3>4
  <2>7. Replaying(p)'
    <3>1. durable'[p] = StateAt(seen[p])' BY <1>1, <1>3, <1>5 DEF Replaying
    <3>2. done'[p] <= Len(pending'[p]) BY <1>1, <1>9, <2>5
    <3>3. live'[p] = durable'[p] \o SubSeq(pending'[p], 1, done'[p])
      BY <1>1, <1>9, <2>5, <2>6
    <3> QED BY <3>1, <3>2, <3>3 DEF Replaying
  <2>8. WorkerSound(p)' BY <1>1, <2>7 DEF WorkerSound
  <2> QED BY <1>4, <1>7, <1>8, <2>3, <2>4, <2>8 DEF SoundStep, ProcessSound
<1>10. CASE /\ pending' = [pending EXCEPT ![p] = SubSeq(q, 1, d) \o SubSeq(q, d + 2, Len(q))]
            /\ refused' \in {refused, refused \cup {c}}
            /\ UNCHANGED <<live, done>>
  <2> DEFINE t == SubSeq(q, 1, d) \o SubSeq(q, d + 2, Len(q))
  <2>1. t \in Seq(Change) /\ Len(t) = Len(q) - 1 /\ SubSeq(t, 1, d) = SubSeq(q, 1, d)
    BY <1>1, PrefixOfDrop
  <2>2. pending' = [pending EXCEPT ![p] = t] BY <1>10
  <2> HIDE DEF t
  <2>3. TypeOK' BY <1>1, <1>2, <1>10, <2>1, <2>2 DEF IInv, TypeOK
  <2>4. \A r \in Proc \ {p} : Frame(r) BY <1>1, <1>10, <2>2 DEF IInv, TypeOK, Frame
  <2>5. pending'[p] = t BY <2>2 DEF IInv, TypeOK
  <2>6. Replaying(p)'
    <3>1. durable'[p] = StateAt(seen[p])' BY <1>1, <1>3, <1>5 DEF Replaying
    <3>2. done'[p] = d /\ d <= Len(t) BY <1>1, <1>10, <2>1
    <3>3. live'[p] = durable'[p] \o SubSeq(t, 1, d)
      BY <1>1, <1>3, <1>10, <2>1 DEF Replaying
    <3> QED BY <2>5, <3>1, <3>2, <3>3 DEF Replaying
  <2>7. WorkerSound(p)' BY <1>1, <2>6 DEF WorkerSound
  <2> QED BY <1>4, <1>7, <1>8, <2>3, <2>4, <2>7 DEF SoundStep, ProcessSound
<1> QED BY <1>9, <1>10 DEF RebaseReplay

-----------------------------------------------------------------------------
(* Durable transactions, and crashes.                                      *)

(* A durable transaction reads the history up to its head. *)
LEMMA DurableRefreshSound ==
    ASSUME IInv, NEW p \in Proc, DurableRefresh(p) PROVE SoundStep(p)
<1> DEFINE c == goal[p]
<1>1. /\ pc[p] = "committing" /\ pending[p] = <<>> /\ c # NoChange
      /\ durable' = [durable EXCEPT ![p] = live'[p]]
      /\ UNCHANGED <<checkpoints, pending, closed, accepted, refused, lost, stops>>
  BY DEF IInv, ProcessSound, WorkerSound, DurableRefresh
<1>2. c \in Change BY <1>1 DEF IInv, TypeOK
<1>3. /\ \/ /\ Goto(p, "creating")
            /\ tries' = [tries EXCEPT ![p] = tries[p] + 1]
            /\ goal' = goal
         \/ Leave(p)
      /\ published' \in {published, published \cup {c}}
  BY DEF DurableRefresh
<1>4. PICK b \in Base(p) : Refreshed(p, b) \/ Unread(p, b) BY DEF DurableRefresh
<1>5. /\ b \in Checkpoint /\ b.at \in Nat /\ seen[p] <= b.at /\ b.at <= Len(store)
      /\ b.state = StateAt(b.at) /\ live[p] = StateAt(seen[p])
  BY <1>1, SettledState, BaseSound
<1>6. /\ store' \in Seq(Operation) /\ seen' \in [Proc -> Nat]
      /\ live' \in [Proc -> Seq(Change)] /\ faults' \in Nat
  BY <1>4, <1>5, RefreshType DEF IInv
<1>7. TypeOK'
  <2>1. durable' \in [Proc -> Seq(Change)] BY <1>1, <1>6 DEF IInv, TypeOK
  <2>2. published' \subseteq Change BY <1>2, <1>3 DEF IInv, TypeOK
  <2>3. /\ pc' \in [Proc -> Location]
        /\ steps' \in [Proc -> Seq(AppendStep)]
        /\ done' \in [Proc -> Nat]
        /\ goal' \in [Proc -> Change \cup {NoChange}]
        /\ tries' \in [Proc -> Nat]
    <3>1. CASE Leave(p) BY <3>1, LeaveType DEF IInv
    <3>2. CASE /\ Goto(p, "creating")
               /\ tries' = [tries EXCEPT ![p] = tries[p] + 1] /\ goal' = goal
      <4>1. "creating" \in Location BY DEF Location
      <4>2. /\ pc' \in [Proc -> Location]
            /\ steps' \in [Proc -> Seq(AppendStep)] /\ done' \in [Proc -> Nat]
        BY <3>2, <4>1, GotoType DEF IInv
      <4>3. goal' \in [Proc -> Change \cup {NoChange}] /\ tries' \in [Proc -> Nat]
        BY <3>2 DEF IInv, TypeOK
      <4> QED BY <4>2, <4>3
    <3> QED BY <1>3, <3>1, <3>2
  <2> QED BY <1>1, <1>6, <2>1, <2>2, <2>3 DEF IInv, TypeOK
<1>8. HistoryReplays' /\ CheckpointsSound' /\ Grows
  <2>1. store' \in {store, Listed} BY <1>4 DEF Refreshed, Unread
  <2> QED BY <1>1, <2>1, StoreListed
<1>9. /\ live'[p] = StateAt(seen[p])' /\ seen'[p] <= Len(store')
      /\ \A q \in Proc \ {p} : seen'[q] = seen[q] /\ live'[q] = live[q]
  <2>1. CASE Refreshed(p, b)
    <3>1. /\ seen' = [seen EXCEPT ![p] = Len(store')] /\ Len(store') \in Nat \ {0}
          /\ live'[p] = StateAt(seen[p])'
          /\ \A q \in Proc \ {p} : live'[q] = live[q]
      BY <1>5, <2>1, RefreshedSound
    <3> QED BY <3>1 DEF IInv, TypeOK
  <2>2. CASE Unread(p, b) BY <1>5, <2>2, StoppedSound
  <2> QED BY <1>4, <2>1, <2>2
<1>10. durable'[p] = live'[p] BY <1>1 DEF IInv, TypeOK
<1>11. Clean(p)'
  <2>1. live'[p] \o <<>> = live'[p] BY <1>6, ConcatEmptySeq
  <2> QED BY <1>1, <1>9, <1>10, <2>1 DEF Clean
<1>12. Positioned(p)'
  <2>1. seen'[p] = 0 => live'[p] = <<>> BY <1>9 DEF StateAt
  <2> QED BY <1>1, <1>9, <1>10, <2>1 DEF Positioned
<1>13. Settles(p)' /\ CleanOrBehindAt(p)' BY <1>9, <1>11 DEF Settles, CleanOrBehindAt
<1>14. /\ done'[p] = 0
       /\ pc'[p] = "idle" \/ (pc'[p] = "creating" /\ goal'[p] # NoChange)
  BY <1>1, <1>3 DEF IInv, TypeOK, Leave, Goto
<1>15. \A q \in Proc \ {p} : Frame(q)
  BY <1>1, <1>3, <1>9 DEF IInv, TypeOK, Leave, Goto, Frame
<1>16. WorkerSound(p)' BY <1>1, <1>11, <1>14 DEF WorkerSound
<1> QED BY <1>7, <1>8, <1>12, <1>13, <1>15, <1>16 DEF SoundStep, ProcessSound

(* And creates one operation over it. *)
LEMMA DurableCreateSound ==
    ASSUME IInv, NEW p \in Proc, DurableCreate(p) PROVE SoundStep(p)
<1> DEFINE c == goal[p]
           op == [patch |-> <<c>>, state |-> Append(live[p], c)]
<1>1. /\ pc[p] = "creating" /\ pending[p] = <<>> /\ Clean(p) /\ c \in Change
      /\ Leave(p) /\ UNCHANGED <<pending, closed, refused, lost, stops>>
      /\ \/ Created(op) /\ ~Occupied(seen[p] + 1)
         \/ CreateFails(seen[p] + 1, op)
  BY DEF IInv, TypeOK, ProcessSound, WorkerSound, DurableCreate
<1>2. /\ seen[p] \in Nat /\ Len(store) \in Nat /\ seen[p] <= Len(store)
      /\ live[p] \in Seq(Change) /\ durable[p] \in Seq(Change) /\ done[p] = 0
  BY <1>1, LenProperties DEF IInv, TypeOK, ProcessSound, Positioned, WorkerSound
<1>3. live[p] = durable[p] /\ durable[p] = StateAt(seen[p])
  BY <1>1, <1>2, ConcatEmptySeq DEF Clean
<1>4. op \in Operation /\ op.state \in Seq(Change) /\ op.state = live[p] \o op.patch
  <2>1. <<c>> \in Seq(Change) /\ Append(live[p], c) \in Seq(Change)
    BY <1>1, <1>2, AppendProperties
  <2>2. Append(live[p], c) = live[p] \o <<c>> BY <1>1, <1>2, AppendIsConcat
  <2> HIDE DEF c
  <2> QED BY <2>1, <2>2 DEF Operation
<1>5. ~Occupied(seen[p] + 1) => Len(store) = seen[p] /\ op.state = Retained \o op.patch
  BY <1>2, <1>3, <1>4 DEF Occupied, Retained
<1>6. /\ pc'[p] = "idle" /\ done'[p] = 0
      /\ pc' \in [Proc -> Location] /\ steps' \in [Proc -> Seq(AppendStep)]
      /\ done' \in [Proc -> Nat] /\ goal' \in [Proc -> Change \cup {NoChange}]
      /\ tries' \in [Proc -> Nat]
  BY <1>1, LeaveType DEF IInv, TypeOK, Leave, Goto
<1>7. store' \in Seq(Operation) /\ faults' \in Nat /\ Len(store') \in Nat
  <2> HIDE DEF op
  <2> QED BY <1>1, <1>4, CreateType, LenProperties DEF IInv
<1>8. WorkerSound(p)' BY <1>6 DEF WorkerSound
<1>9. CASE /\ ~Occupied(seen[p] + 1) /\ Created(op)
           /\ seen' = [seen EXCEPT ![p] = seen[p] + 1]
           /\ live' = [live EXCEPT ![p] = op.state]
           /\ durable' = [durable EXCEPT ![p] = op.state]
           /\ accepted' = accepted \cup {c}
           /\ published' = published \cup {c}
           /\ Checkpointed(seen[p] + 1, op.state)
  <2>1. /\ HistoryReplays' /\ Grows
        /\ Len(store') = Len(store) + 1 /\ store'[Len(store) + 1] = op
    <3>1. store' = Append(store, op) BY <1>9 DEF Created
    <3> HIDE DEF op
    <3> QED BY <1>4, <1>5, <1>9, <3>1, StoreAppended
  <2>2. CheckpointsSound' /\ checkpoints' \subseteq Checkpoint
    <3>1. /\ seen[p] + 1 \in Nat /\ seen[p] + 1 <= Len(store')
          /\ store'[seen[p] + 1].state = op.state
      BY <1>2, <1>5, <1>9, <2>1
    <3> HIDE DEF op
    <3> QED BY <1>2, <1>4, <1>7, <1>9, <2>1, <3>1, CheckpointedSound
  <2>3. TypeOK'
    <3>1. seen' \in [Proc -> Nat] /\ live' \in [Proc -> Seq(Change)]
          /\ durable' \in [Proc -> Seq(Change)]
      <4> HIDE DEF op
      <4> QED BY <1>2, <1>4, <1>9 DEF IInv, TypeOK
    <3>2. accepted' \subseteq Change /\ published' \subseteq Change
      BY <1>1, <1>9 DEF IInv, TypeOK
    <3> HIDE DEF op
    <3> QED BY <1>1, <1>6, <1>7, <2>2, <3>1, <3>2 DEF IInv, TypeOK
  <2>4. seen'[p] = seen[p] + 1 /\ live'[p] = op.state /\ durable'[p] = op.state
    BY <1>9 DEF IInv, TypeOK
  <2>5. \A q \in Proc \ {p} : Frame(q)
    BY <1>1, <1>9 DEF IInv, TypeOK, Leave, Goto, Frame
  <2>6. StateAt(seen[p])' = op.state
    <3>1. seen'[p] = Len(store) + 1 /\ seen'[p] # 0 BY <1>2, <1>5, <1>9, <2>4
    <3> HIDE DEF op
    <3> QED BY <2>1, <3>1 DEF StateAt
  <2>7. Clean(p)'
    <3> HIDE DEF op
    <3>1. op.state \o <<>> = op.state BY <1>4, ConcatEmptySeq
    <3> QED BY <1>1, <2>4, <2>6, <3>1 DEF Clean
  <2>8. Positioned(p)' BY <1>2, <1>5, <1>9, <2>1, <2>4 DEF Positioned
  <2>9. Settles(p)' /\ CleanOrBehindAt(p)'
    BY <2>4, <2>6, <2>7 DEF Settles, CleanOrBehindAt
  <2> QED BY <1>8, <2>1, <2>2, <2>3, <2>5, <2>8, <2>9 DEF SoundStep, ProcessSound
<1>10. CASE /\ CreateFails(seen[p] + 1, op)
            /\ UNCHANGED <<seen, live, durable, accepted, published, checkpoints>>
  <2>1. HistoryReplays' /\ Grows /\ CheckpointsSound'
    <3>1. CASE store' = store BY <1>10, <3>1, StoreUnchanged
    <3>2. CASE store' # store
      <4>1. ~Occupied(seen[p] + 1) /\ store' = Append(store, op)
        BY <1>10, <3>2 DEF CreateFails
      <4> HIDE DEF op
      <4> QED BY <1>4, <1>5, <1>10, <4>1, StoreAppended
    <3> QED BY <3>1, <3>2
  <2>2. TypeOK' BY <1>1, <1>6, <1>7, <1>10 DEF IInv, TypeOK
  <2>3. \A q \in Proc \ {p} : Frame(q)
    BY <1>1, <1>10 DEF IInv, TypeOK, Leave, Goto, Frame
  <2>4. StateAt(seen[p])' = StateAt(seen[p])
    <3>1. StateAt(seen[p])' = (IF seen[p] = 0 THEN <<>> ELSE store'[seen[p]].state)
      BY <1>10 DEF StateAt
    <3>2. seen[p] # 0 => store'[seen[p]] = store[seen[p]] BY <1>2, <2>1 DEF Grows
    <3> QED BY <3>1, <3>2 DEF StateAt
  <2>5. Clean(p)' BY <1>1, <1>10, <2>4 DEF Clean
  <2>6. Positioned(p)'
    BY <1>2, <1>7, <1>10, <1>1, <2>1 DEF IInv, ProcessSound, Positioned, Grows
  <2>7. Settles(p)' /\ CleanOrBehindAt(p)'
    BY <1>3, <1>10, <2>4, <2>5 DEF Settles, CleanOrBehindAt
  <2> QED BY <1>8, <2>1, <2>2, <2>3, <2>6, <2>7 DEF SoundStep, ProcessSound
<1> QED BY <1>9, <1>10 DEF DurableCreate

(* A process that dies holds nothing of the history. *)
LEMMA CrashSound ==
    ASSUME IInv, NEW p \in Proc, Crash(p) PROVE SoundStep(p)
<1>1. /\ Leave(p) /\ UNCHANGED <<store, checkpoints, accepted, refused, published, faults>>
      /\ seen' = [seen EXCEPT ![p] = 0] /\ live' = [live EXCEPT ![p] = <<>>]
      /\ durable' = [durable EXCEPT ![p] = <<>>]
      /\ pending' = [pending EXCEPT ![p] = <<>>]
      /\ closed' = [closed EXCEPT ![p] = FALSE]
      /\ lost' = lost \cup Entries(pending[p])
      /\ stops' = stops \/ stops' = stops + 1
  BY DEF Crash
<1>2. HistoryReplays' /\ CheckpointsSound' /\ Grows BY <1>1, StoreUnchanged
<1>3. TypeOK'
  <2>1. closed' \in [Proc -> BOOLEAN] BY <1>1, Zenon DEF IInv, TypeOK
  <2>2. /\ seen' \in [Proc -> Nat] /\ live' \in [Proc -> Seq(Change)]
        /\ durable' \in [Proc -> Seq(Change)] /\ pending' \in [Proc -> Seq(Change)]
    BY <1>1, EmptySeq DEF IInv, TypeOK
  <2>3. lost' \subseteq Change BY <1>1, EntriesType DEF IInv, TypeOK
  <2>4. stops' \in Nat BY <1>1 DEF IInv, TypeOK
  <2> QED BY <1>1, <2>1, <2>2, <2>3, <2>4, LeaveType DEF IInv, TypeOK
<1>4. /\ seen'[p] = 0 /\ live'[p] = <<>> /\ durable'[p] = <<>> /\ pending'[p] = <<>>
      /\ pc'[p] = "idle" /\ done'[p] = 0
  BY <1>1 DEF IInv, TypeOK, Leave, Goto
<1>5. \A q \in Proc \ {p} : Frame(q) BY <1>1 DEF IInv, TypeOK, Leave, Goto, Frame
<1>6. StateAt(seen[p])' = <<>> BY <1>4 DEF StateAt
<1>7. Clean(p)'
  <2>1. <<>> \o <<>> = <<>> BY EmptySeq, ConcatEmptySeq
  <2> QED BY <1>4, <1>6, <2>1 DEF Clean
<1>8. Positioned(p)'
  <2>1. 0 <= Len(store') BY <1>1, LenProperties DEF IInv, TypeOK
  <2> QED BY <1>4, <2>1 DEF Positioned
<1>9. Settles(p)' /\ CleanOrBehindAt(p)' BY <1>4, <1>6, <1>7 DEF Settles, CleanOrBehindAt
<1>10. WorkerSound(p)' BY <1>4 DEF WorkerSound
<1> QED BY <1>2, <1>3, <1>5, <1>8, <1>9, <1>10 DEF SoundStep, ProcessSound

-----------------------------------------------------------------------------
(* The theorems.                                                           *)

(* The initial state satisfies the invariant. *)
LEMMA InitSound == ASSUME Init PROVE IInv
<1>1. TypeOK BY InitType
<1>2. store = <<>> /\ Len(store) = 0 /\ checkpoints = {} BY EmptySeq DEF Init
<1>3. HistoryReplays /\ CheckpointsSound BY <1>2 DEF HistoryReplays, CheckpointsSound
<1>4. ASSUME NEW p \in Proc PROVE ProcessSound(p)
  <2>1. /\ seen[p] = 0 /\ live[p] = <<>> /\ durable[p] = <<>> /\ pending[p] = <<>>
        /\ pc[p] = "idle" /\ done[p] = 0
    BY DEF Init
  <2>2. <<>> \o <<>> = <<>> BY EmptySeq, ConcatEmptySeq
  <2>3. Clean(p) BY <2>1, <2>2 DEF Clean, StateAt
  <2> QED BY <1>2, <2>1, <2>3
       DEF ProcessSound, Positioned, Settles, WorkerSound, CleanOrBehindAt, StateAt
<1> QED BY <1>1, <1>3, <1>4 DEF IInv

(* Every step of the system keeps the invariant. *)
LEMMA NextSound == ASSUME IInv, [Next]_vars PROVE IInv'
<1>1. ASSUME NEW p \in Proc, Load(p) PROVE IInv'
  BY <1>1, LoadSound, StepKeepsIInv
<1>2. ASSUME NEW p \in Proc, FlushBegin(p) PROVE IInv'
  BY <1>2, FlushBeginSound, StepKeepsIInv
<1>3. ASSUME NEW p \in Proc, Close(p) PROVE IInv'
  BY <1>3, CloseSound, StepKeepsIInv
<1>4. ASSUME NEW p \in Proc, Crash(p) PROVE IInv'
  BY <1>4, CrashSound, StepKeepsIInv
<1>5. ASSUME NEW p \in Proc, NEW c \in Change, Accept(p, c) PROVE IInv'
  BY <1>5, AcceptSound, StepKeepsIInv
<1>6. ASSUME NEW p \in Proc, NEW c \in Change, DurableBegin(p, c) PROVE IInv'
  BY <1>6, DurableBeginSound, StepKeepsIInv
<1>7. ASSUME NEW p \in Proc, Worker(p) PROVE IInv'
  <2>1. CASE FlushSnapshot(p) BY <2>1, FlushSnapshotSound, StepKeepsIInv
  <2>2. CASE FlushReturn(p) BY <2>2, FlushReturnSound, StepKeepsIInv
  <2>3. CASE FlushContention(p) \/ DurableContention(p)
    BY <2>3, ContentionSound, StepKeepsIInv
  <2>4. CASE AppendCreate(p) BY <2>4, AppendCreateSound, StepKeepsIInv
  <2>5. CASE AppendFails(p) BY <2>5, AppendFailsSound, StepKeepsIInv
  <2>6. CASE AppendConflict(p) BY <2>6, AppendConflictSound, StepKeepsIInv
  <2>7. CASE AppendDone(p) BY <2>7, AppendDoneSound, StepKeepsIInv
  <2>8. CASE RebaseLoad(p) BY <2>8, RebaseLoadSound, StepKeepsIInv
  <2>9. CASE RebaseReplay(p) BY <2>9, RebaseReplaySound, StepKeepsIInv
  <2>10. CASE RebaseDone(p) BY <2>10, RebaseDoneSound, StepKeepsIInv
  <2>11. CASE DurableLock(p) BY <2>11, DurableLockSound, StepKeepsIInv
  <2>12. CASE DurableRefresh(p) BY <2>12, DurableRefreshSound, StepKeepsIInv
  <2>13. CASE DurableCreate(p) BY <2>13, DurableCreateSound, StepKeepsIInv
  <2>14. CASE DurableConflict(p) BY <2>14, DurableConflictSound, StepKeepsIInv
  <2> QED
    BY <1>7, <2>1, <2>2, <2>3, <2>4, <2>5, <2>6, <2>7, <2>8, <2>9, <2>10, <2>11,
       <2>12, <2>13, <2>14 DEF Worker
<1>8. CASE UNCHANGED vars
  <2>1. \A i : StateAt(i)' = StateAt(i) BY <1>8 DEF vars, StateAt
  <2>2. TypeOK' BY <1>8 DEF IInv, TypeOK, vars
  <2>3. checkpoints' = checkpoints /\ store' = store BY <1>8 DEF vars
  <2>4. HistoryReplays' /\ CheckpointsSound' /\ Grows BY <2>3, StoreUnchanged
  <2>5. ASSUME NEW p \in Proc PROVE ProcessSound(p)'
    <3>1. Frame(p) BY <1>8 DEF vars, Frame
    <3> QED BY <2>2, <2>4, <3>1, RelyProcess DEF IInv
  <2> QED BY <2>2, <2>4, <2>5 DEF IInv
<1> QED BY <1>1, <1>2, <1>3, <1>4, <1>5, <1>6, <1>7, <1>8 DEF Next

(* The inductive invariant holds throughout. *)
THEOREM InductiveInvariant == Spec => []IInv
BY InitSound, NextSound, PTL DEF Spec

(* Every variable keeps the shape it is declared with. *)
THEOREM TypeCorrect == Spec => []TypeOK
<1>1. IInv => TypeOK BY DEF IInv
<1> QED BY <1>1, InductiveInvariant, PTL

(* Whatever processes append, lose, retry and rebase, the retained history *)
(* replays: each operation's patch leads from its predecessor's state to   *)
(* the state it was committed with.                                        *)
THEOREM RetainedHistoryReplays == Spec => []HistoryReplays
<1>1. IInv => HistoryReplays BY DEF IInv
<1> QED BY <1>1, InductiveInvariant, PTL

(* Memory is the retained state and what is pending, or the process is     *)
(* behind and the store refuses what it would append.                      *)
THEOREM MemoryCleanOrBehind == Spec => []CleanOrBehind
<1>1. IInv => CleanOrBehind
  BY DEF IInv, ProcessSound, CleanOrBehindAt, CleanOrBehind
<1> QED BY <1>1, InductiveInvariant, PTL

(* A process that loads, or that commits durably, is never held by the     *)
(* history: every digest it meets checks.                                  *)
THEOREM LegalRunsAreNeverHeld == Spec => []NeverHeld
<1>1. IInv => NeverHeld
  <2> SUFFICES ASSUME IInv, NEW p \in Proc,
                      seen[p] = 0 \/ (pending[p] = <<>> /\ pc[p] # "replaying"),
                      NEW b \in Base(p)
               PROVE  Verified(p, b, Len(Listed))
    BY DEF NeverHeld
  <2>1. /\ b.at \in Nat /\ b.at <= Len(store) /\ b.state = StateAt(b.at)
        /\ Len(Listed) \in Nat \ {0} /\ Len(store) \in Nat
        /\ Len(store) # 0 => Listed = store
        /\ Len(store) = 0 => Listed = <<Genesis>>
    BY SettledState, BaseSound, ListedSound
  <2>2. CASE Len(store) = 0
    <3>1. /\ b.at = 0 /\ b.state = <<>> /\ Len(Listed) = 1
          /\ Listed[1].patch = <<>> /\ Listed[1].state = <<>>
      BY <2>1, <2>2 DEF StateAt, Genesis
    <3>2. <<>> \o <<>> = <<>> BY EmptySeq, ConcatEmptySeq
    <3> QED BY <3>1, <3>2 DEF Verified
  <2>3. CASE Len(store) # 0
    <3>1. Listed = store BY <2>1, <2>3
    <3>2. b.at \in 1..Len(store) => b.state = store[b.at].state BY <2>1 DEF StateAt
    <3>3. ASSUME NEW i \in b.at + 1..Len(store)
          PROVE  (IF i = b.at + 1 THEN b.state ELSE store[i - 1].state) \o store[i].patch
                   = store[i].state
      <4>1. i \in 1..Len(store) /\ i - 1 \in Nat /\ i \in Int BY <2>1
      <4>2. store[i].state = StateAt(i - 1) \o store[i].patch
        BY <4>1 DEF IInv, HistoryReplays
      <4>3. StateAt(i - 1) = IF i = b.at + 1 THEN b.state ELSE store[i - 1].state
        <5>1. CASE i = b.at + 1
          <6>1. i - 1 = b.at BY <2>1, <5>1
          <6> QED BY <2>1, <5>1, <6>1
        <5>2. CASE i # b.at + 1
          <6>1. i - 1 # 0 BY <2>1, <5>2
          <6> QED BY <5>2, <6>1 DEF StateAt
        <5> QED BY <5>1, <5>2
      <4> QED BY <4>2, <4>3
    <3> QED BY <2>1, <3>1, <3>2, <3>3 DEF Verified
  <2> QED BY <2>2, <2>3
<1> QED BY <1>1, InductiveInvariant, PTL

=============================================================================
