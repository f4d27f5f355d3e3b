----------------------------- MODULE LedgerProofs -----------------------------
(***************************************************************************)
(* Proofs about CaptureJournal, for every instance, over its inductive     *)
(* invariant: nothing that was accepted is lost silently, a keyed change   *)
(* takes effect once, and the journal implements CaptureLedger.            *)
(***************************************************************************)
EXTENDS CaptureJournalProofs

(* What retained states, and what memory holds of them, have in common: no *)
(* keyed change is in them twice, and nothing follows a close but control. *)
Once(s) ==
    \A i, j \in 1..Len(s) : (i # j /\ s[i] = s[j]) => s[i] \notin Keyed

Legal(s) == Once(s) /\ Ledger!ClosedStaysClosed(s)

LegalProcess(p) ==
    /\ Legal(live[p]) /\ Legal(durable[p])
    /\ pc[p] = "creating" => Effective(live[p], goal[p])

LegalStore == \A i \in 1..Len(store) : Legal(store[i].state)

(* Every retained state has all its entries in the newest. *)
Nested == \A i \in 1..Len(store) : Entries(store[i].state) \subseteq Entries(Retained)

LedgerInv ==
    /\ Nested /\ LegalStore /\ \A p \in Proc : LegalProcess(p)
    /\ NoSilentLoss
    /\ published \subseteq Entries(Retained)

-----------------------------------------------------------------------------
(* States. *)

LEMMA EntriesOfConcat ==
    ASSUME NEW s \in Seq(Change), NEW t \in Seq(Change)
    PROVE  Entries(s \o t) = Entries(s) \cup Entries(t)
<1> DEFINE u == s \o t
<1>1. /\ Len(s) \in Nat /\ Len(t) \in Nat /\ Len(u) = Len(s) + Len(t)
      /\ \A i \in 1..Len(u) : u[i] = IF i <= Len(s) THEN s[i] ELSE t[i - Len(s)]
  BY LenProperties, ConcatProperties
<1> HIDE DEF u
<1>2. ASSUME NEW x \in Entries(u) PROVE x \in Entries(s) \cup Entries(t)
  <2>1. PICK i \in 1..Len(u) : x = u[i] BY <1>2 DEF Entries
  <2>2. CASE i <= Len(s) BY <1>1, <2>1, <2>2 DEF Entries
  <2>3. CASE i > Len(s)
    <3>1. i - Len(s) \in 1..Len(t) /\ x = t[i - Len(s)] BY <1>1, <2>1, <2>3
    <3> QED BY <3>1 DEF Entries
  <2> QED BY <1>1, <2>2, <2>3
<1>3. ASSUME NEW x \in Entries(s) PROVE x \in Entries(u)
  <2>1. PICK i \in 1..Len(s) : x = s[i] BY <1>3 DEF Entries
  <2>2. i \in 1..Len(u) /\ u[i] = x BY <1>1, <2>1
  <2> QED BY <2>2 DEF Entries
<1>4. ASSUME NEW x \in Entries(t) PROVE x \in Entries(u)
  <2>1. PICK i \in 1..Len(t) : x = t[i] BY <1>4 DEF Entries
  <2>2. i + Len(s) \in 1..Len(u) /\ u[i + Len(s)] = x BY <1>1, <2>1
  <2> QED BY <2>2 DEF Entries
<1> QED BY <1>2, <1>3, <1>4 DEF u

LEMMA EntriesOfAppend ==
    ASSUME NEW s \in Seq(Change), NEW c \in Change
    PROVE  Entries(Append(s, c)) = Entries(s) \cup {c}
<1>1. <<c>> \in Seq(Change) /\ Append(s, c) = s \o <<c>> BY AppendIsConcat
<1>2. Entries(<<c>>) = {c} BY DEF Entries
<1> QED BY <1>1, <1>2, EntriesOfConcat

(* An effective change is appended, and was not there if it is keyed. *)
LEMMA EffectiveIsNew ==
    ASSUME NEW s \in Seq(Change), NEW c \in Change, Effective(s, c)
    PROVE  Run(s, c) = Append(s, c) /\ (c \in Keyed => c \notin Entries(s)) /\ Admits(s, c)
BY DEF Effective, Run

(* One that is admitted and has nothing to do is there already. *)
LEMMA IneffectiveIsThere ==
    ASSUME NEW s \in Seq(Change), NEW c \in Change, Admits(s, c), Run(s, c) = s
    PROVE  c \in Entries(s)
<1>1. Len(Append(s, c)) = Len(s) + 1 /\ Len(s) \in Nat BY AppendProperties, LenProperties
<1>2. Append(s, c) # s BY <1>1
<1> QED BY <1>2 DEF Run

LEMMA EmptyIsLegal == Legal(<<>>) /\ Entries(<<>>) = {}
BY EmptySeq DEF Legal, Once, Entries, Ledger!ClosedStaysClosed

LEMMA LegalPrefix ==
    ASSUME NEW s \in Seq(Change), NEW t \in Seq(Change), Legal(s \o t)
    PROVE  Legal(s)
<1> DEFINE u == s \o t
<1>1. /\ Len(s) \in Nat /\ Len(t) \in Nat /\ Len(u) = Len(s) + Len(t)
      /\ \A i \in 1..Len(u) : u[i] = IF i <= Len(s) THEN s[i] ELSE t[i - Len(s)]
  BY LenProperties, ConcatProperties
<1>2. Legal(u) OBVIOUS
<1> HIDE DEF u
<1>3. \A i \in 1..Len(s) : i \in 1..Len(u) /\ u[i] = s[i] BY <1>1
<1> QED BY <1>2, <1>3 DEF Legal, Once, Ledger!ClosedStaysClosed

LEMMA LegalAppend ==
    ASSUME NEW s \in Seq(Change), NEW c \in Change, Legal(s), Effective(s, c)
    PROVE  Legal(Append(s, c))
<1> DEFINE u == Append(s, c)
<1>1. /\ Len(s) \in Nat /\ Len(u) = Len(s) + 1 /\ u[Len(s) + 1] = c
      /\ \A i \in 1..Len(s) : u[i] = s[i]
  BY LenProperties, AppendProperties
<1>2. (c \in Keyed => c \notin Entries(s)) /\ Admits(s, c) BY EffectiveIsNew
<1> HIDE DEF u
<1>3. \A i \in 1..Len(s) : s[i] = c => c \notin Keyed BY <1>2 DEF Entries
<1>4. Once(u)
  <2> SUFFICES ASSUME NEW i \in 1..Len(u), NEW j \in 1..Len(u), i # j, u[i] = u[j]
               PROVE  u[i] \notin Keyed
    BY DEF Once
  <2>1. CASE i = Len(s) + 1
    <3>1. j \in 1..Len(s) BY <1>1, <2>1
    <3> QED BY <1>1, <1>3, <2>1, <3>1
  <2>2. CASE j = Len(s) + 1
    <3>1. i \in 1..Len(s) BY <1>1, <2>2
    <3> QED BY <1>1, <1>3, <2>2, <3>1
  <2>3. CASE i # Len(s) + 1 /\ j # Len(s) + 1
    <3>1. i \in 1..Len(s) /\ j \in 1..Len(s) BY <1>1, <2>3
    <3> QED BY <1>1, <3>1 DEF Legal, Once
  <2> QED BY <2>1, <2>2, <2>3
<1>5. Ledger!ClosedStaysClosed(u)
  <2> SUFFICES ASSUME NEW i \in 1..Len(u), NEW j \in 1..Len(u), i < j, u[i] \in Closing
               PROVE  u[j] \in Control
    BY DEF Ledger!ClosedStaysClosed
  <2>1. i \in 1..Len(s) /\ u[i] = s[i] BY <1>1
  <2>2. CASE j = Len(s) + 1
    <3>1. Entries(s) \cap Closing # {} BY <2>1 DEF Entries
    <3> QED BY <1>1, <1>2, <2>2, <3>1 DEF Admits
  <2>3. CASE j # Len(s) + 1
    <3>1. j \in 1..Len(s) BY <1>1, <2>3
    <3> QED BY <1>1, <2>1, <3>1 DEF Legal, Ledger!ClosedStaysClosed
  <2> QED BY <2>2, <2>3
<1> QED BY <1>4, <1>5 DEF Legal, u
-----------------------------------------------------------------------------
(* What a step does to the store. *)

Action(p) ==
    \/ Load(p) \/ FlushBegin(p) \/ Close(p) \/ Worker(p) \/ Crash(p)
    \/ \E c \in Change : Accept(p, c) \/ DurableBegin(p, c)

LEMMA ActionSound == ASSUME IInv, NEW p \in Proc, Action(p) PROVE SoundStep(p)
BY LoadSound, FlushBeginSound, CloseSound, CrashSound, AcceptSound, DurableBeginSound,
   FlushSnapshotSound, FlushReturnSound, ContentionSound, AppendCreateSound,
   AppendFailsSound, AppendConflictSound, AppendDoneSound, RebaseLoadSound,
   RebaseReplaySound, RebaseDoneSound, DurableLockSound, DurableRefreshSound,
   DurableCreateSound, DurableConflictSound
DEF Action, Worker

Appends(op) == store' = Append(store, op) /\ op.state = Retained \o op.patch

StoreStep == store' = store \/ \E op \in Operation : Appends(op)

LEMMA RetainedType ==
    ASSUME TypeOK
    PROVE  /\ Retained \in Seq(Change) /\ Len(store) \in Nat
           /\ \A i \in 1..Len(store) : store[i].state \in Seq(Change)
<1>1. Len(store) \in Nat BY LenProperties DEF TypeOK
<1>2. \A i \in 1..Len(store) : store[i] \in Operation BY ElementOfSeq DEF TypeOK
<1>3. \A i \in 1..Len(store) : store[i].state \in Seq(Change) BY <1>2 DEF Operation
<1> QED BY <1>1, <1>3, EmptySeq DEF Retained, StateAt

LEMMA GenesisStep == ASSUME IInv, store' \in {store, Listed} PROVE StoreStep
<1>1. CASE store' = store BY <1>1 DEF StoreStep
<1>2. CASE store = <<>> /\ store' = <<Genesis>>
  <2>1. Genesis \in Operation /\ Genesis.patch = <<>> /\ Genesis.state = <<>>
    BY EmptySeq DEF Genesis, Operation
  <2>2. store' = Append(store, Genesis) BY <1>2
  <2>3. Retained = <<>> BY <1>2 DEF Retained, StateAt
  <2>4. Genesis.state = Retained \o Genesis.patch BY <2>1, <2>3, EmptySeq, ConcatEmptySeq
  <2> QED BY <2>1, <2>2, <2>4 DEF StoreStep, Appends
<1> QED BY <1>1, <1>2 DEF Listed

(* What a durable transaction creates, where the revision is free.         *)
LEMMA DurableOp ==
    ASSUME IInv, NEW p \in Proc, pc[p] = "creating",
           NEW op, op = [patch |-> <<goal[p]>>, state |-> Append(live[p], goal[p])],
           ~Occupied(seen[p] + 1)
    PROVE  op \in Operation /\ op.state = Retained \o op.patch /\ goal[p] \in Change
           /\ Len(store) = seen[p]
<1>1. Clean(p) /\ pending[p] = <<>> /\ seen[p] <= Len(store) /\ goal[p] \in Change
  BY DEF IInv, TypeOK, ProcessSound, WorkerSound, Positioned
<1>2. /\ seen[p] \in Nat /\ Len(store) \in Nat /\ live[p] \in Seq(Change)
      /\ durable[p] \in Seq(Change)
  BY LenProperties DEF IInv, TypeOK
<1>3. live[p] = StateAt(seen[p]) BY <1>1, <1>2, ConcatEmptySeq DEF Clean
<1>4. Len(store) = seen[p] BY <1>1, <1>2 DEF Occupied
<1>5. <<goal[p]>> \in Seq(Change) /\ Append(live[p], goal[p]) \in Seq(Change)
      /\ Append(live[p], goal[p]) = live[p] \o <<goal[p]>>
  BY <1>1, <1>2, AppendProperties, AppendIsConcat
<1> QED BY <1>1, <1>3, <1>4, <1>5 DEF Operation, Retained

LEMMA StoreSteps == ASSUME IInv, NEW p \in Proc, Action(p) PROVE StoreStep
<1>1. CASE Load(p) \/ RebaseLoad(p) \/ DurableRefresh(p)
  <2>1. store' \in {store, Listed}
    BY <1>1 DEF Load, RebaseLoad, DurableRefresh, Refreshed, Unread, Refuted
  <2> QED BY <2>1, GenesisStep
<1>2. CASE AppendCreate(p) \/ AppendFails(p)
  <2> DEFINE op == Op(steps[p][done[p] + 1])
  <2>1. /\ pc[p] = "appending" /\ done[p] < Len(steps[p])
        /\ store' = store \/ (~Occupied(NextIndex(p)) /\ store' = Append(store, op))
    BY <1>2 DEF AppendCreate, AppendFails, Created, CreateFails
  <2>2. ~Occupied(NextIndex(p)) => op \in Operation /\ op.state = Retained \o op.patch
    BY <2>1, NextOpSound
  <2> HIDE DEF op
  <2> QED BY <2>1, <2>2 DEF StoreStep, Appends
<1>3. CASE DurableCreate(p)
  <2> DEFINE op == [patch |-> <<goal[p]>>, state |-> Append(live[p], goal[p])]
  <2>1. /\ pc[p] = "creating"
        /\ store' = store \/ (~Occupied(seen[p] + 1) /\ store' = Append(store, op))
    BY <1>3 DEF DurableCreate, Created, CreateFails
  <2>2. ~Occupied(seen[p] + 1) => op \in Operation /\ op.state = Retained \o op.patch
    BY <2>1, DurableOp
  <2> HIDE DEF op
  <2> QED BY <2>1, <2>2 DEF StoreStep, Appends
<1>4. CASE \/ FlushBegin(p) \/ Close(p) \/ Crash(p) \/ (\E c \in Change : Accept(p, c) \/ DurableBegin(p, c))
           \/ FlushSnapshot(p) \/ FlushReturn(p) \/ FlushContention(p) \/ DurableContention(p)
           \/ AppendConflict(p) \/ AppendDone(p) \/ RebaseReplay(p) \/ RebaseDone(p)
           \/ DurableLock(p) \/ DurableConflict(p)
  <2>1. store' = store
    BY <1>4 DEF FlushBegin, Close, Crash, Accept, DurableBegin, FlushSnapshot, FlushReturn,
       FlushContention, DurableContention, AppendConflict, AppendDone, RebaseReplay,
       RebaseDone, DurableLock, DurableConflict
  <2> QED BY <2>1 DEF StoreStep
<1> QED BY <1>1, <1>2, <1>3, <1>4 DEF Action, Worker

(* Retained history is extended at its end, and keeps what it held.        *)
LEMMA RetainedGrows ==
    ASSUME IInv, Nested, StoreStep
    PROVE  /\ \E t \in Seq(Change) : Retained' = Retained \o t
           /\ Entries(Retained) \subseteq Entries(Retained')
           /\ Nested'
<1>t. /\ Retained \in Seq(Change) /\ Len(store) \in Nat
      /\ \A i \in 1..Len(store) : store[i].state \in Seq(Change)
  BY RetainedType DEF IInv
<1>1. CASE store' = store
  <2>1. Retained' = Retained BY <1>1 DEF Retained, StateAt
  <2>2. Retained \o <<>> = Retained /\ <<>> \in Seq(Change) BY <1>t, ConcatEmptySeq, EmptySeq
  <2>3. Nested' BY <1>1, <2>1 DEF Nested
  <2> QED BY <2>1, <2>2, <2>3
<1>2. CASE \E op \in Operation : Appends(op)
  <2>1. PICK op \in Operation : Appends(op) BY <1>2
  <2>2. op.patch \in Seq(Change) /\ op.state \in Seq(Change) BY DEF Operation
  <2>3. /\ Len(store') = Len(store) + 1
        /\ \A i \in 1..Len(store) : store'[i] = store[i]
        /\ store'[Len(store) + 1] = op
    BY <2>1, AppendProperties DEF Appends, IInv, TypeOK
  <2>4. Retained' = op.state BY <1>t, <2>3 DEF Retained, StateAt
  <2>5. Retained' = Retained \o op.patch BY <2>1, <2>4 DEF Appends
  <2>6. Entries(Retained) \subseteq Entries(Retained')
    BY <1>t, <2>2, <2>5, EntriesOfConcat
  <2>7. ASSUME NEW i \in 1..Len(store') PROVE Entries(store'[i].state) \subseteq Entries(Retained')
    <3>1. CASE i = Len(store) + 1 BY <2>3, <2>4, <3>1
    <3>2. CASE i # Len(store) + 1
      <4>1. i \in 1..Len(store) BY <1>t, <2>3, <3>2
      <4> QED BY <2>3, <2>6, <4>1 DEF Nested
    <3> QED BY <3>1, <3>2
  <2> QED BY <2>2, <2>5, <2>6, <2>7 DEF Nested
<1> QED BY <1>1, <1>2 DEF StoreStep

(* A state of any revision is retained. *)
LEMMA StateIsRetained ==
    ASSUME IInv, Nested, NEW i \in Nat, i <= Len(store)
    PROVE  Entries(StateAt(i)) \subseteq Entries(Retained)
<1>1. Len(store) \in Nat BY RetainedType DEF IInv
<1>2. CASE i = 0 BY <1>2, EmptyIsLegal DEF StateAt
<1>3. CASE i # 0
  <2>1. i \in 1..Len(store) BY <1>1, <1>3
  <2> QED BY <1>3, <2>1 DEF Nested, StateAt
<1> QED BY <1>2, <1>3
-----------------------------------------------------------------------------
(* What leaves pending. *)

(* What Commit takes out of pending is retained, and what it takes for the *)
(* process's state is a retained one.                                      *)
LEMMA CommitKeeps ==
    ASSUME IInv, Nested, NEW p \in Proc, pc[p] = "appending", Commit(p)
    PROVE  /\ Entries(pending[p]) \subseteq Entries(pending'[p]) \cup Entries(Retained)
           /\ durable'[p] = durable[p] \/ \E i \in 1..Len(store) : durable'[p] = store[i].state
<1>1. /\ Len(store) \in Nat /\ seen[p] \in Nat /\ done[p] \in Nat
      /\ Len(steps[p]) \in Nat /\ pending[p] \in Seq(Change) /\ Len(pending[p]) \in Nat
      /\ durable[p] \in Seq(Change)
  BY LenProperties DEF IInv, TypeOK
<1>2. Appending(p) BY DEF IInv, ProcessSound, WorkerSound
<1>3. CASE done[p] = 0 BY <1>3 DEF Commit
<1>4. CASE done[p] # 0
  <2> DEFINE k == done[p]
             last == steps[p][k]
             rest == SubSeq(pending[p], last.upto + 1, Len(pending[p]))
  <2>1. k \in 1..Len(steps[p]) /\ Planned(p) BY <1>1, <1>2, <1>4 DEF Appending
  <2>2. /\ last.state \in Seq(Change) /\ last.upto \in Nat BY <2>1, StepType DEF IInv
  <2>3. rest \in Seq(Change)
    <3> HIDE DEF last
    <3>1. last.upto + 1 \in Nat \ {0} BY <2>2
    <3> QED BY <1>1, <3>1, SubSeqType
  <2>4. durable[p] \o pending[p] = last.state \o rest
    BY <2>1 DEF Planned, Chained, Clean, Rest
  <2>5. seen[p] + k \in 1..Len(store) /\ store[seen[p] + k].state = last.state
    BY <1>1, <1>4, <2>1 DEF Planned
  <2>6. pending'[p] = rest /\ durable'[p] = last.state
    BY <1>4 DEF Commit, IInv, TypeOK
  <2>7. Entries(last.state) \subseteq Entries(Retained) BY <2>5 DEF Nested
  <2> HIDE DEF last, rest
  <2>8. Entries(pending[p]) \subseteq Entries(last.state) \cup Entries(rest)
    <3>1. Entries(durable[p] \o pending[p]) = Entries(durable[p]) \cup Entries(pending[p])
      BY <1>1, EntriesOfConcat
    <3>2. Entries(last.state \o rest) = Entries(last.state) \cup Entries(rest)
      BY <2>2, <2>3, EntriesOfConcat
    <3> QED BY <2>4, <3>1, <3>2
  <2> QED BY <2>5, <2>6, <2>7, <2>8
<1> QED BY <1>3, <1>4

(* A change that a replay drops is refused, or there already. *)
LEMMA ReplayKeeps ==
    ASSUME IInv, Nested, NEW p \in Proc, RebaseReplay(p)
    PROVE  Entries(pending[p]) \subseteq Entries(pending'[p]) \cup Entries(Retained) \cup refused'
<1> DEFINE d == done[p]
           q == pending[p]
           c == q[d + 1]
           u == SubSeq(q, 1, d)
           v == SubSeq(q, d + 2, Len(q))
<1>1. /\ q \in Seq(Change) /\ Len(q) \in Nat /\ d \in Nat /\ d < Len(q)
      /\ live[p] \in Seq(Change) /\ durable[p] \in Seq(Change) /\ seen[p] \in Nat
  BY LenProperties DEF IInv, TypeOK, RebaseReplay
<1>2. c \in Change /\ u \in Seq(Change) /\ v \in Seq(Change)
  <2>1. d + 1 \in 1..Len(q) BY <1>1
  <2> HIDE DEF d, q
  <2> QED BY <1>1, <2>1, ElementOfSeq, SubSeqType
<1>3. Entries(q) = Entries(u) \cup {c} \cup Entries(v)
  <2> HIDE DEF d, q
  <2>1. SubSeq(q, 1, d + 1) = Append(u, c) BY <1>1, PrefixSucc
  <2>2. SubSeq(q, 1, d + 1) \o SubSeq(q, (d + 1) + 1, Len(q)) = q
    <3>1. d + 1 \in Nat /\ d + 1 <= Len(q) BY <1>1
    <3> QED BY <1>1, <3>1, CutAt
  <2>3. (d + 1) + 1 = d + 2 BY <1>1
  <2>4. Append(u, c) \in Seq(Change) /\ Append(u, c) \o v = q
    BY <1>2, <2>1, <2>2, <2>3, AppendProperties
  <2> HIDE DEF u, v, c
  <2> QED BY <1>2, <2>4, EntriesOfConcat, EntriesOfAppend
<1>4. CASE pending' = pending BY <1>4
<1>5. CASE /\ ~Effective(live[p], c)
           /\ pending' = [pending EXCEPT ![p] = u \o v]
           /\ refused' = IF Admits(live[p], c) THEN refused ELSE refused \cup {c}
  <2>1. pending'[p] = u \o v BY <1>5 DEF IInv, TypeOK
  <2>2. Entries(pending'[p]) = Entries(u) \cup Entries(v)
    <3> HIDE DEF u, v
    <3> QED BY <1>2, <2>1, EntriesOfConcat
  <2>3. CASE ~Admits(live[p], c) BY <1>3, <1>5, <2>2, <2>3
  <2>4. CASE Admits(live[p], c)
    <3>1. Run(live[p], c) = live[p] BY <1>5, <2>4 DEF Effective
    <3>2. c \in Entries(live[p])
      <4> HIDE DEF c
      <4> QED BY <1>1, <1>2, <2>4, <3>1, IneffectiveIsThere
    <3>3. live[p] = durable[p] \o u /\ durable[p] = StateAt(seen[p]) /\ seen[p] <= Len(store)
      BY DEF IInv, ProcessSound, WorkerSound, Replaying, Positioned, RebaseReplay
    <3>4. Entries(live[p]) = Entries(durable[p]) \cup Entries(u)
      <4> HIDE DEF u
      <4> QED BY <1>1, <1>2, <3>3, EntriesOfConcat
    <3>5. Entries(durable[p]) \subseteq Entries(Retained) BY <1>1, <3>3, StateIsRetained
    <3> QED BY <1>3, <2>2, <3>2, <3>4, <3>5
  <2> QED BY <2>3, <2>4
<1> QED BY <1>4, <1>5 DEF RebaseReplay

LEMMA PendingKept ==
    ASSUME IInv, Nested, NEW p \in Proc, Action(p),
           Entries(Retained) \subseteq Entries(Retained')
    PROVE  /\ Entries(pending[p]) \subseteq
                  Entries(pending'[p]) \cup Entries(Retained') \cup refused' \cup lost'
           /\ refused \subseteq refused' /\ lost \subseteq lost'
<1>1. CASE \/ Load(p) \/ FlushBegin(p) \/ Close(p) \/ (\E c \in Change : DurableBegin(p, c))
           \/ FlushSnapshot(p) \/ FlushReturn(p) \/ FlushContention(p) \/ DurableContention(p)
           \/ AppendCreate(p) \/ RebaseLoad(p) \/ RebaseDone(p)
           \/ DurableLock(p) \/ DurableRefresh(p) \/ DurableCreate(p) \/ DurableConflict(p)
  <2>1. UNCHANGED <<pending, refused, lost>>
    BY <1>1 DEF Load, FlushBegin, Close, DurableBegin, FlushSnapshot, FlushReturn,
       FlushContention, DurableContention, AppendCreate, RebaseLoad, RebaseDone, DurableLock,
       DurableRefresh, DurableCreate, DurableConflict, memoryVars, ghostVars
  <2> QED BY <2>1
<1>2. CASE \E c \in Change : Accept(p, c)
  <2>1. PICK c \in Change : Accept(p, c) BY <1>2
  <2>2. pending'[p] = Append(pending[p], c) /\ UNCHANGED <<refused, lost>>
    BY <2>1 DEF Accept, IInv, TypeOK
  <2>3. pending[p] \in Seq(Change) BY DEF IInv, TypeOK
  <2> QED BY <2>2, <2>3, EntriesOfAppend
<1>3. CASE AppendFails(p) \/ AppendConflict(p) \/ AppendDone(p)
  <2>1. pc[p] = "appending" /\ Commit(p) /\ UNCHANGED <<refused, lost>>
    BY <1>3 DEF AppendFails, AppendConflict, AppendDone, ghostVars
  <2> QED BY <2>1, CommitKeeps
<1>4. CASE RebaseReplay(p)
  <2>1. refused \subseteq refused' /\ lost' = lost BY <1>4 DEF RebaseReplay
  <2> QED BY <1>4, <2>1, ReplayKeeps
<1>5. CASE Crash(p)
  <2>1. lost' = lost \cup Entries(pending[p]) /\ refused' = refused BY <1>5 DEF Crash
  <2> QED BY <2>1
<1> QED BY <1>1, <1>2, <1>3, <1>4, <1>5 DEF Action, Worker

(* What is newly accepted is pending, or retained. *)
LEMMA NewlyAccepted ==
    ASSUME IInv, NEW p \in Proc, Action(p)
    PROVE  accepted' \subseteq accepted \cup Entries(pending'[p]) \cup Entries(Retained')
<1>1. CASE \E c \in Change : Accept(p, c)
  <2>1. PICK c \in Change : Accept(p, c) BY <1>1
  <2>2. pending'[p] = Append(pending[p], c) /\ accepted' = accepted \cup {c}
    BY <2>1 DEF Accept, IInv, TypeOK
  <2>3. pending[p] \in Seq(Change) BY DEF IInv, TypeOK
  <2> QED BY <2>2, <2>3, EntriesOfAppend
<1>2. CASE DurableCreate(p)
  <2> DEFINE op == [patch |-> <<goal[p]>>, state |-> Append(live[p], goal[p])]
  <2>1. CASE accepted' = accepted BY <2>1
  <2>2. CASE ~Occupied(seen[p] + 1) /\ Created(op) /\ accepted' = accepted \cup {goal[p]}
    <3>1. op \in Operation /\ goal[p] \in Change /\ store' = Append(store, op)
      BY <1>2, <2>2, DurableOp DEF DurableCreate, Created
    <3>2. Len(store') = Len(store) + 1 /\ store'[Len(store) + 1] = op /\ Len(store) \in Nat
      <4> HIDE DEF op
      <4> QED BY <3>1, AppendProperties, LenProperties DEF IInv, TypeOK
    <3>3. Retained' = Append(live[p], goal[p]) BY <3>2 DEF Retained, StateAt
    <3>4. goal[p] \in Entries(Retained')
      BY <3>1, <3>3, EntriesOfAppend DEF IInv, TypeOK
    <3> QED BY <2>2, <3>4
  <2> QED BY <1>2, <2>1, <2>2 DEF DurableCreate
<1>3. CASE ~(\E c \in Change : Accept(p, c)) /\ ~DurableCreate(p)
  <2>1. accepted' = accepted
    BY <1>3 DEF Action, Worker, Load, FlushBegin, Close, Crash, DurableBegin, FlushSnapshot,
       FlushReturn, FlushContention, DurableContention, AppendCreate, AppendFails,
       AppendConflict, AppendDone, RebaseLoad, RebaseReplay, RebaseDone, DurableLock,
       DurableRefresh, DurableConflict, ghostVars
  <2> QED BY <2>1
<1> QED BY <1>1, <1>2, <1>3

LEMMA LossSound ==
    ASSUME IInv, Nested, NoSilentLoss, NEW p \in Proc, Action(p), SoundStep(p),
           Entries(Retained) \subseteq Entries(Retained')
    PROVE  NoSilentLoss'
<1>1. \A q \in Proc \ {p} : pending'[q] = pending[q] BY DEF SoundStep, Frame
<1>2. /\ Entries(pending[p]) \subseteq
              Entries(pending'[p]) \cup Entries(Retained') \cup refused' \cup lost'
      /\ refused \subseteq refused' /\ lost \subseteq lost'
  BY PendingKept
<1>3. accepted' \subseteq accepted \cup Entries(pending'[p]) \cup Entries(Retained')
  BY NewlyAccepted
<1> DEFINE Held == UNION {Entries(pending'[q]) : q \in Proc}
<1>4. \A q \in Proc : Entries(pending'[q]) \subseteq Held OBVIOUS
<1>5. ASSUME NEW c \in accepted'
      PROVE  c \in Entries(Retained') \cup refused' \cup lost' \cup Held
  <2>1. CASE c \notin accepted BY <1>3, <1>4, <2>1
  <2>2. CASE c \in accepted
    <3>1. CASE c \in Entries(Retained) \cup refused \cup lost BY <1>2, <3>1
    <3>2. CASE \E q \in Proc : c \in Entries(pending[q])
      <4>1. PICK q \in Proc : c \in Entries(pending[q]) BY <3>2
      <4>2. CASE q = p BY <1>2, <1>4, <4>1, <4>2
      <4>3. CASE q # p BY <1>1, <1>4, <4>1, <4>3
      <4> QED BY <4>2, <4>3
    <3> QED BY <2>2, <3>1, <3>2 DEF NoSilentLoss
  <2> QED BY <2>1, <2>2
<1> HIDE DEF Held
<1> QED BY <1>5 DEF NoSilentLoss, Held, Entries
-----------------------------------------------------------------------------
(* What is retained, and what memory holds of it, stays legal. *)

LEMMA LegalStoreAppend ==
    ASSUME IInv, LegalStore, NEW op \in Operation, store' = Append(store, op), Legal(op.state)
    PROVE  LegalStore'
<1>1. /\ Len(store') = Len(store) + 1 /\ Len(store) \in Nat
      /\ \A i \in 1..Len(store) : store'[i] = store[i]
      /\ store'[Len(store) + 1] = op
  BY AppendProperties, LenProperties DEF IInv, TypeOK
<1>2. ASSUME NEW i \in 1..Len(store') PROVE Legal(store'[i].state)
  <2>1. CASE i = Len(store) + 1 BY <1>1, <2>1
  <2>2. CASE i # Len(store) + 1
    <3>1. i \in 1..Len(store) BY <1>1, <2>2
    <3> QED BY <1>1, <3>1 DEF LegalStore
  <2> QED BY <2>1, <2>2
<1> QED BY <1>2 DEF LegalStore

LEMMA LegalStoreListed ==
    ASSUME IInv, LegalStore, store' \in {store, Listed}
    PROVE  LegalStore' /\ \A i \in 1..Len(Listed) : Legal(Listed[i].state)
<1>1. \A i \in 1..Len(Listed) : Legal(Listed[i].state)
  BY EmptyIsLegal DEF Listed, Genesis, LegalStore
<1>2. LegalStore' BY <1>1 DEF LegalStore
<1> QED BY <1>1, <1>2

(* Whatever is created was legal in memory. *)
LEMMA LegalStoreSound ==
    ASSUME IInv, LegalStore, NEW p \in Proc, LegalProcess(p), Action(p)
    PROVE  LegalStore'
<1>1. CASE Load(p) \/ RebaseLoad(p) \/ DurableRefresh(p)
  <2>1. store' \in {store, Listed}
    BY <1>1 DEF Load, RebaseLoad, DurableRefresh, Refreshed, Unread, Refuted
  <2> QED BY <2>1, LegalStoreListed
<1>2. CASE AppendCreate(p) \/ AppendFails(p)
  <2> DEFINE k  == done[p] + 1
             op == Op(steps[p][k])
  <2>1. /\ pc[p] = "appending" /\ done[p] < Len(steps[p])
        /\ store' = store \/ (~Occupied(NextIndex(p)) /\ store' = Append(store, op))
    BY <1>2 DEF AppendCreate, AppendFails, Created, CreateFails
  <2>2. CASE store' = store BY <2>2 DEF LegalStore
  <2>3. CASE ~Occupied(NextIndex(p)) /\ store' = Append(store, op)
    <3>1. op \in Operation /\ op.state = steps[p][k].state BY <2>1, <2>3, NextOpSound
    <3>2. k \in 1..Len(steps[p]) /\ Planned(p) BY <2>1, <2>3, FreeIndex
    <3>3. /\ steps[p][k].state \in Seq(Change) /\ steps[p][k].upto + 1 \in Nat \ {0}
          /\ pending[p] \in Seq(Change) /\ Len(pending[p]) \in Nat
      <4>1. steps[p][k].upto \in Nat /\ steps[p][k].state \in Seq(Change) BY <3>2, StepType DEF IInv
      <4>2. steps[p][k].upto + 1 \in Nat \ {0} BY <4>1
      <4> QED BY <4>1, <4>2, LenProperties DEF IInv, TypeOK
    <3>4. Rest(p, k) \in Seq(Change)
      <4> HIDE DEF k
      <4> QED BY <3>3, SubSeqType DEF Rest
    <3>5. live[p] = steps[p][k].state \o Rest(p, k) BY <3>2 DEF Planned, Chained
    <3>6. Legal(steps[p][k].state)
      <4> HIDE DEF k
      <4> QED BY <3>3, <3>4, <3>5, LegalPrefix DEF LegalProcess
    <3> HIDE DEF op, k
    <3> QED BY <2>3, <3>1, <3>6, LegalStoreAppend
  <2> QED BY <2>1, <2>2, <2>3
<1>3. CASE DurableCreate(p)
  <2> DEFINE op == [patch |-> <<goal[p]>>, state |-> Append(live[p], goal[p])]
  <2>1. /\ pc[p] = "creating"
        /\ store' = store \/ (~Occupied(seen[p] + 1) /\ store' = Append(store, op))
    BY <1>3 DEF DurableCreate, Created, CreateFails
  <2>2. CASE store' = store BY <2>2 DEF LegalStore
  <2>3. CASE ~Occupied(seen[p] + 1) /\ store' = Append(store, op)
    <3>1. op \in Operation /\ goal[p] \in Change /\ op.state = Append(live[p], goal[p])
      BY <2>1, <2>3, DurableOp
    <3>2. Legal(op.state)
      <4>1. Effective(live[p], goal[p]) /\ Legal(live[p]) BY <2>1 DEF LegalProcess
      <4> HIDE DEF op
      <4> QED BY <3>1, <4>1, LegalAppend DEF IInv, TypeOK
    <3> HIDE DEF op
    <3> QED BY <2>3, <3>1, <3>2, LegalStoreAppend
  <2> QED BY <2>1, <2>2, <2>3
<1>4. CASE ~(Load(p) \/ RebaseLoad(p) \/ DurableRefresh(p) \/ AppendCreate(p) \/ AppendFails(p)
             \/ DurableCreate(p))
  <2>1. store' = store
    BY <1>4 DEF Action, Worker, FlushBegin, Close, Crash, Accept, DurableBegin, FlushSnapshot,
       FlushReturn, FlushContention, DurableContention, AppendConflict, AppendDone,
       RebaseReplay, RebaseDone, DurableLock, DurableConflict
  <2> QED BY <2>1 DEF LegalStore
<1> QED BY <1>1, <1>2, <1>3, <1>4

(* A refresh, wherever it stops, leaves memory in a retained state. *)
LEMMA LegalRefresh ==
    ASSUME IInv, LegalStore, NEW p \in Proc, Legal(live[p]),
           NEW b \in Checkpoint, Legal(b.state), seen[p] <= b.at,
           Refreshed(p, b) \/ Unread(p, b) \/ Refuted(p, b)
    PROVE  Legal(live'[p])
<1>1. /\ Len(Listed) \in Nat \ {0} /\ b.at \in Nat /\ seen[p] \in Nat
  BY ListedSound DEF IInv, TypeOK, Checkpoint
<1>2. PICK k \in Nat : (k <= b.at \/ k <= Len(Listed)) /\ StopsAt(p, b, k)
  <2>1. CASE Refreshed(p, b) BY <1>1, <2>1 DEF Refreshed
  <2>2. CASE Unread(p, b)
    <3>1. PICK k \in {seen[p]} \cup (b.at..Len(Listed) - 1) : StopsAt(p, b, k)
      BY <2>2 DEF Unread
    <3> QED BY <1>1, <3>1
  <2>3. CASE Refuted(p, b)
    <3>1. PICK k \in b.at..Len(Listed) - 1 : StopsAt(p, b, k) BY <2>3 DEF Refuted
    <3> QED BY <1>1, <3>1
  <2> QED BY <2>1, <2>2, <2>3
<1>3. live'[p] = IF k < b.at THEN live[p] ELSE IF k = b.at THEN b.state ELSE Listed[k].state
  BY <1>2 DEF IInv, TypeOK, StopsAt
<1>4. CASE k > b.at
  <2>1. k \in 1..Len(Listed) BY <1>1, <1>2, <1>4
  <2>2. Legal(Listed[k].state)
    BY <2>1, EmptyIsLegal DEF Listed, Genesis, LegalStore
  <2> QED BY <1>1, <1>3, <1>4, <2>2
<1> QED BY <1>1, <1>3, <1>4

LEMMA LegalBase ==
    ASSUME IInv, LegalStore, NEW p \in Proc, Legal(live[p]), NEW b \in Base(p)
    PROVE  b \in Checkpoint /\ seen[p] <= b.at /\ Legal(b.state)
<1>1. b \in Checkpoint /\ seen[p] <= b.at BY BaseType DEF IInv
<1>2. CASE b = Position(p) BY <1>1, <1>2 DEF Position
<1>3. CASE b \in checkpoints
  BY <1>1, <1>3 DEF IInv, CheckpointsSound, LegalStore
<1> QED BY <1>1, <1>2, <1>3 DEF Base, NewestCheckpoint

LEMMA LegalProcessSound ==
    ASSUME IInv, Nested, LegalStore, NEW p \in Proc, LegalProcess(p), Action(p)
    PROVE  LegalProcess(p)'
<1>t. /\ live[p] \in Seq(Change) /\ durable[p] \in Seq(Change)
      /\ Legal(live[p]) /\ Legal(durable[p])
  BY DEF IInv, TypeOK, LegalProcess
<1>1. CASE Load(p)
  <2>1. PICK b \in Base(p) : \/ Refreshed(p, b) /\ durable' = [durable EXCEPT ![p] = live'[p]]
                             \/ Unread(p, b) /\ UNCHANGED durable
    BY <1>1 DEF Load
  <2>2. Legal(live'[p]) BY <1>t, <2>1, LegalBase, LegalRefresh
  <2>3. durable'[p] = live'[p] \/ durable'[p] = durable[p] BY <2>1 DEF IInv, TypeOK
  <2>4. pc'[p] # "creating" BY <1>1 DEF Load, Locked, workerVars
  <2> QED BY <1>t, <2>2, <2>3, <2>4 DEF LegalProcess
<1>2. CASE \/ FlushBegin(p) \/ Close(p) \/ (\E c \in Change : DurableBegin(p, c))
           \/ FlushSnapshot(p) \/ FlushReturn(p) \/ FlushContention(p) \/ DurableContention(p)
           \/ AppendCreate(p) \/ RebaseDone(p) \/ DurableLock(p) \/ DurableConflict(p)
  <2>1. live'[p] = live[p] /\ durable'[p] = durable[p]
    BY <1>2 DEF FlushBegin, Close, DurableBegin, FlushSnapshot, FlushReturn,
       FlushContention, DurableContention, AppendCreate, RebaseDone, DurableLock,
       DurableConflict, memoryVars
  <2>2. pc'[p] # "creating"
    BY <1>2 DEF IInv, TypeOK, FlushBegin, Close, DurableBegin, FlushSnapshot, FlushReturn,
       FlushContention, DurableContention, AppendCreate, RebaseDone, DurableLock,
       DurableConflict, Leave, Goto
  <2> QED BY <1>t, <2>1, <2>2 DEF LegalProcess
<1>3. CASE \E c \in Change : Accept(p, c)
  <2>1. PICK c \in Change : Accept(p, c) BY <1>3
  <2>2. Effective(live[p], c) BY <2>1 DEF Accept
  <2>3. live'[p] = Append(live[p], c) /\ durable'[p] = durable[p]
    BY <1>t, <2>1, <2>2, EffectiveIsNew DEF Accept, IInv, TypeOK
  <2>4. pc'[p] # "creating" BY <2>1 DEF Accept, Locked, workerVars
  <2> QED BY <1>t, <2>2, <2>3, <2>4, LegalAppend DEF LegalProcess
<1>4. CASE AppendFails(p) \/ AppendConflict(p) \/ AppendDone(p)
  <2>1. /\ pc[p] = "appending" /\ Commit(p) /\ live' = live
        /\ Leave(p) \/ Goto(p, "rebasing") \/ Goto(p, "flushing")
    BY <1>4 DEF AppendFails, AppendConflict, AppendDone
  <2>2. durable'[p] = durable[p] \/ \E i \in 1..Len(store) : durable'[p] = store[i].state
    BY <2>1, CommitKeeps
  <2>3. Legal(durable'[p]) BY <1>t, <2>2 DEF LegalStore
  <2>4. pc'[p] # "creating" BY <2>1 DEF Leave, Goto, IInv, TypeOK
  <2> QED BY <1>t, <2>1, <2>3, <2>4 DEF LegalProcess
<1>5. CASE RebaseLoad(p)
  <2> DEFINE b == [at |-> seen[p], state |-> durable[p]]
  <2>1. /\ Refreshed(p, b) \/ Unread(p, b) \/ Refuted(p, b)
        /\ durable' = [durable EXCEPT ![p] = live'[p]] \/ durable' = durable
        /\ Goto(p, "replaying") \/ Leave(p)
    BY <1>5 DEF RebaseLoad
  <2>2. b \in Checkpoint /\ seen[p] <= b.at /\ b.state = durable[p]
    BY DEF IInv, TypeOK, Checkpoint
  <2>3. Legal(live'[p])
    <3> HIDE DEF b
    <3> QED BY <1>t, <2>1, <2>2, LegalRefresh
  <2>4. durable'[p] = live'[p] \/ durable'[p] = durable[p] BY <2>1 DEF IInv, TypeOK
  <2>5. pc'[p] # "creating" BY <2>1 DEF Leave, Goto, IInv, TypeOK
  <2> QED BY <1>t, <2>3, <2>4, <2>5 DEF LegalProcess
<1>6. CASE RebaseReplay(p)
  <2> DEFINE c == pending[p][done[p] + 1]
  <2>1. /\ durable' = durable /\ pc'[p] # "creating"
        /\ \/ Effective(live[p], c) /\ live' = [live EXCEPT ![p] = Run(live[p], c)]
           \/ live' = live
    BY <1>6 DEF RebaseReplay
  <2>2. c \in Change
    <3>1. done[p] + 1 \in 1..Len(pending[p])
      BY <1>6, LenProperties DEF RebaseReplay, IInv, TypeOK
    <3> QED BY <3>1, ElementOfSeq DEF IInv, TypeOK
  <2> HIDE DEF c
  <2>3. CASE live' = live BY <1>t, <2>1, <2>3 DEF LegalProcess
  <2>4. CASE Effective(live[p], c) /\ live' = [live EXCEPT ![p] = Run(live[p], c)]
    <3>1. live'[p] = Append(live[p], c) BY <1>t, <2>2, <2>4, EffectiveIsNew DEF IInv, TypeOK
    <3> QED BY <1>t, <2>1, <2>2, <2>4, <3>1, LegalAppend DEF LegalProcess
  <2> QED BY <2>1, <2>3, <2>4
<1>7. CASE DurableRefresh(p)
  <2>1. PICK b \in Base(p) : Refreshed(p, b) \/ Unread(p, b) BY <1>7 DEF DurableRefresh
  <2>2. Legal(live'[p]) BY <1>t, <2>1, LegalBase, LegalRefresh
  <2>3. durable'[p] = live'[p] BY <1>7 DEF DurableRefresh, IInv, TypeOK
  <2>4. pc'[p] = "creating" => Effective(live'[p], goal'[p])
    BY <1>7 DEF DurableRefresh, Leave, Goto, IInv, TypeOK
  <2> QED BY <2>2, <2>3, <2>4 DEF LegalProcess
<1>8. CASE DurableCreate(p)
  <2>1. /\ pc[p] = "creating" /\ Leave(p)
        /\ \/ live'[p] = live[p] /\ durable'[p] = durable[p]
           \/ live'[p] = Append(live[p], goal[p]) /\ durable'[p] = live'[p]
    BY <1>8 DEF DurableCreate, IInv, TypeOK
  <2>2. goal[p] \in Change BY <2>1 DEF IInv, TypeOK, ProcessSound, WorkerSound
  <2>3. Legal(Append(live[p], goal[p])) BY <1>t, <2>1, <2>2, LegalAppend DEF LegalProcess
  <2>4. pc'[p] # "creating" BY <2>1 DEF Leave, Goto, IInv, TypeOK
  <2> QED BY <1>t, <2>1, <2>3, <2>4 DEF LegalProcess
<1>9. CASE Crash(p)
  <2>1. live'[p] = <<>> /\ durable'[p] = <<>> /\ pc'[p] # "creating"
    BY <1>9 DEF Crash, Leave, Goto, IInv, TypeOK
  <2> QED BY <2>1, EmptyIsLegal DEF LegalProcess
<1> QED BY <1>1, <1>2, <1>3, <1>4, <1>5, <1>6, <1>7, <1>8, <1>9 DEF Action, Worker

(* What is published is retained. *)
LEMMA PublishedSound ==
    ASSUME IInv, Nested, Nested', published \subseteq Entries(Retained),
           Entries(Retained) \subseteq Entries(Retained'),
           NEW p \in Proc, Action(p), SoundStep(p)
    PROVE  published \subseteq published' /\ published' \subseteq Entries(Retained')
<1>1. CASE FlushReturn(p)
  <2>1. /\ pending[p] = <<>> /\ pc[p] = "flushing"
        /\ published' = published \/ published' = published \cup Entries(live[p])
    BY <1>1 DEF FlushReturn
  <2>2. live[p] = StateAt(seen[p]) /\ seen[p] \in Nat /\ seen[p] <= Len(store)
    BY <2>1 DEF IInv, TypeOK, ProcessSound, Settles, Positioned
  <2>3. Entries(live[p]) \subseteq Entries(Retained) BY <2>2, StateIsRetained
  <2> QED BY <2>1, <2>3
<1>2. CASE DurableRefresh(p)
  <2> DEFINE c == goal[p]
  <2>1. /\ pc[p] = "committing" /\ pending' = pending
        /\ \/ published' = published
           \/ /\ published' = published \cup {c} /\ Admits(live'[p], c)
              /\ Run(live'[p], c) = live'[p] /\ Leave(p)
    BY <1>2 DEF DurableRefresh
  <2>2. CASE published' = published BY <2>2
  <2>3. CASE /\ published' = published \cup {c} /\ Admits(live'[p], c)
             /\ Run(live'[p], c) = live'[p] /\ Leave(p)
    <3>1. c \in Change /\ pending'[p] = <<>>
      BY <2>1 DEF IInv, TypeOK, ProcessSound, WorkerSound
    <3>2. /\ live'[p] \in Seq(Change) /\ seen'[p] \in Nat /\ seen'[p] <= Len(store')
          /\ Len(store') \in Nat
      BY LenProperties DEF SoundStep, TypeOK, ProcessSound, Positioned
    <3>3. c \in Entries(live'[p])
      <4> HIDE DEF c
      <4> QED BY <2>3, <3>1, <3>2, IneffectiveIsThere
    <3>4. pc'[p] # "replaying" BY <2>3 DEF Leave, Goto, IInv, TypeOK
    <3>5. live'[p] = StateAt(seen[p])' BY <3>1, <3>4 DEF SoundStep, ProcessSound, Settles
    <3>6. seen'[p] # 0
      <4>1. seen'[p] = 0 => live'[p] = <<>> BY <3>5 DEF StateAt
      <4> QED BY <3>3, <4>1, EmptyIsLegal
    <3>7. seen'[p] \in 1..Len(store') /\ live'[p] = store'[seen'[p]].state
      BY <3>2, <3>5, <3>6 DEF StateAt
    <3>8. c \in Entries(Retained') BY <3>3, <3>7 DEF Nested
    <3> QED BY <2>3, <3>8
  <2> QED BY <2>1, <2>2, <2>3
<1>3. CASE DurableCreate(p)
  <2> DEFINE op == [patch |-> <<goal[p]>>, state |-> Append(live[p], goal[p])]
  <2>1. CASE published' = published BY <2>1
  <2>2. CASE ~Occupied(seen[p] + 1) /\ Created(op) /\ published' = published \cup {goal[p]}
    <3>1. op \in Operation /\ goal[p] \in Change /\ store' = Append(store, op)
      BY <1>3, <2>2, DurableOp DEF DurableCreate, Created
    <3>2. Len(store') = Len(store) + 1 /\ store'[Len(store) + 1] = op /\ Len(store) \in Nat
      <4> HIDE DEF op
      <4> QED BY <3>1, AppendProperties, LenProperties DEF IInv, TypeOK
    <3>3. Retained' = Append(live[p], goal[p]) BY <3>2 DEF Retained, StateAt
    <3>4. goal[p] \in Entries(Retained')
      BY <3>1, <3>3, EntriesOfAppend DEF IInv, TypeOK
    <3> QED BY <2>2, <3>4
  <2> QED BY <1>3, <2>1, <2>2 DEF DurableCreate
<1>4. CASE ~FlushReturn(p) /\ ~DurableRefresh(p) /\ ~DurableCreate(p)
  <2>1. published' = published
    BY <1>4 DEF Action, Worker, Load, FlushBegin, Close, Crash, Accept, DurableBegin,
       FlushSnapshot, FlushContention, DurableContention, AppendCreate, AppendFails,
       AppendConflict, AppendDone, RebaseLoad, RebaseReplay, RebaseDone, DurableLock,
       DurableConflict, ghostVars
  <2> QED BY <2>1
<1> QED BY <1>1, <1>2, <1>3, <1>4
-----------------------------------------------------------------------------
(* The theorems. *)

LEMMA RetainedIsLegal == ASSUME TypeOK, LegalStore PROVE Legal(Retained)
<1>1. Len(store) \in Nat BY RetainedType
<1>2. CASE Len(store) = 0 BY <1>2, EmptyIsLegal DEF Retained, StateAt
<1>3. CASE Len(store) # 0 BY <1>1, <1>3 DEF Retained, StateAt, LegalStore
<1> QED BY <1>2, <1>3

LEMMA LedgerInitially == ASSUME Init PROVE LedgerInv
<1>1. /\ store = <<>> /\ Len(store) = 0 /\ accepted = {} /\ published = {}
      /\ \A p \in Proc : live[p] = <<>> /\ durable[p] = <<>> /\ pc[p] = "idle"
  BY DEF Init
<1>2. Nested /\ LegalStore BY <1>1 DEF Nested, LegalStore
<1>3. \A p \in Proc : LegalProcess(p) BY <1>1, EmptyIsLegal DEF LegalProcess
<1> QED BY <1>1, <1>2, <1>3 DEF LedgerInv, NoSilentLoss

LEMMA LedgerStep ==
    ASSUME IInv, LedgerInv, NEW p \in Proc, Action(p)
    PROVE  /\ LedgerInv' /\ Ledger!Next
<1>1. SoundStep(p) BY ActionSound
<1>2. /\ \E t \in Seq(Change) : Retained' = Retained \o t
      /\ Entries(Retained) \subseteq Entries(Retained')
      /\ Nested'
  BY StoreSteps, RetainedGrows DEF LedgerInv
<1>3. LegalStore' BY LegalStoreSound DEF LedgerInv
<1>4. \A q \in Proc : LegalProcess(q)'
  <2>1. LegalProcess(p)' BY LegalProcessSound DEF LedgerInv
  <2>2. ASSUME NEW q \in Proc \ {p} PROVE LegalProcess(q)'
    <3>1. Frame(q) BY <1>1 DEF SoundStep
    <3> QED BY <3>1 DEF Frame, LedgerInv, LegalProcess
  <2> QED BY <2>1, <2>2
<1>5. NoSilentLoss' BY <1>1, <1>2, LossSound DEF LedgerInv
<1>6. published \subseteq published' /\ published' \subseteq Entries(Retained')
  BY <1>1, <1>2, PublishedSound DEF LedgerInv
<1>7. LedgerInv' BY <1>2, <1>3, <1>4, <1>5, <1>6 DEF LedgerInv
<1>8. Ledger!Next
  <2>1. TypeOK' BY <1>1 DEF SoundStep
  <2>2. Retained \in Seq(Change) /\ Retained' \in Seq(Change)
    <3>1. Retained \in Seq(Change) BY RetainedType DEF IInv
    <3> QED BY <1>2, <3>1, ConcatProperties
  <2>3. Ledger!IsPrefix(Retained, Retained')
    <3>1. PICK t \in Seq(Change) : Retained' = Retained \o t BY <1>2
    <3>2. /\ Len(Retained) \in Nat /\ Len(t) \in Nat /\ Len(Retained') = Len(Retained) + Len(t)
          /\ \A i \in 1..Len(Retained') :
                Retained'[i] = IF i <= Len(Retained) THEN Retained[i] ELSE t[i - Len(Retained)]
      BY <2>2, <3>1, LenProperties, ConcatProperties
    <3>3. \A i \in 1..Len(Retained) : i \in 1..Len(Retained') BY <3>2
    <3> QED BY <3>2, <3>3 DEF Ledger!IsPrefix
  <2>4. Ledger!Entries(Retained') \subseteq Change
    BY <2>2, ElementOfSeq DEF Ledger!Entries
  <2>5. Ledger!ClosedStaysClosed(Retained')
    <3>1. Len(store') \in Nat BY <2>1, LenProperties DEF TypeOK
    <3>2. CASE Len(store') = 0
      <4>1. Retained' = <<>> BY <3>2 DEF Retained, StateAt
      <4> QED BY <4>1, EmptyIsLegal DEF Legal
    <3>3. CASE Len(store') # 0
      <4>1. Retained' = store'[Len(store')].state /\ Len(store') \in 1..Len(store')
        BY <3>1, <3>3 DEF Retained, StateAt
      <4> QED BY <1>3, <4>1 DEF LegalStore, Legal
    <3> QED BY <3>2, <3>3
  <2>6. published' \subseteq Ledger!Entries(Retained') BY <1>6 DEF Entries, Ledger!Entries
  <2> QED BY <1>6, <2>3, <2>4, <2>5, <2>6 DEF Ledger!Next
<1> QED BY <1>7, <1>8

LEMMA LedgerNext ==
    ASSUME IInv, LedgerInv, [Next]_vars
    PROVE  LedgerInv' /\ [Ledger!Next]_<<Retained, published>>
<1>1. CASE Next
  <2>1. PICK p \in Proc : Action(p) BY <1>1 DEF Next, Action
  <2> QED BY <2>1, LedgerStep
<1>2. CASE UNCHANGED vars
  <2>1. UNCHANGED <<store, live, durable, pending, pc, goal, accepted, refused, lost, published>>
    BY <1>2 DEF vars, memoryVars, workerVars, ghostVars
  <2>2. Retained' = Retained BY <2>1 DEF Retained, StateAt
  <2>3. LedgerInv'
    BY <2>1, <2>2 DEF LedgerInv, Nested, LegalStore, LegalProcess, NoSilentLoss
  <2> QED BY <2>1, <2>2, <2>3
<1> QED BY <1>1, <1>2

LEMMA LedgerInvariant == Spec => [](IInv /\ LedgerInv)
<1>1. Init => IInv /\ LedgerInv BY InitSound, LedgerInitially
<1>2. IInv /\ LedgerInv /\ [Next]_vars => (IInv /\ LedgerInv)'
  <2> SUFFICES ASSUME IInv, LedgerInv, [Next]_vars PROVE IInv' /\ LedgerInv' OBVIOUS
  <2> QED BY NextSound, LedgerNext
<1> QED BY <1>1, <1>2, PTL DEF Spec

(* Whatever processes crash, conflict, rebase and fail to create, a change *)
(* a producer was told is accepted is retained, or still pending, or was   *)
(* refused by a history that closed the workshop, or went down with the    *)
(* process that held it.                                                   *)
THEOREM AcceptedIsNotLost == Spec => []NoSilentLoss
<1>1. LedgerInv => NoSilentLoss BY DEF LedgerInv
<1> QED BY <1>1, LedgerInvariant, PTL

(* A keyed change takes effect once, however often it is accepted, by how  *)
(* many processes, and replayed or retried.                                *)
THEOREM KeyedTakesEffectOnce == Spec => []KeyedAppliedOnce
<1>1. IInv /\ LedgerInv => KeyedAppliedOnce
  BY RetainedIsLegal DEF IInv, LedgerInv, Legal, Once, KeyedAppliedOnce, AppliedOnce
<1> QED BY <1>1, LedgerInvariant, PTL

(* The journal implements the ledger its readers see: history only grows   *)
(* at its end, nothing follows a close but control, and what was published *)
(* is retained.                                                            *)
THEOREM JournalImplementsLedger == Spec => ImplementsLedger
<1>1. Init => Ledger!Init
  <2> SUFFICES ASSUME Init PROVE Ledger!Init OBVIOUS
  <2>1. Retained = <<>> /\ published = {} BY DEF Init, Retained, StateAt
  <2> QED BY <2>1 DEF Ledger!Init
<1>2. IInv /\ LedgerInv /\ [Next]_vars => [Ledger!Next]_<<Retained, published>>
  BY LedgerNext
<1> QED BY <1>1, <1>2, LedgerInvariant, PTL DEF Spec, ImplementsLedger, Ledger!Spec
=============================================================================
