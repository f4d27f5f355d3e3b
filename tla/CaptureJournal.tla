--------------------------- MODULE CaptureJournal ---------------------------
(***************************************************************************)
(* The write-behind capture journal (server/capture_journal.py), shared by *)
(* the app processes of one workshop unit through a create-only store.     *)
(*                                                                         *)
(* The store holds one immutable operation per revision.  Creating an      *)
(* operation that already exists is refused, and that refusal is the only  *)
(* arbitration between processes.  A process commits a transaction to its  *)
(* memory (live, pending); a flush appends what is pending as one          *)
(* operation, or one per change when the burst is too large, and when      *)
(* another process took the revision it loads that history and replays its *)
(* own pending mutators on top of it.                                      *)
(*                                                                         *)
(* Abstractions.  The JSON state is the sequence of changes that took      *)
(* effect; a patch is the suffix it adds, a state digest is the state.     *)
(* Hashes bind an operation to its predecessor; the store is create-only,  *)
(* so revision and head hash, which the code always assigns together, are  *)
(* one number here.  store[i] is revision i - 1; seen[p] is p's _revision  *)
(* plus one, 0 before its first load.  A create and its readback are one   *)
(* step with every outcome the pair can have.  The per-container file lock *)
(* is absent: the processes are different containers.                      *)
(***************************************************************************)
EXTENDS Integers, Sequences, FiniteSets

CONSTANTS
    Proc,           \* app processes (containers) bound to the same source
    Change,         \* calls to transaction(): each is a mutator
    Keyed,          \* mutators that find their own effect and leave it alone
    Durable,        \* calls made with durable=True
    Control,        \* mutators still admitted after the workshop closed
    Closing,        \* control mutators that close the workshop
    NoChange,
    MaxRetries,     \* max_retries
    MaxOps,         \* max_operations
    Interval,       \* checkpoint_interval
    FaultKinds,     \* storage calls that may fail: subset of {"read", "create"}
    MaxPending,     \* bound: changes pending in a process
    MaxFaults,      \* bound: storage failures in a behaviour
    MaxStops        \* bound: containers that crash or are closed in a behaviour

ASSUME ChangeAssumption ==
    /\ Keyed \subseteq Change /\ Durable \subseteq Change
    /\ Control \subseteq Change /\ Closing \subseteq Control \cap Durable
    /\ NoChange \notin Change

ASSUME LimitAssumption ==
    /\ MaxRetries \in Nat \ {0} /\ MaxOps \in Nat \ {0}
    /\ Interval \in Nat \ {0}
    /\ MaxPending \in Nat /\ MaxFaults \in Nat /\ MaxStops \in Nat
    /\ FaultKinds \subseteq {"read", "create"}

VARIABLES
    store,          \* retained operations: [patch, state], in revision order
    checkpoints,    \* retained checkpoints: [at, state]
    seen,           \* p's _revision + 1
    live,           \* p's _state
    durable,        \* p's _durable_state
    pending,        \* p's _pending
    closed,         \* p's _closed
    pc,             \* where p's holder of _flush_lock stands
    goal,           \* the durable change that holder commits, or NoChange
    tries,          \* iterations of its retry loop
    steps,          \* what _append_steps is to create: [patch, state, count]
    done,           \* how many of them are created (replayed, while rebasing)
    accepted,       \* ghost: changes some producer was told are accepted
    refused,        \* ghost: accepted changes a foreign history then refused
    lost,           \* ghost: changes pending in a process when it crashed
    published,      \* ghost: changes a barrier's caller may have published
    faults, stops   \* ghost: failures and stops so far, for the bounds

workerVars == <<pc, goal, tries, steps, done>>
ghostVars  == <<accepted, refused, lost, published>>
memoryVars == <<seen, live, durable, pending, closed>>
vars == <<store, checkpoints, memoryVars, workerVars, ghostVars, faults, stops>>

-----------------------------------------------------------------------------
(* States and mutators. *)

Entries(s) == {s[i] : i \in 1..Len(s)}

(* Applying a mutator to a state: one entry more, or nothing to do. *)
Run(s, c) == IF c \in Keyed /\ c \in Entries(s) THEN s ELSE Append(s, c)

(* authorize_mutation, as far as this module tells changes apart: a closed *)
(* history refuses whatever is not control.                                *)
Admits(s, c) == c \in Control \/ Entries(s) \cap Closing = {}

Effective(s, c) == Admits(s, c) /\ Run(s, c) # s

Delta(s, t) == SubSeq(t, Len(s) + 1, Len(t))

Genesis == [patch |-> <<>>, state |-> <<>>]

(* A refresh retains revision 0 before it reads an empty history. *)
Listed == IF store = <<>> THEN <<Genesis>> ELSE store

StateAt(i) == IF i = 0 THEN <<>> ELSE store[i].state

Retained == StateAt(Len(store))

-----------------------------------------------------------------------------
(* _refresh: list the store, then verify and apply every operation after   *)
(* the base b = [at, state], one at a time.  The base is the process's own *)
(* position, or for a process that has loaded nothing the newest           *)
(* checkpoint, once it matches the operation it was taken at.              *)

Position(p) == [at |-> seen[p], state |-> live[p]]

NewestCheckpoint == {c \in checkpoints : \A d \in checkpoints : d.at <= c.at}

Base(p) == IF seen[p] = 0 /\ checkpoints # {} THEN NewestCheckpoint ELSE {Position(p)}

(* Every digest up to k checks: the predecessor's state, extended by the   *)
(* operation's patch, is the state the operation was committed with.       *)
Verified(p, b, k) ==
    /\ (seen[p] = 0 /\ b.at \in 1..k) => b.state = Listed[b.at].state
    /\ \A i \in b.at + 1..k :
          (IF i = b.at + 1 THEN b.state ELSE Listed[i - 1].state) \o Listed[i].patch
              = Listed[i].state

(* A refresh that stops at k leaves the process there. *)
StopsAt(p, b, k) ==
    /\ Verified(p, b, k)
    /\ seen' = [seen EXCEPT ![p] = k]
    /\ live' = [live EXCEPT ![p] = IF k < b.at THEN live[p]
                                   ELSE IF k = b.at THEN b.state
                                   ELSE Listed[k].state]

Fault(kind) ==
    /\ kind \in FaultKinds
    /\ faults < MaxFaults
    /\ faults' = faults + 1

Refreshed(p, b) ==
    /\ StopsAt(p, b, Len(Listed))
    /\ store' = Listed
    /\ UNCHANGED faults

(* Listing, or reading one of the operations, failed after its retries. *)
Unread(p, b) ==
    /\ \E k \in {seen[p]} \cup (b.at..Len(Listed) - 1) : StopsAt(p, b, k)
    /\ store' \in {store, Listed}
    /\ Fault("read")

(* An operation whose digest contradicts the state it is applied to.  On a *)
(* load or a durable transaction it would hold the process for good; there *)
(* it cannot happen (NeverHeld), so only a rebase has this outcome.        *)
Refuted(p, b) ==
    /\ \E k \in b.at..Len(Listed) - 1 : StopsAt(p, b, k) /\ ~Verified(p, b, k + 1)
    /\ store' = Listed
    /\ UNCHANGED faults

(* Mutant of Occupied: a create replaces nothing but is never refused. *)
OccupiedNever(i) == FALSE

(* _create_resolved of operation i: refused when the revision exists;      *)
(* created and read back; or failed, with the object in place or not, and  *)
(* its readback unavailable.                                               *)
Occupied(i) == i <= Len(store)

Created(op) == store' = Append(store, op) /\ UNCHANGED faults

CreateFails(i, op) ==
    /\ store' \in {store} \cup (IF Occupied(i) THEN {} ELSE {Append(store, op)})
    /\ Fault("create")

(* _maybe_checkpoint: on the interval, and only if storing it succeeds. *)
Checkpointed(at, state) ==
    checkpoints' \in {checkpoints} \cup
        (IF at > 1 /\ (at - 1) % Interval = 0
         THEN {checkpoints \cup {[at |-> at, state |-> state]}} ELSE {})

-----------------------------------------------------------------------------
Init ==
    /\ store = <<>> /\ checkpoints = {}
    /\ seen = [p \in Proc |-> 0]
    /\ live = [p \in Proc |-> <<>>]
    /\ durable = [p \in Proc |-> <<>>]
    /\ pending = [p \in Proc |-> <<>>]
    /\ closed = [p \in Proc |-> FALSE]
    /\ pc = [p \in Proc |-> "idle"]
    /\ goal = [p \in Proc |-> NoChange]
    /\ tries = [p \in Proc |-> 0]
    /\ steps = [p \in Proc |-> <<>>]
    /\ done = [p \in Proc |-> 0]
    /\ accepted = {} /\ refused = {} /\ lost = {} /\ published = {}
    /\ faults = 0 /\ stops = 0

(* The worker of p moves to l; its steps are dropped on the way. *)
Goto(p, l) ==
    /\ pc' = [pc EXCEPT ![p] = l]
    /\ steps' = [steps EXCEPT ![p] = <<>>]
    /\ done' = [done EXCEPT ![p] = 0]

(* The worker returns to its caller, or raises to it. *)
Leave(p) ==
    /\ Goto(p, "idle")
    /\ goal' = [goal EXCEPT ![p] = NoChange]
    /\ tries' = [tries EXCEPT ![p] = 0]

(* While the worker holds _lock, no producer of p runs. *)
Locked(p) == pc[p] \in {"replaying", "committing", "creating"}

(* The first read or transaction of a process loads the retained history.  *)
(* When it fails half way, _revision stays where the reading stopped.      *)
Load(p) ==
    /\ ~Locked(p) /\ seen[p] = 0
    /\ \E b \in Base(p) :
          \/ Refreshed(p, b) /\ durable' = [durable EXCEPT ![p] = live'[p]]
          \/ Unread(p, b) /\ UNCHANGED durable
    /\ UNCHANGED <<checkpoints, pending, closed, workerVars, ghostVars, stops>>

(* A transaction commits to memory: no storage I/O, result at once. *)
Accept(p, c) ==
    /\ ~Locked(p) /\ seen[p] > 0
    /\ c \notin Durable
    /\ c \in Keyed \/ c \notin accepted     \* a call is made once, unless keyed
    /\ Effective(live[p], c)
    /\ seen[p] <= MaxOps
    /\ Len(pending[p]) < MaxPending
    /\ live' = [live EXCEPT ![p] = Run(@, c)]
    /\ pending' = [pending EXCEPT ![p] = Append(@, c)]
    /\ accepted' = accepted \cup {c}
    /\ UNCHANGED <<store, checkpoints, seen, durable, closed, workerVars,
                   refused, lost, published, faults, stops>>

(* flush(): the flusher's cadence, or a barrier some caller needs. *)
FlushBegin(p) ==
    /\ pc[p] = "idle"
    /\ pc' = [pc EXCEPT ![p] = "flushing"]
    /\ UNCHANGED <<store, checkpoints, memoryVars, goal, tries, steps, done,
                   ghostVars, faults, stops>>

(* close(): the background flusher stops, then everything is flushed. *)
Close(p) ==
    /\ pc[p] = "idle" /\ ~closed[p]
    /\ stops < MaxStops
    /\ stops' = stops + 1
    /\ closed' = [closed EXCEPT ![p] = TRUE]
    /\ pc' = [pc EXCEPT ![p] = "flushing"]
    /\ UNCHANGED <<store, checkpoints, seen, live, durable, pending, goal, tries,
                   steps, done, ghostVars, faults>>

-----------------------------------------------------------------------------
(* _flush_locked: one iteration per snapshot. *)

(* One coalesced operation; or one per change, as accepted, when the burst *)
(* is too large for a record.  Sizes are left open: any burst of two or    *)
(* more changes may be too large, a single one was measured on acceptance. *)
Plans(p) ==
    LET patch == Delta(durable[p], live[p])
        coalesced == <<[patch |-> patch, state |-> live[p], upto |-> Len(pending[p])]>>
        split == [k \in 1..Len(pending[p]) |->
                    [patch |-> <<pending[p][k]>>,
                     state |-> durable[p] \o SubSeq(pending[p], 1, k), upto |-> k]]
    IN {coalesced} \cup (IF Len(patch) > 1 THEN {split} ELSE {})

FlushSnapshot(p) ==
    /\ pc[p] = "flushing" /\ tries[p] < MaxRetries
    /\ pending[p] # <<>>
    /\ \E plan \in Plans(p) : steps' = [steps EXCEPT ![p] = plan]
    /\ done' = [done EXCEPT ![p] = 0]
    /\ tries' = [tries EXCEPT ![p] = @ + 1]
    /\ pc' = [pc EXCEPT ![p] = "appending"]
    /\ UNCHANGED <<store, checkpoints, memoryVars, goal, ghostVars, faults, stops>>

(* Mutant of FlushReturn: the barrier does not wait for what is pending. *)
FlushReturnEarly(p) ==
    /\ pc[p] = "flushing" /\ tries[p] < MaxRetries
    /\ \/ /\ goal[p] = NoChange
          /\ published' = published \cup Entries(live[p])
          /\ Leave(p)
       \/ /\ goal[p] # NoChange
          /\ pc' = [pc EXCEPT ![p] = "locking"]
          /\ UNCHANGED <<published, goal, tries, steps, done>>
    /\ UNCHANGED <<store, checkpoints, memoryVars, accepted, refused, lost, faults, stops>>

(* Nothing is pending: the barrier returns.  Its caller now publishes the  *)
(* process's state, or a durable transaction goes on to take _lock.        *)
FlushReturn(p) ==
    /\ pc[p] = "flushing" /\ tries[p] < MaxRetries
    /\ pending[p] = <<>>
    /\ \/ /\ goal[p] = NoChange
          /\ published' = published \cup Entries(live[p])
          /\ Leave(p)
       \/ /\ goal[p] # NoChange
          /\ pc' = [pc EXCEPT ![p] = "locking"]
          /\ UNCHANGED <<published, goal, tries, steps, done>>
    /\ UNCHANGED <<store, checkpoints, memoryVars, accepted, refused, lost, faults, stops>>

(* The retry limit is reached, whatever used the iterations up. *)
FlushContention(p) ==
    /\ pc[p] = "flushing" /\ tries[p] = MaxRetries
    /\ Leave(p)
    /\ UNCHANGED <<store, checkpoints, memoryVars, ghostVars, faults, stops>>

(* Mutant of Commit: the retained state stays behind the revision. *)
CommitWithoutState(p) ==
    IF done[p] = 0 THEN UNCHANGED <<seen, durable, pending>>
    ELSE LET last == steps[p][done[p]] IN
         /\ seen' = [seen EXCEPT ![p] = @ + done[p]]
         /\ pending' = [pending EXCEPT ![p] = SubSeq(@, last.upto + 1, Len(@))]
         /\ UNCHANGED durable

(* The finally clause of _append_steps: what was created leaves pending. *)
Commit(p) ==
    IF done[p] = 0 THEN UNCHANGED <<seen, durable, pending>>
    ELSE LET last == steps[p][done[p]] IN
         /\ seen' = [seen EXCEPT ![p] = @ + done[p]]
         /\ durable' = [durable EXCEPT ![p] = last.state]
         /\ pending' = [pending EXCEPT ![p] = SubSeq(@, last.upto + 1, Len(@))]

NextIndex(p) == seen[p] + done[p] + 1

Op(step) == [patch |-> step.patch, state |-> step.state]

(* The next operation is created; _revision moves only when all are. *)
AppendCreate(p) ==
    /\ pc[p] = "appending" /\ done[p] < Len(steps[p])
    /\ NextIndex(p) <= MaxOps + 1 /\ ~Occupied(NextIndex(p))
    /\ Created(Op(steps[p][done[p] + 1]))
    /\ done' = [done EXCEPT ![p] = @ + 1]
    /\ UNCHANGED <<checkpoints, memoryVars, pc, goal, tries, steps, ghostVars, stops>>

(* The outcome of the create is unknown, or operations are exhausted: the  *)
(* flush raises, and everything not confirmed stays pending.               *)
AppendFails(p) ==
    /\ pc[p] = "appending" /\ done[p] < Len(steps[p])
    /\ \/ NextIndex(p) > MaxOps + 1 /\ UNCHANGED <<store, faults>>
       \/ /\ NextIndex(p) <= MaxOps + 1
          /\ CreateFails(NextIndex(p), Op(steps[p][done[p] + 1]))
    /\ Commit(p)
    /\ Leave(p)
    /\ UNCHANGED <<checkpoints, live, closed, ghostVars, stops>>

(* Mutant of AppendConflict: the conflict is reported like any failure. *)
AppendConflictRaises(p) ==
    /\ pc[p] = "appending" /\ done[p] < Len(steps[p])
    /\ NextIndex(p) <= MaxOps + 1 /\ Occupied(NextIndex(p))
    /\ Commit(p)
    /\ Leave(p)
    /\ UNCHANGED <<store, checkpoints, live, closed, ghostVars, faults, stops>>

(* Another process, or an unconfirmed create, holds the revision. *)
AppendConflict(p) ==
    /\ pc[p] = "appending" /\ done[p] < Len(steps[p])
    /\ NextIndex(p) <= MaxOps + 1 /\ Occupied(NextIndex(p))
    /\ Commit(p)
    /\ Goto(p, "rebasing")
    /\ UNCHANGED <<store, checkpoints, live, closed, goal, tries, ghostVars, faults, stops>>

(* All are created: memory follows, and the next iteration begins. *)
AppendDone(p) ==
    /\ pc[p] = "appending" /\ done[p] = Len(steps[p])
    /\ Commit(p)
    /\ Checkpointed(seen[p] + done[p], steps[p][done[p]].state)
    /\ Goto(p, "flushing")
    /\ UNCHANGED <<store, live, closed, goal, tries, ghostVars, faults, stops>>

-----------------------------------------------------------------------------
(* _rebase_locked, in one hold of _lock: fall back to the retained state,  *)
(* load the foreign history, then replay the pending mutators one by one.  *)
(* While it replays, live is the local `state` and the first done[p]       *)
(* pending changes are `rebuilt`.                                          *)

RebaseLoad(p) ==
    LET base == [at |-> seen[p], state |-> durable[p]] IN
    /\ pc[p] = "rebasing"
    /\ \/ /\ Refreshed(p, base)
          /\ durable' = [durable EXCEPT ![p] = live'[p]]
          /\ Goto(p, "replaying")
          /\ UNCHANGED <<goal, tries>>
       \/ /\ Unread(p, base) \/ Refuted(p, base)
          /\ Leave(p)
          /\ UNCHANGED durable
    /\ UNCHANGED <<checkpoints, pending, closed, ghostVars, stops>>

(* Mutants of RebaseReplay: the recorded patch is reapplied instead of the *)
(* mutator; and dropping a change takes its successor along.               *)
RebaseReplayPatch(p) ==
    /\ pc[p] = "replaying" /\ done[p] < Len(pending[p])
    /\ live' = [live EXCEPT ![p] = Append(@, pending[p][done[p] + 1])]
    /\ done' = [done EXCEPT ![p] = @ + 1]
    /\ UNCHANGED <<store, checkpoints, seen, durable, pending, closed, pc, goal, tries,
                   steps, ghostVars, faults, stops>>

RebaseReplaySkips(p) ==
    /\ pc[p] = "replaying" /\ done[p] < Len(pending[p])
    /\ LET c == pending[p][done[p] + 1] IN
       \/ /\ Effective(live[p], c)
          /\ live' = [live EXCEPT ![p] = Run(@, c)]
          /\ done' = [done EXCEPT ![p] = @ + 1]
          /\ UNCHANGED <<pending, refused>>
       \/ /\ ~Effective(live[p], c)
          /\ pending' = [pending EXCEPT ![p] = SubSeq(@, 1, done[p])]
          /\ refused' = IF Admits(live[p], c) THEN refused ELSE refused \cup {c}
          /\ UNCHANGED <<live, done>>
    /\ UNCHANGED <<store, checkpoints, seen, durable, closed, pc, goal, tries, steps,
                   accepted, lost, published, faults, stops>>

RebaseReplay(p) ==
    /\ pc[p] = "replaying" /\ done[p] < Len(pending[p])
    /\ LET c == pending[p][done[p] + 1] IN
       \/ /\ Effective(live[p], c)
          /\ live' = [live EXCEPT ![p] = Run(@, c)]
          /\ done' = [done EXCEPT ![p] = @ + 1]
          /\ UNCHANGED <<pending, refused>>
       \/ /\ ~Effective(live[p], c)
          /\ pending' = [pending EXCEPT ![p] =
                SubSeq(@, 1, done[p]) \o SubSeq(@, done[p] + 2, Len(@))]
          /\ refused' = IF Admits(live[p], c) THEN refused ELSE refused \cup {c}
          /\ UNCHANGED <<live, done>>
    /\ UNCHANGED <<store, checkpoints, seen, durable, closed, pc, goal, tries, steps,
                   accepted, lost, published, faults, stops>>

RebaseDone(p) ==
    /\ pc[p] = "replaying" /\ done[p] = Len(pending[p])
    /\ Goto(p, "flushing")
    /\ UNCHANGED <<store, checkpoints, memoryVars, goal, tries, ghostVars, faults, stops>>

-----------------------------------------------------------------------------
(* transaction(durable=True): flush, then commit under _lock straight to   *)
(* the store, and answer the caller only when that is retained.            *)

DurableBegin(p, c) ==
    /\ pc[p] = "idle"
    /\ c \in Durable
    /\ c \in Keyed \/ c \notin accepted
    /\ pc' = [pc EXCEPT ![p] = "flushing"]
    /\ goal' = [goal EXCEPT ![p] = c]
    /\ UNCHANGED <<store, checkpoints, memoryVars, tries, steps, done,
                   ghostVars, faults, stops>>

(* Producers may have run since the flush returned; then flush again. *)
DurableLock(p) ==
    /\ pc[p] = "locking"
    /\ Goto(p, IF pending[p] = <<>> THEN "committing" ELSE "flushing")
    /\ tries' = [tries EXCEPT ![p] = 0]
    /\ UNCHANGED <<store, checkpoints, memoryVars, goal, ghostVars, faults, stops>>

(* One iteration of _transaction_retained up to its create: refresh, run   *)
(* the mutator, authorize it.  A refusal, a mutator that finds nothing to  *)
(* do (its effect is retained) and exhausted capacity return to the caller.*)
DurableRefresh(p) ==
    LET c == goal[p] IN
    /\ pc[p] = "committing" /\ tries[p] < MaxRetries
    /\ \/ /\ \E b \in Base(p) : Refreshed(p, b)
          /\ IF Effective(live'[p], c) /\ seen'[p] <= MaxOps
             THEN /\ Goto(p, "creating")
                  /\ tries' = [tries EXCEPT ![p] = @ + 1]
                  /\ UNCHANGED <<goal, published>>
             ELSE /\ Leave(p)
                  /\ published' = IF Admits(live'[p], c) /\ Run(live'[p], c) = live'[p]
                                  THEN published \cup {c} ELSE published
       \/ /\ \E b \in Base(p) : Unread(p, b)
          /\ Leave(p)
          /\ UNCHANGED published
    /\ durable' = [durable EXCEPT ![p] = live'[p]]
    /\ UNCHANGED <<checkpoints, pending, closed, accepted, refused, lost, stops>>

DurableCreate(p) ==
    LET c  == goal[p]
        op == [patch |-> <<c>>, state |-> Append(live[p], c)] IN
    /\ pc[p] = "creating"
    /\ \/ /\ ~Occupied(seen[p] + 1) /\ Created(op)
          /\ seen' = [seen EXCEPT ![p] = @ + 1]
          /\ live' = [live EXCEPT ![p] = op.state]
          /\ durable' = [durable EXCEPT ![p] = op.state]
          /\ accepted' = accepted \cup {c}
          /\ published' = published \cup {c}
          /\ Checkpointed(seen[p] + 1, op.state)
       \/ /\ CreateFails(seen[p] + 1, op)
          /\ UNCHANGED <<seen, live, durable, accepted, published, checkpoints>>
    /\ Leave(p)
    /\ UNCHANGED <<pending, closed, refused, lost, stops>>

(* The revision is taken: refresh and try again, a bounded number of times.*)
DurableConflict(p) ==
    /\ pc[p] = "creating" /\ Occupied(seen[p] + 1)
    /\ Goto(p, "committing")
    /\ UNCHANGED <<store, checkpoints, memoryVars, goal, tries, ghostVars, faults, stops>>

DurableContention(p) ==
    /\ pc[p] = "committing" /\ tries[p] = MaxRetries
    /\ Leave(p)
    /\ UNCHANGED <<store, checkpoints, memoryVars, ghostVars, faults, stops>>

-----------------------------------------------------------------------------
(* The container dies, at any time or because it was closed, and a fresh   *)
(* one starts with nothing in memory.                                      *)
Crash(p) ==
    /\ \/ closed[p] /\ UNCHANGED stops
       \/ stops < MaxStops /\ stops' = stops + 1
    /\ seen' = [seen EXCEPT ![p] = 0]
    /\ live' = [live EXCEPT ![p] = <<>>]
    /\ durable' = [durable EXCEPT ![p] = <<>>]
    /\ pending' = [pending EXCEPT ![p] = <<>>]
    /\ closed' = [closed EXCEPT ![p] = FALSE]
    /\ lost' = lost \cup Entries(pending[p])
    /\ Leave(p)
    /\ UNCHANGED <<store, checkpoints, accepted, refused, published, faults>>

(* What a started flush or durable transaction goes on to do. *)
Worker(p) ==
    \/ FlushSnapshot(p) \/ FlushReturn(p) \/ FlushContention(p)
    \/ AppendCreate(p) \/ AppendFails(p) \/ AppendConflict(p) \/ AppendDone(p)
    \/ RebaseLoad(p) \/ RebaseReplay(p) \/ RebaseDone(p)
    \/ DurableLock(p) \/ DurableRefresh(p) \/ DurableCreate(p)
    \/ DurableConflict(p) \/ DurableContention(p)

Next == \E p \in Proc :
    \/ Load(p) \/ FlushBegin(p) \/ Close(p) \/ Worker(p) \/ Crash(p)
    \/ \E c \in Change : Accept(p, c) \/ DurableBegin(p, c)

Spec == Init /\ [][Next]_vars

(* A started call runs on, and the flusher thread keeps its cadence while  *)
(* something is pending, until close() stops it.  Nothing obliges callers. *)
Flusher(p) == pending[p] # <<>> /\ ~closed[p] /\ FlushBegin(p)

FairSpec == Spec /\ \A p \in Proc : WF_vars(Worker(p)) /\ WF_vars(Flusher(p))

-----------------------------------------------------------------------------
(* Properties. *)

Operation == [patch : Seq(Change), state : Seq(Change)]
AppendStep == [patch : Seq(Change), state : Seq(Change), upto : Nat]
Checkpoint == [at : Nat, state : Seq(Change)]
Location == {"idle", "flushing", "appending", "rebasing", "replaying",
             "locking", "committing", "creating"}

(* Every variable has the shape its declaration says. *)
TypeOK ==
    /\ store \in Seq(Operation)
    /\ checkpoints \subseteq Checkpoint
    /\ seen \in [Proc -> Nat]
    /\ live \in [Proc -> Seq(Change)]
    /\ durable \in [Proc -> Seq(Change)]
    /\ pending \in [Proc -> Seq(Change)]
    /\ closed \in [Proc -> BOOLEAN]
    /\ pc \in [Proc -> Location]
    /\ goal \in [Proc -> Change \cup {NoChange}]
    /\ tries \in [Proc -> Nat]
    /\ steps \in [Proc -> Seq(AppendStep)]
    /\ done \in [Proc -> Nat]
    /\ accepted \subseteq Change /\ refused \subseteq Change
    /\ lost \subseteq Change /\ published \subseteq Change
    /\ faults \in Nat /\ stops \in Nat

(* Whatever processes append over whichever heads, with failed creates and *)
(* failed refreshes in between, every retained operation replays over its  *)
(* predecessor to the state it was committed with: a replacement container *)
(* and the closeout audit can always read the history back.                *)
HistoryReplays ==
    \A i \in 1..Len(store) :
        store[i].state = StateAt(i - 1) \o store[i].patch

(* A process's memory is what its revision retains plus what is pending,   *)
(* or the process is behind the store, so that its next create is refused. *)
(* This is why a half-finished refresh never corrupts retained history.    *)
Clean(p) == durable[p] = StateAt(seen[p]) /\ live[p] = durable[p] \o pending[p]

CleanOrBehind ==
    \A p \in Proc : pc[p] # "replaying" =>
        \/ Clean(p)
        \/ seen[p] < Len(store) /\ done[p] = 0

(* No load and no durable transaction of a legal run meets an operation    *)
(* that fails its digest, which would hold capture for good (_fault).      *)
NeverHeld ==
    \A p \in Proc :
        (seen[p] = 0 \/ (pending[p] = <<>> /\ pc[p] # "replaying"))
            => \A b \in Base(p) : Verified(p, b, Len(Listed))

(* A change a producer was told is accepted is retained, or still pending  *)
(* in a process, or was refused by the history of a process that closed    *)
(* the workshop, or went down with the process that held it in memory.     *)
NoSilentLoss ==
    accepted \subseteq Entries(Retained) \cup refused \cup lost
                       \cup UNION {Entries(pending[p]) : p \in Proc}

(* The effect of the changes in S is retained at most once. *)
AppliedOnce(S) ==
    \A i, j \in 1..Len(Retained) :
        (i # j /\ Retained[i] = Retained[j]) => Retained[i] \notin S

(* A keyed change accepted by several processes, replayed by a rebase, or  *)
(* retried after an unconfirmed create takes effect once.                  *)
KeyedAppliedOnce == AppliedOnce(Keyed)

(* The comment in _create_resolved: the exact bytes are retried, never the *)
(* producer's mutation after an ambiguous commit.  No change is retained   *)
(* twice, keyed or not.                                                    *)
NeverReappliedAfterAmbiguousCommit == AppliedOnce(Change)

(* The comment in __init__: _durable_state is the state at _revision. *)
DurableStateIsStateAtRevision ==
    \A p \in Proc : durable[p] = StateAt(seen[p])

(* The history, and what was published from it, implement the ledger. *)
Ledger == INSTANCE CaptureLedger WITH ledger <- Retained
ImplementsLedger == Ledger!Spec

(* What is accepted does not stay in memory for ever: it is retained, or   *)
(* refused by a foreign history, or lost with its process, once storage    *)
(* failures stop and while close() has not stopped the flusher.            *)
Settled(c) == c \in Entries(Retained) \cup refused \cup lost

AcceptedSettles ==
    \A c \in Change :
        c \in accepted ~> (Settled(c) \/ \E p \in Proc : closed[p])
=============================================================================
