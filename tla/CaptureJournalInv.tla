-------------------------- MODULE CaptureJournalInv --------------------------
(***************************************************************************)
(* The inductive invariant of CaptureJournal: what makes HistoryReplays,   *)
(* CleanOrBehind and NeverHeld hold after every step.  TLAPS proves it for *)
(* every instance (CaptureJournalProofs).                                  *)
(***************************************************************************)
EXTENDS CaptureJournal

(* A checkpoint is the state of an operation that is retained. *)
CheckpointsSound ==
    \A c \in checkpoints : c.at \in 1..Len(store) /\ c.state = store[c.at].state

(* A process never claims a revision that is not retained, and one that    *)
(* has loaded nothing holds nothing.                                       *)
Positioned(p) ==
    /\ seen[p] <= Len(store)
    /\ seen[p] = 0 => live[p] = <<>> /\ durable[p] = <<>> /\ pending[p] = <<>>

(* Outside a replay, a process with nothing pending has the state of its   *)
(* revision, whatever failed before.                                       *)
Settles(p) ==
    pending[p] = <<>> /\ pc[p] # "replaying" => live[p] = StateAt(seen[p])

(* The k-th step of a plan extends the one before it, and the pending      *)
(* changes it leaves out lead from it to memory.                           *)
Before(p, k) == IF k = 1 THEN durable[p] ELSE steps[p][k - 1].state

Rest(p, k) == SubSeq(pending[p], steps[p][k].upto + 1, Len(pending[p]))

Chained(p) ==
    \A k \in 1..Len(steps[p]) :
        /\ steps[p][k].state = Before(p, k) \o steps[p][k].patch
        /\ live[p] = steps[p][k].state \o Rest(p, k)

(* What is created of a plan is retained right after the process's         *)
(* revision, unless another process got there first.                       *)
Planned(p) ==
    /\ Clean(p) /\ Chained(p)
    /\ seen[p] + done[p] <= Len(store)
    /\ done[p] > 0 => store[seen[p] + done[p]].state = steps[p][done[p]].state

Appending(p) ==
    /\ pending[p] # <<>>
    /\ steps[p] # <<>> /\ done[p] <= Len(steps[p])
    /\ \A k \in 1..Len(steps[p]) :
          /\ steps[p][k].upto <= Len(pending[p])
          /\ k < Len(steps[p]) => steps[p][k].upto < Len(pending[p])
    /\ Planned(p) \/ (done[p] = 0 /\ seen[p] < Len(store))

Rebasing(p) == pending[p] # <<>> /\ seen[p] < Len(store)

Replaying(p) ==
    /\ durable[p] = StateAt(seen[p])
    /\ done[p] <= Len(pending[p])
    /\ live[p] = durable[p] \o SubSeq(pending[p], 1, done[p])

(* What each place of the worker relies on. *)
WorkerSound(p) ==
    /\ pc[p] \notin {"appending", "replaying"} => done[p] = 0
    /\ pc[p] = "appending" => Appending(p)
    /\ pc[p] = "rebasing" => Rebasing(p)
    /\ pc[p] = "replaying" => Replaying(p)
    /\ pc[p] \in {"committing", "creating"} => pending[p] = <<>>
    /\ pc[p] = "creating" => Clean(p)
    /\ pc[p] \in {"locking", "committing", "creating"} => goal[p] # NoChange

CleanOrBehindAt(p) ==
    pc[p] # "replaying" => Clean(p) \/ (seen[p] < Len(store) /\ done[p] = 0)

ProcessSound(p) == Positioned(p) /\ Settles(p) /\ WorkerSound(p) /\ CleanOrBehindAt(p)

(* The conjunction is inductive. *)
IInv ==
    /\ TypeOK
    /\ HistoryReplays
    /\ CheckpointsSound
    /\ \A p \in Proc : ProcessSound(p)
=============================================================================
