---------------------------- MODULE EventDeadline ----------------------------
(***************************************************************************)
(* The live override of the event's deadline (server/event_deadline.py):   *)
(* one small record on disk, written by Control Tower's extensions, read   *)
(* once by each server process, and bound to the deadline the app was      *)
(* deployed with (base).                                                   *)
(*                                                                         *)
(* All operations hold one lock, so a load and the operation that needs it *)
(* are one after the other with nothing between; what can come between the *)
(* steps of an extension is a failure, or the end of the process.          *)
(***************************************************************************)
EXTENDS Integers

CONSTANTS
    Epoch,          \* deadlines Control Tower may ask for
    Base            \* deadlines an app may be deployed with; 0 is none

ASSUME DeadlineAssumption == Epoch \subseteq Nat \ {0} /\ Base \subseteq Nat

NoDeadline == 0
NoRecord == [base |-> 0, at |-> NoDeadline]

VARIABLES
    base,           \* the deployment's deadline, in the environment
    record,         \* the file: an override and the base it belongs to
    loaded,         \* this process has read the file (_loaded_key)
    override,       \* _event_ends_at
    applying,       \* the extension that is on disk and not yet in memory
    promised,       \* ghost: the latest deadline answered under this base
    blind           \* ghost: a process could not read what was promised

deadlineVars == <<base, record, loaded, override, applying, promised, blind>>

DeadlineInit ==
    /\ base \in Base /\ record = NoRecord
    /\ loaded = FALSE /\ override = NoDeadline /\ applying = NoDeadline
    /\ promised = NoDeadline /\ blind = FALSE

(* snapshot() *)
Deadline == IF override # NoDeadline THEN override ELSE base

Later(a, b) == IF a >= b THEN a ELSE b

(* The first snapshot or apply of a process.  A record of another          *)
(* deployment is discarded, if it can be.                                  *)
DeadlineLoad ==
    /\ ~loaded /\ loaded' = TRUE
    /\ IF record.base = base
       THEN override' = record.at /\ UNCHANGED record
       ELSE override' = NoDeadline /\ record' \in {record, NoRecord}
    /\ UNCHANGED <<base, applying, promised, blind>>

(* The read fails: the process stays on the deployment's deadline. *)
DeadlineLoadFails ==
    /\ ~loaded /\ loaded' = TRUE
    /\ override' = NoDeadline
    /\ blind' = (blind \/ promised > base)
    /\ UNCHANGED <<base, record, applying, promised>>

(* Mutant of ApplyWrite: an earlier deadline than the current one passes. *)
ApplyWriteAnyway(at) ==
    /\ loaded /\ applying = NoDeadline /\ at # Deadline
    /\ record' = [base |-> base, at |-> at] /\ applying' = at
    /\ UNCHANGED <<base, loaded, override, promised, blind>>

(* apply(): an earlier deadline is refused, a later one goes to the file   *)
(* first.  A write that fails before the rename changes nothing.           *)
ApplyWrite(at) ==
    /\ loaded /\ applying = NoDeadline /\ at > Deadline
    /\ record' = [base |-> base, at |-> at] /\ applying' = at
    /\ UNCHANGED <<base, loaded, override, promised, blind>>

(* ... then to memory, and Control Tower is answered. *)
ApplyFinish ==
    /\ applying # NoDeadline
    /\ override' = applying /\ applying' = NoDeadline
    /\ promised' = Later(promised, applying)
    /\ UNCHANGED <<base, record, loaded, blind>>

(* The chmod after the rename fails: an error is answered. *)
ApplyFails ==
    /\ applying # NoDeadline /\ applying' = NoDeadline
    /\ UNCHANGED <<base, record, loaded, override, promised, blind>>

(* apply() of what already holds is answered without a write. *)
ApplyAgain ==
    /\ loaded /\ applying = NoDeadline /\ Deadline # NoDeadline
    /\ promised' = Later(promised, Deadline)
    /\ UNCHANGED <<base, record, loaded, override, applying, blind>>

(* The process ends, and with it what was only in memory. *)
DeadlineStops ==
    /\ loaded' = FALSE /\ override' = NoDeadline /\ applying' = NoDeadline
    /\ UNCHANGED <<base, record, promised, blind>>

(* The app is deployed again, perhaps with another deadline. *)
DeadlineDeploys(b) ==
    /\ base' = b
    /\ loaded' = FALSE /\ override' = NoDeadline /\ applying' = NoDeadline
    /\ IF b = base THEN UNCHANGED <<promised, blind>>
                   ELSE promised' = NoDeadline /\ blind' = FALSE
    /\ UNCHANGED record

-----------------------------------------------------------------------------
(* Properties. *)

DeadlineTypeOK ==
    /\ base \in Base
    /\ record \in [base : Base \cup {0}, at : Epoch \cup {NoDeadline}]
    /\ loaded \in BOOLEAN /\ blind \in BOOLEAN
    /\ override \in Epoch \cup {NoDeadline}
    /\ applying \in Epoch \cup {NoDeadline}
    /\ promised \in Nat

(* "Deadlines are monotonic within one deployment baseline": a deadline    *)
(* Control Tower was answered is never undercut, by a process that reads   *)
(* it back after a crash, or by the file a later process will read, as     *)
(* long as no process failed to read it.                                   *)
DeadlineNotLowered ==
    ~blind =>
        /\ loaded => Deadline >= promised
        /\ promised > base => record.base = base /\ record.at >= promised
=============================================================================
