----------------------------- MODULE ModelPolicy -----------------------------
(***************************************************************************)
(* The models that Control Tower approves, and how its policy reaches the  *)
(* attendee's agents (server/model_policy.py, with the handler in          *)
(* server/admin.py and the writers in server/cli_config.py).               *)
(*                                                                         *)
(* CT puts a policy, which is retained in the journal before it answers,   *)
(* and puts it again when the answer is lost or a failure.  The handler    *)
(* then rewrites the configuration files that exist; requests that prepare *)
(* a launch write all of them while the agents are not ready (cli_ready),  *)
(* and the missing ones afterwards.  Each does so in a read operation: one *)
(* snapshot of the policy, compared with the current one on the way and at *)
(* the end.  Who finds it changed clears cli_ready and fails.              *)
(*                                                                         *)
(* A policy is its revision, since apply refuses another content for one   *)
(* that is retained; 0 is none.  The journal is taken at its interface: a  *)
(* durable transaction holds the lock of the store (PolicyStore._lock), so *)
(* that it is one step for who reads a snapshot.                           *)
(***************************************************************************)
EXTENDS Integers

CONSTANTS
    Launcher,       \* request threads that prepare a launch
    Pusher,         \* request threads that serve CT
    Unserved        \* <<r, a>> where policy r approves no model for agent a

Claude == 1
Codex == 2
Omnigent == 3
Agent == {Claude, Codex, Omnigent}

ASSUME PolicyAssumption == Launcher \cap Pusher = {} /\ Unserved \subseteq Nat \X Agent

VARIABLES
    stored, recalled,   \* the policy in storage, and in the journal's memory
    snapshot,           \* PolicyStore._snapshot
    file,               \* file[a]: the policy that agent a's configuration follows
    cliReady,           \* cli_ready is not empty
    writer,             \* writer[t]: where a request stands
    told,               \* ghost: the last policy that CT was answered is verified
    undone              \* ghost: the files that a failure left undone, see Raises

policyVars == <<stored, recalled, snapshot, file, cliReady, writer, told, undone>>

Thread == Launcher \cup Pusher
Missing == -1

NoWork == [at |-> "idle", kind |-> "launch", base |-> 0, todo |-> {}, put |-> 0]

PolicyInit ==
    /\ stored = 0 /\ recalled = 0 /\ snapshot = 0
    /\ file = [a \in Agent |-> Missing] /\ cliReady = FALSE
    /\ writer = [t \in Thread |-> NoWork]
    /\ told = 0 /\ undone = {}

Goes(t, at) == writer' = [writer EXCEPT ![t].at = at]
Rests(t)    == writer' = [writer EXCEPT ![t] = NoWork]

(* An operation on the files of todo begins. *)
Starts(t, kind, todo) ==
    writer' = [writer EXCEPT ![t].at = "opening", ![t].kind = kind, ![t].todo = todo]

-----------------------------------------------------------------------------
(* ensure_user_credentials: configure_all, or what update_tokens finds     *)
(* missing.                                                                *)
Ensure(c) ==
    /\ writer[c].at = "idle"
    /\ LET missing == {a \in Agent : file[a] = Missing}
       IN IF cliReady THEN missing # {} /\ Starts(c, "patch", missing)
          ELSE Starts(c, "launch", Agent)
    /\ UNCHANGED <<stored, recalled, snapshot, file, cliReady, told, undone>>

(* CT's request, the first or a repeated one. *)
Put(h, r) ==
    /\ writer[h].at = "idle"
    /\ writer' = [writer EXCEPT ![h].at = "applying", ![h].put = r]
    /\ UNCHANGED <<stored, recalled, snapshot, file, cliReady, told, undone>>

(* Mutant of ApplyPolicy: a policy that is retained already is answered at *)
(* once, as it is no change.                                               *)
ApplyPolicyOnce(h) ==
    /\ writer[h].at = "applying"
    /\ \/ /\ writer[h].put <= stored /\ Rests(h)
          /\ recalled' = stored /\ UNCHANGED <<stored, snapshot>>
          /\ told' = IF writer[h].put = stored THEN stored ELSE told
       \/ /\ writer[h].put > stored /\ Starts(h, "push", Agent)
          /\ stored' = writer[h].put /\ recalled' = stored' /\ snapshot' = stored'
          /\ UNCHANGED told
    /\ UNCHANGED <<file, cliReady, undone>>

(* PolicyStore.apply: stale, or the policy that is retained from now on;   *)
(* repeating it is no change, and its files are refreshed again.           *)
ApplyPolicy(h) ==
    /\ writer[h].at = "applying"
    /\ \/ /\ writer[h].put < stored /\ Rests(h)
          /\ recalled' = stored /\ UNCHANGED <<stored, snapshot>>
       \/ /\ writer[h].put >= stored /\ Starts(h, "push", Agent)
          /\ stored' = writer[h].put /\ recalled' = stored' /\ snapshot' = stored'
    /\ UNCHANGED <<file, cliReady, told, undone>>

(* The transaction fails, with the operation in storage or not; it may have *)
(* read the retained history.                                              *)
PutFails(h) ==
    /\ writer[h].at = "applying" /\ Rests(h)
    /\ recalled' \in {recalled, stored}
    /\ stored' \in {stored, IF writer[h].put > stored THEN writer[h].put ELSE stored}
    /\ UNCHANGED <<snapshot, file, cliReady, told, undone>>

(* The journal's memory catches up with an operation that landed unknown.  *)
Relearn ==
    /\ recalled # stored /\ recalled' = stored
    /\ UNCHANGED <<stored, snapshot, file, cliReady, writer, told, undone>>

-----------------------------------------------------------------------------
(* A read operation. *)

Open(t) ==
    /\ writer[t].at = "opening"
    /\ snapshot' = recalled
    /\ writer' = [writer EXCEPT ![t].at = "resolving", ![t].base = recalled]
    /\ UNCHANGED <<stored, recalled, file, cliReady, told, undone>>

Earliest(todo) == CHOOSE a \in todo : \A b \in todo : a <= b

Current(t) == Earliest(writer[t].todo)

(* The files that t has yet to do after the current one. *)
Left(t) == writer[t].todo \ {Current(t)}

(* Where an operation goes on with the files of todo: update_tokens has an *)
(* operation for each file, the others one for all.                        *)
Onward(t, todo) ==
    IF todo = {} \/ writer[t].kind = "patch" THEN "checking" ELSE "resolving"

(* The current file is done with. *)
After(t, at) == writer' = [writer EXCEPT ![t].todo = Left(t), ![t].at = at]

(* A launch that has yet to mark its agents ready for the last time. *)
Configuring(u) == writer[u].kind = "launch" /\ writer[u].at \in {"resolving", "writing", "marking"}

(* Launch u has written file a, which is older by now, and will count it as *)
(* ready, as it began with a later policy than t.                          *)
Outlives(u, t, a) ==
    /\ Configuring(u) /\ writer[t].base < writer[u].base
    /\ a \notin writer[u].todo /\ file[a] < writer[u].base

(* The decorator _policy_read_operation around a failure.  Noted are the   *)
(* files for which clearing cli_ready comes too early: a launch sets it    *)
(* again without writing them again.                                       *)
Raises(t) ==
    /\ cliReady' = FALSE /\ Rests(t)
    /\ undone' = undone \cup {a \in Agent : \E u \in Thread \ {t} : Outlives(u, t, a)}

(* A refresh leaves out a file that does not exist. *)
Absent(t) == writer[t].kind = "push" /\ file[Current(t)] = Missing

Approved(t) == snapshot = writer[t].base /\ <<writer[t].base, Current(t)>> \notin Unserved

Resolve(t) ==
    /\ writer[t].at = "resolving"
    /\ \/ Absent(t) /\ After(t, Onward(t, Left(t))) /\ UNCHANGED <<cliReady, undone>>
       \/ ~Absent(t) /\ Approved(t) /\ Goes(t, "writing") /\ UNCHANGED <<cliReady, undone>>
       \/ ~Absent(t) /\ ~Approved(t) /\ Raises(t)
    /\ UNCHANGED <<stored, recalled, snapshot, file, told>>

(* The file follows the policy that the operation began with.  A launch    *)
(* marks agents ready after Codex's file, and again after Omnigent's.      *)
Write(t) ==
    /\ writer[t].at = "writing"
    /\ file' = [file EXCEPT ![Current(t)] = writer[t].base]
    /\ After(t, IF writer[t].kind = "launch" /\ Current(t) # Claude
                THEN "marking" ELSE Onward(t, Left(t)))
    /\ undone' = undone \ {Current(t)}
    /\ UNCHANGED <<stored, recalled, snapshot, cliReady, told>>

(* cli_ready.update({"claude", "codex", ...}), or cli_ready.add("omnigent"): *)
(* either makes it count, whoever has cleared it in between.               *)
MarkReady(t) ==
    /\ writer[t].at = "marking" /\ cliReady' = TRUE /\ Goes(t, Onward(t, writer[t].todo))
    /\ UNCHANGED <<stored, recalled, snapshot, file, told, undone>>

(* The last comparison, with what the journal has by now.  A refresh that  *)
(* passes it is answered as verified.                                      *)
Check(t) ==
    /\ writer[t].at = "checking" /\ snapshot' = recalled
    /\ IF recalled # writer[t].base THEN Raises(t) /\ UNCHANGED told
       ELSE /\ UNCHANGED <<cliReady, undone>>
            /\ IF writer[t].todo # {} THEN Goes(t, "opening") ELSE Rests(t)
            /\ told' = IF writer[t].put > told THEN writer[t].put ELSE told
    /\ UNCHANGED <<stored, recalled, file>>

Working(t) == Open(t) \/ Resolve(t) \/ Write(t) \/ MarkReady(t) \/ Check(t)

-----------------------------------------------------------------------------
(* The server ends: the files stay, and the next one reads the policy that *)
(* is retained (configure_capture).                                        *)
PolicyStops ==
    /\ recalled' = stored /\ snapshot' = stored /\ cliReady' = FALSE
    /\ writer' = [t \in Thread |-> NoWork] /\ undone' = {}
    /\ UNCHANGED <<stored, file, told>>

-----------------------------------------------------------------------------
PolicyTypeOK ==
    /\ stored \in Nat /\ recalled \in Nat /\ snapshot \in Nat /\ told \in Nat
    /\ file \in [Agent -> Nat \cup {Missing}] /\ cliReady \in BOOLEAN /\ undone \subseteq Agent
    /\ writer \in [Thread -> [kind : {"launch", "patch", "push"}, base : Nat, todo : SUBSET Agent,
                              put : Nat, at : {"idle", "applying", "opening", "resolving",
                                               "writing", "marking", "checking"}]]

(* What CT was told is in force is: with no request under way, agents that *)
(* count as ready are configured by that policy or a later one ("A next    *)
(* launch must redo the whole config operation after a raced policy/source *)
(* change, rather than accepting existing stale files"), through lost      *)
(* answers, failed refreshes, crashes, and launches that prepare meanwhile *)
(* - except a file that an older operation wrote over and gave up on while *)
(* the launch that had written it was yet to mark its agents ready, the    *)
(* first time or the second, until that file is written again.             *)
VerifiedIsInForce ==
    cliReady /\ (\A t \in Thread : writer[t].at = "idle")
        => \A a \in Agent \ undone : file[a] >= told
=============================================================================
