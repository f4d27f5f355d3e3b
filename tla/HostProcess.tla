----------------------------- MODULE HostProcess -----------------------------
(***************************************************************************)
(* One container: the supervisor, the server process it spawns, and what   *)
(* of the server's state survives it.  The supervisor's child is the       *)
(* server: when it dies, the terminals and the deadline in memory die with *)
(* it, and the next one reads the session journal and the deadline's       *)
(* record back from disk.  So does the policy for the agents' models: it   *)
(* is retained, the files that follow it are on disk, and who is ready is  *)
(* forgotten.  When the supervisor ends the platform replaces the          *)
(* container and deploys again, over the same disk.                        *)
(*                                                                         *)
(* scope is constant in a behaviour: what of the environment a behaviour   *)
(* has, so that one instance covers several small ones.                    *)
(***************************************************************************)
EXTENDS Supervisor, EventDeadline, TerminalSessions, ModelPolicy

CONSTANTS Scopes        \* bounds: the environments that are checked

ScopeType ==
    [sessions : SUBSET Session, sockets : SUBSET Socket, outputs : Nat,
     refreshes : SUBSET Persister, bases : SUBSET Base, deaths : Nat, stops : Nat, deploys : Nat,
     epochs : SUBSET Epoch, faults : Nat, uptimes : BOOLEAN,
     launchers : SUBSET Launcher, launches : Nat, policies : Nat, puts : Nat]

ASSUME ScopeAssumption == Scopes \subseteq ScopeType

VARIABLES
    serving,        \* the server has started up
    scope, spent    \* the bounds, and what of them is used

hostVars == <<supervisorVars, deadlineVars, terminalVars, policyVars, serving, scope, spent>>

Unspent == [deaths |-> 0, stops |-> 0, deploys |-> 0, faults |-> 0, launches |-> 0, puts |-> 0]

Spends(what) ==
    /\ spent[what] < scope[what]
    /\ spent' = [spent EXCEPT ![what] = @ + 1]

Init ==
    /\ SupervisorInit /\ DeadlineInit /\ TerminalInit /\ PolicyInit
    /\ serving = FALSE /\ scope \in Scopes /\ base \in scope.bases /\ spent = Unspent

-----------------------------------------------------------------------------
(* The supervisor's side. *)

SupervisorOnly(step) ==
    step /\ UNCHANGED <<deadlineVars, terminalVars, policyVars, serving, scope>>

(* Without uptimes, a server that is up does not grow older. *)
TimePasses == Tick /\ (child = "up" /\ stopAge = NoTimer => scope.uptimes)

Loop == SupervisorOnly(Spawn \/ SupervisorLoop \/ TimePasses) /\ UNCHANGED spent

Supervise ==
    \/ Loop
    \/ SupervisorOnly(SpawnFails) /\ Spends("faults")
    \/ \E sender \in Sender : SupervisorOnly(SendStop(sender)) /\ Spends("stops")

ServerEnds ==
    /\ serving' = FALSE /\ DeadlineStops /\ PolicyStops
    /\ IF serving THEN TerminalsDie ELSE UNCHANGED terminalVars

(* The server ends: as it was asked to, or by a crash. *)
ServerDies ==
    /\ ServerExits /\ ServerEnds /\ UNCHANGED scope
    /\ IF stopAge # NoTimer THEN UNCHANGED spent ELSE Spends("deaths")

(* The platform's next container, after the supervisor has ended. *)
Deploy(b) ==
    /\ ~Running /\ Spends("deploys")
    /\ status' = "running" /\ child' = "none" /\ uptime' = 0
    /\ restartIn' = 0 /\ deadlineIn' = NoTimer /\ killed' = FALSE
    /\ quickDeaths' = 0 /\ restarts' = <<>> /\ stopSignal' = "none"
    /\ stopAge' = NoTimer /\ deaths' = <<>>
    /\ DeadlineDeploys(b) /\ PolicyStops /\ serving' = FALSE
    /\ IF serving THEN TerminalsDie ELSE UNCHANGED terminalVars
    /\ UNCHANGED scope

-----------------------------------------------------------------------------
(* The server's side. *)

Startup ==
    /\ child = "up" /\ ~serving /\ serving' = TRUE
    /\ LoadPrior
    /\ UNCHANGED <<supervisorVars, deadlineVars, policyVars, scope, spent>>

TerminalOnly(step) ==
    /\ child = "up" /\ serving /\ step
    /\ UNCHANGED <<supervisorVars, deadlineVars, policyVars, serving, scope, spent>>

Browse ==
    \/ \E s \in scope.sessions :
        \/ \E d \in Descriptor : TerminalOnly(Create(s, d))
        \/ TerminalOnly(AgentExits(s))
        \/ TerminalOnly(AcknowledgePrior(s))
        \/ TerminalOnly(Claim(s, "other"))
        \/ session[s].produced < scope.outputs /\ TerminalOnly(ReadOutput(s))
        \/ \E q \in scope.sockets : TerminalOnly(OpenSocket(q, s))
    \/ \E q \in scope.sockets : TerminalOnly(Disconnect(q))
    \/ \E p \in scope.refreshes, s \in scope.sessions : TerminalOnly(ListLive(p, s))

Threads(s) == Creation(s) \/ Reading(s) \/ Claim(s, "reader") \/ Teardown(s)

Terminals ==
    \/ \E s \in scope.sessions : TerminalOnly(Threads(s))
    \/ \E q \in scope.sockets : TerminalOnly(Serving(q))
    \/ \E p \in scope.refreshes : TerminalOnly(Refresh(p))
    \/ \E q \in Socket : TerminalOnly(LoopPut(q))

DeadlineOnly(step) ==
    /\ child = "up" /\ scope.epochs # {} /\ step
    /\ UNCHANGED <<supervisorVars, terminalVars, policyVars, serving, scope>>

Deadlines ==
    \/ DeadlineOnly(DeadlineLoad \/ ApplyFinish \/ ApplyAgain) /\ UNCHANGED spent
    \/ \E at \in scope.epochs : DeadlineOnly(ApplyWrite(at)) /\ UNCHANGED spent
    \/ DeadlineOnly(DeadlineLoadFails \/ ApplyFails) /\ Spends("faults")

PolicyOnly(step) ==
    /\ child = "up" /\ serving /\ step
    /\ UNCHANGED <<supervisorVars, deadlineVars, terminalVars, serving, scope>>

Configuration ==
    \/ \E c \in scope.launchers : PolicyOnly(Ensure(c)) /\ Spends("launches")
    \/ \E h \in Pusher :
        \/ \E r \in 1..scope.policies : PolicyOnly(Put(h, r)) /\ Spends("puts")
        \/ PolicyOnly(ApplyPolicy(h)) /\ UNCHANGED spent
        \/ PolicyOnly(PutFails(h)) /\ Spends("faults")
    \/ PolicyOnly(Relearn) /\ UNCHANGED spent
    \/ \E t \in Thread : PolicyOnly(Working(t)) /\ UNCHANGED spent

Next ==
    \/ Supervise \/ ServerDies \/ Startup
    \/ \E b \in scope.bases : Deploy(b)
    \/ Browse \/ Terminals \/ Deadlines \/ Configuration

Spec == Init /\ [][Next]_hostVars

(* The supervisor's loop and its clock run; a spawned server starts up.    *)
(* In the server the threads of a session that are under way go on, the    *)
(* event loop runs its callbacks, and a browser that stays takes what it   *)
(* is sent.                                                                *)
(* Nobody is obliged to open, type, close, refresh, extend or configure    *)
(* anything.                                                               *)
FairSpec ==
    /\ Spec
    /\ WF_hostVars(Loop)
    /\ WF_hostVars(Startup)
    /\ \A s \in Session : WF_hostVars(s \in scope.sessions /\ TerminalOnly(Threads(s)))
    /\ \A q \in Socket : WF_hostVars(TerminalOnly(LoopPut(q)))
    /\ \A q \in Socket : WF_hostVars(q \in scope.sockets /\ TerminalOnly(Serving(q)))

-----------------------------------------------------------------------------
(* Properties; those of a part are stated in its module. *)

TypeOK ==
    /\ SupervisorTypeOK /\ DeadlineTypeOK /\ TerminalTypeOK /\ PolicyTypeOK
    /\ serving \in BOOLEAN /\ (serving => child = "up" \/ ~Running)
    /\ scope \in Scopes

(* A session that was live, and recorded, when the server died is shown to *)
(* its attendee as ended by the restart, by the server that replaces it,   *)
(* however many failed starts there are between the two, until it is       *)
(* dismissed or that server dies in its turn.                              *)
GhostsCoverCrash == serving => GhostsCover

(* No terminal stays behind: one that lags its session's output, or shows  *)
(* a session that has exited, catches up or closes.                        *)
Behind(q) ==
    /\ sock[q].stage \in {"replaying", "on"}
    /\ \/ sock[q].shown < session[sock[q].of].produced
       \/ session[sock[q].of].exited

NobodyStaysBehind == \A q \in Socket : Behind(q) ~> ~Behind(q)
=============================================================================
