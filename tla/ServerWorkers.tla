---------------------------- MODULE ServerWorkers ----------------------------
(***************************************************************************)
(* What works in the background of one server process: the worker that     *)
(* runs the Omnigent host, the entitlement reconciler, the flushes that    *)
(* requests of the help thread wait for, and the maintenance of the app's  *)
(* own bearer.  They share no state: the host lives on the attendee's      *)
(* token, the reconciler on the app's own identity, help on the journal,   *)
(* and the bearer is read by the attendee's agents alone.  An environment  *)
(* gives work to one of them.                                              *)
(***************************************************************************)
EXTENDS OmnigentHost, Entitlements, HelpOutbox, Credentials

workersVars == <<omnigentVars, entitlementVars, helpVars, credentialVars>>

(* Without requests and without a start there is no host to run. *)
HostIdle == ~scope.started /\ scope.requests = 0

Busy == <<~HostIdle, bounds.enabled, left.posts > 0, credit.enabled>>

WorkersInit ==
    /\ Init /\ EntitlementInit /\ HelpInit /\ CredentialInit
    /\ \E one \in 1..4 : \A part \in 1..4 : Busy[part] <=> part = one
    /\ HostIdle => mirror = NoToken

HostOnly(step) == step /\ UNCHANGED <<entitlementVars, helpVars, credentialVars>>
ReconcilerOnly(step) == step /\ UNCHANGED <<omnigentVars, helpVars, credentialVars>>
HelpOnly(step) == step /\ UNCHANGED <<omnigentVars, entitlementVars, credentialVars>>
BearerOnly(step) == step /\ UNCHANGED <<omnigentVars, entitlementVars, helpVars>>

WorkersNext ==
    \/ HostOnly(Next) \/ ReconcilerOnly(EntitlementNext) \/ HelpOnly(HelpNext)
    \/ BearerOnly(CredentialNext)

WorkersSpec == WorkersInit /\ [][WorkersNext]_workersVars

(* The workers go on, and so do the requests that are under way.  Time     *)
(* passes, and what was asked of the reconciler comes to its turn.  As     *)
(* long as there is a request to answer or something for CT to do, one of  *)
(* them goes on; nothing is asked of the journal's flushes, as a store may *)
(* take any time.                                                          *)
WorkersFairSpec ==
    /\ WorkersSpec
    /\ WF_workersVars(HostOnly(Work))
    /\ WF_workersVars(HostOnly(\E w \in Writer :
            \/ Writing(w) /\ UNCHANGED <<workerVars, stopVars, stopping, closed>>
            \/ Notify(w)))
    /\ WF_workersVars(ReconcilerOnly(bounds.enabled /\ TimePasses))
    /\ WF_workersVars(ReconcilerOnly(bounds.enabled /\ Reconcile))
    /\ WF_workersVars(HelpOnly(Collection))

-----------------------------------------------------------------------------
(* The variables of all have their types. *)
WorkersTypeOK == TypeOK /\ EntitlementTypeOK /\ HelpTypeOK /\ CredentialTypeOK
=============================================================================
