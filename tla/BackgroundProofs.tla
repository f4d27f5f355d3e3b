--------------------------- MODULE BackgroundProofs ---------------------------
(***************************************************************************)
(* Proofs about the two workers of the server that run by themselves.      *)
(*                                                                         *)
(* OmnigentHost, for any tokens, requests and bounds: its types, that a    *)
(* complete stop leaves nothing behind, and that the mirror never goes     *)
(* back to an older token.                                                 *)
(*                                                                         *)
(* The entitlement reconciler: its types, the floor under a backoff, the   *)
(* wakes that are kept, the caches that are current, and the resources     *)
(* from before the run.  Each has an invariant of its own over the types.  *)
(***************************************************************************)
EXTENDS OmnigentHost, Entitlements, TLAPS

USE DEF mirrorVars, workerVars, stopVars

(* A process runs in the worker's hands, or where stop() can find it.      *)
ProcessHeld ==
    proc = "up" =>
        \/ worker = "spawned"
        \/ worker \in {"running", "cleaning", "ended"} /\ published

(* What stop() relies on in each of its phases, when it has nothing to     *)
(* report: no spawn is under way, and none can begin; what runs is listed, *)
(* and after the kill nothing runs; then the worker is gone.               *)
StopPhases ==
    /\ stopper # "none" => stopping
    /\ ~issues =>
        /\ stopper \in {"killing", "joining", "finishing", "done"} => ~Spawning
        /\ stopper = "killing" => (proc = "up" => target)
        /\ stopper \in {"joining", "finishing", "done"} => proc # "up"
        /\ stopper \in {"finishing", "done"} => worker \in {"none", "ended"}

(* The record is at least as new as what was written, and as the file,     *)
(* once the file is this process's.                                        *)
RecordLeads ==
    written # NoToken =>
        /\ record # NoToken /\ mirror # NoToken
        /\ NotNewer(written, record) /\ NotNewer(mirror, record)

IInv == TypeOK /\ ProcessHeld /\ StopPhases /\ RecordLeads

-----------------------------------------------------------------------------
(* The order of tokens. *)

LEMMA NotNewerReflexive == \A t \in Token : NotNewer(t, t)
BY MirrorAssumption DEF NotNewer

LEMMA NotNewerTransitive ==
    \A t, u, v \in Token : NotNewer(t, u) /\ NotNewer(u, v) => NotNewer(t, v)
BY MirrorAssumption DEF NotNewer

LEMMA NotNewerTotal == \A t, u \in Token : NotNewer(t, u) \/ NotNewer(u, t)
BY MirrorAssumption DEF NotNewer

-----------------------------------------------------------------------------
LEMMA InitSound == Init => IInv
<1> SUFFICES ASSUME Init PROVE IInv OBVIOUS
<1>1. MirrorTypeOK
  <2>1. /\ scope \in Scopes
        /\ scope.time \in Nat /\ scope.requests \in Nat /\ scope.faults \in Nat
    BY MirrorAssumption DEF Init, MirrorInit
  <2> QED BY <2>1 DEF Init, MirrorInit, IdleWriter, WriterState,
        WritersTypeOK, MirrorTypeOK
<1>2. TypeOK BY <1>1 DEF Init, TypeOK
<1> QED BY <1>2 DEF Init, MirrorInit, IInv, ProcessHeld, StopPhases, RecordLeads, Spawning

(* A request that moves on keeps the writers' types. *)
LEMMA BecomesType ==
    ASSUME WritersTypeOK, NEW w \in Writer, NEW r \in WriterState, Becomes(w, r),
           r.at = "arrived" => r.token # NoToken,
           r.at = "queued" => record' # NoToken,
           record # NoToken => record' # NoToken
    PROVE  WritersTypeOK'
<1>1. writer' = [writer EXCEPT ![w] = r] BY DEF Becomes
<1>2. /\ writer' \in [Writer -> WriterState]
      /\ \A v \in Writer : writer'[v] = IF v = w THEN r ELSE writer[v]
  BY <1>1 DEF WritersTypeOK
<1> QED BY <1>2 DEF WritersTypeOK

(* A step of the clock, or of a request, keeps the mirror's types. *)
LEMMA MirrorStepType ==
    ASSUME MirrorTypeOK, Clock \/ Requests \/ \E w \in Writer : Writing(w)
    PROVE  MirrorTypeOK'
<1>0. /\ scope.time \in Nat /\ scope.requests \in Nat /\ scope.faults \in Nat
      /\ now \in Nat /\ requests \in Nat /\ faults \in Nat
      /\ NoToken \notin Token /\ WritersTypeOK
  BY MirrorAssumption DEF MirrorTypeOK
<1>w. \A w \in Writer : writer[w] \in WriterState BY <1>0 DEF WritersTypeOK
<1>i. IdleWriter \in WriterState /\ IdleWriter.at = "idle" BY DEF IdleWriter, WriterState
<1>u. ASSUME NEW w \in Writer, NEW wakes, Unlocked(w, wakes), UNCHANGED record
      PROVE  WritersTypeOK'
  <2>1. CASE wakes
    <3> DEFINE r == [writer[w] EXCEPT !.at = "mirrored"]
    <3>1. r \in WriterState /\ r.at = "mirrored" BY <1>w DEF WriterState
    <3>2. Becomes(w, r) BY <1>u, <2>1 DEF Unlocked
    <3> QED BY <1>0, <1>u, <3>1, <3>2, BecomesType
  <2>2. CASE ~wakes
    <3>1. Becomes(w, IdleWriter) BY <1>u, <2>2 DEF Unlocked
    <3> QED BY <1>0, <1>i, <1>u, <3>1, BecomesType
  <2> QED BY <2>1, <2>2
<1>1. CASE Clock BY <1>0, <1>1 DEF Clock, MirrorTypeOK, WritersTypeOK
<1>2. ASSUME NEW w \in Writer, NEW t \in Token, Arrive(w, t) PROVE MirrorTypeOK'
  <2> DEFINE r == [at |-> "arrived", token |-> t, seen |-> now, heals |-> FALSE]
  <2>1. r \in WriterState /\ r.at = "arrived" /\ r.token # NoToken
    BY <1>0 DEF WriterState
  <2>2. Becomes(w, r) /\ Begins /\ UNCHANGED <<now, record, written, mirror, scope, faults>>
    BY <1>2 DEF Arrive
  <2>3. WritersTypeOK' BY <1>0, <2>1, <2>2, BecomesType
  <2> QED BY <1>0, <2>2, <2>3 DEF Begins, MirrorTypeOK
<1>3. ASSUME NEW w \in Writer, Recover(w) PROVE MirrorTypeOK'
  <2> DEFINE r == [IdleWriter EXCEPT !.heals = TRUE,
                       !.at = IF record = NoToken THEN "mirrored" ELSE "queued"]
  <2>1. r \in WriterState /\ r.at # "arrived" /\ (r.at = "queued" => record # NoToken)
    BY DEF IdleWriter, WriterState
  <2>2. Becomes(w, r) /\ Begins /\ UNCHANGED <<now, record, written, mirror, scope, faults>>
    BY <1>3 DEF Recover
  <2>3. WritersTypeOK' BY <1>0, <2>1, <2>2, BecomesType
  <2> QED BY <1>0, <2>2, <2>3 DEF Begins, MirrorTypeOK
<1>4. ASSUME NEW w \in Writer, WriteFails(w) PROVE MirrorTypeOK'
  <2>1. WritersTypeOK' BY <1>4, <1>u DEF WriteFails
  <2> QED BY <1>0, <1>4, <2>1 DEF WriteFails, MirrorTypeOK
<1>5. ASSUME NEW w \in Writer, Decide(w) PROVE MirrorTypeOK'
  <2> DEFINE t == writer[w].token
             r == [writer[w] EXCEPT !.at = "queued"]
  <2>1. t \in Token BY <1>0, <1>5, <1>w DEF Decide, WritersTypeOK, WriterState
  <2>2. r \in WriterState /\ r.at = "queued" BY <1>w DEF WriterState
  <2>3. /\ record' \in {record, t}
        /\ \/ Becomes(w, IdleWriter)
           \/ record' = t /\ Becomes(w, r)
        /\ UNCHANGED <<now, written, mirror, scope, requests, faults>>
    BY <1>5 DEF Decide
  <2>4. CASE Becomes(w, IdleWriter)
    BY <1>0, <1>i, <2>1, <2>3, <2>4, BecomesType DEF MirrorTypeOK
  <2>5. CASE record' = t /\ Becomes(w, r)
    BY <1>0, <2>1, <2>2, <2>3, <2>5, BecomesType DEF MirrorTypeOK
  <2> QED BY <2>3, <2>4, <2>5
<1>6. ASSUME NEW w \in Writer, WriteMirror(w) PROVE MirrorTypeOK'
  <2>1. WritersTypeOK' BY <1>6, <1>u DEF WriteMirror
  <2> QED BY <1>0, <1>6, <2>1 DEF WriteMirror, MirrorTypeOK
<1> QED BY <1>1, <1>2, <1>3, <1>4, <1>5, <1>6 DEF Requests, Writing

-----------------------------------------------------------------------------
(* Nothing of the mirror's types changes when its variables do not. *)
LEMMA MirrorUnchangedType ==
    ASSUME MirrorTypeOK, UNCHANGED mirrorVars
    PROVE  MirrorTypeOK'
BY DEF MirrorTypeOK, WritersTypeOK

(* Every step keeps the types: the mirror's, the places and the flags. *)
PlacesOK ==
    /\ worker \in {"none", "top", "passed", "cleared", "tokenless", "waiting",
                   "preparing", "pausing", "spawning", "spawned", "unspawned",
                   "cleaning", "running", "standing", "stood", "backoff", "ended"}
    /\ proc \in {"none", "up", "dead"}
    /\ stopper \in {"none", "counting", "killing", "joining", "finishing", "done"}

WorkerFlagsOK == wake \in BOOLEAN /\ stale \in BOOLEAN /\ published \in BOOLEAN /\ stopping \in BOOLEAN
StopFlagsOK ==
    stopped \in BOOLEAN /\ target \in BOOLEAN /\ issues \in BOOLEAN /\ closed \in BOOLEAN

LEMMA TypeParts == TypeOK <=> MirrorTypeOK /\ PlacesOK /\ WorkerFlagsOK /\ StopFlagsOK
BY Zenon DEF TypeOK, PlacesOK, WorkerFlagsOK, StopFlagsOK

LEMMA PartsStay ==
    /\ PlacesOK /\ UNCHANGED <<worker, proc, stopper>> => PlacesOK'
    /\ WorkerFlagsOK /\ UNCHANGED <<wake, stale, published, stopping>> => WorkerFlagsOK'
    /\ StopFlagsOK /\ UNCHANGED <<stopped, target, issues, closed>> => StopFlagsOK'
<1>1. PlacesOK /\ UNCHANGED <<worker, proc, stopper>> => PlacesOK' BY DEF PlacesOK
<1>2. WorkerFlagsOK /\ UNCHANGED <<wake, stale, published, stopping>> => WorkerFlagsOK'
  BY Zenon DEF WorkerFlagsOK
<1>3. StopFlagsOK /\ UNCHANGED <<stopped, target, issues, closed>> => StopFlagsOK'
  BY Zenon DEF StopFlagsOK
<1> QED BY <1>1, <1>2, <1>3

LEMMA TypeStep ==
    ASSUME TypeOK, [Next]_omnigentVars
    PROVE  TypeOK'
<1>m. MirrorTypeOK /\ PlacesOK /\ WorkerFlagsOK /\ StopFlagsOK BY TypeParts
<1>p. (MirrorTypeOK /\ PlacesOK /\ WorkerFlagsOK /\ StopFlagsOK)' => TypeOK' BY TypeParts, PTL
<1>f. (UNCHANGED <<stopVars, closed>> => StopFlagsOK')
      /\ (UNCHANGED <<workerVars, stopVars, stopping, closed>> =>
            PlacesOK' /\ WorkerFlagsOK' /\ StopFlagsOK')
  BY <1>m, PartsStay
<1>1. CASE (Clock \/ Requests) /\ UNCHANGED <<workerVars, stopVars, stopping, closed>>
  <2>1. MirrorTypeOK' BY <1>1, <1>m, MirrorStepType
  <2> QED BY <1>1, <1>f, <1>p, <2>1
<1>2. ASSUME NEW w \in Writer, Writing(w), UNCHANGED <<workerVars, stopVars, stopping, closed>>
      PROVE  TypeOK'
  <2>1. MirrorTypeOK' BY <1>2, <1>m, MirrorStepType
  <2> QED BY <1>2, <1>f, <1>p, <2>1
<1>3. ASSUME NEW w \in Writer, Notify(w) PROVE TypeOK'
  <2>1. Becomes(w, IdleWriter) /\ UNCHANGED <<now, record, written, mirror, scope, requests, faults>>
    BY <1>3 DEF Notify
  <2>2. IdleWriter \in WriterState /\ IdleWriter.at = "idle" BY DEF IdleWriter, WriterState
  <2>3. WritersTypeOK' BY <1>m, <2>1, <2>2, BecomesType DEF MirrorTypeOK
  <2>4. MirrorTypeOK' BY <1>m, <2>1, <2>3 DEF MirrorTypeOK
  <2>5. /\ \/ UNCHANGED <<wake, worker>>
           \/ wake' = TRUE /\ worker' \in {worker, "top"}
        /\ UNCHANGED <<stale, proc, published, stopVars, stopping, closed>>
    BY <1>3 DEF Notify
  <2>6. PlacesOK' BY <1>m, <2>5 DEF PlacesOK
  <2>7. WorkerFlagsOK' BY <1>m, <2>5, Zenon DEF WorkerFlagsOK
  <2> QED BY <1>f, <1>p, <2>4, <2>5, <2>6, <2>7
<1>4. CASE Work
  <2>1. UNCHANGED mirrorVars /\ UNCHANGED <<stopVars, closed>>
    BY <1>4 DEF Work, Goes, CheckStopping, ClearWake, CheckToken,
        CheckTokenAgain, Wakes, Resume, BeginSpawn, Popen, Publish, Cleanup, Watch,
        StandDown, ClearStood, CheckStood, Backoff
  <2>2. MirrorTypeOK' BY <1>m, <2>1, MirrorUnchangedType
  <2>3. PlacesOK'
    BY <1>4, <1>m DEF Work, Goes, CheckStopping, ClearWake, CheckToken,
        CheckTokenAgain, Wakes, Resume, BeginSpawn, Popen, Publish, Cleanup, Watch,
        StandDown, ClearStood, CheckStood, Backoff, PlacesOK
  <2>4. WorkerFlagsOK'
    <3>1. CASE CheckStopping \/ CheckToken \/ CheckTokenAgain \/ Wakes \/ Resume \/ BeginSpawn
               \/ CheckStood
      BY <1>m, <3>1, PartsStay DEF CheckStopping, CheckToken, CheckTokenAgain, Wakes, Resume,
         BeginSpawn, CheckStood
    <3>2. CASE ClearWake \/ ClearStood BY <1>m, <3>2, Zenon DEF ClearWake, ClearStood, WorkerFlagsOK
    <3>3. CASE Popen BY <1>m, <3>3, Zenon DEF Popen, WorkerFlagsOK
    <3>4. CASE Publish BY <1>m, <3>4, Zenon DEF Publish, WorkerFlagsOK
    <3>5. CASE Cleanup \/ StandDown BY <1>m, <3>5, Zenon DEF Cleanup, StandDown, WorkerFlagsOK
    <3>6. CASE Watch BY <1>m, <3>6, Zenon DEF Watch, WorkerFlagsOK
    <3>7. CASE Backoff BY <1>m, <3>7, Zenon DEF Backoff, WorkerFlagsOK
    <3> QED BY <1>4, <3>1, <3>2, <3>3, <3>4, <3>5, <3>6, <3>7 DEF Work
  <2> QED BY <1>f, <1>p, <2>1, <2>2, <2>3, <2>4
<1>5. CASE PrepareFails \/ PopenFails
  <2>1. /\ faults' = faults + 1 /\ faults < scope.faults
        /\ UNCHANGED <<now, record, written, mirror, writer, scope, requests>>
    BY <1>5 DEF PrepareFails, PopenFails
  <2>2. MirrorTypeOK' BY <1>m, <2>1, MirrorAssumption DEF MirrorTypeOK, WritersTypeOK
  <2>3. PlacesOK' /\ UNCHANGED <<stopVars, closed>>
    BY <1>5, <1>m DEF PrepareFails, PopenFails, PlacesOK
  <2>4. wake' \in {wake, FALSE} /\ UNCHANGED <<stale, published, stopping>>
    BY <1>5 DEF PrepareFails, PopenFails
  <2>5. WorkerFlagsOK' BY <1>m, <2>4, Zenon DEF WorkerFlagsOK
  <2> QED BY <1>f, <1>p, <2>2, <2>3, <2>5
<1>6. CASE HostExits \/ CloseCapture \/ Stop
  <2>1. UNCHANGED mirrorVars BY <1>6 DEF HostExits, CloseCapture, Stop, StopBegin, StopOnly
  <2>2. MirrorTypeOK' BY <1>m, <2>1, MirrorUnchangedType
  <2>3. PlacesOK'
    BY <1>6, <1>m DEF HostExits, CloseCapture, Stop, StopBegin, StopOnly, StopCollect, StopKill,
       StopJoin, StopFinish, PlacesOK
  <2>4. WorkerFlagsOK'
    <3>1. CASE StopBegin BY <1>m, <3>1, Zenon DEF StopBegin, WorkerFlagsOK
    <3>2. CASE UNCHANGED <<wake, stale, published, stopping>> BY <1>m, <3>2, PartsStay
    <3> QED BY <1>6, <3>1, <3>2 DEF HostExits, CloseCapture, Stop, StopOnly
  <2>5. StopFlagsOK'
    <3>1. CASE HostExits \/ StopBegin BY <1>m, <3>1, PartsStay DEF HostExits, StopBegin
    <3>2. CASE CloseCapture BY <1>m, <3>2, Zenon DEF CloseCapture, StopFlagsOK
    <3>3. CASE StopCollect /\ UNCHANGED closed
      <4>1. issues' \in BOOLEAN BY <3>3 DEF StopCollect, Spawning
      <4>2. target' = published /\ UNCHANGED <<stopped, closed>> BY <3>3 DEF StopCollect
      <4> QED BY <1>m, <4>1, <4>2, Zenon DEF WorkerFlagsOK, StopFlagsOK
    <3>4. CASE StopKill /\ UNCHANGED closed BY <1>m, <3>4, Zenon DEF StopKill, StopFlagsOK
    <3>5. CASE StopJoin /\ UNCHANGED closed BY <1>m, <3>5, Zenon DEF StopJoin, StopFlagsOK
    <3>6. CASE StopFinish /\ UNCHANGED closed BY <1>m, <3>6, Zenon DEF StopFinish, StopFlagsOK
    <3> QED BY <1>6, <3>1, <3>2, <3>3, <3>4, <3>5, <3>6 DEF Stop, StopOnly
  <2> QED BY <1>p, <2>2, <2>3, <2>4, <2>5
<1>7. CASE UNCHANGED omnigentVars
  <2>1. MirrorTypeOK' BY <1>7, <1>m, MirrorUnchangedType DEF omnigentVars
  <2>2. UNCHANGED <<workerVars, stopVars, stopping, closed>> BY <1>7 DEF omnigentVars
  <2> QED BY <1>f, <1>p, <2>1, <2>2
<1> QED BY <1>1, <1>2, <1>3, <1>4, <1>5, <1>6, <1>7 DEF Next

-----------------------------------------------------------------------------
(* What the stop relies on, and where a process is.  Only what these       *)
(* mention matters of a step.                                              *)
LEMMA StopSound ==
    ASSUME TypeOK, ProcessHeld, StopPhases, [Next]_omnigentVars
    PROVE  ProcessHeld' /\ StopPhases'
<1> USE DEF ProcessHeld, StopPhases, Spawning
<1>1. CASE (Clock \/ Requests) /\ UNCHANGED <<workerVars, stopVars, stopping, closed>>
  BY <1>1
<1>2. CASE \E w \in Writer :
              Writing(w) /\ UNCHANGED <<workerVars, stopVars, stopping, closed>>
  BY <1>2
<1>3. ASSUME NEW w \in Writer, Notify(w) PROVE ProcessHeld' /\ StopPhases'
  <2>1. /\ \/ UNCHANGED worker
           \/ ~stopping /\ worker = "none" /\ worker' = "top"
        /\ UNCHANGED <<proc, published, stopVars, stopping>>
    BY <1>3 DEF Notify
  <2> QED BY <2>1
<1>4. CASE Work
  <2>3. CASE CheckStopping BY <2>3 DEF CheckStopping, Goes
  <2>4. CASE ClearWake BY <2>4 DEF ClearWake, Goes
  <2>5. CASE CheckToken BY <2>5 DEF CheckToken, Goes
  <2>6. CASE CheckTokenAgain BY <2>6 DEF CheckTokenAgain, Goes
  <2>7. CASE Wakes BY <2>7 DEF Wakes, Goes
  <2>8. CASE Resume BY <2>8 DEF Resume, Goes
  <2>9. CASE BeginSpawn BY <2>9 DEF BeginSpawn, Goes
  <2>10. CASE Popen BY <2>10 DEF Popen, Goes
  <2>11. CASE Publish BY <2>11 DEF Publish, Goes
  <2>12. CASE Cleanup BY <2>12 DEF Cleanup, Goes
  <2>13. CASE Watch BY <2>13 DEF Watch, Goes
  <2>14. CASE StandDown BY <2>14 DEF StandDown, Goes
  <2>15. CASE ClearStood BY <2>15 DEF ClearStood, Goes
  <2>16. CASE CheckStood BY <2>16 DEF CheckStood, Goes
  <2>17. CASE Backoff BY <2>17 DEF Backoff, Goes
  <2> QED BY <1>4, <2>3, <2>4, <2>5, <2>6, <2>7, <2>8, <2>9, <2>10, <2>11, <2>12,
             <2>13, <2>14, <2>15, <2>16, <2>17 DEF Work
<1>5. CASE PrepareFails \/ PopenFails BY <1>5 DEF PrepareFails, PopenFails
<1>6. CASE HostExits \/ CloseCapture BY <1>6 DEF HostExits, CloseCapture
<1>7. CASE Stop
  <2>1. CASE StopBegin BY <2>1 DEF StopBegin
  <2>2. CASE StopOnly(StopCollect) BY <2>2 DEF StopOnly, StopCollect, TypeOK
  <2>3. CASE StopOnly(StopKill) BY <2>3 DEF StopOnly, StopKill
  <2>4. CASE StopOnly(StopJoin) BY <2>4 DEF StopOnly, StopJoin, TypeOK
  <2>5. CASE StopOnly(StopFinish) BY <2>5 DEF StopOnly, StopFinish
  <2> QED BY <1>7, <2>1, <2>2, <2>3, <2>4, <2>5 DEF Stop, StopOnly
<1>8. CASE UNCHANGED omnigentVars BY <1>8 DEF omnigentVars
<1> QED BY <1>1, <1>2, <1>3, <1>4, <1>5, <1>6, <1>7, <1>8 DEF Next

(* A write mirrors the record; what a request changes of the record makes  *)
(* it newer.                                                               *)
LEMMA RecordSound ==
    ASSUME TypeOK, RecordLeads, [Next]_omnigentVars
    PROVE  /\ RecordLeads'
           /\ mirror' # mirror /\ written # NoToken =>
                /\ mirror' = record
                /\ NotNewer(written, mirror') /\ NotNewer(mirror, mirror')
<1>t. /\ record \in Token \cup {NoToken} /\ written \in Token \cup {NoToken}
      /\ mirror \in Token \cup {NoToken} /\ NoToken \notin Token
      /\ WritersTypeOK
  BY MirrorAssumption DEF TypeOK, MirrorTypeOK
<1>1. CASE UNCHANGED <<record, written, mirror>> BY <1>1 DEF RecordLeads, NotNewer
<1>2. ASSUME NEW w \in Writer, Decide(w)
      PROVE  RecordLeads' /\ UNCHANGED mirror
  <2>1. writer[w].token \in Token
    BY <1>t, <1>2 DEF Decide, WritersTypeOK, WriterState
  <2>2. CASE UNCHANGED record BY <1>2, <2>2, <1>1 DEF Decide
  <2>3. CASE record = NoToken BY <1>2, <2>3 DEF Decide, RecordLeads
  <2>4. CASE record' # record /\ record # NoToken
    <3>1. record' = writer[w].token /\ ~NotNewer(record', record)
      BY <1>2, <2>4 DEF Decide, Superseded
    <3>2. record' \in Token /\ record \in Token /\ NotNewer(record, record')
      BY <1>t, <2>1, <2>4, <3>1, NotNewerTotal
    <3>3. ASSUME written # NoToken
          PROVE  NotNewer(written, record') /\ NotNewer(mirror, record')
      BY <1>t, <3>2, <3>3, NotNewerTransitive DEF RecordLeads
    <3>4. UNCHANGED <<written, mirror>> BY <1>2 DEF Decide
    <3> QED BY <1>t, <3>2, <3>3, <3>4 DEF RecordLeads
  <2> QED BY <1>2, <2>2, <2>3, <2>4 DEF Decide
<1>3. ASSUME NEW w \in Writer, WriteMirror(w) \/ WriteFails(w)
      PROVE  /\ RecordLeads'
             /\ mirror' # mirror /\ written # NoToken =>
                /\ mirror' = record
                /\ NotNewer(written, mirror') /\ NotNewer(mirror, mirror')
  <2>1. record \in Token
    BY <1>t, <1>3 DEF WriteMirror, WriteFails, WritersTypeOK
  <2>2. /\ UNCHANGED record /\ mirror' \in {mirror, record}
        /\ \/ mirror' = record /\ written' = record
           \/ UNCHANGED written
    BY <1>3 DEF WriteMirror, WriteFails
  <2>3. NotNewer(record, record) BY <2>1, NotNewerReflexive
  <2> QED BY <1>t, <2>1, <2>2, <2>3 DEF RecordLeads
<1>4. \/ UNCHANGED <<record, written, mirror>>
      \/ \E w \in Writer : Decide(w) \/ WriteMirror(w) \/ WriteFails(w)
  BY DEF Next, omnigentVars, Clock, Requests, Arrive, Recover, Writing, Notify, Work, Goes,
     CheckStopping, ClearWake, CheckToken, CheckTokenAgain, Wakes, Resume, BeginSpawn,
     Popen, Publish, Cleanup, Watch, StandDown, ClearStood, CheckStood, Backoff,
     PrepareFails, PopenFails, HostExits, CloseCapture, Stop, StopBegin, StopOnly
<1> QED BY <1>1, <1>2, <1>3, <1>4

-----------------------------------------------------------------------------
LEMMA NextSound == IInv /\ [Next]_omnigentVars => IInv'
BY TypeStep, StopSound, RecordSound DEF IInv

THEOREM OmnigentInvariant == Spec => []IInv
BY InitSound, NextSound, PTL DEF Spec

(* Every variable keeps its type. *)
THEOREM OmnigentTypeCorrect == Spec => []TypeOK
<1>1. IInv => TypeOK BY DEF IInv
<1> QED BY <1>1, OmnigentInvariant, PTL

(* stop() reports itself complete only when no host runs and none can be   *)
(* spawned any more, whatever it overtakes.                                *)
THEOREM CompleteStopIsHonest == Spec => []StopIsHonest
<1>1. IInv => StopIsHonest BY DEF IInv, StopPhases, StopIsHonest
<1> QED BY <1>1, OmnigentInvariant, PTL

(* However requests overtake each other, the mirror only moves to newer    *)
(* tokens.                                                                 *)
THEOREM MirrorOnlyAdvances == Spec => MirrorAdvances
<1>1. IInv /\ [Next]_omnigentVars =>
        [mirror' # mirror /\ written # NoToken =>
            /\ mirror' = record
            /\ NotNewer(written, mirror') /\ NotNewer(mirror, mirror')]_mirrorVars
  BY RecordSound DEF IInv
<1> QED BY <1>1, OmnigentInvariant, PTL DEF Spec, MirrorAdvances

-----------------------------------------------------------------------------
(* The entitlement reconciler. *)

USE EntitlementAssumption

-----------------------------------------------------------------------------
(* Types. *)

LEMMA TimersCount ==
    ASSUME NEW timer
    PROVE  /\ timer \in Nat => Less(timer) \in Nat
           /\ timer \in Nat \cup {NoTimer} => Less(timer) \in Nat \cup {NoTimer}
BY DEF Less, NoTimer

LEMMA PassesTyped == NoPass \in PassType /\ Starting \in PassType
BY DEF NoPass, Starting, PassType, Health, Ledger

Places == {"none", "starting", "baselines", "sweeping", "granting", "finishing", "recorded"}

(* A field of a pass is set to a value of its type. *)
LEMMA PassSets ==
    ASSUME NEW p \in PassType
    PROVE  /\ \A x \in Places : [p EXCEPT !.at = x] \in PassType
           /\ \A x \in SUBSET Adapter : [p EXCEPT !.todo = x] \in PassType
           /\ \A x \in Adapter \cup {NoAdapter} : [p EXCEPT !.listing = x] \in PassType
           /\ \A x \in SUBSET Resource : /\ [p EXCEPT !.seen = x] \in PassType
                                       /\ [p EXCEPT !.items = x] \in PassType
           /\ \A x \in BOOLEAN : /\ [p EXCEPT !.dirty = x] \in PassType
                               /\ [p EXCEPT !.woken = x] \in PassType
                               /\ [p EXCEPT !.fails = x] \in PassType
                               /\ [p EXCEPT !.limited = x] \in PassType
           /\ \A x \in Nat : [p EXCEPT !.age = x] \in PassType
<1>1. \A x \in Places : [p EXCEPT !.at = x] \in PassType BY SMT DEF PassType, Places
<1>2. \A x \in SUBSET Adapter : [p EXCEPT !.todo = x] \in PassType BY SMT DEF PassType
<1>3. \A x \in Adapter \cup {NoAdapter} : [p EXCEPT !.listing = x] \in PassType
  BY SMT DEF PassType
<1>4. \A x \in SUBSET Resource : [p EXCEPT !.seen = x] \in PassType BY SMT DEF PassType
<1>5. \A x \in SUBSET Resource : [p EXCEPT !.items = x] \in PassType BY SMT DEF PassType
<1>6. \A x \in BOOLEAN : [p EXCEPT !.dirty = x] \in PassType BY SMT DEF PassType
<1>7. \A x \in BOOLEAN : [p EXCEPT !.woken = x] \in PassType BY SMT DEF PassType
<1>8. \A x \in BOOLEAN : [p EXCEPT !.fails = x] \in PassType BY SMT DEF PassType
<1>9. \A x \in BOOLEAN : [p EXCEPT !.limited = x] \in PassType BY SMT DEF PassType
<1>10. \A x \in Nat : [p EXCEPT !.age = x] \in PassType BY SMT DEF PassType
<1> QED BY <1>1, <1>2, <1>3, <1>4, <1>5, <1>6, <1>7, <1>8, <1>9, <1>10, Zenon

LEMMA EntitlementInitTyped == EntitlementInit => EntitlementTypeOK
<1> SUFFICES ASSUME EntitlementInit PROVE EntitlementTypeOK OBVIOUS
<1>1. cache \in [Adapter -> SUBSET Resource] /\ cacheLeft \in [Adapter -> Nat \cup {NoTimer}]
  BY DEF EntitlementInit
<1>2. caller \in [Caller \cup {Loop} -> [at : {"away", "queued"}, only : SUBSET Adapter]]
  BY DEF EntitlementInit, Away
<1>3. retryIn \in [Adapter -> Nat \cup {NoTimer}] /\ ledger \in Ledger
  BY DEF EntitlementInit, Ledger
<1>4. used \in UseType BY DEF EntitlementInit, UseType
<1> QED
  BY <1>1, <1>2, <1>3, <1>4, PassesTyped DEF EntitlementInit, EntitlementTypeOK, Health

LEMMA PopsTyped ==
    ASSUME EntitlementTypeOK, NEW labels, Pops(labels)
    PROVE  /\ cache' \in [Adapter -> SUBSET Resource]
           /\ cacheLeft' \in [Adapter -> Nat \cup {NoTimer}]
BY DEF EntitlementTypeOK, Pops

(* What is used of the bounds is counted. *)
LEMMA UsesTyped ==
    ASSUME EntitlementTypeOK,
           Uses("calls") \/ Uses("wakes") \/ Uses("limits") \/ Uses("failures")
             \/ Uses("drifts")
    PROVE  used' \in UseType
BY DEF EntitlementTypeOK, Uses, UseType

LEMMA WorkspaceTyped ==
    ASSUME EntitlementTypeOK, Workspace PROVE EntitlementTypeOK'
<1> USE DEF EntitlementTypeOK, worldVars, scheduleVars, cacheVars, proofVars
<1>1. ASSUME NEW r \in Resource, Make(r) PROVE EntitlementTypeOK'
  BY <1>1 DEF Make
<1>2. ASSUME NEW r \in Resource, Drift(r) PROVE EntitlementTypeOK'
  BY <1>2, UsesTyped DEF Drift
<1>3. ASSUME NEW r \in Resource, Remove(r) PROVE EntitlementTypeOK'
  BY <1>3, UsesTyped DEF Remove
<1>4. ASSUME NEW labels \in {Adapter} \cup {{a} : a \in Adapter}, Wake(labels)
      PROVE EntitlementTypeOK'
  <2>1. pass' \in PassType
    <3>1. (pass.dirty \/ pass.listing \in labels) \in BOOLEAN OBVIOUS
    <3>2. [pass EXCEPT !.woken = TRUE] \in PassType BY PassSets
    <3> QED BY <1>4, <3>1, <3>2, PassSets, Zenon DEF Wake
  <2>2. retryIn' \in [Adapter -> Nat \cup {NoTimer}] BY <1>4 DEF Wake
  <2>3. noted' \subseteq made' /\ invalid' \subseteq Adapter BY <1>4 DEF Wake
  <2>4. nextIn' \in Nat /\ idle' \in BOOLEAN BY <1>4 DEF Wake
  <2>5. /\ cache' \in [Adapter -> SUBSET Resource]
        /\ cacheLeft' \in [Adapter -> Nat \cup {NoTimer}]
    BY <1>4, PopsTyped DEF Wake
  <2> HIDE DEF PassType
  <2> QED BY <1>4, <2>1, <2>2, <2>3, <2>4, <2>5, UsesTyped, Zenon DEF Wake
<1>5. ASSUME NEW labels \in {Adapter} \cup {{a} : a \in Adapter}, NEW c \in Caller,
             Request(c, labels)
      PROVE EntitlementTypeOK'
  BY <1>5, UsesTyped DEF Request, Calls
<1> QED BY <1>1, <1>2, <1>3, <1>4, <1>5 DEF Workspace

LEMMA TimeTyped ==
    ASSUME EntitlementTypeOK, TimePasses PROVE EntitlementTypeOK'
<1> USE DEF EntitlementTypeOK, worldVars, scheduleVars, cacheVars, proofVars, TimePasses
<1>1. nextIn' \in Nat /\ floorIn' \in Nat BY TimersCount
<1>2. cacheLeft' \in [Adapter -> Nat \cup {NoTimer}] BY TimersCount
<1>3. retryIn' \in [Adapter -> Nat \cup {NoTimer}] BY TimersCount
<1>4. pass' \in PassType
  <2>1. pass.age + 1 \in Nat BY DEF PassType
  <2>2. [pass EXCEPT !.age = @ + 1] \in PassType BY <2>1, PassSets, Zenon
  <2> QED BY <2>2, Zenon DEF Aged
<1> QED BY <1>1, <1>2, <1>3, <1>4

LEMMA EnterTyped ==
    ASSUME EntitlementTypeOK, NEW c \in Caller \cup {Loop}, Enter(c) \/ EnterFails(c)
    PROVE  EntitlementTypeOK'
<1> USE DEF EntitlementTypeOK, worldVars, scheduleVars, cacheVars, proofVars
<1>1. Begun(c) \in PassType /\ [Begun(c) EXCEPT !.at = "finishing", !.fails = TRUE] \in PassType
  <2>1. caller[c].only \in SUBSET Adapter OBVIOUS
  <2>2. Begun(c) \in PassType BY <2>1 DEF Begun, NoPass, PassType
  <2> QED BY <2>2, PassSets, Zenon DEF Places
<1>2. caller' \in [Caller \cup {Loop} -> [at : {"away", "queued"}, only : SUBSET Adapter]]
  BY DEF Enter, EnterFails, Away
<1> HIDE DEF PassType
<1>3. CASE Enter(c) BY <1>1, <1>2, <1>3, Zenon DEF Enter
<1>4. CASE EnterFails(c) BY <1>1, <1>2, <1>4, UsesTyped, Zenon DEF EnterFails
<1> QED BY <1>3, <1>4

(* The baselines' stage and the catalog's, and the lists' beginnings. *)
LEMMA BeginTyped ==
    ASSUME EntitlementTypeOK,
           \/ StartFails \/ Catalog \/ CatalogFails \/ Started
           \/ \E a \in Adapter : ListCached(a) \/ ListHeld(a) \/ ListBegin(a)
    PROVE  EntitlementTypeOK'
<1> USE DEF EntitlementTypeOK, worldVars, scheduleVars, cacheVars, proofVars, PassOnly
<1>0. Visits \in SUBSET Adapter BY DEF Visits, PassType
<1>1. CASE StartFails
  <2>1. pass' \in PassType BY <1>1, PassSets, Zenon DEF StartFails
  <2> QED BY <1>1, <2>1, UsesTyped, Zenon DEF StartFails
<1>2. CASE Catalog
  <2>1. [pass EXCEPT !.at = "sweeping"] \in PassType BY PassSets, Zenon DEF Places
  <2>2. pass' \in PassType BY <1>0, <1>2, <2>1, PassSets, Zenon DEF Catalog
  <2> QED BY <1>2, <2>2, Zenon DEF Catalog
<1>3. CASE CatalogFails
  <2>1. PICK at \in {"sweeping", "finishing"} :
            \/ /\ Uses("failures")
               /\ pass' = [pass EXCEPT !.at = at, !.todo = Visits, !.fails = TRUE]
            \/ /\ Uses("limits")
               /\ pass' = [pass EXCEPT !.at = at, !.todo = Visits, !.limited = TRUE]
    BY <1>3 DEF CatalogFails
  <2>2. [pass EXCEPT !.at = at] \in PassType BY PassSets, Zenon DEF Places
  <2>3. [pass EXCEPT !.at = at, !.todo = Visits] \in PassType BY <1>0, <2>2, PassSets, Zenon
  <2>4. pass' \in PassType BY <2>1, <2>3, PassSets, Zenon
  <2> QED BY <1>3, <2>1, <2>4, UsesTyped, Zenon DEF CatalogFails
<1>4. CASE Started
  BY <1>4, PassesTyped DEF Started
<1>5. ASSUME NEW a \in Adapter, ListCached(a) PROVE EntitlementTypeOK'
  <2>1. [pass EXCEPT !.at = "granting"] \in PassType BY PassSets, Zenon DEF Places
  <2>2. [pass EXCEPT !.at = "granting", !.listing = a] \in PassType BY <2>1, PassSets, Zenon
  <2>3. cache[a] \in SUBSET Resource OBVIOUS
  <2>4. pass' \in PassType BY <1>5, <2>2, <2>3, PassSets, Zenon DEF ListCached
  <2> QED BY <1>5, <2>4, Zenon DEF ListCached
<1>6. ASSUME NEW a \in Adapter, ListHeld(a) PROVE EntitlementTypeOK'
  <2>1. pass.todo \ {a} \in SUBSET Adapter BY DEF PassType
  <2>2. [pass EXCEPT !.todo = pass.todo \ {a}] \in PassType BY <2>1, PassSets, Zenon
  <2>3. pass' \in PassType BY <1>6, <2>2, PassSets, Zenon DEF ListHeld
  <2>4. errors' \subseteq Adapter BY <1>6 DEF ListHeld
  <2> QED BY <1>6, <2>3, <2>4, Zenon DEF ListHeld
<1>7. ASSUME NEW a \in Adapter, ListBegin(a) PROVE EntitlementTypeOK'
  <2>1. made \cap Of(a) \in SUBSET Resource BY DEF Of
  <2>2. [pass EXCEPT !.listing = a] \in PassType BY PassSets, Zenon
  <2>3. [pass EXCEPT !.listing = a, !.seen = made \cap Of(a)] \in PassType
    BY <2>1, <2>2, PassSets, Zenon
  <2>4. [pass EXCEPT !.listing = a, !.seen = made \cap Of(a), !.dirty = FALSE] \in PassType
    BY <2>3, PassSets, Zenon
  <2>5. pass' \in PassType BY <1>7, <2>4, PassSets DEF ListBegin
  <2> QED BY <1>7, <2>5, Zenon DEF ListBegin
<1> QED BY <1>1, <1>2, <1>3, <1>4, <1>5, <1>6, <1>7


LEMMA ListedTyped ==
    ASSUME EntitlementTypeOK
    PROVE  Listed \in PassType /\ Listed.dirty = FALSE
<1>1. pass \in PassType /\ pass.todo \ {pass.listing} \in SUBSET Adapter
  BY DEF EntitlementTypeOK, PassType
<1>2. [pass EXCEPT !.listing = NoAdapter] \in PassType BY <1>1, PassSets, Zenon
<1>3. [pass EXCEPT !.listing = NoAdapter, !.todo = pass.todo \ {pass.listing}] \in PassType
  BY <1>1, <1>2, PassSets, Zenon
<1>4. [pass EXCEPT !.listing = NoAdapter, !.todo = pass.todo \ {pass.listing}, !.seen = {}]
        \in PassType
  BY <1>3, PassSets, Zenon
<1>5. [pass EXCEPT !.listing = NoAdapter, !.todo = pass.todo \ {pass.listing}, !.seen = {},
                   !.dirty = FALSE] \in PassType
  BY <1>4, PassSets, Zenon
<1>6. Listed \in PassType BY <1>5, PassSets DEF Listed
<1> QED BY <1>1, <1>6 DEF Listed, PassType

(* The ends of a list request. *)
LEMMA EndTyped ==
    ASSUME EntitlementTypeOK, InFlight,
           \/ \E items \in SUBSET Of(pass.listing), time \in Lifetimes : ListEnd(items, time)
           \/ ListFails \/ ListLimited
    PROVE  EntitlementTypeOK'
<1> USE DEF EntitlementTypeOK, worldVars, scheduleVars, cacheVars, proofVars, PassOnly
<1>0. /\ pass.listing \in Adapter /\ \A t \in Lifetimes \cup {Interval} : Left(t) \in Nat
      /\ Visits \in SUBSET Adapter
  BY DEF PassType, InFlight, Left, Visits
<1>1. ASSUME NEW items \in SUBSET Of(pass.listing), NEW time \in Lifetimes,
             ListEnd(items, time)
      PROVE  EntitlementTypeOK'
  <2>1. items \in SUBSET Resource BY DEF Of
  <2>2. /\ cache' \in [Adapter -> SUBSET Resource]
        /\ cacheLeft' \in [Adapter -> Nat \cup {NoTimer}] /\ invalid' \subseteq Adapter
    BY <1>0, <1>1, <2>1 DEF ListEnd, Refill
  <2>3. retryIn' \in [Adapter -> Nat \cup {NoTimer}] BY <1>1 DEF ListEnd
  <2>4. CASE TakeBaseline(items)
    <3>1. pass' \in PassType BY <2>4, ListedTyped, Zenon DEF TakeBaseline
    <3>2. baseline' \subseteq Resource BY <2>1, <2>4 DEF TakeBaseline
    <3>3. ready' \subseteq Adapter BY <1>0, <2>4 DEF TakeBaseline
    <3> QED BY <1>1, <2>2, <2>3, <3>1, <3>2, <3>3, Zenon DEF ListEnd
  <2>5. CASE TakeItems(items)
    <3>1. [pass EXCEPT !.at = "granting"] \in PassType BY PassSets, Zenon DEF Places
    <3>2. [pass EXCEPT !.at = "granting", !.items = items] \in PassType
      BY <2>1, <3>1, PassSets, Zenon
    <3>3. [pass EXCEPT !.at = "granting", !.items = items, !.seen = {}] \in PassType
      BY <3>2, PassSets, Zenon
    <3>4. [pass EXCEPT !.at = "granting", !.items = items, !.seen = {}, !.dirty = FALSE]
            \in PassType
      BY <3>3, PassSets, Zenon
    <3>5. pass' \in PassType BY <2>5, <3>4, PassSets DEF TakeItems
    <3> QED BY <1>1, <2>2, <2>3, <2>5, <3>5, Zenon DEF ListEnd, TakeItems
  <2> QED BY <1>1, <2>4, <2>5 DEF ListEnd
<1>2. CASE ListFails
  <2>1. pass' \in PassType BY <1>2, ListedTyped, PassSets, Zenon DEF ListFails
  <2>2. retryIn' \in [Adapter -> Nat \cup {NoTimer}] BY <1>0, <1>2 DEF ListFails
  <2>3. errors' \subseteq Adapter BY <1>0, <1>2 DEF ListFails
  <2>4. /\ cache' \in [Adapter -> SUBSET Resource]
        /\ cacheLeft' \in [Adapter -> Nat \cup {NoTimer}]
    BY <1>2, PopsTyped DEF ListFails
  <2> QED BY <1>2, <2>1, <2>2, <2>3, <2>4, UsesTyped, Zenon DEF ListFails
<1>3. CASE ListLimited
  <2>1. [Listed EXCEPT !.limited = TRUE] \in PassType BY ListedTyped, PassSets, Zenon
  <2>2. /\ [Listed EXCEPT !.limited = TRUE, !.at = "finishing"] \in PassType
        /\ [Listed EXCEPT !.limited = TRUE, !.at = "sweeping"] \in PassType
    BY <2>1, PassSets, Zenon DEF Places
  <2>3. pass' \in PassType
    <3>1. [Listed EXCEPT !.limited = TRUE, !.at = "sweeping", !.todo = Visits] \in PassType
      BY <1>0, <2>2, PassSets, Zenon
    <3> QED BY <1>3, <2>2, <3>1, Zenon DEF ListLimited
  <2>4. retryIn' \in [Adapter -> Nat \cup {NoTimer}] BY <1>3 DEF ListLimited
  <2>5. /\ cache' \in [Adapter -> SUBSET Resource]
        /\ cacheLeft' \in [Adapter -> Nat \cup {NoTimer}]
    BY <1>3, PopsTyped DEF ListLimited
  <2> QED BY <1>3, <2>3, <2>4, <2>5, UsesTyped, Zenon DEF ListLimited
<1> QED BY <1>1, <1>2, <1>3

(* Where a pass is with an adapter. *)
Lists ==
    /\ pass.at = "granting" => pass.listing # NoAdapter
    /\ pass.listing # NoAdapter => pass.at \in {"starting", "baselines", "sweeping", "granting"}

(* Where a step leaves the pass, and which list it has. *)
Leaves(places, a) == pass'.at \in places /\ pass'.listing = a

LEMMA PassMoves ==
    ASSUME pass \in PassType, Lists
    PROVE  /\ \A c : Enter(c) \/ EnterFails(c) =>
                   pass' = pass \/ Leaves({"baselines", "finishing"}, NoAdapter)
           /\ Catalog \/ CatalogFails \/ SweepEnds \/ SweepLimited \/ Record =>
                   Leaves({"sweeping", "finishing", "recorded"}, NoAdapter)
           /\ StartFails => pass.at = "starting" /\ Leaves({"starting"}, NoAdapter)
           /\ \A a \in Adapter :
                 /\ ListCached(a) => Leaves({"granting"}, a)
                 /\ ListHeld(a) => Leaves({"sweeping"}, NoAdapter)
                 /\ ListBegin(a) => Leaves({pass.at}, a) /\ pass.at \in {"starting", "baselines", "sweeping"}
           /\ InFlight /\ (ListFails \/ ListLimited) => Leaves({pass.at, "finishing", "sweeping"}, NoAdapter)
           /\ \A x : HandOff(x) \/ HandOffLimited(x) => Leaves({"sweeping"}, NoAdapter)
<1> USE DEF Leaves, PassType
<1>1. ASSUME NEW c PROVE Begun(c).at = "baselines" /\ Begun(c).listing = NoAdapter
  <2>1. /\ NoPass.listing = NoAdapter
        /\ DOMAIN NoPass = {"at", "forced", "todo", "listing", "seen", "dirty", "age", "items",
                            "woken", "fails", "limited", "prior", "ledger", "errors"}
    BY DEF NoPass
  <2> QED BY <2>1 DEF Begun
<1>2. ASSUME NEW c, Enter(c) PROVE pass' = pass \/ Leaves({"baselines"}, NoAdapter)
  BY <1>1, <1>2, Zenon DEF Enter
<1>3. ASSUME NEW c, EnterFails(c) PROVE Leaves({"finishing"}, NoAdapter)
  BY <1>3 DEF EnterFails, Begun, NoPass
<1>4. Catalog => Leaves({"sweeping"}, NoAdapter) BY DEF Catalog
<1>5. ASSUME NEW at \in {"sweeping", "finishing"}, pass.listing = NoAdapter,
             \/ pass' = [pass EXCEPT !.at = at, !.todo = Visits, !.fails = TRUE]
             \/ pass' = [pass EXCEPT !.at = at, !.todo = Visits, !.limited = TRUE]
      PROVE  Leaves({"sweeping", "finishing"}, NoAdapter)
  BY <1>5
<1>c. CatalogFails => Leaves({"sweeping", "finishing"}, NoAdapter) BY <1>5, Zenon DEF CatalogFails
<1>6. SweepEnds => Leaves({"finishing"}, NoAdapter) BY DEF SweepEnds, Sweeping
<1>7. SweepLimited => Leaves({"finishing"}, NoAdapter) BY DEF SweepLimited, Sweeping
<1>8. Record => Leaves({"recorded"}, NoAdapter) BY DEF Record, Lists
<1>9. StartFails => pass.at = "starting" /\ Leaves({"starting"}, NoAdapter)
  BY DEF StartFails, Starting, NoPass
<1>10. ASSUME NEW a \in Adapter
       PROVE  /\ ListCached(a) => Leaves({"granting"}, a)
              /\ ListHeld(a) => Leaves({"sweeping"}, NoAdapter)
              /\ ListBegin(a) => Leaves({pass.at}, a) /\ pass.at \in {"starting", "baselines", "sweeping"}
  <2>1. ListCached(a) => Leaves({"granting"}, a) BY DEF ListCached
  <2>2. ListHeld(a) => Leaves({"sweeping"}, NoAdapter) BY DEF ListHeld, Sweeping
  <2>3. ListBegin(a) => Leaves({pass.at}, a) /\ pass.at \in {"starting", "baselines", "sweeping"}
    BY DEF ListBegin
  <2> QED BY <2>1, <2>2, <2>3
<1>11. Listed \in PassType /\ Listed.at = pass.at /\ Listed.listing = NoAdapter
  BY DEF Listed
<1>12. ListFails => Leaves({pass.at}, NoAdapter) BY <1>11 DEF ListFails
<1>13. ListLimited => Leaves({"finishing", "sweeping"}, NoAdapter)
  <2>1. ListLimited => \/ pass' = [Listed EXCEPT !.limited = TRUE, !.at = "finishing"]
                       \/ pass' = [Listed EXCEPT !.limited = TRUE, !.at = "sweeping", !.todo = Visits]
    BY DEF ListLimited
  <2>2. ASSUME NEW p \in PassType, p.listing = NoAdapter,
               \/ pass' = [p EXCEPT !.limited = TRUE, !.at = "finishing"]
               \/ pass' = [p EXCEPT !.limited = TRUE, !.at = "sweeping", !.todo = Visits]
        PROVE  Leaves({"finishing", "sweeping"}, NoAdapter)
    BY <2>2
  <2> QED BY <1>11, <2>1, <2>2
<1>14. ASSUME NEW x PROVE HandOff(x) => Leaves({"sweeping"}, NoAdapter) BY DEF HandOff
<1>15. ASSUME NEW x PROVE HandOffLimited(x) => Leaves({"sweeping"}, NoAdapter) BY DEF HandOffLimited
<1> QED
  <2> USE DEF Leaves
  <2>1. \A c : Enter(c) \/ EnterFails(c) =>
            pass' = pass \/ Leaves({"baselines", "finishing"}, NoAdapter)
    BY <1>2, <1>3
  <2> QED BY <2>1, <1>4, <1>c, <1>6, <1>7, <1>8, <1>9, <1>10, <1>12, <1>13, <1>14, <1>15

(* The grants. *)
LEMMA GrantTyped ==
    ASSUME EntitlementTypeOK, Lists,
           \/ HandOff({})
           \/ \E failed \in (SUBSET pass.items) \ {{}} : HandOff(failed)
           \/ \E done \in SUBSET pass.items : HandOffLimited(done) \/ PassRaises(done)
    PROVE  EntitlementTypeOK'
<1> USE DEF EntitlementTypeOK, worldVars, scheduleVars, cacheVars, proofVars
<1>1. pass.items \in SUBSET Resource /\ pass.todo \ {pass.listing} \in SUBSET Adapter
      /\ pass.listing \in Adapter \cup {NoAdapter} /\ pass.fails \in BOOLEAN
  BY DEF PassType
<1>2. \A failed : Granted(failed) \subseteq made BY DEF Granted
<1>3. \A r \in Resource : \A failed :
        Outcome(r, failed) \in {"none", "discovered", "failed", "handed_off"}
  BY DEF Outcome, Ledger
<1>4. [pass EXCEPT !.at = "sweeping", !.listing = NoAdapter] \in PassType
  BY PassSets, Zenon DEF Places
<1>5. [pass EXCEPT !.at = "sweeping", !.listing = NoAdapter, !.items = {}] \in PassType
  BY <1>4, PassSets, Zenon
<1>6. [pass EXCEPT !.at = "sweeping", !.listing = NoAdapter, !.items = {},
                   !.todo = pass.todo \ {pass.listing}] \in PassType
  BY <1>1, <1>5, PassSets, Zenon
<1>7. ASSUME NEW failed, HandOff(failed) PROVE EntitlementTypeOK'
  <2>1. errors' \subseteq Adapter BY <1>1, <1>7 DEF HandOff, Lists
  <2>2. ledger' \in Ledger BY <1>3, <1>7 DEF HandOff, Ledger
  <2>3. granted' \subseteq made BY <1>2, <1>7 DEF HandOff
  <2>4. pass' \in PassType
    <3>1. (pass.fails \/ failed \cup Gone \cup Unverified(failed) # {}) \in BOOLEAN OBVIOUS
    <3> QED BY <1>6, <1>7, <3>1, PassSets, Zenon DEF HandOff
  <2>5. used' \in UseType BY <1>7, UsesTyped DEF HandOff
  <2> QED BY <1>7, <2>1, <2>2, <2>3, <2>4, <2>5, Zenon DEF HandOff
<1>8. ASSUME NEW done, HandOffLimited(done) PROVE EntitlementTypeOK'
  <2>1. granted' \subseteq made BY <1>2, <1>8 DEF HandOffLimited
  <2>2. pass' \in PassType BY <1>6, <1>8, PassSets, Zenon DEF HandOffLimited
  <2> QED BY <1>8, <2>1, <2>2, UsesTyped, Zenon DEF HandOffLimited
<1>9. ASSUME NEW done, PassRaises(done) PROVE EntitlementTypeOK'
  <2>1. ledger' \in Ledger BY <1>3, <1>9 DEF PassRaises, Ledger
  <2>2. granted' \subseteq made BY <1>2, <1>9 DEF PassRaises
  <2>3. ok' \in Health /\ nextIn' \in Nat BY <1>9 DEF PassRaises, Health
  <2> QED BY <1>9, <2>1, <2>2, <2>3, PassesTyped, UsesTyped, Zenon DEF PassRaises
<1> QED BY <1>7, <1>8, <1>9

(* The ends of a pass. *)
LEMMA FinishTyped ==
    ASSUME EntitlementTypeOK,
           \/ SweepLimited \/ SweepEnds \/ Record \/ Schedule \/ LoopAttempt
           \/ \E delay \in Delays : Defer(delay)
    PROVE  EntitlementTypeOK'
<1> USE DEF EntitlementTypeOK, worldVars, scheduleVars, cacheVars, proofVars, PassOnly
<1>1. [pass EXCEPT !.at = "finishing"] \in PassType /\ [pass EXCEPT !.at = "recorded"] \in PassType
  BY PassSets, Zenon DEF Places
<1>2. CASE SweepLimited
  <2>1. /\ cache' \in [Adapter -> SUBSET Resource]
        /\ cacheLeft' \in [Adapter -> Nat \cup {NoTimer}]
        /\ retryIn' \in [Adapter -> Nat \cup {NoTimer}]
    BY <1>2, PopsTyped DEF SweepLimited
  <2>2. invalid' = invalid BY <1>2 DEF SweepLimited
  <2> QED BY <1>1, <1>2, <2>1, <2>2, Zenon DEF SweepLimited
<1>3. CASE SweepEnds
  <2>1. (pass.fails \/ errors # {}) \in BOOLEAN OBVIOUS
  <2>2. pass' \in PassType BY <1>1, <1>3, <2>1, PassSets, Zenon DEF SweepEnds
  <2> QED BY <1>3, <2>2, Zenon DEF SweepEnds
<1>4. CASE Record
  <2>1. \A t \in Expiries : t \in Nat BY DEF Expiries
  <2>2. nextIn' \in Nat /\ ok' \in Health /\ idle' \in BOOLEAN
    BY <1>4, <2>1 DEF Record, Earliest, Health
  <2> QED BY <1>1, <1>4, <2>2, Zenon DEF Record
<1>5. CASE Schedule
  <2>1. \A t \in Pending : t \in Nat BY DEF Pending, NoTimer
  <2>2. nextIn' \in Nat /\ idle' \in BOOLEAN
    <3>1. ASSUME NEW t \in Pending, nextIn' = Smaller(t, nextIn) PROVE nextIn' \in Nat
      BY <2>1, <3>1 DEF Smaller
    <3>2. nextIn' = nextIn \/ nextIn' = 0 \/ \E t \in Pending : nextIn' = Smaller(t, nextIn)
      BY <1>5, Zenon DEF Schedule
    <3>3. idle' = FALSE \/ idle' = idle BY <1>5, Zenon DEF Schedule
    <3>4. nextIn' \in Nat BY <3>1, <3>2
    <3>5. idle' \in BOOLEAN BY <3>3, Zenon
    <3> QED BY <3>4, <3>5
  <2>3. pass' \in PassType BY <1>5, PassesTyped DEF Schedule
  <2> QED BY <1>5, <2>2, <2>3, Zenon DEF Schedule
<1>6. CASE LoopAttempt
  <2>1. caller' \in [Caller \cup {Loop} -> [at : {"away", "queued"}, only : SUBSET Adapter]]
    BY <1>6 DEF LoopAttempt, Calls
  <2> QED BY <1>6, <2>1, Zenon DEF LoopAttempt
<1>7. ASSUME NEW delay \in Delays, Defer(delay) PROVE EntitlementTypeOK'
  <2>1. pass.ledger \in Ledger /\ pass.errors \subseteq Adapter BY DEF PassType
  <2>2. nextIn' \in Nat /\ floorIn' \in Nat BY <1>7 DEF Defer
  <2> QED BY <1>7, <2>1, <2>2, PassesTyped, Zenon DEF Defer
<1> QED BY <1>2, <1>3, <1>4, <1>5, <1>6, <1>7

(* The steps of a pass, apart from the times when it begins. *)
PassStep ==
    \/ PassSteps
    \/ StartFails \/ CatalogFails \/ ListFails \/ ListLimited
    \/ \E failed \in (SUBSET pass.items) \ {{}} : HandOff(failed)
    \/ \E done \in SUBSET pass.items : HandOffLimited(done) \/ PassRaises(done)

LEMMA NextCases ==
    ASSUME EntitlementNext
    PROVE  \/ Workspace \/ TimePasses \/ LoopAttempt \/ PassStep
           \/ \E c \in Caller \cup {Loop} : Enter(c) \/ EnterFails(c)
BY DEF EntitlementNext, Reconcile, PassFaults, PassStep

LEMMA PassStepTyped ==
    ASSUME EntitlementTypeOK, Lists, PassStep
    PROVE  EntitlementTypeOK'
<1>1. ASSUME ListFails \/ ListLimited
      PROVE  EntitlementTypeOK'
  BY <1>1, EndTyped DEF ListFails, ListLimited
<1> QED BY <1>1, BeginTyped, EndTyped, GrantTyped, FinishTyped DEF PassStep, PassSteps

LEMMA ListsStep ==
    ASSUME EntitlementTypeOK, Lists, [EntitlementNext]_entitlementVars
    PROVE  Lists'
<1> USE DEF Lists
<1>0. pass \in PassType BY DEF EntitlementTypeOK
<1>1. CASE Workspace
  <2>1. ASSUME NEW labels, Wake(labels) PROVE Lists'
    BY <1>0, <2>1 DEF Wake, PassType
  <2>2. CASE UNCHANGED pass BY <2>2
  <2> QED BY <1>1, <2>1, <2>2 DEF Workspace, Make, Drift, Remove, Request
<1>2. CASE TimePasses BY <1>0, <1>2 DEF TimePasses, Aged, PassType
<1>3. CASE LoopAttempt BY <1>3 DEF LoopAttempt
<1>4. ASSUME NEW c, Enter(c) \/ EnterFails(c) PROVE Lists'
  BY <1>0, <1>4, PassMoves DEF Leaves
<1>5. CASE PassStep
  <2>1. CASE Catalog \/ CatalogFails \/ StartFails \/ SweepLimited \/ SweepEnds \/ Record
    BY <1>0, <2>1, PassMoves DEF Leaves
  <2>2. ASSUME NEW a \in Adapter, ListCached(a) \/ ListHeld(a) \/ ListBegin(a)
        PROVE  Lists'
    BY <1>0, <2>2, PassMoves DEF Leaves, PassType
  <2>3. ASSUME NEW items, NEW time, InFlight, ListEnd(items, time) PROVE Lists'
    BY <1>0, <2>3 DEF InFlight, ListEnd, TakeBaseline, TakeItems, Listed, PassType
  <2>4. CASE ListFails \/ ListLimited
    <3>1. InFlight BY <2>4 DEF ListFails, ListLimited
    <3>2. Leaves({pass.at, "finishing", "sweeping"}, NoAdapter) BY <1>0, <2>4, <3>1, PassMoves
    <3> QED BY <3>1, <3>2 DEF Leaves, InFlight
  <2>5. ASSUME NEW failed, HandOff(failed) \/ HandOffLimited(failed) PROVE Lists'
    BY <1>0, <2>5, PassMoves DEF Leaves
  <2>6. ASSUME NEW x, PassRaises(x) \/ Defer(x) PROVE Lists'
    BY <2>6 DEF PassRaises, Defer, NoPass
  <2>7. CASE Schedule \/ Started BY <2>7 DEF Schedule, Started, NoPass
  <2> QED BY <1>5, <2>1, <2>2, <2>3, <2>4, <2>5, <2>6, <2>7 DEF PassStep, PassSteps
<1>6. CASE UNCHANGED entitlementVars BY <1>6 DEF entitlementVars
<1> QED BY <1>1, <1>2, <1>3, <1>4, <1>5, <1>6, NextCases

LEMMA EntitlementTypeStep ==
    ASSUME EntitlementTypeOK, Lists, [EntitlementNext]_entitlementVars
    PROVE  EntitlementTypeOK'
<1>1. CASE UNCHANGED entitlementVars
  BY <1>1 DEF entitlementVars, worldVars, scheduleVars, cacheVars, proofVars,
     EntitlementTypeOK
<1> QED BY <1>1, NextCases, WorkspaceTyped, TimeTyped, FinishTyped, PassStepTyped, EnterTyped

(* Typed is inductive. *)
Typed == EntitlementTypeOK /\ Lists

(* Every variable of the reconciler has its type. *)
THEOREM EntitlementTypeCorrect == EntitlementSpec => []EntitlementTypeOK
<1>1. EntitlementInit => Typed
  BY EntitlementInitTyped DEF EntitlementInit, Starting, NoPass, Lists, Typed
<1>2. Typed /\ [EntitlementNext]_entitlementVars => Typed'
  BY ListsStep, EntitlementTypeStep DEF Typed
<1>3. Typed => EntitlementTypeOK BY DEF Typed
<1> QED BY <1>1, <1>2, <1>3, PTL DEF EntitlementSpec

-----------------------------------------------------------------------------
(* The floor under a backoff. *)

(* The time that was asked for is not over before the next attempt. *)
Floored == floorIn > 0 => pass.at = "none" /\ deferred /\ nextIn >= floorIn

LEMMA FlooredStep ==
    ASSUME EntitlementTypeOK, Lists, Floored, [EntitlementNext]_entitlementVars
    PROVE  Floored'
<1> USE DEF Floored
<1>0. pass \in PassType /\ nextIn \in Nat /\ floorIn \in Nat BY DEF EntitlementTypeOK
<1>1. CASE Workspace
  <2>1. ASSUME NEW labels, Wake(labels) PROVE Floored'
    BY <1>0, <2>1 DEF Wake, InBackoff, Running
  <2>2. CASE UNCHANGED <<pass, scheduleVars>> BY <2>2 DEF scheduleVars
  <2> QED BY <1>1, <2>1, <2>2 DEF Workspace, Make, Drift, Remove, Request
<1>2. CASE TimePasses
  <2>1. pass'.at = pass.at BY <1>0, <1>2 DEF TimePasses, Aged, PassType
  <2> QED BY <1>0, <1>2, <2>1 DEF TimePasses, Less
<1>3. CASE LoopAttempt BY <1>3 DEF LoopAttempt, scheduleVars
<1>4. ASSUME NEW c, Enter(c) \/ EnterFails(c) PROVE Floored'
  BY <1>0, <1>4 DEF Enter, EnterFails, InBackoff, scheduleVars
<1>5. ASSUME NEW delay \in Delays, Defer(delay) PROVE Floored'
  BY <1>5 DEF Defer, NoPass
<1>6. CASE PassStep
  <2>1. CASE pass.at # "none" /\ floorIn' = floorIn BY <1>0, <2>1
  <2>2. CASE Catalog \/ CatalogFails \/ StartFails \/ SweepLimited \/ SweepEnds \/ Record
    BY <2>1, <2>2 DEF Catalog, CatalogFails, StartFails, Sweeping, SweepLimited, SweepEnds, Record,
       PassOnly, scheduleVars, Starting, NoPass
  <2>3. ASSUME NEW a \in Adapter, ListCached(a) \/ ListHeld(a) \/ ListBegin(a)
        PROVE  Floored'
    BY <2>1, <2>3 DEF ListCached, ListHeld, Sweeping, ListBegin, PassOnly, scheduleVars
  <2>4. ASSUME NEW items, NEW time, ListEnd(items, time) PROVE Floored'
    BY <2>1, <2>4 DEF ListEnd, TakeBaseline, TakeItems, scheduleVars
  <2>5. CASE ListFails \/ ListLimited
    BY <2>1, <2>5 DEF Lists, InFlight, ListFails, ListLimited, PassOnly, scheduleVars
  <2>6. ASSUME NEW failed, HandOff(failed) \/ HandOffLimited(failed) \/ PassRaises(failed)
        PROVE  Floored'
    BY <2>1, <2>6 DEF HandOff, HandOffLimited, PassRaises, Running, scheduleVars
  <2>7. CASE Schedule \/ Started
    BY <2>1, <2>7 DEF Schedule, Started
  <2> QED BY <1>5, <1>6, <2>2, <2>3, <2>4, <2>5, <2>6, <2>7 DEF PassStep, PassSteps
<1>7. CASE UNCHANGED entitlementVars BY <1>7 DEF entitlementVars, scheduleVars
<1> QED BY <1>1, <1>2, <1>3, <1>4, <1>5, <1>6, <1>7, NextCases

(* "Backoff remains a hard floor": while the platform asked for no request *)
(* there is no pass, whoever was queued behind the one that was limited.   *)
THEOREM BackoffHeld == EntitlementSpec => []BackoffIsAFloor
<1> DEFINE IFloor == Typed /\ Floored
<1>1. EntitlementInit => IFloor
  BY EntitlementInitTyped DEF EntitlementInit, Starting, NoPass, Lists, Typed, Floored
<1>2. IFloor /\ [EntitlementNext]_entitlementVars => IFloor'
  BY ListsStep, EntitlementTypeStep, FlooredStep DEF Typed
<1>3. IFloor => BackoffIsAFloor BY DEF Floored, BackoffIsAFloor
<1> QED BY <1>1, <1>2, <1>3, PTL DEF EntitlementSpec

-----------------------------------------------------------------------------
(* The wakes that are kept. *)

(* Nothing is woken before the server has started. *)
Kept == WakeIsNotLost /\ (pass.at = "starting" => invalid = {})

LEMMA ScheduleKeeps ==
    ASSUME EntitlementTypeOK, Schedule
    PROVE  WakeIsNotLost'
<1> SUFFICES ASSUME NEW a \in invalid PROVE nextIn' = 0 \/ nextIn' <= retryIn[a]
  BY DEF Schedule, WakeIsNotLost, cacheVars
<1>1. nextIn \in Nat /\ retryIn[a] \in Nat \cup {NoTimer} BY DEF EntitlementTypeOK
<1>2. PICK t \in Pending : Earliest(Pending, t) /\ nextIn' = Smaller(t, nextIn)
  BY Zenon DEF Schedule
<1>3. t \in Nat
  <2>1. \A b \in invalid : retryIn[b] \in Nat \cup {NoTimer} BY DEF EntitlementTypeOK
  <2>2. PICK b \in invalid : t = IF retryIn[b] > 0 THEN retryIn[b] ELSE 0
    BY Zenon DEF Pending
  <2> QED BY <2>1, <2>2 DEF NoTimer
<1>4. (IF retryIn[a] > 0 THEN retryIn[a] ELSE 0) \in Pending BY DEF Pending
<1>5. t <= (IF retryIn[a] > 0 THEN retryIn[a] ELSE 0) BY <1>2, <1>4, Zenon DEF Earliest
<1>6. nextIn' = t \/ (nextIn' = nextIn /\ nextIn <= t) BY <1>1, <1>2, <1>3 DEF Smaller
<1>7. CASE retryIn[a] > 0
  <2>1. t <= retryIn[a] /\ retryIn[a] \in Nat BY <1>1, <1>5, <1>7 DEF NoTimer
  <2> HIDE DEF Pending
  <2> QED BY <1>1, <1>3, <1>6, <2>1
<1>8. CASE ~(retryIn[a] > 0)
  <2>1. t = 0 BY <1>3, <1>5, <1>8
  <2> QED BY <1>1, <1>6, <2>1
<1> QED BY <1>7, <1>8

LEMMA KeptStep ==
    ASSUME EntitlementTypeOK, Lists, Kept, [EntitlementNext]_entitlementVars
    PROVE  Kept'
<1> USE DEF Kept, WakeIsNotLost, InBackoff
<1>0. /\ pass \in PassType /\ nextIn \in Nat
      /\ retryIn \in [Adapter -> Nat \cup {NoTimer}] /\ invalid \subseteq Adapter
  BY DEF EntitlementTypeOK
<1>1. CASE Workspace
  <2>1. ASSUME NEW labels, Wake(labels) PROVE Kept'
    <3>1. nextIn' = 0 \/ (deferred' /\ nextIn' > 0) BY <1>0, <2>1 DEF Wake
    <3>2. pass'.at # "starting" BY <1>0, <2>1 DEF Wake, Running, PassType
    <3> QED BY <3>1, <3>2
  <2>2. CASE UNCHANGED <<pass, scheduleVars, cacheVars>> BY <2>2 DEF scheduleVars, cacheVars
  <2> QED BY <1>1, <2>1, <2>2 DEF Workspace, Make, Drift, Remove, Request
<1>2. CASE TimePasses
  <2>1. pass'.at = pass.at BY <1>0, <1>2 DEF TimePasses, Aged, PassType
  <2>2. nextIn' = 0 \/ (nextIn > 0 /\ nextIn' = nextIn - 1) BY <1>0, <1>2 DEF TimePasses, Less
  <2>3. ASSUME NEW a \in invalid PROVE retryIn[a] > 0 => retryIn'[a] = retryIn[a] - 1
    BY <1>0, <1>2 DEF TimePasses, Less
  <2>4. deferred' = deferred /\ raised' = raised /\ invalid' = invalid BY <1>2 DEF TimePasses
  <2> QED BY <1>0, <2>1, <2>2, <2>3, <2>4 DEF NoTimer
<1>3. CASE LoopAttempt BY <1>3 DEF LoopAttempt, scheduleVars, cacheVars
<1>4. ASSUME NEW c, Enter(c) \/ EnterFails(c) PROVE Kept'
  <2>1. UNCHANGED <<scheduleVars, cacheVars>> BY <1>4 DEF Enter, EnterFails
  <2>2. pass' = pass \/ pass'.at \in {"baselines", "finishing"} BY <1>0, <1>4, PassMoves DEF Leaves
  <2>3. CASE pass' = pass BY <2>1, <2>3 DEF scheduleVars, cacheVars
  <2>4. CASE pass'.at \in {"baselines", "finishing"}
    BY <2>1, <2>4 DEF scheduleVars, cacheVars
  <2> QED BY <2>2, <2>3, <2>4
<1>5. CASE PassStep
  <2>0. ASSUME pass'.at # "none", pass'.at = "starting" => pass.at = "starting",
               invalid' \subseteq invalid
        PROVE  Kept'
    BY <2>0
  <2>1. CASE Catalog \/ CatalogFails \/ StartFails \/ SweepLimited \/ SweepEnds \/ Record
    <3>1. invalid' = invalid
      BY <2>1 DEF Catalog, CatalogFails, StartFails, SweepLimited, SweepEnds, Record, cacheVars
    <3>2. pass'.at # "none" /\ (pass'.at = "starting" => pass.at = "starting")
      BY <1>0, <2>1, PassMoves DEF Leaves
    <3> QED BY <2>0, <3>1, <3>2
  <2>2. ASSUME NEW a \in Adapter, ListCached(a) \/ ListHeld(a) \/ ListBegin(a)
        PROVE  Kept'
    <3>1. invalid' = invalid BY <2>2 DEF ListCached, ListHeld, ListBegin, cacheVars
    <3>2. pass'.at # "none" /\ (pass'.at = "starting" => pass.at = "starting")
      BY <1>0, <2>2, PassMoves DEF Leaves
    <3> QED BY <2>0, <3>1, <3>2
  <2>3. ASSUME NEW items, NEW time, InFlight, ListEnd(items, time) PROVE Kept'
    BY <1>0, <2>0, <2>3 DEF InFlight, ListEnd, Refill, TakeBaseline, TakeItems, Listed, PassType
  <2>4. CASE ListFails \/ ListLimited
    <3>1. InFlight /\ invalid' = invalid BY <2>4 DEF ListFails, ListLimited
    <3>2. Leaves({pass.at, "finishing", "sweeping"}, NoAdapter) BY <1>0, <2>4, <3>1, PassMoves
    <3>3. pass.at # "none" BY <3>1 DEF InFlight, Lists
    <3> QED BY <2>0, <3>1, <3>2, <3>3 DEF Leaves
  <2>5. ASSUME NEW failed, HandOff(failed) \/ HandOffLimited(failed) PROVE Kept'
    <3>1. CASE HandOff(failed)
      <4>1. pass'.at = "sweeping" /\ invalid' = invalid
        BY <1>0, <3>1 DEF HandOff, cacheVars, PassType
      <4> QED BY <2>0, <4>1
    <3>2. CASE HandOffLimited(failed)
      <4>1. pass'.at = "sweeping" /\ invalid' = invalid
        BY <1>0, <3>2 DEF HandOffLimited, cacheVars, PassType
      <4> QED BY <2>0, <4>1
    <3> QED BY <2>5, <3>1, <3>2
  <2>6. ASSUME NEW done, PassRaises(done) PROVE Kept'
    BY <2>6 DEF PassRaises, NoPass
  <2>9. ASSUME NEW delay \in Delays, Defer(delay) PROVE Kept'
    BY <2>9 DEF Defer, NoPass
  <2>7. CASE Schedule
    <3>1. WakeIsNotLost' BY <2>7, ScheduleKeeps
    <3> QED BY <2>7, <3>1 DEF Schedule, NoPass
  <2>8. CASE Started BY <2>8 DEF Started, cacheVars, NoPass
  <2> QED BY <1>5, <2>1, <2>2, <2>3, <2>4, <2>5, <2>6, <2>7, <2>8,
        <2>9 DEF PassStep, PassSteps
<1>6. CASE UNCHANGED entitlementVars BY <1>6 DEF entitlementVars, scheduleVars, cacheVars
<1> QED BY <1>1, <1>2, <1>3, <1>4, <1>5, <1>6, NextCases

(* A wake that comes during a pass wins over the cadence the pass chooses. *)
THEOREM WakesKept == EntitlementSpec => []WakeIsNotLost
<1> DEFINE IKept == Typed /\ Kept
<1>1. EntitlementInit => IKept
  BY EntitlementInitTyped
  DEF EntitlementInit, Starting, NoPass, Lists, Typed, Kept, WakeIsNotLost
<1>2. IKept /\ [EntitlementNext]_entitlementVars => IKept'
  BY ListsStep, EntitlementTypeStep, KeptStep DEF Typed
<1>3. IKept => WakeIsNotLost BY DEF Kept
<1> QED BY <1>1, <1>2, <1>3, PTL DEF EntitlementSpec

-----------------------------------------------------------------------------
(* The caches that are current. *)

(* A list in flight that is going to be kept has what its adapter had when *)
(* it was last woken.                                                      *)
FlightIsCurrent ==
    InFlight /\ ~pass.dirty => noted \cap Of(pass.listing) \subseteq pass.seen

Current == CacheIsCurrent /\ FlightIsCurrent

(* What leaves the cache leaves nothing stale. *)
LEMMA PopsKeepsCurrent ==
    ASSUME EntitlementTypeOK, CacheIsCurrent, NEW labels, Pops(labels), noted' = noted
    PROVE  CacheIsCurrent'
BY DEF CacheIsCurrent, Pops, Of, EntitlementTypeOK

LEMMA WakeKeepsCurrent ==
    ASSUME EntitlementTypeOK, Lists, Current, NEW labels, Wake(labels)
    PROVE  Current'
<1>1. \A a \in Adapter : a \notin labels => noted' \cap Of(a) = noted \cap Of(a)
  BY DEF Wake, Of
<1>2. CacheIsCurrent'
  <2>1. \A a \in Adapter : cacheLeft'[a] # NoTimer => /\ a \notin labels
                                                   /\ cacheLeft[a] # NoTimer
                                                   /\ cache'[a] = cache[a]
    BY DEF Wake, Pops
  <2> QED BY <1>1, <2>1, Zenon DEF Current, CacheIsCurrent, Of
<1>3. FlightIsCurrent'
  <2>0. pass \in PassType BY DEF EntitlementTypeOK
  <2> SUFFICES ASSUME InFlight', ~pass'.dirty
               PROVE  noted' \cap Of(pass'.listing) \subseteq pass'.seen
    BY DEF FlightIsCurrent, Of
  <2>1. /\ pass'.listing = pass.listing /\ pass'.at = pass.at /\ pass'.seen = pass.seen
    BY <2>0 DEF Wake, PassType
  <2>2. Running BY <2>1 DEF InFlight, Lists, Running, Wake
  <2>3. pass' = [pass EXCEPT !.woken = TRUE, !.dirty = pass.dirty \/ pass.listing \in labels]
    BY <2>2, Zenon DEF Wake
  <2>4. pass'.dirty = (pass.dirty \/ pass.listing \in labels) BY <2>0, <2>3 DEF PassType
  <2>5. ~pass.dirty /\ pass.listing \notin labels BY <2>4, Zenon
  <2>6. InFlight BY <2>1 DEF InFlight
  <2>7. pass.listing \in Adapter BY <2>0, <2>6 DEF InFlight, PassType
  <2> QED BY <1>1, <2>1, <2>5, <2>6, <2>7, Zenon DEF Current, FlightIsCurrent
<1> QED BY <1>2, <1>3 DEF Current

(* The end of a list request: the response has what was there throughout.  *)
LEMMA ListEndKeepsCurrent ==
    ASSUME EntitlementTypeOK, Current, InFlight, NEW items, NEW time, ListEnd(items, time)
    PROVE  Current'
<1>0. pass \in PassType /\ noted \subseteq made BY DEF EntitlementTypeOK
<1>1. noted' = noted BY DEF ListEnd
<1>2. pass.listing \in Adapter BY <1>0 DEF PassType, InFlight
<1>3. CacheIsCurrent'
  <2>1. CASE pass.dirty
    <3>1. cache' = cache /\ cacheLeft' = cacheLeft BY <2>1, Zenon DEF ListEnd, Refill
    <3> QED BY <1>1, <3>1 DEF Current, CacheIsCurrent
  <2>2. CASE ~pass.dirty
    <3>1. cache' = [cache EXCEPT ![pass.listing] = items]
      BY <2>2, Zenon DEF ListEnd, Refill
    <3>2. \A a \in Adapter : a # pass.listing => cacheLeft'[a] = cacheLeft[a]
      BY <2>2 DEF ListEnd, Refill, EntitlementTypeOK
    <3>3. noted \cap Of(pass.listing) \subseteq items
      BY <1>0, <2>2 DEF Current, FlightIsCurrent, ListEnd
    <3>4. \A a \in Adapter : cache'[a] = IF a = pass.listing THEN items ELSE cache[a]
      BY <3>1 DEF EntitlementTypeOK
    <3> QED BY <1>1, <3>2, <3>3, <3>4, Zenon DEF Current, CacheIsCurrent, Of
  <2> QED BY <2>1, <2>2
<1>4. FlightIsCurrent'
  BY <1>0 DEF FlightIsCurrent, InFlight, ListEnd, TakeBaseline, TakeItems, Listed, PassType
<1> QED BY <1>3, <1>4 DEF Current

LEMMA CurrentStep ==
    ASSUME EntitlementTypeOK, Lists, Current, [EntitlementNext]_entitlementVars
    PROVE  Current'
<1>0. pass \in PassType BY DEF EntitlementTypeOK
<1>a. ASSUME cache' = cache, cacheLeft' = cacheLeft, noted' \subseteq noted
      PROVE  CacheIsCurrent'
  BY <1>a DEF Current, CacheIsCurrent, Of
<1>b. ASSUME pass' = pass, noted' \subseteq noted
      PROVE  FlightIsCurrent'
  BY <1>b DEF Current, FlightIsCurrent, InFlight, Of
<1>c. ASSUME ~InFlight' PROVE FlightIsCurrent'
  BY <1>c DEF FlightIsCurrent
<1>1. CASE Workspace
  <2>1. ASSUME NEW labels, Wake(labels) PROVE Current'
    BY <2>1, WakeKeepsCurrent
  <2>2. ASSUME NEW r, Make(r) \/ Drift(r) \/ Remove(r) PROVE Current'
    BY <1>a, <1>b, <2>2 DEF Make, Drift, Remove, cacheVars, Current
  <2>3. ASSUME NEW c, NEW labels, Request(c, labels) PROVE Current'
    BY <1>a, <1>b, <2>3 DEF Request, cacheVars, Current
  <2> QED BY <1>1, <2>1, <2>2, <2>3 DEF Workspace
<1>2. CASE TimePasses
  <2>1. \A a \in Adapter : cacheLeft'[a] # NoTimer => cacheLeft[a] # NoTimer
    BY <1>2 DEF TimePasses, Less, EntitlementTypeOK, NoTimer
  <2>2. CacheIsCurrent' BY <1>2, <2>1 DEF TimePasses, Current, CacheIsCurrent, Of
  <2>3. /\ pass'.at = pass.at /\ pass'.listing = pass.listing /\ pass'.seen = pass.seen
        /\ pass'.dirty = pass.dirty /\ noted' = noted
    BY <1>0, <1>2 DEF TimePasses, Aged, PassType
  <2>4. FlightIsCurrent' BY <2>3, Zenon DEF Current, FlightIsCurrent, InFlight, Of
  <2> QED BY <2>2, <2>4 DEF Current
<1>3. CASE LoopAttempt BY <1>a, <1>b, <1>3 DEF LoopAttempt, cacheVars, Current
<1>4. ASSUME NEW c, Enter(c) \/ EnterFails(c) PROVE Current'
  <2>1. CASE pass' = pass BY <1>4, <1>a, <1>b, <2>1 DEF Enter, EnterFails, cacheVars, Current
  <2>2. CASE pass' # pass
    <3>1. ~InFlight' BY <1>0, <1>4, <2>2, PassMoves DEF Leaves, InFlight
    <3> QED BY <1>4, <1>a, <1>c, <3>1 DEF Enter, EnterFails, cacheVars, Current
  <2> QED BY <2>1, <2>2
<1>5. CASE PassStep
  <2>1. CASE Catalog \/ CatalogFails \/ SweepEnds \/ Record
    <3>1. ~InFlight'
      BY <1>0, <2>1, PassMoves DEF Leaves, InFlight
    <3>2. CacheIsCurrent'
      BY <1>a, <2>1 DEF Catalog, CatalogFails, SweepEnds, Record, PassOnly, cacheVars
    <3> QED BY <1>c, <3>1, <3>2 DEF Current
  <2>2. CASE StartFails
    <3>1. ~InFlight' BY <1>0, <2>2, PassMoves DEF Leaves, InFlight
    <3>2. CacheIsCurrent' BY <1>a, <2>2 DEF StartFails, PassOnly, cacheVars
    <3> QED BY <1>c, <3>1, <3>2 DEF Current
  <2>3. CASE SweepLimited
    <3>1. ~InFlight' BY <1>0, <2>3 DEF SweepLimited, Sweeping, InFlight, PassType
    <3>2. noted' = noted BY <2>3 DEF SweepLimited, PassOnly
    <3>3. CASE UNCHANGED cacheVars BY <1>a, <1>c, <3>1, <3>2, <3>3 DEF cacheVars, Current
    <3>4. ASSUME NEW a, Pops({a}) PROVE Current'
      BY <1>c, <3>1, <3>2, <3>4, PopsKeepsCurrent DEF Current
    <3> QED BY <2>3, <3>3, <3>4, Zenon DEF SweepLimited
  <2>4. ASSUME NEW a \in Adapter, ListCached(a) \/ ListHeld(a) PROVE Current'
    <3>1. ~InFlight'
      BY <1>0, <2>4 DEF ListCached, ListHeld, Sweeping, InFlight, PassType
    <3>2. CacheIsCurrent'
      BY <1>a, <2>4 DEF ListCached, ListHeld, PassOnly, cacheVars
    <3> QED BY <1>c, <3>1, <3>2 DEF Current
  <2>5. ASSUME NEW a \in Adapter, ListBegin(a) PROVE Current'
    <3>1. CacheIsCurrent' BY <1>a, <2>5 DEF ListBegin, PassOnly, cacheVars
    <3>2. pass'.seen = made \cap Of(a) /\ pass'.listing = a
      BY <1>0, <2>5 DEF ListBegin, PassType
    <3>3. noted' \subseteq made BY <2>5 DEF ListBegin, PassOnly, EntitlementTypeOK
    <3>4. FlightIsCurrent' BY <3>2, <3>3, Zenon DEF FlightIsCurrent, Of
    <3> QED BY <3>1, <3>4 DEF Current
  <2>6. ASSUME NEW items, NEW time, InFlight, ListEnd(items, time) PROVE Current'
    BY <2>6, ListEndKeepsCurrent
  <2>7. CASE ListFails \/ ListLimited
    <3>1. ~InFlight'
      <4>1. InFlight BY <2>7 DEF ListFails, ListLimited
      <4> QED BY <1>0, <2>7, <4>1, PassMoves DEF Leaves, InFlight
    <3>2. noted' = noted /\ Pops({pass.listing}) BY <2>7 DEF ListFails, ListLimited, PassOnly
    <3> QED BY <1>c, <3>1, <3>2, PopsKeepsCurrent DEF Current
  <2>8. ASSUME NEW x, HandOff(x) \/ HandOffLimited(x) PROVE Current'
    <3>1. ~InFlight' BY <1>0, <2>8, PassMoves DEF Leaves, InFlight
    <3> QED BY <1>a, <1>c, <2>8, <3>1 DEF HandOff, HandOffLimited, cacheVars, Current
  <2>9. ASSUME NEW x, PassRaises(x) \/ Defer(x) PROVE Current'
    <3>1. ~InFlight' BY <2>9 DEF PassRaises, Defer, InFlight, NoPass
    <3> QED BY <1>a, <1>c, <2>9, <3>1 DEF PassRaises, Defer, cacheVars, Current
  <2>10. CASE Schedule \/ Started
    <3>1. ~InFlight' BY <2>10 DEF Schedule, Started, InFlight, NoPass
    <3> QED BY <1>a, <1>c, <2>10, <3>1 DEF Schedule, Started, cacheVars, Current
  <2> QED
    BY <1>5, <2>1, <2>2, <2>3, <2>4, <2>5, <2>6, <2>7, <2>8, <2>9, <2>10
    DEF PassStep, PassSteps
<1>6. CASE UNCHANGED entitlementVars
  BY <1>a, <1>b, <1>6 DEF entitlementVars, cacheVars, Current
<1> QED BY <1>1, <1>2, <1>3, <1>4, <1>5, <1>6, NextCases

(* A wake "cannot be satisfied from a cache populated before", whatever    *)
(* list was in flight when it came.                                        *)
THEOREM CachesCurrent == EntitlementSpec => []CacheIsCurrent
<1> DEFINE ICurrent == Typed /\ Current
<1>1. EntitlementInit => ICurrent
  <2> SUFFICES ASSUME EntitlementInit PROVE ICurrent OBVIOUS
  <2>1. Typed BY EntitlementInitTyped DEF EntitlementInit, Starting, NoPass, Lists, Typed
  <2>2. CacheIsCurrent BY DEF EntitlementInit, CacheIsCurrent
  <2>3. FlightIsCurrent
    BY DEF EntitlementInit, FlightIsCurrent, InFlight, Starting, NoPass
  <2> QED BY <2>1, <2>2, <2>3 DEF Current
<1>2. ICurrent /\ [EntitlementNext]_entitlementVars => ICurrent'
  BY ListsStep, EntitlementTypeStep, CurrentStep DEF Typed
<1>3. ICurrent => CacheIsCurrent BY DEF Current
<1> QED BY <1>1, <1>2, <1>3, PTL DEF EntitlementSpec

-----------------------------------------------------------------------------
(* The resources from before the run. *)

OldHere(a) == Old \cap made \cap Of(a)

(* A baseline that is taken has all old resources there still are, and a   *)
(* list in flight those that were there when its request began.            *)
OldKnown ==
    /\ OldStaysUngranted
    /\ \A a \in ready : OldHere(a) \subseteq baseline
    /\ InFlight => OldHere(pass.listing) \subseteq pass.seen

(* So nothing old is eligible, or granted again. *)
LEMMA OldNotGranted ==
    ASSUME EntitlementTypeOK, OldKnown, NEW failed
    PROVE  Granted(failed) \cap Old = {}
<1> SUFFICES ASSUME NEW r \in Granted(failed), r \in Old PROVE FALSE OBVIOUS
<1>1. r \in made /\ (Durable(r) \/ Eligible(r)) BY DEF Granted
<1>2. ~Durable(r) BY DEF Durable, OldKnown, OldStaysUngranted
<1>3. r \in Resource /\ AdapterOf[r] \in Adapter BY <1>1 DEF EntitlementTypeOK
<1>4. AdapterOf[r] \in ready => r \in baseline
  BY <1>1, <1>3 DEF OldKnown, OldHere, Of
<1> QED BY <1>1, <1>2, <1>4 DEF Eligible, Unverifiable

LEMMA OldKnownStep ==
    ASSUME EntitlementTypeOK, Lists, OldKnown, [EntitlementNext]_entitlementVars
    PROVE  OldKnown'
<1>0. pass \in PassType /\ made \subseteq Resource BY DEF EntitlementTypeOK
<1>a. ASSUME OldStaysUngranted', ready' = ready, baseline' = baseline,
             Old \cap made' \subseteq Old \cap made,
             InFlight' => pass'.listing = pass.listing /\ InFlight /\ pass'.seen = pass.seen
      PROVE  OldKnown'
  <2>1. \A a : OldHere(a)' \subseteq OldHere(a) BY <1>a DEF OldHere, Of
  <2>2. \A a \in ready' : OldHere(a)' \subseteq baseline' BY <1>a, <2>1 DEF OldKnown
  <2>3. InFlight' => OldHere(pass.listing)' \subseteq pass'.seen
    BY <1>a, <2>1 DEF OldKnown, OldHere, Of
  <2> QED BY <1>a, <2>2, <2>3 DEF OldKnown
<1>b. ASSUME granted' \subseteq granted PROVE OldStaysUngranted'
  BY <1>b DEF OldKnown, OldStaysUngranted
<1>1. CASE Workspace
  <2>1. ASSUME NEW labels, Wake(labels) PROVE OldKnown'
    <3>1. /\ pass'.listing = pass.listing /\ pass'.at = pass.at /\ pass'.seen = pass.seen
      BY <1>0, <2>1 DEF Wake, PassType
    <3> QED BY <1>a, <1>b, <2>1, <3>1 DEF Wake, worldVars, proofVars, InFlight
  <2>2. ASSUME NEW r, Make(r) PROVE OldKnown'
    <3>1. r \notin Old BY <2>2 DEF Make, EntitlementTypeOK
    <3> QED BY <1>a, <1>b, <2>2, <3>1 DEF Make, proofVars, InFlight
  <2>3. ASSUME NEW r, Drift(r) \/ Remove(r) PROVE OldKnown'
    BY <1>a, <1>b, <2>3 DEF Drift, Remove, proofVars, InFlight
  <2>4. ASSUME NEW c, NEW labels, Request(c, labels) PROVE OldKnown'
    BY <1>a, <1>b, <2>4 DEF Request, worldVars, proofVars, InFlight
  <2> QED BY <1>1, <2>1, <2>2, <2>3, <2>4 DEF Workspace
<1>2. CASE TimePasses
  <2>1. /\ pass'.at = pass.at /\ pass'.listing = pass.listing /\ pass'.seen = pass.seen
    BY <1>0, <1>2 DEF TimePasses, Aged, PassType
  <2> QED BY <1>a, <1>b, <1>2, <2>1 DEF TimePasses, worldVars, proofVars, InFlight
<1>3. CASE LoopAttempt
  BY <1>a, <1>b, <1>3 DEF LoopAttempt, worldVars, proofVars, InFlight
<1>4. ASSUME NEW c, Enter(c) \/ EnterFails(c) PROVE OldKnown'
  <2>1. CASE pass' = pass
    BY <1>a, <1>b, <1>4, <2>1 DEF Enter, EnterFails, worldVars, proofVars, InFlight
  <2>2. CASE pass' # pass
    <3>1. ~InFlight' BY <1>0, <1>4, <2>2, PassMoves DEF Leaves, InFlight
    <3> QED BY <1>a, <1>b, <1>4, <3>1 DEF Enter, EnterFails, worldVars, proofVars
  <2> QED BY <2>1, <2>2
<1>5. CASE PassStep
  <2>1. CASE Catalog \/ CatalogFails \/ SweepLimited \/ SweepEnds \/ Record
    <3>1. ~InFlight'
      BY <1>0, <2>1, PassMoves DEF Leaves, InFlight
    <3> QED
      BY <1>a, <1>b, <2>1, <3>1 DEF Catalog, CatalogFails, SweepLimited, SweepEnds, Record,
         PassOnly, worldVars, proofVars
  <2>2. CASE StartFails
    <3>1. ~InFlight' BY <1>0, <2>2, PassMoves DEF Leaves, InFlight
    <3> QED BY <1>a, <1>b, <2>2, <3>1 DEF StartFails, PassOnly, worldVars, proofVars
  <2>3. ASSUME NEW a \in Adapter, ListCached(a) \/ ListHeld(a) PROVE OldKnown'
    <3>1. ~InFlight'
      BY <1>0, <2>3 DEF ListCached, ListHeld, Sweeping, InFlight, PassType
    <3> QED
      BY <1>a, <1>b, <2>3, <3>1 DEF ListCached, ListHeld, PassOnly, worldVars, proofVars
  <2>4. ASSUME NEW a \in Adapter, ListBegin(a) PROVE OldKnown'
    <3>1. pass'.seen = made \cap Of(a) /\ pass'.listing = a
      BY <1>0, <2>4 DEF ListBegin, PassType
    <3>2. OldStaysUngranted' BY <1>b, <2>4 DEF ListBegin, PassOnly, worldVars
    <3>3. made' = made /\ ready' = ready /\ baseline' = baseline
      BY <2>4 DEF ListBegin, PassOnly, worldVars, proofVars
    <3>4. OldHere(pass.listing)' \subseteq pass'.seen BY <3>1, <3>3 DEF OldHere, Of
    <3> QED BY <3>2, <3>3, <3>4 DEF OldKnown, OldHere, Of
  <2>5. ASSUME NEW items, NEW time, InFlight, ListEnd(items, time) PROVE OldKnown'
    <3>1. ~InFlight'
      BY <1>0, <2>5 DEF ListEnd, TakeBaseline, TakeItems, Listed, InFlight, PassType
    <3>2. made' = made /\ granted' = granted BY <2>5 DEF ListEnd, worldVars
    <3>3. OldHere(pass.listing) \subseteq items BY <2>5 DEF ListEnd, OldKnown, OldHere
    <3>4. CASE TakeBaseline(items)
      BY <1>b, <3>1, <3>2, <3>3, <3>4 DEF TakeBaseline, OldKnown, OldHere, Of
    <3>5. CASE TakeItems(items)
      BY <1>a, <1>b, <3>1, <3>2, <3>5 DEF TakeItems
    <3> QED BY <2>5, <3>4, <3>5 DEF ListEnd
  <2>6. CASE ListFails \/ ListLimited
    <3>1. ~InFlight'
      <4>1. InFlight BY <2>6 DEF ListFails, ListLimited
      <4> QED BY <1>0, <2>6, <4>1, PassMoves DEF Leaves, InFlight
    <3> QED
      BY <1>a, <1>b, <2>6, <3>1 DEF ListFails, ListLimited, PassOnly, worldVars, proofVars
  <2>7. ASSUME NEW x, HandOff(x) \/ HandOffLimited(x) \/ PassRaises(x) PROVE OldKnown'
    <3>a. ASSUME HandOff(x) \/ HandOffLimited(x) PROVE ~InFlight'
      BY <1>0, <3>a, PassMoves DEF Leaves, InFlight
    <3>b. ASSUME PassRaises(x) PROVE ~InFlight' BY <3>b DEF PassRaises, NoPass, InFlight
    <3>1. ~InFlight' BY <2>7, <3>a, <3>b
    <3>2. OldStaysUngranted'
      BY <2>7, OldNotGranted DEF HandOff, HandOffLimited, PassRaises, OldKnown,
         OldStaysUngranted
    <3> QED
      BY <1>a, <2>7, <3>1, <3>2 DEF HandOff, HandOffLimited, PassRaises, proofVars
  <2>8. ASSUME NEW delay, Defer(delay) PROVE OldKnown'
    <3>1. ~InFlight' BY <2>8 DEF Defer, InFlight, NoPass
    <3> QED BY <1>a, <1>b, <2>8, <3>1 DEF Defer, worldVars
  <2>9. CASE Schedule \/ Started
    <3>1. ~InFlight' BY <2>9 DEF Schedule, Started, InFlight, NoPass
    <3> QED BY <1>a, <1>b, <2>9, <3>1 DEF Schedule, Started, worldVars, proofVars
  <2> QED
    BY <1>5, <2>1, <2>2, <2>3, <2>4, <2>5, <2>6, <2>7, <2>8, <2>9 DEF PassStep, PassSteps
<1>6. CASE UNCHANGED entitlementVars
  BY <1>a, <1>b, <1>6 DEF entitlementVars, worldVars, proofVars, InFlight
<1> QED BY <1>1, <1>2, <1>3, <1>4, <1>5, <1>6, NextCases

(* "A failed snapshot never widens access": however late the baseline of   *)
(* an adapter is taken, what was there before the run is not granted.      *)
THEOREM OldUngranted == EntitlementSpec => []OldStaysUngranted
<1> DEFINE IOld == Typed /\ OldKnown
<1>1. EntitlementInit => IOld
  <2> SUFFICES ASSUME EntitlementInit PROVE IOld OBVIOUS
  <2>1. Typed BY EntitlementInitTyped DEF EntitlementInit, Starting, NoPass, Lists, Typed
  <2>2. OldKnown
    BY DEF EntitlementInit, OldKnown, OldStaysUngranted, InFlight, Starting, NoPass
  <2> QED BY <2>1, <2>2
<1>2. IOld /\ [EntitlementNext]_entitlementVars => IOld'
  BY ListsStep, EntitlementTypeStep, OldKnownStep DEF Typed
<1>3. IOld => OldStaysUngranted BY DEF OldKnown
<1> QED BY <1>1, <1>2, <1>3, PTL DEF EntitlementSpec
=============================================================================
