----------------------------- MODULE OmnigentHost -----------------------------
(***************************************************************************)
(* The attendee's Omnigent host (server/omnigent_remote.py): a worker      *)
(* thread that keeps one host process running while the mirrored token     *)
(* (OboMirror) is fresh, the notifications that wake it, and the stop that *)
(* closeout and shutdown use to be rid of it.                              *)
(*                                                                         *)
(* The worker waits on an event (wake), which it clears before it looks at *)
(* what it waits for.  In a wait with a timeout the timeout may pass at    *)
(* any time.  The host's descendants and its output pipe are left out.     *)
(***************************************************************************)
EXTENDS OboMirror

VARIABLES
    worker,         \* the thread: where it is
    wake,
    stale,          \* the mirror was stale at the last look (stale_since)
    proc,           \* the host process: none, up or dead
    published,      \* it is in _observed_processes, or host.process
    stopping,       \* _stopping
    stopped,        \* _stop_finished
    stopper,        \* the thread in stop(): where it is
    target,         \* stop() took the process to terminate
    issues,         \* stop() has something to report
    closed          \* capture is closed: check_open raises

workerVars == <<worker, wake, stale, proc, published>>
stopVars == <<stopped, stopper, target, issues>>
omnigentVars == <<mirrorVars, workerVars, stopVars, stopping, closed>>

Init ==
    /\ MirrorInit
    /\ worker = "none" /\ wake = FALSE /\ stale = FALSE
    /\ proc = "none" /\ published = FALSE
    /\ stopping = FALSE /\ stopped = FALSE /\ stopper = "none"
    /\ target = FALSE /\ issues = FALSE /\ closed = FALSE

Fresh == FreshAt(mirror, now)

(* _spawns_in_progress *)
Spawning == worker \in {"spawning", "spawned", "unspawned"}

-----------------------------------------------------------------------------
(* notify: the event is set, and the thread started if there is none.  It  *)
(* ends only when capture is closed or the host is stopped, and then       *)
(* nobody starts it again.                                                 *)
Notify(w) ==
    /\ writer[w].at = "mirrored" /\ Becomes(w, IdleWriter)
    /\ IF ~scope.started \/ stopping \/ closed THEN UNCHANGED <<wake, worker>>
       ELSE /\ wake' = TRUE
            /\ worker' = IF worker = "none" THEN "top" ELSE worker
    /\ UNCHANGED <<now, record, written, mirror, scope, requests, faults, stale, proc,
                   published, stopVars, stopping, closed>>

-----------------------------------------------------------------------------
(* The worker. *)

Goes(from, to) ==
    /\ worker = from /\ worker' = to
    /\ UNCHANGED <<mirrorVars, stopVars, closed>>

(* The top of the loop: it ends when the host stops or capture is closed.  *)
CheckStopping ==
    /\ Goes("top", IF stopping \/ closed THEN "ended" ELSE "passed")
    /\ UNCHANGED <<wake, stale, proc, published, stopping>>

ClearWake ==
    /\ Goes("passed", "cleared") /\ wake' = FALSE
    /\ UNCHANGED <<stale, proc, published, stopping>>

CheckToken ==
    /\ Goes("cleared", IF Fresh THEN "preparing" ELSE "tokenless")
    /\ UNCHANGED <<wake, stale, proc, published, stopping>>

(* Mutant of CheckTokenAgain: the event is cleared, and nothing looked at. *)
ClearAndWait ==
    /\ Goes("tokenless", "waiting") /\ wake' = FALSE
    /\ UNCHANGED <<stale, proc, published, stopping>>

(* ... and once more after the status has been set. *)
CheckTokenAgain ==
    /\ Goes("tokenless", IF Fresh THEN "top" ELSE "waiting")
    /\ UNCHANGED <<wake, stale, proc, published, stopping>>

(* wake.wait(), without a timeout. *)
Wakes ==
    /\ wake /\ Goes("waiting", "top")
    /\ UNCHANGED <<wake, stale, proc, published, stopping>>

(* No binary, or the content cannot be provisioned: an error, and a wait   *)
(* with a timeout.                                                         *)
PrepareFails ==
    /\ faults < scope.faults /\ faults' = faults + 1
    /\ worker = "preparing" /\ worker' = "pausing"
    /\ wake' \in {wake, FALSE}
    /\ UNCHANGED <<now, record, written, mirror, writer, scope, requests, stale, proc,
                   published, stopVars, stopping, closed>>

Resume ==
    /\ Goes("pausing", "top")
    /\ UNCHANGED <<wake, stale, proc, published, stopping>>

BeginSpawn ==
    /\ Goes("preparing", IF stopping THEN "ended" ELSE "spawning")
    /\ UNCHANGED <<wake, stale, proc, published, stopping>>

(* Popen, inside a writer's admission: closed capture refuses it, and      *)
(* stops the host.                                                         *)
Popen ==
    /\ Goes("spawning", IF closed THEN "unspawned" ELSE "spawned")
    /\ proc' = IF closed THEN "none" ELSE "up"
    /\ stopping' = (stopping \/ closed)
    /\ published' = FALSE /\ UNCHANGED <<wake, stale>>

PopenFails ==
    /\ faults < scope.faults /\ faults' = faults + 1
    /\ worker = "spawning" /\ worker' = "unspawned" /\ proc' = "none"
    /\ UNCHANGED <<now, record, written, mirror, writer, scope, requests, wake, stale,
                   published, stopVars, stopping, closed>>

(* The process is published; one that comes after stop() is over is for    *)
(* the worker to terminate.                                                *)
Publish ==
    \/ /\ Goes("spawned", IF stopping /\ stopped THEN "cleaning" ELSE "running")
       /\ published' = TRUE /\ stale' = FALSE
       /\ UNCHANGED <<wake, proc, stopping>>
    \/ /\ Goes("unspawned", "backoff")
       /\ UNCHANGED <<wake, stale, proc, published, stopping>>

Cleanup ==
    /\ Goes("cleaning", "ended")
    /\ proc' = "dead" /\ published' = FALSE
    /\ UNCHANGED <<wake, stale, stopping>>

(* One turn of the run loop: the process, then stop(), then the mirror;    *)
(* the event is cleared, and waited for with a timeout.                    *)
Watch ==
    \/ /\ proc = "dead" /\ Goes("running", "backoff") /\ published' = FALSE
       /\ UNCHANGED <<wake, stale, proc, stopping>>
    \/ /\ proc = "up" /\ stopping /\ Goes("running", "ended")
       /\ UNCHANGED <<wake, stale, proc, published, stopping>>
    \/ /\ proc = "up" /\ ~stopping /\ Goes("running", "running")
       /\ stale' = ~Fresh /\ wake' = FALSE
       /\ UNCHANGED <<proc, published, stopping>>

(* The mirror has been stale for longer than the grace: the host is        *)
(* terminated, and its token waited for.                                   *)
StandDown ==
    /\ stale /\ ~Fresh /\ proc = "up" /\ ~stopping
    /\ Goes("running", "standing") /\ proc' = "dead"
    /\ published' = FALSE
    /\ UNCHANGED <<wake, stale, stopping>>

(* The event is cleared before the mirror is looked at once more. *)
ClearStood ==
    /\ Goes("standing", "stood") /\ wake' = FALSE
    /\ UNCHANGED <<stale, proc, published, stopping>>

CheckStood ==
    /\ Goes("stood", IF Fresh THEN "top" ELSE "waiting")
    /\ UNCHANGED <<wake, stale, proc, published, stopping>>

(* A process that ended is restarted after a delay. *)
Backoff ==
    /\ Goes("backoff", IF stopping THEN "ended" ELSE "pausing")
    /\ wake' = (wake /\ stopping)
    /\ UNCHANGED <<stale, proc, published, stopping>>

HostExits ==
    /\ proc = "up" /\ proc' = "dead"
    /\ UNCHANGED <<mirrorVars, worker, wake, stale, published, stopVars, stopping,
                   closed>>

Work ==
    \/ CheckStopping \/ ClearWake \/ CheckToken \/ CheckTokenAgain \/ Wakes
    \/ Resume \/ BeginSpawn \/ Popen \/ Publish \/ Cleanup
    \/ Watch \/ StandDown \/ ClearStood \/ CheckStood \/ Backoff

-----------------------------------------------------------------------------
(* stop(), and the closing of capture that precedes it at closeout. *)

CloseCapture ==
    /\ scope.stops /\ ~closed /\ closed' = TRUE
    /\ UNCHANGED <<mirrorVars, workerVars, stopVars, stopping>>

StopBegin ==
    /\ scope.stops /\ stopper = "none" /\ stopper' = "counting"
    /\ stopping' = TRUE /\ wake' = TRUE
    /\ UNCHANGED <<mirrorVars, worker, stale, proc, published, stopped, target,
                   issues, closed>>

StopOnly(step) ==
    step /\ UNCHANGED <<mirrorVars, worker, wake, stale, published, stopping, closed>>

(* Mutant of StopCollect: a spawn in progress is not waited for. *)
StopCollectNow ==
    /\ stopper = "counting" /\ stopper' = "killing"
    /\ target' = published /\ UNCHANGED <<proc, stopped, issues>>

(* A spawn in progress is waited for, until the deadline; then the         *)
(* processes are listed.                                                   *)
StopCollect ==
    /\ stopper = "counting" /\ stopper' = "killing"
    /\ target' = published /\ issues' = Spawning
    /\ UNCHANGED <<proc, stopped>>

(* TERM, KILL, and the wait for what was listed; it may not be reaped. *)
StopKill ==
    /\ stopper = "killing" /\ stopper' = "joining"
    /\ \/ /\ proc' = IF target /\ proc = "up" THEN "dead" ELSE proc
          /\ UNCHANGED issues
       \/ /\ target /\ proc = "up" /\ issues' = TRUE /\ UNCHANGED proc
    /\ UNCHANGED <<stopped, target>>

(* The worker is joined, until the deadline. *)
StopJoin ==
    /\ stopper = "joining" /\ stopper' = "finishing"
    /\ issues' = (issues \/ worker \notin {"none", "ended"})
    /\ UNCHANGED <<proc, stopped, target>>

StopFinish ==
    /\ stopper = "finishing" /\ stopper' = "done" /\ stopped' = TRUE
    /\ UNCHANGED <<proc, target, issues>>

Stop ==
    \/ StopBegin
    \/ StopOnly(StopCollect \/ StopKill \/ StopJoin \/ StopFinish)

Next ==
    \/ (Clock \/ Requests) /\ UNCHANGED <<workerVars, stopVars, stopping, closed>>
    \/ \E w \in Writer :
        \/ Writing(w) /\ UNCHANGED <<workerVars, stopVars, stopping, closed>>
        \/ Notify(w)
    \/ Work \/ PrepareFails \/ PopenFails \/ HostExits
    \/ CloseCapture \/ Stop

Spec == Init /\ [][Next]_omnigentVars

(* The worker and the requests that are under way go on.  Nobody is        *)
(* obliged to bring a token, and a host may exit again and again.          *)
FairSpec ==
    /\ Spec
    /\ WF_omnigentVars(Work)
    /\ \A w \in Writer : WF_omnigentVars(
            \/ Writing(w) /\ UNCHANGED <<workerVars, stopVars, stopping, closed>>
            \/ Notify(w))

-----------------------------------------------------------------------------
(* Properties; MirrorAdvances is stated in OboMirror. *)

TypeOK ==
    /\ MirrorTypeOK
    /\ worker \in {"none", "top", "passed", "cleared", "tokenless", "waiting",
                   "preparing", "pausing", "spawning", "spawned", "unspawned",
                   "cleaning", "running", "standing", "stood", "backoff", "ended"}
    /\ proc \in {"none", "up", "dead"}
    /\ stopper \in {"none", "counting", "killing", "joining", "finishing", "done"}
    /\ wake \in BOOLEAN /\ stale \in BOOLEAN /\ published \in BOOLEAN
    /\ stopping \in BOOLEAN /\ stopped \in BOOLEAN /\ target \in BOOLEAN
    /\ issues \in BOOLEAN /\ closed \in BOOLEAN

(* A stop that reports itself complete has left nothing behind: no host    *)
(* process runs, and no worker that could spawn one.  Closeout seals what  *)
(* was captured on that word.                                              *)
StopIsHonest ==
    stopper = "done" /\ ~issues => proc # "up" /\ worker \in {"none", "ended"}

(* A fresh token that was mirrored brings the host up, whatever the worker *)
(* was doing when it came: looking at the old one, waiting for a new one,  *)
(* or standing a host down.                                                *)
FreshTokenRunsHost ==
    scope.started /\ Fresh /\ mirror = written ~> proc = "up" \/ ~Fresh \/ stopping \/ closed
=============================================================================
