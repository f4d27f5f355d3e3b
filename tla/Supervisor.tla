----------------------------- MODULE Supervisor -----------------------------
(***************************************************************************)
(* The supervising parent of the app's server (server/supervisor.py): it   *)
(* spawns the server, restarts it when it dies, gives up when it dies too  *)
(* often, and passes on a stop that the platform asks for, but not one     *)
(* that something inside the app sends.                                    *)
(*                                                                         *)
(* Time is in ticks.  The loop only waits in sigtimedwait, so it serves    *)
(* whatever is due, a signal or a timer, before the next tick: a Tick is   *)
(* taken when nothing is.  A signal pending is a flag, as it is in the     *)
(* kernel: a stop sent while another is pending is lost.  Of two pending   *)
(* signals sigtimedwait returns the lower, so a stop before SIGCHLD.       *)
(***************************************************************************)
EXTENDS Integers, Sequences, FiniteSets

CONSTANTS
    Delays,         \* RESTART_DELAYS
    MaxRestarts,    \* MAX_RESTARTS
    Window,         \* RESTART_WINDOW
    HealthyAfter,   \* HEALTHY_AFTER
    Grace,          \* SHUTDOWN_GRACE
    KillGrace       \* how long a killed server may take to die

ASSUME SupervisorAssumption ==
    /\ Delays \in Seq(Nat) /\ Delays # <<>>
    /\ MaxRestarts \in Nat /\ Window \in Nat /\ HealthyAfter \in Nat
    /\ Grace \in Nat /\ KillGrace \in Nat

NoTimer == -1

VARIABLES
    status,         \* of the supervisor: running, or how it ended
    child,          \* the server: none, up, or a zombie with SIGCHLD pending
    uptime,         \* now - started, as far as it matters
    restartIn,      \* restart_at - now
    deadlineIn,     \* deadline - now
    killed,
    quickDeaths,
    restarts,       \* the ages of the restarts in the deque, oldest first
    stopSignal,     \* the pending stop signal, by its sender
    stopAge,        \* ghost: time since a stop of the platform was accepted
    deaths          \* ghost: the ages of all deaths answered by a restart

supervisorVars == <<status, child, uptime, restartIn, deadlineIn, killed,
                    quickDeaths, restarts, stopSignal, stopAge, deaths>>

Sender == {"platform", "inside"}        \* classify_sender

Running == status = "running"

SupervisorInit ==
    /\ status = "running" /\ child = "none" /\ uptime = 0
    /\ restartIn = 0 /\ deadlineIn = NoTimer /\ killed = FALSE
    /\ quickDeaths = 0 /\ restarts = <<>> /\ stopSignal = "none"
    /\ stopAge = NoTimer /\ deaths = <<>>

-----------------------------------------------------------------------------
(* The first part of the loop: a restart that is due. *)
SpawnDue == Running /\ child = "none" /\ deadlineIn = NoTimer /\ restartIn = 0

Spawn ==
    /\ SpawnDue
    /\ child' = "up" /\ uptime' = 0 /\ restartIn' = NoTimer
    /\ UNCHANGED <<status, deadlineIn, killed, quickDeaths, restarts,
                   stopSignal, stopAge, deaths>>

(* Popen raises: the supervisor ends with it. *)
SpawnFails ==
    /\ SpawnDue
    /\ status' = "raised"
    /\ UNCHANGED <<child, uptime, restartIn, deadlineIn, killed, quickDeaths,
                   restarts, stopSignal, stopAge, deaths>>

(* The server ends by itself, by a crash, or by a signal it was sent. *)
ServerExits ==
    /\ child = "up" /\ child' = "zombie"
    /\ UNCHANGED <<status, uptime, restartIn, deadlineIn, killed, quickDeaths,
                   restarts, stopSignal, stopAge, deaths>>

(* Anyone may send the supervisor a stop signal. *)
SendStop(sender) ==
    /\ Running /\ stopSignal = "none" /\ stopSignal' = sender
    /\ UNCHANGED <<status, child, uptime, restartIn, deadlineIn, killed,
                   quickDeaths, restarts, stopAge, deaths>>

(* How many of the oldest are beyond an age, up to the first that is not.  *)
Beyond(ages, age) ==
    CHOOSE n \in 0..Len(ages) :
        (\A i \in 1..n : ages[i] > age) /\ (n < Len(ages) => ages[n + 1] <= age)

Within(ages, age) == SubSeq(ages, Beyond(ages, age) + 1, Len(ages))

(* Mutant of Pruned: a restart at the boundary has left the window. *)
PrunedEarly(ages) == Within(ages, Window - 1)

(* The deque, of which HandleChild drops what has left the window. *)
Pruned(ages) == Within(ages, Window)

Delay(quick) ==
    LET n == IF quick > 1 THEN quick - 1 ELSE 0 IN
    Delays[(IF n < Len(Delays) THEN n ELSE Len(Delays) - 1) + 1]

(* quick_deaths is unbounded in the code; beyond the delays it is the same. *)
QuickDeaths ==
    IF uptime >= HealthyAfter THEN 0
    ELSE IF quickDeaths > Len(Delays) THEN quickDeaths ELSE quickDeaths + 1

(* Mutant of HandleChild: the server's death schedules no restart. *)
HandleChildForgets ==
    /\ Running /\ child = "zombie" /\ stopSignal = "none" /\ child' = "none"
    /\ IF deadlineIn # NoTimer THEN status' = "returned0" ELSE UNCHANGED status
    /\ UNCHANGED <<uptime, restartIn, deadlineIn, killed, quickDeaths, restarts,
                   stopSignal, stopAge, deaths>>

(* SIGCHLD: what ends while the supervisor stops is the stop; any other    *)
(* death is answered by a restart, or by giving up when the window is full. *)
HandleChild ==
    /\ Running /\ child = "zombie" /\ stopSignal = "none" /\ child' = "none"
    /\ IF deadlineIn # NoTimer
       THEN status' = "returned0" /\ UNCHANGED <<quickDeaths, restarts, restartIn, deaths>>
       ELSE /\ quickDeaths' = QuickDeaths
            /\ IF Len(Pruned(restarts)) >= MaxRestarts
               THEN /\ status' = "returned1" /\ restarts' = Pruned(restarts)
                    /\ UNCHANGED <<restartIn, deaths>>
               ELSE /\ restarts' = Append(Pruned(restarts), 0)
                    /\ restartIn' = Delay(quickDeaths')
                    /\ deaths' = Append(deaths, 0)
                    /\ UNCHANGED status
    /\ UNCHANGED <<uptime, deadlineIn, killed, stopSignal, stopAge>>

(* Mutant of HandleStop: each stop of the platform starts the grace anew. *)
HandleStopAgain ==
    /\ Running /\ stopSignal # "none" /\ stopSignal' = "none"
    /\ IF stopSignal = "inside" THEN UNCHANGED <<status, deadlineIn, stopAge>>
       ELSE /\ deadlineIn' = Grace
            /\ stopAge' = IF stopAge = NoTimer THEN 0 ELSE stopAge
            /\ status' = IF child = "none" THEN "returned0" ELSE status
    /\ UNCHANGED <<child, uptime, restartIn, killed, quickDeaths, restarts, deaths>>

(* A stop signal: refused from inside, and passed on to the server once.   *)
(* Without a server there is nothing to drain.                             *)
HandleStop ==
    /\ Running /\ stopSignal # "none" /\ stopSignal' = "none"
    /\ IF stopSignal = "inside" \/ deadlineIn # NoTimer
       THEN UNCHANGED <<status, deadlineIn, stopAge>>
       ELSE /\ deadlineIn' = Grace /\ stopAge' = 0
            /\ status' = IF child = "none" THEN "returned0" ELSE status
    /\ UNCHANGED <<child, uptime, restartIn, killed, quickDeaths, restarts, deaths>>

(* The deadline: SIGKILL first, and when even that does not help, leave. *)
HandleDeadline ==
    /\ Running /\ deadlineIn = 0 /\ stopSignal = "none" /\ child # "zombie"
    /\ \/ /\ ~killed /\ killed' = TRUE /\ deadlineIn' = KillGrace
          /\ UNCHANGED status
       \/ /\ killed /\ status' = "returned1"
          /\ UNCHANGED <<killed, deadlineIn>>
    /\ UNCHANGED <<child, uptime, restartIn, quickDeaths, restarts, stopSignal,
                   stopAge, deaths>>

Due == SpawnDue \/ stopSignal # "none" \/ child = "zombie" \/ deadlineIn = 0

Older(ages, cap) == [i \in 1..Len(ages) |-> IF ages[i] < cap THEN ages[i] + 1 ELSE cap]

(* Mutant of Less: a timer that has run out, or is off, runs on. *)
LessAnyway(timer) == timer - 1

Less(timer) == IF timer > 0 THEN timer - 1 ELSE timer

Tick ==
    /\ Running /\ ~Due
    /\ uptime' = IF uptime < HealthyAfter THEN uptime + 1 ELSE uptime
    /\ restartIn' = Less(restartIn) /\ deadlineIn' = Less(deadlineIn)
    /\ restarts' = Older(restarts, Window + 1)
    /\ deaths' = Within(Older(deaths, Window + 1), Window)
    /\ stopAge' = IF stopAge = NoTimer THEN stopAge ELSE stopAge + 1
    /\ UNCHANGED <<status, child, killed, quickDeaths, stopSignal>>

(* What the supervisor's own loop does. *)
SupervisorLoop == HandleChild \/ HandleStop \/ HandleDeadline

-----------------------------------------------------------------------------
(* Properties. *)

SupervisorTypeOK ==
    /\ status \in {"running", "returned0", "returned1", "raised"}
    /\ child \in {"none", "up", "zombie"}
    /\ uptime \in Nat /\ quickDeaths \in Nat
    /\ restartIn \in Nat \cup {NoTimer} /\ deadlineIn \in Nat \cup {NoTimer}
    /\ stopAge \in Nat \cup {NoTimer}
    /\ killed \in BOOLEAN
    /\ restarts \in Seq(Nat) /\ deaths \in Seq(Nat)
    /\ stopSignal \in Sender \cup {"none"}

(* A server that dies in a loop is given up: no window holds more than     *)
(* MAX_RESTARTS deaths that were answered by a restart, whatever was       *)
(* pruned from the deque before.                                           *)
Recent == {i \in 1..Len(deaths) : deaths[i] <= Window}

RestartsBounded == Cardinality(Recent) <= MaxRestarts

(* Once the platform's stop is accepted the supervisor is gone within its  *)
(* grace and the time a killed server gets, however often the platform     *)
(* repeats the stop: before Apps kills the whole container.                *)
StopIsBounded == stopAge <= Grace + KillGrace

(* The supervisor ends only when the platform asked, or with the restarts  *)
(* of a window used up: nothing inside the app can end it with a signal.   *)
EndsForAReason ==
    /\ status = "returned0" => stopAge # NoTimer
    /\ status = "returned1" => \/ stopAge # NoTimer /\ killed
                               \/ Cardinality(Recent) = MaxRestarts

(* So it ends when it should, and only then. *)
EndsWhenItShould == RestartsBounded /\ EndsForAReason

(* A dead server is restarted, or the supervisor ends. *)
ServerComesBack == child # "up" ~> (child = "up" \/ ~Running)
=============================================================================
