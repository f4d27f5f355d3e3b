------------------------------ MODULE HostProofs ------------------------------
(***************************************************************************)
(* Proofs about HostProcess, for any environment: what the supervisor, the *)
(* deadline's record, the policy and the terminals promise.                *)
(***************************************************************************)
EXTENDS HostProcess, Induction, SequenceTheorems, FiniteSetTheorems, TLAPS

-----------------------------------------------------------------------------
(* What a step of the container is to each of its parts. *)

LEMMA ScopesTyped ==
    ASSUME scope \in Scopes
    PROVE  /\ scope.bases \subseteq Base /\ scope.epochs \subseteq Epoch
           /\ scope.sessions \subseteq Session /\ scope.sockets \subseteq Socket
           /\ scope.refreshes \subseteq Persister
BY ScopeAssumption DEF ScopeType

DeadlineChange ==
    \/ DeadlineLoad \/ DeadlineLoadFails
    \/ \E at \in Epoch : ApplyWrite(at)
    \/ ApplyFinish \/ ApplyFails \/ ApplyAgain
    \/ DeadlineStops
    \/ \E b \in Base : DeadlineDeploys(b)

LEMMA StepOfDeadline ==
    ASSUME scope \in Scopes, [Next]_hostVars
    PROVE  UNCHANGED scope /\ (DeadlineChange \/ UNCHANGED deadlineVars)
<1>s. scope.bases \subseteq Base /\ scope.epochs \subseteq Epoch BY ScopesTyped
<1>1. CASE Supervise
  BY <1>1 DEF Supervise, Loop, SupervisorOnly
<1>2. CASE ServerDies BY <1>2 DEF ServerDies, ServerEnds, DeadlineChange
<1>3. CASE Startup BY <1>3 DEF Startup
<1>4. CASE \E b \in scope.bases : Deploy(b) BY <1>4, <1>s DEF Deploy, DeadlineChange
<1>5. CASE Browse BY <1>5 DEF Browse, TerminalOnly
<1>6. CASE Terminals BY <1>6 DEF Terminals, TerminalOnly
<1>7. CASE Deadlines BY <1>7, <1>s DEF Deadlines, DeadlineOnly, DeadlineChange
<1>8. CASE Configuration BY <1>8 DEF Configuration, PolicyOnly
<1>9. CASE UNCHANGED hostVars BY <1>9 DEF hostVars
<1> QED BY <1>1, <1>2, <1>3, <1>4, <1>5, <1>6, <1>7, <1>8, <1>9 DEF Next

-----------------------------------------------------------------------------
(* The deadline.  A record is always later than the base it belongs to; an *)
(* extension under way is on disk, and later than what was answered.       *)
DeadlineIInv ==
    /\ DeadlineTypeOK
    /\ record.at # NoDeadline => record.at > record.base
    /\ override # NoDeadline =>
        /\ loaded /\ override > base
        /\ record.base = base /\ record.at >= override
    /\ applying # NoDeadline =>
        /\ loaded /\ applying > base
        /\ record = [base |-> base, at |-> applying]
        /\ ~blind => applying >= promised
    /\ DeadlineNotLowered

LEMMA DeadlineNumbers ==
    ASSUME DeadlineTypeOK
    PROVE  /\ base \in Nat /\ override \in Nat /\ applying \in Nat /\ promised \in Nat
           /\ record.base \in Nat /\ record.at \in Nat
<1>1. Epoch \subseteq Nat /\ Base \subseteq Nat BY DeadlineAssumption
<1>2. record.base \in Base \cup {0} /\ record.at \in Epoch \cup {0}
  BY DEF DeadlineTypeOK, NoDeadline
<1>3. /\ base \in Base /\ override \in Epoch \cup {0}
      /\ applying \in Epoch \cup {0} /\ promised \in Nat
  BY DEF DeadlineTypeOK, NoDeadline
<1>4. record.base \in Nat /\ record.at \in Nat
  <2>1. \A x \in Base \cup Epoch \cup {0} : x \in Nat BY <1>1
  <2> QED BY <1>2, <2>1, Zenon
<1>5. base \in Nat /\ override \in Nat /\ applying \in Nat BY <1>1, <1>3
<1> QED BY <1>3, <1>4, <1>5

LEMMA DeadlineInitSound == ASSUME Init PROVE scope \in Scopes /\ DeadlineIInv
<1>1. scope \in Scopes /\ scope.bases \subseteq Base BY ScopesTyped DEF Init
<1>2. base \in Base /\ base \in Nat BY <1>1, DeadlineAssumption DEF Init
<1>3. DeadlineTypeOK
  BY <1>2 DEF Init, DeadlineInit, DeadlineTypeOK, NoRecord, NoDeadline
<1>4. DeadlineNotLowered
  BY <1>2 DEF Init, DeadlineInit, DeadlineNotLowered, NoDeadline
<1> QED BY <1>1, <1>3, <1>4 DEF Init, DeadlineInit, DeadlineIInv, NoRecord, NoDeadline

LEMMA DeadlineTypeSound ==
    ASSUME DeadlineTypeOK, DeadlineChange \/ UNCHANGED deadlineVars
    PROVE  DeadlineTypeOK'
<1> USE DEF DeadlineTypeOK, NoDeadline
<1>t. /\ base \in Nat /\ override \in Nat /\ applying \in Nat /\ promised \in Nat
  BY DeadlineNumbers
<1>1. CASE DeadlineLoad
  <2>1. record.at \in Epoch \cup {0} OBVIOUS
  <2> QED BY <1>1, <2>1 DEF DeadlineLoad, NoRecord
<1>2. CASE DeadlineLoadFails BY <1>2 DEF DeadlineLoadFails
<1>3. ASSUME NEW at \in Epoch, ApplyWrite(at) PROVE DeadlineTypeOK'
  BY <1>3 DEF ApplyWrite
<1>4. CASE ApplyFinish
  <2>1. promised' \in Nat BY <1>4, <1>t DEF ApplyFinish, Later
  <2> QED BY <1>4, <2>1 DEF ApplyFinish
<1>5. CASE ApplyFails BY <1>5 DEF ApplyFails
<1>6. CASE ApplyAgain
  <2>1. promised' \in Nat BY <1>6, <1>t DEF ApplyAgain, Later, Deadline
  <2> QED BY <1>6, <2>1 DEF ApplyAgain
<1>7. CASE DeadlineStops BY <1>7 DEF DeadlineStops
<1>8. ASSUME NEW b \in Base, DeadlineDeploys(b) PROVE DeadlineTypeOK'
  <2>1. \/ UNCHANGED <<promised, blind>>
        \/ promised' = 0 /\ blind' = FALSE
    BY <1>8 DEF DeadlineDeploys
  <2>2. promised' \in Nat BY <2>1
  <2>3. blind' \in BOOLEAN BY <2>1
  <2> QED BY <1>8, <2>2, <2>3 DEF DeadlineDeploys
<1>9. CASE UNCHANGED deadlineVars BY <1>9 DEF deadlineVars
<1> QED BY <1>1, <1>2, <1>3, <1>4, <1>5, <1>6, <1>7, <1>8, <1>9 DEF DeadlineChange

LEMMA DeadlineSound ==
    ASSUME DeadlineIInv, DeadlineChange \/ UNCHANGED deadlineVars
    PROVE  DeadlineIInv'
<1>0. DeadlineTypeOK' BY DeadlineTypeSound DEF DeadlineIInv
<1>t. /\ base \in Nat /\ override \in Nat /\ applying \in Nat /\ promised \in Nat
      /\ record.base \in Nat /\ record.at \in Nat
  BY DeadlineNumbers DEF DeadlineIInv
<1>p. Epoch \subseteq Nat \ {0} /\ Base \subseteq Nat BY DeadlineAssumption
<1> USE DEF DeadlineIInv, DeadlineNotLowered, Deadline, NoDeadline, Later
<1>1. CASE DeadlineLoad BY <1>0, <1>1, <1>t DEF DeadlineLoad, NoRecord
<1>2. CASE DeadlineLoadFails
  <2>0. blind' = (blind \/ promised > base) BY <1>2 DEF DeadlineLoadFails
  <2>1. ~blind' => ~blind /\ ~(promised > base) BY <2>0
  <2>2. /\ override' = 0 /\ ~loaded /\ loaded'
        /\ UNCHANGED <<base, record, applying, promised>>
    BY <1>2 DEF DeadlineLoadFails
  <2> QED BY <1>0, <1>t, <2>1, <2>2
<1>3. ASSUME NEW at \in Epoch, ApplyWrite(at) PROVE DeadlineIInv'
  <2>1. at \in Nat /\ at > base
    BY <1>3, <1>t, <1>p DEF ApplyWrite
  <2> QED BY <1>0, <1>3, <1>t, <2>1 DEF ApplyWrite
<1>4. CASE ApplyFinish BY <1>0, <1>4, <1>t DEF ApplyFinish
<1>5. CASE ApplyFails BY <1>0, <1>5, <1>t DEF ApplyFails
<1>6. CASE ApplyAgain
  <2>1. /\ loaded /\ applying = 0
        /\ UNCHANGED <<base, record, loaded, override, applying, blind>>
    BY <1>6 DEF ApplyAgain
  <2>2. ~blind => promised' = Deadline BY <1>6, <1>t DEF ApplyAgain
  <2>3. ~blind /\ Deadline > base => override = Deadline BY <1>t
  <2> QED BY <1>0, <1>t, <2>1, <2>2, <2>3
<1>7. CASE DeadlineStops BY <1>0, <1>7, <1>t DEF DeadlineStops
<1>8. ASSUME NEW b \in Base, DeadlineDeploys(b) PROVE DeadlineIInv'
  <2>1. b \in Nat BY <1>p
  <2>2. CASE b = base BY <1>0, <1>8, <1>t, <2>1, <2>2 DEF DeadlineDeploys
  <2>3. CASE b # base BY <1>0, <1>8, <1>t, <2>1, <2>3 DEF DeadlineDeploys
  <2> QED BY <2>2, <2>3
<1>9. CASE UNCHANGED deadlineVars BY <1>0, <1>9 DEF deadlineVars
<1> QED BY <1>1, <1>2, <1>3, <1>4, <1>5, <1>6, <1>7, <1>8, <1>9 DEF DeadlineChange

LEMMA DeadlineInvariant == Spec => [](scope \in Scopes /\ DeadlineIInv)
<1>1. Init => scope \in Scopes /\ DeadlineIInv BY DeadlineInitSound
<1>2. (scope \in Scopes /\ DeadlineIInv) /\ [Next]_hostVars
        => (scope \in Scopes /\ DeadlineIInv)'
  BY StepOfDeadline, DeadlineSound
<1> QED BY <1>1, <1>2, PTL DEF Spec

(* A deadline that Control Tower was answered is never undercut, through   *)
(* crashes, failed extensions and deployments, unless a read failed.       *)
THEOREM DeadlineNeverLowered == Spec => []DeadlineNotLowered
<1>1. DeadlineIInv => DeadlineNotLowered BY DEF DeadlineIInv
<1> QED BY <1>1, DeadlineInvariant, PTL

-----------------------------------------------------------------------------
(* The supervisor's stop.  While it stops, the time since and the time to  *)
(* the deadline add up to the grace, or to both graces after the kill.     *)
StopTimes ==
    /\ deadlineIn \in Nat \cup {NoTimer} /\ stopAge \in Nat \cup {NoTimer}
    /\ stopAge <= Grace + KillGrace
    /\ Running => /\ stopAge = NoTimer <=> deadlineIn = NoTimer
                  /\ killed => stopAge # NoTimer
                  /\ stopAge # NoTimer /\ ~killed => stopAge + deadlineIn = Grace
                  /\ stopAge # NoTimer /\ killed =>
                        stopAge + deadlineIn = Grace + KillGrace

StopReasons == status = "returned0" => stopAge # NoTimer

SupervisorResets ==
    /\ status' = "running" /\ deadlineIn' = NoTimer /\ killed' = FALSE
    /\ stopAge' = NoTimer

StopTimesSame == UNCHANGED <<status, deadlineIn, killed, stopAge>>

LEMMA StepOfSupervisor ==
    ASSUME [Next]_hostVars
    PROVE  \/ StopTimesSame \/ SupervisorResets
           \/ SpawnFails \/ HandleChild \/ HandleStop \/ HandleDeadline \/ Tick
<1>1. CASE Supervise
  <2>1. CASE Loop
    BY <2>1 DEF Loop, SupervisorOnly, SupervisorLoop, TimePasses, Spawn, StopTimesSame
  <2>2. CASE SupervisorOnly(SpawnFails) BY <2>2 DEF SupervisorOnly
  <2>3. ASSUME NEW sender \in Sender, SupervisorOnly(SendStop(sender)) PROVE StopTimesSame
    BY <2>3 DEF SupervisorOnly, SendStop, StopTimesSame
  <2> QED BY <1>1, <2>1, <2>2, <2>3 DEF Supervise
<1>2. CASE ServerDies BY <1>2 DEF ServerDies, ServerExits, StopTimesSame
<1>3. CASE Startup BY <1>3 DEF Startup, supervisorVars, StopTimesSame
<1>4. CASE \E b \in scope.bases : Deploy(b) BY <1>4 DEF Deploy, SupervisorResets
<1>5. CASE Browse BY <1>5 DEF Browse, TerminalOnly, supervisorVars, StopTimesSame
<1>6. CASE Terminals BY <1>6 DEF Terminals, TerminalOnly, supervisorVars, StopTimesSame
<1>7. CASE Deadlines BY <1>7 DEF Deadlines, DeadlineOnly, supervisorVars, StopTimesSame
<1>8. CASE Configuration
  BY <1>8 DEF Configuration, PolicyOnly, supervisorVars, StopTimesSame
<1>9. CASE UNCHANGED hostVars BY <1>9 DEF hostVars, supervisorVars, StopTimesSame
<1> QED BY <1>1, <1>2, <1>3, <1>4, <1>5, <1>6, <1>7, <1>8, <1>9 DEF Next

LEMMA StopSound ==
    ASSUME StopTimes, StopReasons, [Next]_hostVars
    PROVE  StopTimes' /\ StopReasons'
<1>n. Grace \in Nat /\ KillGrace \in Nat BY SupervisorAssumption
<1> USE DEF StopTimes, StopReasons, Running, NoTimer
<1>1. CASE StopTimesSame BY <1>1 DEF StopTimesSame
<1>2. CASE SupervisorResets BY <1>n, <1>2 DEF SupervisorResets
<1>3. CASE SpawnFails BY <1>3 DEF SpawnFails
<1>4. CASE HandleChild BY <1>4 DEF HandleChild
<1>5. CASE HandleStop BY <1>n, <1>5 DEF HandleStop
<1>6. CASE HandleDeadline BY <1>n, <1>6 DEF HandleDeadline
<1>7. CASE Tick BY <1>n, <1>7 DEF Tick, Due, Less
<1> QED BY <1>1, <1>2, <1>3, <1>4, <1>5, <1>6, <1>7, StepOfSupervisor

LEMMA StopInitSound == ASSUME Init PROVE StopTimes /\ StopReasons
<1>1. Grace \in Nat /\ KillGrace \in Nat BY SupervisorAssumption
<1> QED BY <1>1 DEF Init, SupervisorInit, StopTimes, StopReasons, Running, NoTimer

(* After the platform's stop the supervisor is gone within both graces,    *)
(* however often it is asked and whatever the server does.                 *)
THEOREM StopEndsInTime == Spec => []StopIsBounded
<1>1. Init => StopTimes /\ StopReasons BY StopInitSound
<1>2. (StopTimes /\ StopReasons) /\ [Next]_hostVars => (StopTimes /\ StopReasons)'
  BY StopSound
<1>3. StopTimes => StopIsBounded BY DEF StopTimes, StopIsBounded
<1> QED BY <1>1, <1>2, <1>3, PTL DEF Spec

(* The supervisor ends as stopped only when the platform asked: no signal  *)
(* from inside the app ends it.                                            *)
THEOREM OnlyThePlatformStops == Spec => [](status = "returned0" => stopAge # NoTimer)
<1>1. Init => StopTimes /\ StopReasons BY StopInitSound
<1>2. (StopTimes /\ StopReasons) /\ [Next]_hostVars => (StopTimes /\ StopReasons)'
  BY StopSound
<1>3. StopReasons => (status = "returned0" => stopAge # NoTimer) BY DEF StopReasons
<1> QED BY <1>1, <1>2, <1>3, PTL DEF Spec

(* The restarts.  Within drops the oldest, up to the first that counts.    *)
Cut(ages, age, n) ==
    /\ n \in 0..Len(ages)
    /\ \A i \in 1..n : ages[i] > age
    /\ n < Len(ages) => ages[n + 1] <= age

LEMMA CutIsUnique ==
    ASSUME NEW ages \in Seq(Nat), NEW age \in Int,
           NEW n, Cut(ages, age, n), NEW m, Cut(ages, age, m)
    PROVE  n = m
<1>1. Len(ages) \in Nat /\ n \in Nat /\ m \in Nat /\ n <= Len(ages) /\ m <= Len(ages)
  BY DEF Cut
<1>2. CASE n < m
  <2>1. n + 1 \in 1..m /\ n < Len(ages) BY <1>1, <1>2
  <2>2. ages[n + 1] > age /\ ages[n + 1] <= age BY <2>1 DEF Cut
  <2>3. ages[n + 1] \in Nat BY <1>1, <2>1
  <2> QED BY <2>2, <2>3
<1>3. CASE m < n
  <2>1. m + 1 \in 1..n /\ m < Len(ages) BY <1>1, <1>3
  <2>2. ages[m + 1] > age /\ ages[m + 1] <= age BY <2>1 DEF Cut
  <2>3. ages[m + 1] \in Nat BY <1>1, <2>1
  <2> QED BY <2>2, <2>3
<1> QED BY <1>1, <1>2, <1>3

LEMMA CutExists ==
    ASSUME NEW ages \in Seq(Nat), NEW age \in Int
    PROVE  \E n : Cut(ages, age, n)
<1> SUFFICES ASSUME \A n : ~Cut(ages, age, n) PROVE FALSE OBVIOUS
<1> DEFINE S == {n \in Nat : n <= Len(ages) => \A i \in 1..n : ages[i] > age}
<1>0. Len(ages) \in Nat /\ \A i \in 1..Len(ages) : ages[i] \in Nat OBVIOUS
<1>1. 0 \in S OBVIOUS
<1>2. ASSUME NEW n \in Nat, n \in S PROVE n + 1 \in S
  <2> SUFFICES ASSUME n + 1 <= Len(ages), NEW i \in 1..(n + 1) PROVE ages[i] > age
    BY <1>2
  <2>1. \A j \in 1..n : ages[j] > age BY <1>0, <1>2
  <2>2. ~(ages[n + 1] <= age)
    <3>1. ~Cut(ages, age, n) /\ n \in 0..Len(ages) /\ n < Len(ages) BY <1>0
    <3> QED BY <2>1, <3>1 DEF Cut
  <2>3. ages[n + 1] \in Nat BY <1>0
  <2>4. CASE i = n + 1 BY <2>2, <2>3, <2>4
  <2>5. CASE i # n + 1 BY <2>1, <2>5
  <2> QED BY <2>4, <2>5
<1>3. Nat \subseteq S
  <2> HIDE DEF S
  <2> QED BY <1>1, <1>2, NatInduct
<1>4. Cut(ages, age, Len(ages)) BY <1>0, <1>3 DEF Cut
<1> QED BY <1>4

LEMMA WithinIs ==
    ASSUME NEW ages \in Seq(Nat), NEW age \in Int, NEW n, Cut(ages, age, n)
    PROVE  Within(ages, age) = SubSeq(ages, n + 1, Len(ages))
<1>1. Beyond(ages, age) = CHOOSE m \in 0..Len(ages) : Cut(ages, age, m)
  BY DEF Beyond, Cut
<1>2. Beyond(ages, age) = n BY <1>1, CutIsUnique DEF Cut
<1> QED BY <1>2 DEF Within

LEMMA WithinHas ==
    ASSUME NEW ages \in Seq(Nat), NEW age \in Int, NEW n, Cut(ages, age, n)
    PROVE  /\ Within(ages, age) \in Seq(Nat)
           /\ Len(Within(ages, age)) = Len(ages) - n
           /\ \A i \in 1..(Len(ages) - n) : Within(ages, age)[i] = ages[n + i]
<1>1. n \in Nat /\ Len(ages) \in Nat /\ n <= Len(ages) BY DEF Cut
<1>2. Within(ages, age) = SubSeq(ages, n + 1, Len(ages)) BY WithinIs
<1> QED BY <1>1, <1>2, SubSeqProperties

(* Nothing is dropped where everything counts. *)
LEMMA WithinAll ==
    ASSUME NEW ages \in Seq(Nat), NEW age \in Int, \A i \in 1..Len(ages) : ages[i] <= age
    PROVE  Within(ages, age) = ages
<1>1. Cut(ages, age, 0) BY DEF Cut
<1>2. /\ Within(ages, age) \in Seq(Nat) /\ Len(Within(ages, age)) = Len(ages) - 0
      /\ \A i \in 1..(Len(ages) - 0) : Within(ages, age)[i] = ages[0 + i]
  BY <1>1, WithinHas
<1>3. Len(ages) \in Nat OBVIOUS
<1> QED BY <1>2, <1>3, SeqEqual

LEMMA OlderIs ==
    ASSUME NEW ages \in Seq(Nat)
    PROVE  LET older == Older(ages, Window + 1) IN
           /\ older \in Seq(Nat) /\ Len(older) = Len(ages)
           /\ \A i \in 1..Len(ages) : older[i] = IF ages[i] <= Window THEN ages[i] + 1 ELSE Window + 1
<1>1. Window \in Nat /\ Len(ages) \in Nat /\ \A i \in 1..Len(ages) : ages[i] \in Nat
  BY SupervisorAssumption
<1>2. Older(ages, Window + 1) = [i \in 1..Len(ages) |-> IF ages[i] <= Window THEN ages[i] + 1 ELSE Window + 1]
  BY <1>1 DEF Older
<1>3. Older(ages, Window + 1) \in [1..Len(ages) -> Nat] BY <1>1, <1>2
<1> QED BY <1>1, <1>2, <1>3

(* What ages after what is old has been dropped is what is left of all.    *)
LEMMA WithinOlder ==
    ASSUME NEW ages \in Seq(Nat)
    PROVE  Within(Older(Within(ages, Window), Window + 1), Window) = Within(Older(ages, Window + 1), Window)
<1> DEFINE t == Within(ages, Window)
           os == Older(ages, Window + 1)
           ot == Older(t, Window + 1)
<1>0. Window \in Nat /\ Window \in Int /\ Len(ages) \in Nat BY SupervisorAssumption
<1>1. PICK n : Cut(ages, Window, n) BY <1>0, CutExists
<1>2. /\ t \in Seq(Nat) /\ Len(t) = Len(ages) - n
      /\ \A i \in 1..(Len(ages) - n) : t[i] = ages[n + i]
  BY <1>0, <1>1, WithinHas
<1>c. n \in Nat /\ n <= Len(ages) /\ \A i \in 1..n : ages[i] > Window BY <1>0, <1>1 DEF Cut
<1> HIDE DEF t
<1>3. /\ os \in Seq(Nat) /\ Len(os) = Len(ages)
      /\ \A i \in 1..Len(ages) : os[i] = IF ages[i] <= Window THEN ages[i] + 1 ELSE Window + 1
  BY OlderIs
<1>4. /\ ot \in Seq(Nat) /\ Len(ot) = Len(t)
      /\ \A i \in 1..Len(t) : ot[i] = IF t[i] <= Window THEN t[i] + 1 ELSE Window + 1
  BY <1>2, OlderIs
<1> HIDE DEF os, ot
<1>5. PICK m : Cut(ot, Window, m) BY <1>0, <1>4, CutExists
<1>6. m \in Nat /\ m <= Len(ages) - n BY <1>0, <1>2, <1>c, <1>4, <1>5 DEF Cut
<1>7. \A i \in 1..(Len(ages) - n) : os[n + i] = ot[i]
  <2> TAKE i \in 1..(Len(ages) - n)
  <2>1. n + i \in 1..Len(ages) /\ i \in 1..Len(t) BY <1>0, <1>c, <1>2
  <2> QED BY <1>2, <1>3, <1>4, <2>1
<1>8. Cut(os, Window, n + m)
  <2>1. ASSUME NEW i \in 1..(n + m) PROVE os[i] > Window
    <3>1. CASE i <= n
      <4>1. ages[i] > Window /\ ages[i] \in Nat /\ i \in 1..Len(ages) BY <1>0, <1>c, <1>2, <3>1
      <4> QED BY <1>0, <1>3, <4>1
    <3>2. CASE i > n
      <4>1. i - n \in 1..m /\ i - n \in 1..(Len(ages) - n) /\ n + (i - n) = i
        BY <1>0, <1>c, <1>2, <1>6, <3>2
      <4>2. os[i] = ot[i - n] BY <1>7, <4>1
      <4> QED BY <1>5, <4>1, <4>2 DEF Cut
    <3> QED BY <1>c, <1>6, <3>1, <3>2
  <2>2. ASSUME n + m < Len(os) PROVE os[n + m + 1] <= Window
    <3>1. m < Len(ot) /\ m + 1 \in 1..(Len(ages) - n) /\ n + (m + 1) = n + m + 1
      <4>1. Len(os) = Len(ages) /\ Len(ot) = Len(ages) - n BY <1>2, <1>3, <1>4
      <4> QED BY <1>0, <1>c, <1>6, <2>2, <4>1
    <3> QED BY <1>5, <1>7, <3>1 DEF Cut
  <2> QED BY <1>0, <1>c, <1>2, <1>3, <1>6, <2>1, <2>2 DEF Cut
<1>9. /\ Within(os, Window) \in Seq(Nat) /\ Len(Within(os, Window)) = Len(ages) - (n + m)
      /\ \A i \in 1..(Len(ages) - (n + m)) : Within(os, Window)[i] = os[(n + m) + i]
  BY <1>0, <1>3, <1>8, WithinHas
<1>10. /\ Within(ot, Window) \in Seq(Nat) /\ Len(Within(ot, Window)) = (Len(ages) - n) - m
       /\ \A i \in 1..((Len(ages) - n) - m) : Within(ot, Window)[i] = ot[m + i]
  <2>1. Len(ot) = Len(ages) - n BY <1>2, <1>4
  <2> QED BY <1>0, <1>4, <1>5, <2>1, WithinHas
<1>11. (Len(ages) - n) - m = Len(ages) - (n + m) BY <1>0, <1>c, <1>2, <1>6
<1>12. ASSUME NEW i \in 1..(Len(ages) - (n + m)) PROVE os[(n + m) + i] = ot[m + i]
  <2>1. m + i \in 1..(Len(ages) - n) /\ n + (m + i) = (n + m) + i BY <1>0, <1>c, <1>2, <1>6
  <2> QED BY <1>7, <2>1
<1>13. Within(ot, Window) = Within(os, Window) BY <1>9, <1>10, <1>11, <1>12, SeqEqual
<1> QED BY <1>13 DEF os, ot, t

(* What a step of the container is to the supervisor. *)
Deploys ==
    /\ status' = "running" /\ child' = "none" /\ uptime' = 0
    /\ restartIn' = 0 /\ deadlineIn' = NoTimer /\ killed' = FALSE
    /\ quickDeaths' = 0 /\ restarts' = <<>> /\ stopSignal' = "none"
    /\ stopAge' = NoTimer /\ deaths' = <<>>

SupervisorSteps ==
    \/ Spawn \/ SpawnFails \/ HandleChild \/ HandleStop \/ HandleDeadline \/ Tick
    \/ \E sender \in Sender : SendStop(sender)

LEMMA StepOfParent ==
    ASSUME [Next]_hostVars
    PROVE  \/ SupervisorSteps /\ UNCHANGED serving
           \/ (ServerExits \/ Deploys) /\ serving' = FALSE
           \/ UNCHANGED supervisorVars /\ (UNCHANGED serving \/ (child = "up" /\ serving' = TRUE))
<1> USE DEF SupervisorSteps
<1>1. CASE Supervise
  BY <1>1 DEF Supervise, Loop, SupervisorOnly, SupervisorLoop, TimePasses
<1>2. CASE ServerDies BY <1>2 DEF ServerDies, ServerEnds
<1>3. CASE Startup BY <1>3 DEF Startup
<1>4. CASE \E b \in scope.bases : Deploy(b) BY <1>4 DEF Deploy, Deploys
<1>5. CASE Browse BY <1>5 DEF Browse, TerminalOnly
<1>6. CASE Terminals BY <1>6 DEF Terminals, TerminalOnly
<1>7. CASE Deadlines BY <1>7 DEF Deadlines, DeadlineOnly
<1>8. CASE Configuration BY <1>8 DEF Configuration, PolicyOnly
<1>9. CASE UNCHANGED hostVars BY <1>9 DEF hostVars
<1> QED BY <1>1, <1>2, <1>3, <1>4, <1>5, <1>6, <1>7, <1>8, <1>9 DEF Next

LEMMA SupervisorTypeSound ==
    ASSUME SupervisorTypeOK, [Next]_hostVars
    PROVE  SupervisorTypeOK'
<1>n. /\ Grace \in Nat /\ KillGrace \in Nat /\ Window \in Nat /\ HealthyAfter \in Nat
      /\ Delays \in Seq(Nat) /\ Delays # <<>>
  BY SupervisorAssumption
<1> USE DEF SupervisorTypeOK, NoTimer
<1>1. CASE Spawn BY <1>1 DEF Spawn
<1>2. CASE SpawnFails BY <1>2 DEF SpawnFails
<1>3. CASE HandleChild
  <2>1. Pruned(restarts) \in Seq(Nat)
    <3>1. Window \in Int BY <1>n
    <3>2. PICK n : Cut(restarts, Window, n) BY <3>1, CutExists
    <3> QED BY <3>1, <3>2, WithinHas DEF Pruned
  <2>2. QuickDeaths \in Nat BY <1>n DEF QuickDeaths
  <2>3. \A quick \in Nat : Delay(quick) \in Nat
    <3> TAKE quick \in Nat
    <3>1. Len(Delays) \in Nat \ {0} BY <1>n
    <3> DEFINE n == IF quick > 1 THEN quick - 1 ELSE 0
               k == (IF n < Len(Delays) THEN n ELSE Len(Delays) - 1) + 1
    <3>2. k \in 1..Len(Delays) BY <3>1
    <3>3. Delay(quick) = Delays[k] BY DEF Delay
    <3> HIDE DEF k
    <3> QED BY <1>n, <3>2, <3>3
  <2>4. Append(Pruned(restarts), 0) \in Seq(Nat) /\ Append(deaths, 0) \in Seq(Nat) BY <2>1
  <2>5. /\ status' \in {status, "returned0", "returned1"} /\ child' = "none"
        /\ restarts' \in {restarts, Pruned(restarts), Append(Pruned(restarts), 0)}
        /\ deaths' \in {deaths, Append(deaths, 0)}
        /\ UNCHANGED <<uptime, deadlineIn, killed, stopSignal, stopAge>>
    BY <1>3 DEF HandleChild
  <2>6. quickDeaths' \in Nat BY <1>3, <2>2 DEF HandleChild
  <2>7. restartIn' \in {restartIn, Delay(quickDeaths')} BY <1>3 DEF HandleChild
  <2>8. restartIn' \in Nat \cup {NoTimer} BY <2>3, <2>6, <2>7
  <2> QED BY <2>1, <2>4, <2>5, <2>6, <2>8
<1>4. CASE HandleStop BY <1>4, <1>n DEF HandleStop
<1>5. CASE HandleDeadline BY <1>5, <1>n DEF HandleDeadline
<1>6. CASE Tick
  <2>1. restarts' \in Seq(Nat) BY <1>6, OlderIs DEF Tick
  <2>2. deaths' \in Seq(Nat)
    <3>1. Window \in Int /\ Older(deaths, Window + 1) \in Seq(Nat) BY <1>n, OlderIs
    <3>2. PICK n : Cut(Older(deaths, Window + 1), Window, n) BY <3>1, CutExists
    <3> QED BY <1>6, <3>1, <3>2, WithinHas DEF Tick
  <2>3. \A timer \in Nat \cup {NoTimer} : Less(timer) \in Nat \cup {NoTimer} BY DEF Less
  <2> QED BY <1>6, <2>1, <2>2, <2>3 DEF Tick
<1>7. ASSUME NEW sender \in Sender, SendStop(sender) PROVE SupervisorTypeOK'
  BY <1>7 DEF SendStop
<1>8. CASE ServerExits BY <1>8 DEF ServerExits
<1>9. CASE Deploys
  <2>1. <<>> \in Seq(Nat) OBVIOUS
  <2> QED BY <1>9, <2>1 DEF Deploys
<1>10. CASE UNCHANGED supervisorVars BY <1>10 DEF supervisorVars
<1> QED BY <1>1, <1>2, <1>3, <1>4, <1>5, <1>6, <1>7, <1>8, <1>9, <1>10, StepOfParent DEF SupervisorSteps

(* The ghost of the deaths is what the deque would be if it were pruned at *)
(* each tick.                                                              *)
Descending(ages) == \A i, j \in 1..Len(ages) : i <= j => ages[i] >= ages[j]

Reason == (stopAge # NoTimer /\ killed) \/ Len(deaths) = MaxRestarts

DequeInv ==
    /\ SupervisorTypeOK /\ Descending(restarts)
    /\ deaths = Within(restarts, Window)
    /\ Len(deaths) <= MaxRestarts
    /\ status = "returned1" => Reason

LEMMA DequeSound ==
    ASSUME DequeInv, StopTimes, [Next]_hostVars
    PROVE  DequeInv'
<1>0. SupervisorTypeOK' BY SupervisorTypeSound DEF DequeInv
<1>n. /\ Window \in Nat /\ Window \in Int /\ MaxRestarts \in Nat
      /\ restarts \in Seq(Nat) /\ deaths \in Seq(Nat) /\ Len(restarts) \in Nat
      /\ Len(deaths) \in Nat
  BY SupervisorAssumption DEF DequeInv, SupervisorTypeOK
<1>1. PICK n : Cut(restarts, Window, n) BY <1>n, CutExists
<1>2. /\ n \in Nat /\ n <= Len(restarts) /\ Len(deaths) = Len(restarts) - n
      /\ \A i \in 1..(Len(restarts) - n) : deaths[i] = restarts[n + i]
      /\ (n < Len(restarts) => restarts[n + 1] <= Window)
  <2>1. /\ n \in Nat /\ n <= Len(restarts)
        /\ (n < Len(restarts) => restarts[n + 1] <= Window)
    BY <1>n, <1>1 DEF Cut
  <2>2. /\ Len(deaths) = Len(restarts) - n
        /\ \A i \in 1..(Len(restarts) - n) : deaths[i] = restarts[n + i]
    BY <1>n, <1>1, WithinHas DEF DequeInv
  <2> QED BY <2>1, <2>2
<1>3. Descending(deaths) /\ \A i \in 1..Len(deaths) : deaths[i] <= Window
  <2>1. ASSUME NEW i \in 1..Len(deaths), NEW j \in 1..Len(deaths), i <= j
        PROVE  deaths[i] >= deaths[j]
    <3>1. n + i \in 1..Len(restarts) /\ n + j \in 1..Len(restarts) /\ n + i <= n + j
      BY <1>n, <1>2, <2>1
    <3>2. restarts[n + i] >= restarts[n + j] BY <3>1 DEF DequeInv, Descending
    <3> QED BY <1>2, <3>2
  <2>2. ASSUME NEW i \in 1..Len(deaths) PROVE deaths[i] <= Window
    <3>1. 1 \in 1..Len(deaths) /\ 1 <= i /\ n < Len(restarts) BY <1>n, <1>2
    <3>2. deaths[1] >= deaths[i] /\ deaths[1] = restarts[n + 1] BY <1>2, <2>1, <3>1
    <3>3. deaths[1] \in Nat /\ deaths[i] \in Nat BY <1>n, <3>1
    <3>4. deaths[1] <= Window BY <1>2, <3>1, <3>2
    <3>5. Window \in Nat BY <1>n
    <3> QED BY <3>2, <3>3, <3>4, <3>5
  <2> QED BY <2>1, <2>2 DEF Descending
<1>4. Within(deaths, Window) = deaths BY <1>n, <1>3, WithinAll
<1>5. ASSUME UNCHANGED <<restarts, deaths>>,
             status' = "returned1" => Reason'
      PROVE  DequeInv'
  BY <1>0, <1>5 DEF DequeInv, Reason, Descending
<1>6. CASE HandleChild
  <2>1. Pruned(restarts) = deaths BY DEF DequeInv, Pruned
  <2>2. status = "running" /\ status' \in {status, "returned0", "returned1"}
    BY <1>6 DEF HandleChild, Running
  <2>3. CASE UNCHANGED <<restarts, deaths>> /\ status' = "returned0"
    BY <1>0, <2>3 DEF DequeInv
  <2>4. CASE Len(deaths) >= MaxRestarts /\ restarts' = deaths /\ deaths' = deaths
    <3>1. Len(deaths) = MaxRestarts BY <1>n, <2>4 DEF DequeInv
    <3> QED BY <1>0, <1>3, <1>4, <2>4, <3>1, <1>n DEF DequeInv, Reason, Descending
  <2>5. CASE Len(deaths) < MaxRestarts /\ restarts' = Append(deaths, 0)
             /\ deaths' = Append(deaths, 0) /\ status' = status
    <3> DEFINE d == Append(deaths, 0)
    <3>1. /\ d \in Seq(Nat) /\ Len(d) = Len(deaths) + 1
          /\ \A i \in 1..Len(d) : d[i] = IF i <= Len(deaths) THEN deaths[i] ELSE 0
      BY <1>n
    <3> HIDE DEF d
    <3>2. Descending(d)
      <4> SUFFICES ASSUME NEW i \in 1..Len(d), NEW j \in 1..Len(d), i <= j PROVE d[i] >= d[j]
        BY DEF Descending
      <4>1. CASE j <= Len(deaths)
        <5>1. i \in 1..Len(deaths) /\ j \in 1..Len(deaths) BY <1>n, <3>1, <4>1
        <5>2. deaths[i] >= deaths[j] BY <1>3, <5>1 DEF Descending
        <5>3. d[i] = deaths[i] /\ d[j] = deaths[j] BY <3>1, <5>1, <4>1, <1>n
        <5> QED BY <5>2, <5>3
      <4>2. CASE j > Len(deaths)
        <5>1. d[j] = 0 /\ d[i] \in Nat BY <1>n, <3>1, <4>2
        <5> QED BY <5>1
      <4> QED BY <1>n, <3>1, <4>1, <4>2
    <3>3. \A i \in 1..Len(d) : d[i] <= Window
      <4> TAKE i \in 1..Len(d)
      <4>1. CASE i <= Len(deaths)
        <5>1. i \in 1..Len(deaths) /\ d[i] = deaths[i] BY <1>n, <3>1, <4>1
        <5> QED BY <1>3, <5>1
      <4>2. CASE i > Len(deaths) BY <1>n, <3>1, <4>2
      <4> QED BY <1>n, <3>1, <4>1, <4>2
    <3>4. Within(d, Window) = d BY <1>n, <3>1, <3>3, WithinAll
    <3>5. restarts' = d /\ deaths' = d /\ status' = "running" BY <2>2, <2>5 DEF d
    <3>6. Len(d) <= MaxRestarts BY <1>n, <2>5, <3>1
    <3>7. Descending(restarts') BY <3>2, <3>5
    <3> QED BY <1>0, <3>4, <3>5, <3>6, <3>7 DEF DequeInv
  <2> QED BY <1>6, <1>n, <2>1, <2>2, <2>3, <2>4, <2>5 DEF HandleChild
<1>7. CASE Tick
  <2>1. restarts' = Older(restarts, Window + 1) /\ status' = "running"
    BY <1>7 DEF Tick, Running
  <2>2. deaths' = Within(restarts', Window)
    BY <1>7, <1>n, <2>1, WithinOlder DEF Tick, DequeInv
  <2>3. /\ Len(restarts') = Len(restarts)
        /\ \A i \in 1..Len(restarts) :
              restarts'[i] = IF restarts[i] <= Window THEN restarts[i] + 1 ELSE Window + 1
    BY <1>n, <2>1, OlderIs
  <2>4. Descending(restarts')
    <3> SUFFICES ASSUME NEW i \in 1..Len(restarts), NEW j \in 1..Len(restarts), i <= j
                 PROVE  restarts'[i] >= restarts'[j]
      BY <2>3 DEF Descending
    <3>1. restarts[i] \in Nat /\ restarts[j] \in Nat /\ restarts[i] >= restarts[j]
      BY <1>n DEF DequeInv, Descending
    <3> QED BY <1>n, <2>3, <3>1
  <2>5. Len(deaths') <= MaxRestarts
    <3>1. Older(deaths, Window + 1) \in Seq(Nat) /\ Len(Older(deaths, Window + 1)) = Len(deaths)
      BY <1>n, OlderIs
    <3>2. PICK m : Cut(Older(deaths, Window + 1), Window, m) BY <1>n, <3>1, CutExists
    <3>3. m \in Nat /\ m <= Len(deaths) BY <3>1, <3>2, <1>n DEF Cut
    <3>4. Len(deaths') = Len(deaths) - m BY <1>7, <1>n, <3>1, <3>2, WithinHas DEF Tick
    <3> QED BY <1>n, <3>3, <3>4 DEF DequeInv
  <2> QED BY <1>0, <2>1, <2>2, <2>4, <2>5 DEF DequeInv
<1>8. CASE Deploys
  <2>1. restarts' = <<>> /\ deaths' = <<>> /\ status' = "running" BY <1>8 DEF Deploys
  <2>2. <<>> \in Seq(Nat) /\ Len(<<>>) = 0 OBVIOUS
  <2>3. Within(<<>>, Window) = <<>>
    <3>1. \A i \in 1..Len(<<>>) : <<>>[i] <= Window BY <2>2
    <3> QED BY <1>n, <2>2, <3>1, WithinAll
  <2> QED BY <1>0, <1>n, <2>1, <2>2, <2>3 DEF DequeInv, Descending
<1>9. ASSUME UNCHANGED <<status, restarts, deaths, stopAge, killed>> PROVE DequeInv'
  BY <1>5, <1>9 DEF DequeInv, Reason
<1>10. CASE Spawn \/ ServerExits \/ (\E sender \in Sender : SendStop(sender))
            \/ UNCHANGED supervisorVars
  BY <1>9, <1>10 DEF Spawn, ServerExits, SendStop, supervisorVars
<1>11. CASE SpawnFails BY <1>5, <1>11 DEF SpawnFails
<1>12. CASE HandleStop
  <2>1. UNCHANGED <<restarts, deaths>> /\ status' # "returned1"
    BY <1>12 DEF HandleStop, Running
  <2> QED BY <1>5, <2>1
<1>13. CASE HandleDeadline
  <2>1. /\ UNCHANGED <<restarts, deaths, stopAge>> /\ status = "running"
        /\ (status' = "returned1" => killed /\ killed' = killed)
    BY <1>13 DEF HandleDeadline, Running
  <2>2. status' = "returned1" => stopAge # NoTimer BY <2>1 DEF StopTimes, Running
  <2> QED BY <1>5, <2>1, <2>2 DEF Reason
<1> QED BY <1>6, <1>7, <1>8, <1>10, <1>11, <1>12, <1>13, StepOfParent DEF SupervisorSteps

LEMMA DequeInitially == ASSUME Init PROVE DequeInv /\ StopTimes /\ StopReasons
<1>n. /\ Window \in Int /\ MaxRestarts \in Nat BY SupervisorAssumption
<1>1. <<>> \in Seq(Nat) /\ Len(<<>>) = 0 OBVIOUS
<1>2. Within(<<>>, Window) = <<>>
  <2>1. \A i \in 1..Len(<<>>) : <<>>[i] <= Window BY <1>1
  <2> QED BY <1>n, <1>1, <2>1, WithinAll
<1>3. restarts = <<>> /\ deaths = <<>> /\ status = "running" BY DEF Init, SupervisorInit
<1>4. SupervisorTypeOK BY <1>1 DEF Init, SupervisorInit, SupervisorTypeOK, NoTimer, Sender
<1> QED BY <1>n, <1>1, <1>2, <1>3, <1>4, StopInitSound DEF DequeInv, Descending

(* The ghost keeps only deaths of the last window: all of it is recent. *)
LEMMA AllAreRecent == ASSUME DequeInv PROVE Cardinality(Recent) = Len(deaths)
<1>n. /\ Window \in Int /\ restarts \in Seq(Nat) /\ Len(restarts) \in Nat
      /\ deaths \in Seq(Nat) /\ Len(deaths) \in Nat
  BY SupervisorAssumption DEF DequeInv, SupervisorTypeOK
<1>1. PICK n : Cut(restarts, Window, n) BY <1>n, CutExists
<1>2. /\ n \in Nat /\ n <= Len(restarts)
      /\ (n < Len(restarts) => restarts[n + 1] <= Window)
  BY <1>n, <1>1 DEF Cut
<1>3. /\ Len(deaths) = Len(restarts) - n
      /\ \A i \in 1..(Len(restarts) - n) : deaths[i] = restarts[n + i]
  BY <1>n, <1>1, WithinHas DEF DequeInv
<1>4. ASSUME NEW i \in 1..Len(deaths) PROVE deaths[i] <= Window
  <2>1. n + 1 \in 1..Len(restarts) /\ n + i \in 1..Len(restarts) /\ n + 1 <= n + i
    BY <1>n, <1>2, <1>3
  <2>2. restarts[n + 1] >= restarts[n + i] BY <2>1 DEF DequeInv, Descending
  <2>3. deaths[i] = restarts[n + i] /\ restarts[n + i] \in Nat /\ restarts[n + 1] \in Nat
    BY <1>n, <1>3, <2>1
  <2>4. restarts[n + 1] <= Window BY <1>n, <1>2, <2>1
  <2> QED BY <1>n, <2>2, <2>3, <2>4
<1>5. Recent = 1..Len(deaths) BY <1>4 DEF Recent
<1>6. Cardinality(1..Len(deaths)) = Len(deaths)
  <2>1. 1 \in Int /\ Len(deaths) \in Int BY <1>n
  <2>2. Cardinality(1..Len(deaths)) = IF 1 > Len(deaths) THEN 0 ELSE Len(deaths) - 1 + 1
    BY <2>1, FS_Interval
  <2> QED BY <1>n, <2>2
<1> QED BY <1>5, <1>6

LEMMA SupervisorInvariant == Spec => [](DequeInv /\ StopTimes /\ StopReasons)
<1> DEFINE I == DequeInv /\ StopTimes /\ StopReasons
<1>1. Init => I BY DequeInitially
<1>2. I /\ [Next]_hostVars => I'
  <2>1. ASSUME I, [Next]_hostVars PROVE DequeInv' BY <2>1, DequeSound
  <2>2. ASSUME I, [Next]_hostVars PROVE StopTimes' /\ StopReasons' BY <2>2, StopSound
  <2> QED BY <2>1, <2>2
<1> QED BY <1>1, <1>2, PTL DEF Spec

(* The supervisor ends when it should and only then: no window holds more  *)
(* than MAX_RESTARTS deaths that a restart answered, although the deque is *)
(* pruned only when another server dies, and it gives up only with a       *)
(* window full or when the platform asked and a killed server stayed.      *)
THEOREM SupervisorEnds == Spec => []EndsWhenItShould
<1>1. DequeInv /\ StopTimes /\ StopReasons => EndsWhenItShould
  <2> SUFFICES ASSUME DequeInv, StopReasons PROVE EndsWhenItShould OBVIOUS
  <2>1. Cardinality(Recent) = Len(deaths) BY AllAreRecent
  <2> QED BY <2>1 DEF EndsWhenItShould, RestartsBounded, EndsForAReason, DequeInv, Reason, StopReasons
<1> QED BY <1>1, SupervisorInvariant, PTL

-----------------------------------------------------------------------------
(* The policy.  A step of the container is one of these for it.            *)
PolicyChange ==
    \/ \E c \in Launcher : Ensure(c)
    \/ \E h \in Pusher : ApplyPolicy(h) \/ PutFails(h) \/ \E r \in Nat : Put(h, r)
    \/ Relearn
    \/ \E t \in Thread : Working(t)
    \/ PolicyStops

LEMMA StepOfPolicy ==
    ASSUME scope \in Scopes, [Next]_hostVars
    PROVE  UNCHANGED scope /\ (PolicyChange \/ UNCHANGED policyVars)
<1>s. scope.launchers \subseteq Launcher /\ scope.policies \in Nat
  BY ScopeAssumption DEF ScopeType
<1>1. CASE Supervise BY <1>1 DEF Supervise, Loop, SupervisorOnly
<1>2. CASE ServerDies BY <1>2 DEF ServerDies, ServerEnds, PolicyChange
<1>3. CASE Startup BY <1>3 DEF Startup
<1>4. CASE \E b \in scope.bases : Deploy(b) BY <1>4 DEF Deploy, PolicyChange
<1>5. CASE Browse BY <1>5 DEF Browse, TerminalOnly
<1>6. CASE Terminals BY <1>6 DEF Terminals, TerminalOnly
<1>7. CASE Deadlines BY <1>7 DEF Deadlines, DeadlineOnly
<1>8. CASE Configuration
  <2>1. 1..scope.policies \subseteq Nat BY <1>s
  <2> QED BY <1>8, <1>s, <2>1 DEF Configuration, PolicyOnly, PolicyChange
<1>9. CASE UNCHANGED hostVars BY <1>9 DEF hostVars
<1> QED BY <1>1, <1>2, <1>3, <1>4, <1>5, <1>6, <1>7, <1>8, <1>9 DEF Next

(* A request at this stage has a snapshot of the policy. *)
Informed(r) == r.at \in {"resolving", "writing", "marking", "checking"}

(* File a is as new as policy v, or among the requests w is an operation   *)
(* with an older policy, which will find that it changed.                  *)
Followed(f, w, a, v) ==
    \/ f[a] >= v
    \/ \E t \in Thread : Informed(w[t]) /\ w[t].base < v

(* Or a request has yet to write it.                                       *)
Covered(f, w, a, v) ==
    \/ Followed(f, w, a, v)
    \/ \E t \in Thread : w[t].kind # "push" /\ a \in w[t].todo

(* What a request can be at each stage, when the journal has policy m. *)
Shaped(r, m) ==
    /\ r.at \in {"idle", "applying"} => r.todo = {} /\ r.kind = "launch"
    /\ r.at \in {"opening", "resolving", "writing"} => r.todo # {}
    /\ r.at = "marking" => r.kind = "launch"
    /\ r.at = "opening" /\ r.kind # "patch" => r.todo = Agent
    /\ r.at = "checking" /\ r.kind # "patch" => r.todo = {}
    /\ r.at # "applying" /\ r.kind # "push" => r.put = 0
    /\ r.kind = "push" => r.put <= m
    /\ r.kind = "push" /\ Informed(r) => r.put <= r.base
    /\ Informed(r) => r.base <= m

PolicyOrder == told <= recalled /\ recalled <= stored

(* A launch that configures finds the files that it is done with as new as *)
(* it wrote them, or who wrote over them is under way and will fail.       *)
AtWork(r) == r.kind = "launch" /\ r.at \in {"resolving", "writing", "marking"}

LaunchCovers(r) ==
    AtWork(r) =>
        \A a \in (Agent \ r.todo) \ undone, v \in 0..r.base : Followed(file, writer, a, v)

LaunchesStand == \A t \in Thread : LaunchCovers(writer[t])

(* While agents count as ready, the policy that was answered covers every  *)
(* file, and the one a refresh brings those that it is done with.          *)
AnswerCovered == \A a \in Agent \ undone : Covered(file, writer, a, told)

RefreshCovers(r) ==
    r.kind = "push" /\ r.put > told =>
        \A a \in (Agent \ r.todo) \ undone : Covered(file, writer, a, r.put)

FilesCovered ==
    cliReady => AnswerCovered /\ \A t \in Thread : RefreshCovers(writer[t])

PolicyIInv ==
    /\ PolicyTypeOK /\ PolicyOrder /\ (\A t \in Thread : Shaped(writer[t], recalled))
    /\ LaunchesStand /\ FilesCovered

LEMMA EarliestOf ==
    ASSUME NEW todo \in SUBSET Agent, todo # {}
    PROVE  Earliest(todo) \in todo
<1>1. \E a \in todo : \A b \in todo : a <= b
  <2> USE DEF Agent, Claude, Codex, Omnigent
  <2>1. CASE 1 \in todo BY <2>1
  <2>2. CASE 1 \notin todo /\ 2 \in todo BY <2>2
  <2>3. CASE todo = {3} BY <2>3
  <2> QED BY <2>1, <2>2, <2>3
<1> QED BY <1>1 DEF Earliest

WriterType ==
    [kind : {"launch", "patch", "push"}, base : Nat, todo : SUBSET Agent, put : Nat,
     at : {"idle", "applying", "opening", "resolving", "writing", "marking", "checking"}]

(* Request t becomes r. *)
Becomes(t, r) == r \in WriterType /\ writer' = [writer EXCEPT ![t] = r]

(* What covered a file up to policy v still does when request t moves on,  *)
(* if t keeps what it is to do and what it began with, or has the newest.  *)
Keeps(t, r) ==
    /\ Informed(writer[t]) =>
          \/ Informed(r) /\ r.base = writer[t].base
          \/ writer[t].base >= recalled
    /\ writer[t].kind # "push" =>
          \/ r.kind # "push" /\ writer[t].todo \subseteq r.todo
          \/ writer[t].todo = {}

LEMMA FollowedStays ==
    ASSUME PolicyTypeOK, NEW a \in Agent, NEW v \in Nat, v <= recalled,
           Followed(file, writer, a, v),
           NEW t \in Thread, NEW r, Becomes(t, r), Keeps(t, r), UNCHANGED file
    PROVE  Followed(file', writer', a, v)
<1> USE DEF PolicyTypeOK, WriterType, Becomes, Keeps
<1>1. \A u \in Thread : writer'[u] = IF u = t THEN r ELSE writer[u] OBVIOUS
<1>2. CASE file[a] >= v BY <1>2 DEF Followed
<1>3. ASSUME NEW u \in Thread, Informed(writer[u]), writer[u].base < v
      PROVE  Followed(file', writer', a, v)
  <2>1. CASE u # t BY <1>1, <1>3, <2>1 DEF Followed
  <2>2. CASE u = t
    <3>1. writer[t].base < recalled BY <1>3, <2>2
    <3>2. Informed(r) /\ r.base = writer[t].base BY <1>3, <2>2, <3>1
    <3> QED BY <1>1, <1>3, <2>2, <3>2 DEF Followed
  <2> QED BY <2>1, <2>2
<1> QED BY <1>2, <1>3 DEF Followed

LEMMA CoveredStays ==
    ASSUME PolicyTypeOK, NEW a \in Agent, NEW v \in Nat, v <= recalled,
           Covered(file, writer, a, v),
           NEW t \in Thread, NEW r, Becomes(t, r), Keeps(t, r), UNCHANGED file
    PROVE  Covered(file', writer', a, v)
<1>1. CASE Followed(file, writer, a, v) BY <1>1, FollowedStays DEF Covered
<1>2. CASE \E u \in Thread : writer[u].kind # "push" /\ a \in writer[u].todo
  <2>1. \A u \in Thread : writer'[u] = IF u = t THEN r ELSE writer[u]
    BY DEF PolicyTypeOK, Becomes
  <2> QED BY <1>2, <2>1 DEF Covered, Keeps
<1> QED BY <1>1, <1>2 DEF Covered

(* A launch that configures has yet to write every file, or keeps what it  *)
(* has done.                                                               *)
WorkKept(t, r) ==
    AtWork(r) => \/ r.todo = Agent
                 \/ AtWork(writer[t]) /\ r.base = writer[t].base /\ r.todo = writer[t].todo

(* Request t moves on, what the journal knows does not go back, and no     *)
(* file is written: what is left to show is about t.                       *)
LEMMA MoveSound ==
    ASSUME PolicyIInv, NEW t \in Thread, NEW r, Becomes(t, r), Keeps(t, r),
           UNCHANGED <<file, undone>>,
           stored' \in Nat, recalled' \in Nat, snapshot' \in Nat, told' \in Nat,
           cliReady' \in BOOLEAN, cliReady' => cliReady,
           recalled <= recalled', recalled' <= stored', told <= told', told' <= recalled',
           Shaped(r, recalled'),
           WorkKept(t, r),
           cliReady' => /\ told' <= recalled
                        /\ \A a \in Agent \ undone : Covered(file, writer, a, told'),
           cliReady' /\ r.kind = "push" /\ r.put > told'
               => \A a \in (Agent \ r.todo) \ undone :
                     r.put <= recalled /\ Covered(file, writer, a, r.put)
    PROVE  PolicyIInv'
<1> USE DEF PolicyTypeOK, WriterType, Becomes
<1>w. \A u \in Thread : writer'[u] = IF u = t THEN r ELSE writer[u] BY DEF PolicyIInv
<1>1. PolicyTypeOK' BY DEF PolicyIInv
<1>2. PolicyOrder' BY DEF PolicyOrder
<1>3. ASSUME NEW u \in Thread PROVE Shaped(writer'[u], recalled')
  <2>1. CASE u = t BY <1>w, <2>1
  <2>2. CASE u # t
    <3>1. /\ writer'[u] = writer[u]
          /\ writer[u].put \in Nat /\ writer[u].base \in Nat /\ recalled \in Nat
      BY <1>w, <2>2 DEF PolicyIInv
    <3>2. Shaped(writer[u], recalled) BY DEF PolicyIInv
    <3> QED BY <3>1, <3>2 DEF Shaped
  <2> QED BY <2>1, <2>2
<1>4. LaunchesStand'
  <2> SUFFICES ASSUME NEW u \in Thread, AtWork(writer'[u]),
                      NEW a \in (Agent \ writer'[u].todo) \ undone, NEW v \in 0..writer'[u].base
               PROVE  Followed(file', writer', a, v)
    BY DEF LaunchesStand, LaunchCovers
  <2>1. /\ AtWork(writer[u]) /\ writer'[u].todo = writer[u].todo
        /\ writer'[u].base = writer[u].base
    BY <1>w DEF WorkKept
  <2>2. Followed(file, writer, a, v) BY <2>1 DEF PolicyIInv, LaunchesStand, LaunchCovers
  <2>3. v \in Nat /\ v <= recalled
    <3>1. writer[u].base <= recalled BY <2>1 DEF PolicyIInv, Shaped, AtWork, Informed
    <3>2. writer[u].base \in Nat /\ recalled \in Nat BY DEF PolicyIInv
    <3> QED BY <2>1, <3>1, <3>2
  <2> QED BY <2>2, <2>3, FollowedStays DEF PolicyIInv
<1>5. FilesCovered'
  <2> SUFFICES ASSUME cliReady'
               PROVE  AnswerCovered' /\ \A u \in Thread : RefreshCovers(writer[u])'
    BY DEF FilesCovered
  <2>1. cliReady OBVIOUS
  <2>2. AnswerCovered' BY <2>1, CoveredStays DEF AnswerCovered, PolicyIInv
  <2>3. ASSUME NEW u \in Thread, writer'[u].kind = "push", writer'[u].put > told',
               NEW a \in (Agent \ writer'[u].todo) \ undone
        PROVE  Covered(file', writer', a, writer'[u].put)
    <3>0. writer'[u].put \in Nat BY <1>w DEF PolicyIInv
    <3>1. CASE u = t
      <4>1. Covered(file, writer, a, r.put) /\ r.put <= recalled BY <1>w, <2>1, <2>3, <3>1
      <4> QED BY <1>w, <2>1, <3>0, <3>1, <4>1, CoveredStays DEF PolicyIInv
    <3>2. CASE u # t
      <4>1. writer'[u] = writer[u] BY <1>w, <3>2
      <4>2. writer[u].put <= recalled BY <2>3, <4>1 DEF PolicyIInv, Shaped
      <4>3. writer[u].put > told BY <2>3, <3>0, <4>1 DEF PolicyIInv
      <4>4. Covered(file, writer, a, writer[u].put)
        BY <2>1, <2>3, <4>1, <4>3 DEF PolicyIInv, FilesCovered, RefreshCovers
      <4> QED BY <2>1, <3>0, <4>1, <4>2, <4>4, CoveredStays DEF PolicyIInv
    <3> QED BY <3>1, <3>2
  <2> QED BY <2>2, <2>3 DEF RefreshCovers
<1> QED BY <1>1, <1>2, <1>3, <1>4, <1>5 DEF PolicyIInv

-----------------------------------------------------------------------------
(* One lemma for each action. *)

LEMMA WriterTyped ==
    ASSUME PolicyTypeOK, NEW t \in Thread
    PROVE  /\ writer[t] \in WriterType
           /\ \A at \in {"idle", "applying", "opening", "resolving", "writing",
                         "marking", "checking"} :
                 [writer[t] EXCEPT !.at = at] \in WriterType
           /\ NoWork \in WriterType
BY DEF PolicyTypeOK, WriterType, NoWork

LEMMA StartsIs ==
    ASSUME NEW t \in Thread, NEW kind, NEW todo, Starts(t, kind, todo)
    PROVE  writer' = [writer EXCEPT ![t] =
                        [writer[t] EXCEPT !.at = "opening", !.kind = kind, !.todo = todo]]
BY DEF Starts

(* What is known of one request. *)
LEMMA OfOne ==
    ASSUME PolicyIInv, NEW t \in Thread
    PROVE  /\ Shaped(writer[t], recalled)
           /\ writer[t].put \in Nat /\ writer[t].base \in Nat /\ writer[t].todo \subseteq Agent
           /\ stored \in Nat /\ recalled \in Nat /\ snapshot \in Nat /\ told \in Nat
           /\ cliReady \in BOOLEAN /\ undone \subseteq Agent
           /\ told <= recalled /\ recalled <= stored
           /\ cliReady => \A a \in Agent \ undone : Covered(file, writer, a, told)
           /\ cliReady => RefreshCovers(writer[t])
BY DEF PolicyIInv, PolicyTypeOK, PolicyOrder, FilesCovered, AnswerCovered

LEMMA RestSound ==
    ASSUME PolicyIInv, NEW t \in Thread, Rests(t), UNCHANGED <<file, undone, told>>,
           writer[t].at \in {"idle", "applying"},
           stored' \in Nat, recalled' \in Nat, snapshot' \in Nat,
           recalled <= recalled', recalled' <= stored',
           cliReady' \in BOOLEAN, cliReady' => cliReady
    PROVE  PolicyIInv'
<1>1. Becomes(t, NoWork) BY WriterTyped DEF Becomes, Rests, PolicyIInv
<1>2. Shaped(NoWork, recalled') /\ ~AtWork(NoWork) /\ NoWork.kind # "push"
  BY DEF Shaped, NoWork, AtWork, Informed
<1>3. Keeps(t, NoWork) BY OfOne DEF Keeps, Shaped, Informed, NoWork
<1>4. cliReady' => /\ told' <= recalled
                   /\ \A a \in Agent \ undone : Covered(file, writer, a, told')
  BY OfOne
<1>5. told \in Nat /\ recalled \in Nat /\ told <= recalled BY OfOne
<1>6. told' \in Nat /\ told <= told' /\ told' <= recalled' BY <1>5
<1> QED BY <1>1, <1>2, <1>3, <1>4, <1>6, MoveSound DEF WorkKept

(* A failure: what it leaves undone is what only it would have covered.    *)
LEMMA RaiseSound ==
    ASSUME PolicyIInv, NEW t \in Thread, Raises(t),
           UNCHANGED <<stored, recalled, file, told>>, snapshot' \in Nat
    PROVE  PolicyIInv'
<1>n. recalled \in Nat /\ writer[t].base \in Nat /\ undone \subseteq Agent BY OfOne
<1>0. PolicyTypeOK BY DEF PolicyIInv
<1>1. \A u \in Thread : writer'[u] = IF u = t THEN NoWork ELSE writer[u]
  BY <1>0 DEF Raises, Rests, PolicyTypeOK
<1>2. PolicyTypeOK'
  <2>1. writer' \in [Thread -> WriterType]
    BY <1>0, WriterTyped DEF Raises, Rests, PolicyTypeOK, WriterType
  <2>2. undone' \subseteq Agent /\ cliReady' \in BOOLEAN BY <1>n DEF Raises
  <2> QED BY <1>0, <2>1, <2>2 DEF PolicyTypeOK, WriterType
<1>3. PolicyOrder' BY DEF PolicyIInv, PolicyOrder
<1>4. ASSUME NEW u \in Thread PROVE Shaped(writer[u], recalled)'
  <2>1. Shaped(NoWork, recalled) BY DEF Shaped, NoWork, Informed
  <2> QED BY <1>1, <2>1, OfOne
<1>5. LaunchesStand'
  <2> SUFFICES ASSUME NEW u \in Thread, AtWork(writer'[u]),
                      NEW a \in (Agent \ writer'[u].todo) \ undone', NEW v \in 0..writer'[u].base
               PROVE  Followed(file', writer', a, v)
    BY DEF LaunchesStand, LaunchCovers
  <2>1. u # t /\ writer'[u] = writer[u] BY <1>1 DEF AtWork, NoWork
  <2>n. v \in Nat /\ v <= writer[u].base /\ writer[u].base \in Nat /\ file[a] \in Int
    BY <1>0, <2>1, OfOne DEF PolicyTypeOK, Missing
  <2>2. a \notin undone /\ ~Outlives(u, t, a) BY <2>1 DEF Raises
  <2>3. Followed(file, writer, a, v)
    BY <2>1, <2>2 DEF PolicyIInv, LaunchesStand, LaunchCovers
  <2>4. CASE file[a] >= v BY <2>4 DEF Followed
  <2>5. ASSUME ~(file[a] >= v), NEW w \in Thread, Informed(writer[w]), writer[w].base < v
        PROVE  Followed(file', writer', a, v)
    <3>1. w # t
      <4> SUFFICES ASSUME writer[t].base < v PROVE FALSE BY <2>5
      <4>1. Configuring(u) BY <2>1 DEF AtWork, Configuring
      <4>2. writer[t].base < writer[u].base /\ file[a] < writer[u].base BY <1>n, <2>n, <2>5
      <4> QED BY <2>1, <2>2, <4>1, <4>2 DEF Outlives
    <3> QED BY <1>1, <2>5, <3>1 DEF Followed
  <2> QED BY <2>3, <2>4, <2>5 DEF Followed
<1>6. FilesCovered' BY DEF Raises, FilesCovered
<1> QED BY <1>2, <1>3, <1>4, <1>5, <1>6 DEF PolicyIInv

LEMMA EnsureSound == ASSUME PolicyIInv, NEW c \in Launcher, Ensure(c) PROVE PolicyIInv'
<1>0. c \in Thread BY DEF Thread
<1> DEFINE r(kind, todo) == [writer[c] EXCEPT !.at = "opening", !.kind = kind, !.todo = todo]
<1>1. PICK kind \in {"launch", "patch"}, todo \in SUBSET Agent :
         /\ todo # {} /\ (kind = "launch" => todo = Agent)
         /\ writer' = [writer EXCEPT ![c] = r(kind, todo)]
  <2> DEFINE missing == {a \in Agent : file[a] = Missing}
  <2>1. missing \in SUBSET Agent /\ Agent # {} /\ Agent \in SUBSET Agent
    BY DEF Agent
  <2>2. \A kind, todo : Starts(c, kind, todo) => writer' = [writer EXCEPT ![c] = r(kind, todo)]
    BY <1>0, StartsIs
  <2>3. CASE cliReady
    <3>1. missing # {} /\ Starts(c, "patch", missing) BY <2>3 DEF Ensure
    <3> QED BY <2>1, <2>2, <3>1
  <2>4. CASE ~cliReady
    <3>1. Starts(c, "launch", Agent) BY <2>4 DEF Ensure
    <3> QED BY <2>1, <2>2, <3>1
  <2> QED BY <2>3, <2>4
<1>2. Becomes(c, r(kind, todo))
  <2>1. writer[c] \in WriterType BY <1>0, WriterTyped DEF PolicyIInv
  <2>2. r(kind, todo) \in WriterType BY <1>1, <2>1 DEF WriterType
  <2> QED BY <1>1, <2>2 DEF Becomes
<1>3. Shaped(r(kind, todo), recalled) /\ ~AtWork(r(kind, todo)) /\ r(kind, todo).kind # "push"
  BY <1>0, <1>1, WriterTyped, OfOne DEF Shaped, AtWork, Informed, WriterType, Ensure, PolicyIInv
<1>4. Keeps(c, r(kind, todo))
  BY <1>0, OfOne DEF Keeps, Shaped, Informed, Ensure
<1> HIDE DEF r
<1> QED BY <1>0, <1>2, <1>3, <1>4, OfOne, MoveSound DEF Ensure, WorkKept

LEMMA PutSound == ASSUME PolicyIInv, NEW h \in Pusher, NEW n \in Nat, Put(h, n) PROVE PolicyIInv'
<1>0. h \in Thread BY DEF Thread
<1> DEFINE r == [writer[h] EXCEPT !.at = "applying", !.put = n]
<1>1. Becomes(h, r)
  <2>0. writer[h] \in WriterType BY <1>0, WriterTyped DEF PolicyIInv
  <2>1. r \in WriterType BY <2>0 DEF WriterType
  <2>2. writer' = [writer EXCEPT ![h] = r] BY DEF Put
  <2> QED BY <2>1, <2>2 DEF Becomes
<1>2. Shaped(r, recalled) /\ ~AtWork(r) /\ r.kind # "push"
  <2>1. r.at = "applying" /\ r.kind = writer[h].kind /\ r.todo = writer[h].todo
    BY <1>0, WriterTyped DEF WriterType, PolicyIInv
  <2>2. writer[h].kind = "launch" /\ writer[h].todo = {} BY <1>0, OfOne DEF Shaped, Put
  <2> QED BY <2>1, <2>2 DEF Shaped, AtWork, Informed
<1>3. Keeps(h, r) BY <1>0, OfOne DEF Keeps, Shaped, Informed, Put
<1> HIDE DEF r
<1> QED BY <1>0, <1>1, <1>2, <1>3, OfOne, MoveSound DEF Put, WorkKept

LEMMA ApplyPolicySound ==
    ASSUME PolicyIInv, NEW h \in Pusher, ApplyPolicy(h) PROVE PolicyIInv'
<1>0. h \in Thread BY DEF Thread
<1>b. cliReady' \in BOOLEAN /\ (cliReady' => cliReady) BY <1>0, OfOne DEF ApplyPolicy
<1>1. CASE writer[h].put < stored /\ Rests(h) /\ recalled' = stored /\ UNCHANGED <<stored, snapshot>>
  BY <1>0, <1>1, <1>b, OfOne, RestSound DEF ApplyPolicy
<1>2. CASE /\ writer[h].put >= stored /\ Starts(h, "push", Agent)
           /\ stored' = writer[h].put /\ recalled' = stored' /\ snapshot' = stored'
  <2> DEFINE r == [writer[h] EXCEPT !.at = "opening", !.kind = "push", !.todo = Agent]
  <2>1. Becomes(h, r)
    <3>0. writer[h] \in WriterType BY <1>0, WriterTyped DEF PolicyIInv
    <3>1. r \in WriterType BY <3>0 DEF WriterType
    <3>2. writer' = [writer EXCEPT ![h] = r] BY <1>2 DEF Starts
    <3> QED BY <3>1, <3>2 DEF Becomes
  <2>2. Shaped(r, recalled') /\ ~AtWork(r)
    BY <1>0, <1>2, WriterTyped, OfOne
       DEF Shaped, AtWork, Informed, WriterType, PolicyIInv, Agent, Claude, Codex, Omnigent
  <2>3. Keeps(h, r) BY <1>0, OfOne DEF Keeps, Shaped, Informed, ApplyPolicy
  <2>4. r.todo = Agent BY <1>0, WriterTyped DEF WriterType, PolicyIInv
  <2> HIDE DEF r
  <2> QED BY <1>0, <1>2, <2>1, <2>2, <2>3, <2>4, OfOne, MoveSound DEF ApplyPolicy, WorkKept
<1> QED BY <1>1, <1>2 DEF ApplyPolicy

LEMMA PutFailsSound == ASSUME PolicyIInv, NEW h \in Pusher, PutFails(h) PROVE PolicyIInv'
<1>0. h \in Thread BY DEF Thread
<1>1. cliReady' \in BOOLEAN /\ (cliReady' => cliReady) BY <1>0, OfOne DEF PutFails
<1> QED BY <1>0, <1>1, OfOne, RestSound DEF PutFails

LEMMA OpenSound == ASSUME PolicyIInv, NEW t \in Thread, Open(t) PROVE PolicyIInv'
<1> DEFINE r == [writer[t] EXCEPT !.at = "resolving", !.base = recalled]
<1>1. Becomes(t, r)
  <2>1. r \in WriterType
    <3>1. writer[t] \in WriterType /\ recalled \in Nat BY WriterTyped, OfOne DEF PolicyIInv
    <3> QED BY <3>1 DEF WriterType
  <2>2. writer' = [writer EXCEPT ![t] = r] BY DEF Open
  <2> QED BY <2>1, <2>2 DEF Becomes
<1>2. /\ Shaped(r, recalled) /\ (AtWork(r) => r.todo = Agent)
      /\ r.kind = writer[t].kind /\ r.put = writer[t].put /\ r.todo = writer[t].todo
  <2>1. /\ r.at = "resolving" /\ r.kind = writer[t].kind /\ r.todo = writer[t].todo
        /\ r.put = writer[t].put /\ r.base = recalled
    BY WriterTyped DEF WriterType, PolicyIInv
  <2>2. Shaped(writer[t], recalled) /\ writer[t].at = "opening" BY OfOne DEF Open
  <2> QED BY <2>1, <2>2, OfOne DEF Shaped, AtWork, Informed
<1>3. Keeps(t, r) BY <1>2 DEF Keeps, Informed, Open
<1>4. cliReady /\ r.kind = "push" /\ r.put > told
        => \A a \in (Agent \ r.todo) \ undone : r.put <= recalled /\ Covered(file, writer, a, r.put)
  BY <1>2, OfOne DEF RefreshCovers, Shaped
<1>5. stored' = stored /\ recalled' = recalled /\ snapshot' = recalled /\ cliReady' = cliReady
      /\ UNCHANGED <<file, undone, told>>
  BY DEF Open
<1>6. stored \in Nat /\ recalled \in Nat /\ told \in Nat /\ told <= recalled /\ recalled <= stored
      /\ cliReady \in BOOLEAN
  BY OfOne
<1>7. cliReady => \A a \in Agent \ undone : Covered(file, writer, a, told) BY OfOne
<1> HIDE DEF r
<1>p. AtWork(r) => r.todo = Agent BY <1>2
<1>s. Shaped(r, recalled') BY <1>2, <1>5
<1>w. WorkKept(t, r) BY <1>p DEF WorkKept
<1> QED BY <1>1, <1>w, <1>s, <1>3, <1>4, <1>5, <1>6, <1>7, MoveSound

(* What After makes of a request. *)
Reduced(t, at) == [writer[t] EXCEPT !.todo = Left(t), !.at = at]

LEMMA AfterIs ==
    ASSUME PolicyTypeOK, NEW t \in Thread, writer[t].todo # {}, NEW at
    PROVE  /\ Current(t) \in writer[t].todo /\ Current(t) \in Agent
           /\ After(t, at) => writer' = [writer EXCEPT ![t] = Reduced(t, at)]
<1>1. writer[t].todo \in SUBSET Agent BY DEF PolicyTypeOK
<1>2. Current(t) \in writer[t].todo BY <1>1, EarliestOf DEF Current
<1> QED BY <1>1, <1>2 DEF After, Reduced

LEMMA NextIs ==
    ASSUME PolicyTypeOK, NEW t \in Thread, NEW at \in {"resolving", "marking", "checking"}
    PROVE  /\ Reduced(t, at) \in WriterType
           /\ Reduced(t, at).todo = writer[t].todo \ {Current(t)}
           /\ Reduced(t, at).kind = writer[t].kind /\ Reduced(t, at).base = writer[t].base
           /\ Reduced(t, at).put = writer[t].put /\ Reduced(t, at).at = at
<1>1. writer[t] \in WriterType BY WriterTyped
<1> QED BY <1>1 DEF Reduced, Left, WriterType

LEMMA OnwardIs ==
    ASSUME NEW t \in Thread, NEW todo
    PROVE  /\ Onward(t, todo) \in {"resolving", "checking"}
           /\ Onward(t, todo) = "resolving" => todo # {}
           /\ Onward(t, todo) = "checking" /\ writer[t].kind # "patch" => todo = {}
BY DEF Onward

LEMMA ResolveSound == ASSUME PolicyIInv, NEW t \in Thread, Resolve(t) PROVE PolicyIInv'
<1>t. PolicyTypeOK /\ writer[t].at = "resolving" /\ writer[t].todo # {}
  BY OfOne DEF PolicyIInv, Resolve, Shaped
<1>c. Current(t) \in writer[t].todo /\ Current(t) \in Agent BY <1>t, AfterIs
<1>u. UNCHANGED <<stored, recalled, snapshot, file, told>> BY DEF Resolve
<1>n. /\ stored \in Nat /\ recalled \in Nat /\ snapshot \in Nat /\ told \in Nat
      /\ told <= recalled /\ recalled <= stored
      /\ cliReady \in BOOLEAN
  BY OfOne
<1>a. cliReady => \A a \in Agent \ undone : Covered(file, writer, a, told) BY OfOne
<1>s. Shaped(writer[t], recalled) /\ (cliReady => RefreshCovers(writer[t])) BY OfOne
<1>1. CASE Absent(t) /\ After(t, Onward(t, Left(t))) /\ UNCHANGED <<cliReady, undone>>
  <2> DEFINE at == Onward(t, Left(t))
  <2> DEFINE r == Reduced(t, at)
  <2>o. /\ at \in {"resolving", "checking"} /\ (at = "resolving" => Left(t) # {})
        /\ at = "checking" /\ writer[t].kind # "patch" => Left(t) = {}
    BY OnwardIs
  <2>0. /\ r \in WriterType /\ r.todo = writer[t].todo \ {Current(t)} /\ r.todo = Left(t)
        /\ r.kind = writer[t].kind /\ r.base = writer[t].base /\ r.put = writer[t].put
        /\ r.at = at
    BY <1>t, <2>o, NextIs DEF Left
  <2>1. Becomes(t, r) BY <1>1, <1>t, <2>0, AfterIs DEF Becomes
  <2>2. writer[t].kind = "push" /\ file[Current(t)] = Missing BY <1>1 DEF Absent
  <2> HIDE DEF r, at
  <2>3. Shaped(r, recalled) /\ ~AtWork(r) /\ Keeps(t, r)
    BY <1>s, <1>t, <2>o, <2>0, <2>2 DEF Shaped, AtWork, Keeps, Informed
  <2>4. writer[t].put <= recalled /\ writer[t].put <= writer[t].base
    BY <1>s, <1>t, <2>2 DEF Shaped, Informed
  <2>5. ASSUME cliReady, Current(t) \notin undone, writer[t].put > told
        PROVE  Covered(file, writer, Current(t), writer[t].put)
    <3>1. Covered(file, writer, Current(t), told) BY <1>a, <1>c, <2>5
    <3>2. ~(file[Current(t)] >= told) BY <1>n, <2>2 DEF Missing
    <3>3. CASE \E u \in Thread : Informed(writer[u]) /\ writer[u].base < told
      <4>1. PICK u \in Thread : Informed(writer[u]) /\ writer[u].base < told BY <3>3
      <4>2. writer[u].base < writer[t].put BY <1>n, <2>5, <4>1, OfOne
      <4> QED BY <4>1, <4>2 DEF Covered, Followed
    <3>4. CASE \E u \in Thread : writer[u].kind # "push" /\ Current(t) \in writer[u].todo
      BY <3>4 DEF Covered
    <3> QED BY <3>1, <3>2, <3>3, <3>4 DEF Covered, Followed
  <2>6. ASSUME cliReady, r.put > told, NEW a \in (Agent \ r.todo) \ undone
        PROVE  r.put <= recalled /\ Covered(file, writer, a, r.put)
    BY <1>s, <2>0, <2>2, <2>4, <2>5, <2>6 DEF RefreshCovers
  <2> QED BY <1>1, <1>u, <1>n, <1>a, <2>1, <2>3, <2>6, MoveSound DEF WorkKept
<1>2. CASE Approved(t) /\ Goes(t, "writing") /\ UNCHANGED <<cliReady, undone>>
  <2> DEFINE r == [writer[t] EXCEPT !.at = "writing"]
  <2>0. /\ r \in WriterType /\ r.todo = writer[t].todo
        /\ r.kind = writer[t].kind /\ r.base = writer[t].base /\ r.put = writer[t].put
        /\ r.at = "writing"
    <3>1. writer[t] \in WriterType BY <1>t, WriterTyped
    <3> QED BY <3>1 DEF WriterType
  <2>1. Becomes(t, r) BY <1>2, <2>0 DEF Becomes, Goes
  <2> HIDE DEF r
  <2>2. Shaped(r, recalled) /\ Keeps(t, r)
    BY <1>s, <1>t, <2>0 DEF Shaped, Keeps, Informed
  <2>3. AtWork(r) => AtWork(writer[t]) BY <1>t, <2>0 DEF AtWork
  <2>4. cliReady /\ r.kind = "push" /\ r.put > told
          => \A a \in (Agent \ r.todo) \ undone :
                r.put <= recalled /\ Covered(file, writer, a, r.put)
    BY <1>s, <2>0 DEF RefreshCovers, Shaped
  <2> QED BY <1>2, <1>u, <1>n, <1>a, <2>0, <2>1, <2>2, <2>3, <2>4, MoveSound DEF WorkKept
<1>3. CASE Raises(t) BY <1>3, <1>u, <1>n, RaiseSound
<1> QED BY <1>1, <1>2, <1>3 DEF Resolve


(* What covers a file still does once t has written the one it is at, and  *)
(* that one is, up to any policy.                                          *)
LEMMA CoveredByWrite ==
    ASSUME PolicyIInv, NEW t \in Thread, Write(t), NEW a \in Agent, NEW v \in Nat
    PROVE  /\ a = Current(t) \/ Followed(file, writer, a, v) => Followed(file', writer', a, v)
           /\ a = Current(t) \/ Covered(file, writer, a, v) => Covered(file', writer', a, v)
<1> DEFINE at == IF writer[t].kind = "launch" /\ Current(t) # Claude
                 THEN "marking" ELSE Onward(t, Left(t))
<1> DEFINE r == Reduced(t, at)
<1>0. PolicyTypeOK /\ writer[t].at = "writing" /\ writer[t].todo # {} /\ writer[t].base \in Nat
  BY OfOne DEF PolicyIInv, Write, Shaped
<1>1. /\ r.todo = writer[t].todo \ {Current(t)} /\ r.kind = writer[t].kind
      /\ r.base = writer[t].base /\ Informed(r)
  <2>1. at \in {"resolving", "marking", "checking"} BY OnwardIs
  <2> QED BY <1>0, <2>1, NextIs DEF Informed
<1>2. writer' = [writer EXCEPT ![t] = r] BY <1>0, AfterIs DEF Write
<1> HIDE DEF r
<1>3. \A u \in Thread : writer'[u] = IF u = t THEN r ELSE writer[u]
  BY <1>0, <1>2 DEF PolicyTypeOK
<1>4. \A b \in Agent : file'[b] = IF b = Current(t) THEN writer[t].base ELSE file[b]
  BY <1>0 DEF PolicyTypeOK, Write
<1>5. CASE a = Current(t)
  <2>1. Followed(file', writer', a, v) BY <1>0, <1>1, <1>3, <1>4, <1>5 DEF Followed
  <2> QED BY <2>1 DEF Covered
<1>6. CASE a # Current(t)
  <2>1. Followed(file, writer, a, v) => Followed(file', writer', a, v)
    <3>1. CASE file[a] >= v BY <1>4, <1>6, <3>1 DEF Followed
    <3>2. ASSUME NEW u \in Thread, Informed(writer[u]), writer[u].base < v
          PROVE  Followed(file', writer', a, v)
      <4>1. Informed(writer'[u]) /\ writer'[u].base < v BY <1>1, <1>3, <3>2
      <4> QED BY <4>1 DEF Followed
    <3> QED BY <3>1, <3>2 DEF Followed
  <2>2. ASSUME NEW u \in Thread, writer[u].kind # "push", a \in writer[u].todo
        PROVE  Covered(file', writer', a, v)
    <3>1. writer'[u].kind # "push" /\ a \in writer'[u].todo BY <1>1, <1>3, <1>6, <2>2
    <3> QED BY <3>1 DEF Covered
  <2> QED BY <1>6, <2>1, <2>2 DEF Covered
<1> QED BY <1>5, <1>6

LEMMA WriteSound == ASSUME PolicyIInv, NEW t \in Thread, Write(t) PROVE PolicyIInv'
<1> DEFINE at == IF writer[t].kind = "launch" /\ Current(t) # Claude
                 THEN "marking" ELSE Onward(t, Left(t))
<1> DEFINE r == Reduced(t, at)
<1>0. /\ PolicyTypeOK /\ writer[t].at = "writing" /\ writer[t].todo # {}
      /\ Shaped(writer[t], recalled)
  BY OfOne DEF PolicyIInv, Write, Shaped
<1>o. /\ at \in {"resolving", "marking", "checking"}
      /\ at = "marking" => writer[t].kind = "launch"
      /\ at = "resolving" => Left(t) # {}
      /\ at = "checking" /\ writer[t].kind # "patch" => Left(t) = {}
  BY OnwardIs
<1>1. /\ r \in WriterType /\ r.todo = writer[t].todo \ {Current(t)} /\ r.todo = Left(t)
      /\ r.kind = writer[t].kind /\ r.base = writer[t].base /\ r.put = writer[t].put
      /\ r.at = at
  BY <1>0, <1>o, NextIs DEF Left
<1>2. writer' = [writer EXCEPT ![t] = r] BY <1>0, AfterIs DEF Write
<1>c. Current(t) \in writer[t].todo /\ Current(t) \in Agent BY <1>0, AfterIs
<1> HIDE DEF r, at
<1>3. \A u \in Thread : writer'[u] = IF u = t THEN r ELSE writer[u]
  BY <1>0, <1>2 DEF PolicyTypeOK
<1>4. \A b \in Agent : file'[b] = IF b = Current(t) THEN writer[t].base ELSE file[b]
  BY <1>0 DEF PolicyTypeOK, Write
<1>n. /\ stored \in Nat /\ recalled \in Nat /\ told \in Nat /\ writer[t].base \in Nat
      /\ writer[t].put \in Nat
  BY OfOne
<1>k. UNCHANGED <<stored, recalled, snapshot, cliReady, told>> BY DEF Write
<1>5. PolicyTypeOK'
  <2>1. writer' \in [Thread -> WriterType] BY <1>0, <1>1, <1>2 DEF PolicyTypeOK, WriterType
  <2>2. file' \in [Agent -> Nat \cup {Missing}] BY <1>0, <1>n DEF PolicyTypeOK, Write
  <2>3. undone' \subseteq Agent BY <1>0 DEF PolicyTypeOK, Write
  <2> QED BY <1>0, <1>k, <2>1, <2>2, <2>3 DEF PolicyTypeOK, WriterType
<1>6. PolicyOrder' BY <1>k DEF PolicyOrder, PolicyIInv
<1>7. ASSUME NEW u \in Thread PROVE Shaped(writer[u], recalled)'
  <2>1. CASE u = t
    <3>1. Shaped(r, recalled) BY <1>0, <1>o, <1>1 DEF Shaped, Informed
    <3> QED BY <1>3, <1>k, <2>1, <3>1
  <2>2. CASE u # t BY <1>3, <1>k, <2>2, OfOne
  <2> QED BY <2>1, <2>2
<1>d. undone' = undone \ {Current(t)} BY DEF Write
<1>8. LaunchesStand'
  <2> SUFFICES ASSUME NEW u \in Thread, AtWork(writer'[u]),
                      NEW a \in (Agent \ writer'[u].todo) \ undone', NEW v \in 0..writer'[u].base
               PROVE  Followed(file', writer', a, v)
    BY DEF LaunchesStand, LaunchCovers
  <2>1. writer'[u].base \in Nat /\ v \in Nat BY <1>5 DEF PolicyTypeOK
  <2>2. CASE a = Current(t) BY <2>1, <2>2, CoveredByWrite
  <2>3. CASE a # Current(t)
    <3>1. /\ AtWork(writer[u]) /\ writer'[u].base = writer[u].base
          /\ a \notin writer[u].todo /\ a \notin undone
      BY <1>0, <1>1, <1>3, <1>d, <2>3 DEF AtWork
    <3>2. Followed(file, writer, a, v) BY <3>1 DEF PolicyIInv, LaunchesStand, LaunchCovers
    <3> QED BY <2>1, <3>2, CoveredByWrite
  <2> QED BY <2>2, <2>3
<1>9. FilesCovered'
  <2> SUFFICES ASSUME cliReady'
               PROVE  AnswerCovered' /\ \A u \in Thread : RefreshCovers(writer[u])'
    BY DEF FilesCovered
  <2>0. cliReady BY <1>k
  <2>1. AnswerCovered'
    <3>1. ASSUME NEW a \in Agent \ undone' PROVE Covered(file', writer', a, told)
      BY <1>n, <1>d, <2>0, OfOne, CoveredByWrite
    <3> QED BY <1>k, <3>1 DEF AnswerCovered
  <2>2. ASSUME NEW u \in Thread, writer'[u].kind = "push", writer'[u].put > told,
               NEW a \in (Agent \ writer'[u].todo) \ undone'
        PROVE  Covered(file', writer', a, writer'[u].put)
    <3>1. writer'[u].kind = writer[u].kind /\ writer'[u].put = writer[u].put BY <1>1, <1>3
    <3>n. writer'[u].put \in Nat BY <3>1, OfOne
    <3>2. CASE a = Current(t) BY <3>2, <3>n, CoveredByWrite
    <3>3. CASE a # Current(t)
      <4>1. a \notin writer[u].todo /\ a \notin undone BY <1>1, <1>3, <1>d, <2>2, <3>3
      <4>2. Covered(file, writer, a, writer[u].put)
        BY <2>0, <2>2, <3>1, <4>1, OfOne DEF RefreshCovers
      <4> QED BY <3>1, <3>n, <4>2, CoveredByWrite
    <3> QED BY <3>2, <3>3
  <2> QED BY <1>k, <2>1, <2>2 DEF RefreshCovers
<1> QED BY <1>5, <1>6, <1>7, <1>8, <1>9 DEF PolicyIInv

(* A launch that marks its agents ready, the first time or the second,     *)
(* covers every file that no failure has left undone.                      *)
LEMMA MarkReadySound == ASSUME PolicyIInv, NEW t \in Thread, MarkReady(t) PROVE PolicyIInv'
<1> DEFINE at == Onward(t, writer[t].todo)
<1> DEFINE r == [writer[t] EXCEPT !.at = at]
<1>0. /\ PolicyTypeOK /\ writer[t].at = "marking" /\ writer[t].kind = "launch"
      /\ Shaped(writer[t], recalled) /\ writer[t].base \in Nat
  BY OfOne DEF PolicyIInv, MarkReady, Shaped
<1>o. /\ at \in {"resolving", "checking"} /\ (at = "resolving" => writer[t].todo # {})
      /\ at = "checking" => writer[t].todo = {}
  BY <1>0, OnwardIs
<1>1. /\ r \in WriterType /\ r.todo = writer[t].todo /\ r.kind = writer[t].kind
      /\ r.base = writer[t].base /\ r.put = writer[t].put /\ r.at = at
  <2>1. writer[t] \in WriterType BY <1>0, WriterTyped
  <2> QED BY <1>o, <2>1 DEF WriterType
<1>2. writer' = [writer EXCEPT ![t] = r] BY DEF MarkReady, Goes
<1> HIDE DEF r, at
<1>3. \A u \in Thread : writer'[u] = IF u = t THEN r ELSE writer[u]
  BY <1>0, <1>2 DEF PolicyTypeOK
<1>k. cliReady' = TRUE /\ UNCHANGED <<stored, recalled, snapshot, file, told, undone>>
  BY DEF MarkReady
<1>5. PolicyTypeOK'
  <2>1. writer' \in [Thread -> WriterType] BY <1>0, <1>1, <1>2 DEF PolicyTypeOK, WriterType
  <2> QED BY <1>0, <1>k, <2>1 DEF PolicyTypeOK, WriterType
<1>6. PolicyOrder' BY <1>k DEF PolicyOrder, PolicyIInv
<1>7. ASSUME NEW u \in Thread PROVE Shaped(writer[u], recalled)'
  <2>1. CASE u = t
    <3>1. Shaped(r, recalled) BY <1>0, <1>o, <1>1 DEF Shaped, Informed
    <3> QED BY <1>3, <1>k, <2>1, <3>1
  <2>2. CASE u # t BY <1>3, <1>k, <2>2, OfOne
  <2> QED BY <2>1, <2>2
<1>i. Informed(r) /\ Informed(writer[t]) /\ r.kind # "push" BY <1>0, <1>o, <1>1 DEF Informed
<1>f. ASSUME NEW a \in Agent, NEW v \in Nat, Followed(file, writer, a, v)
      PROVE  Followed(file', writer', a, v)
  BY <1>1, <1>3, <1>i, <1>f, <1>k DEF Followed
<1>8. LaunchesStand'
  <2> SUFFICES ASSUME NEW u \in Thread, AtWork(writer'[u]),
                      NEW a \in (Agent \ writer'[u].todo) \ undone', NEW v \in 0..writer'[u].base
               PROVE  Followed(file', writer', a, v)
    BY DEF LaunchesStand, LaunchCovers
  <2>1. /\ AtWork(writer[u]) /\ writer'[u].todo = writer[u].todo
        /\ writer'[u].base = writer[u].base
    BY <1>0, <1>1, <1>3 DEF AtWork
  <2>2. v \in Nat BY <2>1, OfOne
  <2>3. Followed(file, writer, a, v) BY <1>k, <2>1 DEF PolicyIInv, LaunchesStand, LaunchCovers
  <2> QED BY <1>f, <2>2, <2>3
<1>9. ASSUME NEW a \in Agent \ undone, NEW v \in Nat PROVE Covered(file', writer', a, v)
  <2>1. CASE a \in writer[t].todo BY <1>1, <1>3, <1>i, <2>1 DEF Covered
  <2>2. CASE writer[t].base < v BY <1>1, <1>3, <1>i, <2>2 DEF Covered, Followed
  <2>3. CASE a \notin writer[t].todo /\ writer[t].base >= v
    <3>1. v \in 0..writer[t].base BY <1>0, <2>3
    <3>2. Followed(file, writer, a, v)
      BY <1>0, <2>3, <3>1 DEF PolicyIInv, LaunchesStand, LaunchCovers, AtWork
    <3> QED BY <1>f, <3>2 DEF Covered
  <2> QED BY <1>0, <2>1, <2>2, <2>3
<1>x. FilesCovered'
  <2>1. told' \in Nat /\ \A u \in Thread : writer'[u].put \in Nat
    BY <1>5 DEF PolicyTypeOK
  <2> QED BY <1>9, <1>k, <2>1 DEF FilesCovered, AnswerCovered, RefreshCovers
<1> QED BY <1>5, <1>6, <1>7, <1>8, <1>x DEF PolicyIInv

LEMMA CheckSound == ASSUME PolicyIInv, NEW t \in Thread, Check(t) PROVE PolicyIInv'
<1>t. PolicyTypeOK /\ writer[t].at = "checking" BY DEF PolicyIInv, Check
<1>u. snapshot' = recalled /\ UNCHANGED <<stored, recalled, file>> BY DEF Check
<1>n. /\ stored \in Nat /\ recalled \in Nat /\ told \in Nat /\ writer[t].put \in Nat
      /\ told <= recalled /\ recalled <= stored /\ cliReady \in BOOLEAN
  BY OfOne
<1>a. cliReady => \A a \in Agent \ undone : Covered(file, writer, a, told) BY OfOne
<1>s. Shaped(writer[t], recalled) /\ (cliReady => RefreshCovers(writer[t])) BY OfOne
<1>1. CASE recalled # writer[t].base /\ Raises(t) /\ UNCHANGED told
  BY <1>u, <1>n, <1>1, RaiseSound
<1>2. CASE /\ recalled = writer[t].base /\ UNCHANGED <<cliReady, undone>>
           /\ IF writer[t].todo # {} THEN Goes(t, "opening") ELSE Rests(t)
           /\ told' = IF writer[t].put > told THEN writer[t].put ELSE told
  <2>1. PICK r : /\ Becomes(t, r) /\ r.kind # "push" /\ ~AtWork(r) /\ Shaped(r, recalled)
                 /\ Keeps(t, r)
    <3>1. CASE writer[t].todo # {}
      <4> DEFINE r == [writer[t] EXCEPT !.at = "opening"]
      <4>1. /\ r \in WriterType /\ r.todo = writer[t].todo /\ r.kind = writer[t].kind
            /\ r.put = writer[t].put /\ r.at = "opening"
        <5>1. writer[t] \in WriterType BY <1>t, WriterTyped
        <5> QED BY <5>1 DEF WriterType
      <4>2. writer' = [writer EXCEPT ![t] = r] BY <1>2, <3>1 DEF Goes
      <4> HIDE DEF r
      <4>3. writer[t].kind = "patch" BY <1>s, <1>t, <3>1 DEF Shaped
      <4>4. Shaped(r, recalled) /\ ~AtWork(r) /\ r.kind # "push"
        BY <1>s, <1>t, <3>1, <4>1, <4>3 DEF Shaped, AtWork, Informed
      <4>5. Keeps(t, r) BY <1>2, <1>n, <4>1, <4>3 DEF Keeps
      <4> QED BY <4>1, <4>2, <4>4, <4>5 DEF Becomes
    <3>2. CASE writer[t].todo = {}
      <4>1. Becomes(t, NoWork) BY <1>2, <1>t, <3>2, WriterTyped DEF Becomes, Rests
      <4>2. Shaped(NoWork, recalled) /\ ~AtWork(NoWork) /\ NoWork.kind # "push"
        BY DEF Shaped, NoWork, AtWork, Informed
      <4>3. Keeps(t, NoWork) BY <1>2, <1>n, <3>2 DEF Keeps
      <4> QED BY <4>1, <4>2, <4>3
    <3> QED BY <3>1, <3>2
  <2>2. told' \in Nat /\ told <= told' /\ told' <= recalled
    BY <1>2, <1>n, <1>s, <1>t DEF Shaped
  <2>3. ASSUME cliReady, NEW a \in Agent \ undone PROVE Covered(file, writer, a, told')
    <3>1. CASE told' = told BY <1>a, <2>3, <3>1
    <3>2. CASE told' # told
      <4>1. told' = writer[t].put /\ writer[t].put > told BY <1>2, <3>2
      <4>2. writer[t].kind = "push" BY <1>n, <1>s, <1>t, <4>1 DEF Shaped
      <4>3. writer[t].todo = {} BY <1>s, <1>t, <4>2 DEF Shaped
      <4> QED BY <1>s, <2>3, <4>1, <4>2, <4>3 DEF RefreshCovers
    <3> QED BY <3>1, <3>2
  <2>4. WorkKept(t, r) BY <2>1 DEF WorkKept
  <2>5. UNCHANGED <<file, undone, cliReady>> BY <1>u, <1>2
  <2>6. /\ stored' \in Nat /\ recalled' \in Nat /\ snapshot' \in Nat
        /\ recalled <= recalled' /\ recalled' <= stored' /\ told' <= recalled'
    BY <1>u, <1>n, <2>2
  <2>7. Shaped(r, recalled') BY <1>u, <2>1
  <2> QED BY <1>n, <2>1, <2>2, <2>3, <2>4, <2>5, <2>6, <2>7, MoveSound
<1> QED BY <1>1, <1>2 DEF Check

LEMMA RelearnSound == ASSUME PolicyIInv, Relearn PROVE PolicyIInv'
<1>n. stored \in Nat /\ recalled \in Nat /\ told \in Nat /\ told <= recalled /\ recalled <= stored
  BY DEF PolicyIInv, PolicyTypeOK, PolicyOrder
<1>k. recalled' = stored /\ UNCHANGED <<stored, snapshot, file, cliReady, writer, told, undone>>
  BY DEF Relearn
<1>1. PolicyTypeOK' BY <1>n, <1>k DEF PolicyIInv, PolicyTypeOK
<1>2. PolicyOrder' BY <1>n, <1>k DEF PolicyOrder
<1>3. ASSUME NEW u \in Thread PROVE Shaped(writer[u], recalled)'
  <2>1. Shaped(writer[u], recalled) /\ writer[u].put \in Nat /\ writer[u].base \in Nat BY OfOne
  <2>2. Shaped(writer[u], stored) BY <1>n, <2>1 DEF Shaped
  <2> QED BY <1>k, <2>2
<1>4. LaunchesStand' BY <1>k DEF PolicyIInv, LaunchesStand, LaunchCovers
<1>5. FilesCovered' BY <1>k DEF PolicyIInv, FilesCovered, AnswerCovered, RefreshCovers
<1> QED BY <1>1, <1>2, <1>3, <1>4, <1>5 DEF PolicyIInv

LEMMA PolicyStopsSound == ASSUME PolicyIInv, PolicyStops PROVE PolicyIInv'
<1>n. stored \in Nat /\ told \in Nat /\ told <= stored
  BY DEF PolicyIInv, PolicyTypeOK, PolicyOrder
<1>k. /\ recalled' = stored /\ snapshot' = stored /\ ~cliReady' /\ cliReady' \in BOOLEAN
      /\ writer' = [t \in Thread |-> NoWork] /\ undone' = {}
      /\ UNCHANGED <<stored, file, told>>
  BY DEF PolicyStops
<1>1. PolicyTypeOK' BY <1>n, <1>k DEF PolicyIInv, PolicyTypeOK, NoWork
<1>2. PolicyOrder' BY <1>n, <1>k DEF PolicyOrder
<1>3. ASSUME NEW u \in Thread PROVE Shaped(writer[u], recalled)' /\ ~AtWork(writer'[u])
  <2>1. writer'[u] = NoWork BY <1>k
  <2> QED BY <1>n, <2>1 DEF Shaped, NoWork, Informed, AtWork
<1>4. LaunchesStand' BY <1>3 DEF LaunchesStand, LaunchCovers
<1>5. FilesCovered' BY <1>k DEF FilesCovered
<1> QED BY <1>1, <1>2, <1>3, <1>4, <1>5 DEF PolicyIInv

LEMMA PolicyInitSound == ASSUME PolicyInit PROVE PolicyIInv
<1>1. PolicyTypeOK BY DEF PolicyInit, PolicyTypeOK, NoWork
<1>2. PolicyOrder BY DEF PolicyInit, PolicyOrder
<1>3. ASSUME NEW u \in Thread PROVE Shaped(writer[u], recalled) /\ ~AtWork(writer[u])
  BY DEF PolicyInit, Shaped, NoWork, Informed, AtWork
<1>4. LaunchesStand BY <1>3 DEF LaunchesStand, LaunchCovers
<1>5. FilesCovered BY DEF PolicyInit, FilesCovered
<1> QED BY <1>1, <1>2, <1>3, <1>4, <1>5 DEF PolicyIInv

LEMMA PolicyStep == ASSUME PolicyIInv, PolicyChange \/ UNCHANGED policyVars PROVE PolicyIInv'
<1>1. ASSUME NEW c \in Launcher, Ensure(c) PROVE PolicyIInv' BY <1>1, EnsureSound
<1>2. ASSUME NEW h \in Pusher, ApplyPolicy(h) \/ PutFails(h) \/ \E r \in Nat : Put(h, r)
      PROVE  PolicyIInv'
  BY <1>2, ApplyPolicySound, PutFailsSound, PutSound
<1>3. CASE Relearn BY <1>3, RelearnSound
<1>4. ASSUME NEW t \in Thread, Working(t) PROVE PolicyIInv'
  BY <1>4, OpenSound, ResolveSound, WriteSound, MarkReadySound, CheckSound DEF Working
<1>5. CASE PolicyStops BY <1>5, PolicyStopsSound
<1>6. CASE UNCHANGED policyVars
  BY <1>6 DEF policyVars, PolicyIInv, PolicyTypeOK, PolicyOrder, LaunchesStand, LaunchCovers,
              FilesCovered, AnswerCovered, RefreshCovers
<1> QED BY <1>1, <1>2, <1>3, <1>4, <1>5, <1>6 DEF PolicyChange

(* What the policy's invariant promises when nobody is at work. *)
LEMMA PolicyHolds == ASSUME PolicyIInv PROVE VerifiedIsInForce
<1> SUFFICES ASSUME cliReady, \A t \in Thread : writer[t].at = "idle",
                    NEW a \in Agent \ undone
             PROVE  file[a] >= told
  BY DEF VerifiedIsInForce
<1>1. ASSUME NEW t \in Thread PROVE ~Informed(writer[t]) /\ writer[t].todo = {}
  BY <1>1, OfOne DEF Informed, Shaped
<1>2. Covered(file, writer, a, told) BY DEF PolicyIInv, FilesCovered, AnswerCovered
<1> QED BY <1>1, <1>2 DEF Covered, Followed

LEMMA PolicyInvariant == Spec => [](scope \in Scopes /\ PolicyIInv)
<1>1. Init => scope \in Scopes /\ PolicyIInv BY PolicyInitSound DEF Init
<1>2. (scope \in Scopes /\ PolicyIInv) /\ [Next]_hostVars => (scope \in Scopes /\ PolicyIInv)'
  BY StepOfPolicy, PolicyStep
<1> QED BY <1>1, <1>2, PTL DEF Spec

(* What Control Tower was told is in force is: once no request is under    *)
(* way, agents that count as ready are configured by that policy or a      *)
(* later one, for any number of requests, policies and restarts, except a  *)
(* file that an older operation wrote over and gave up on before the       *)
(* launch that had written it marked its agents ready for the last time.   *)
THEOREM VerifiedPolicyInForce == Spec => []VerifiedIsInForce
<1>1. PolicyIInv => VerifiedIsInForce BY PolicyHolds
<1> QED BY <1>1, PolicyInvariant, PTL

-----------------------------------------------------------------------------
(* The terminals.  Each fact about a session is about its record alone, so *)
(* an action that updates one session is met once, by UpdateSound.         *)

Ended == {"ended", "closing", "done"}
Torn  == {"marked", "killed", "joined", "raised", "removed", "reported", "done"}

(* What holds of a session's record r: how far its reader and the thread   *)
(* that terminates it are, and what they have left behind.                 *)
RecordSound(r) ==
    /\ r.reader \in {"closing", "done"} => r.readerDone
    /\ r.term \in {"reported", "done"} => r.reported
    /\ r.reader = "done" /\ r.term = "done" => r.ticket = "finished"
    /\ r.term \in Torn => r.exited
    /\ r.creator \notin {"assigned", "done"} => r.reader = "none"
    /\ r.creator = "assigned" => r.reader = "assigned"
    /\ r.by = "reader" => r.reader \in Ended
    /\ r.closed /\ ~r.early => r.reader \in Ended

(* An id is used once, and a session in the registry is not torn down.     *)
PlaceSound(s) ==
    /\ s \notin used => session[s] = NewSession
    /\ s \in registry => /\ s \in used
                         /\ session[s].term = "no" /\ ~session[s].exited

Sessions ==
    /\ session \in [Session -> SessionState]
    /\ \A s \in Session : RecordSound(session[s]) /\ PlaceSound(s)

-----------------------------------------------------------------------------
LEMMA NewSessionSound == NewSession \in SessionState /\ RecordSound(NewSession)
BY DEF NewSession, SessionState, RecordSound, Ended, Torn

(* One session is updated, and keeps its place or gives it up. *)
LEMMA UpdateSound ==
    ASSUME Sessions, NEW s \in Session, NEW r \in SessionState,
           session' = [session EXCEPT ![s] = r], RecordSound(r),
           UNCHANGED used, s \in used, registry' \subseteq registry,
           s \in registry' => r.term = "no" /\ ~r.exited
    PROVE  Sessions'
<1>1. session' \in [Session -> SessionState] BY DEF Sessions
<1>2. ASSUME NEW t \in Session PROVE RecordSound(session'[t]) /\ PlaceSound(t)'
  <2>1. CASE t = s
    <3>1. session'[t] = r BY <2>1 DEF Sessions
    <3> QED BY <2>1, <3>1 DEF PlaceSound, Sessions
  <2>2. CASE t # s
    <3>1. session'[t] = session[t] BY <2>2 DEF Sessions
    <3> QED BY <2>2, <3>1 DEF PlaceSound, Sessions
  <2> QED BY <2>1, <2>2
<1> QED BY <1>1, <1>2 DEF Sessions

(* Something else is done, and no session's record changes. *)
LEMMA SessionsStay ==
    ASSUME Sessions, UNCHANGED <<session, used, registry>>
    PROVE  Sessions'
BY DEF Sessions, PlaceSound

(* A session whose record is not new is used. *)
LEMMA NotNewIsUsed ==
    ASSUME Sessions, NEW s \in Session, session[s] # NewSession
    PROVE  s \in used
BY DEF Sessions, PlaceSound

-----------------------------------------------------------------------------
(* Each thread's steps. *)

(* A step that neither terminates a session nor finds it exited. *)
LEMMA CarriesOn ==
    ASSUME Sessions, NEW s \in Session, NEW r \in SessionState,
           session' = [session EXCEPT ![s] = r], RecordSound(r),
           r.term = session[s].term /\ r.exited = session[s].exited,
           UNCHANGED <<used, registry>>, s \in used
    PROVE  Sessions'
<1>1. s \in registry => session[s].term = "no" /\ ~session[s].exited
  BY DEF Sessions, PlaceSound, Torn
<1>2. s \in registry' => r.term = "no" /\ ~r.exited BY <1>1
<1> QED BY <1>2, UpdateSound

LEMMA FinishType == ASSUME NEW r \in SessionState PROVE Finish(r) \in SessionState
<1>1. (IF Finished(r) THEN "finished" ELSE "open") \in {"open", "finished"} OBVIOUS
<1> QED BY <1>1 DEF Finish, SessionState

(* The request that creates a session. *)
LEMMA CreationSound ==
    ASSUME Sessions, NEW s \in Session, Creation(s)
    PROVE  Sessions'
<1> DEFINE r0 == session[s]
<1>0. r0 \in SessionState /\ RecordSound(r0) /\ PlaceSound(s) BY DEF Sessions
<1>1. r0.creator # "none" BY DEF Creation, CreateMeasure, CreatePersist, CreateAssign, CreateStart
<1>2. s \in used BY <1>1, NotNewIsUsed DEF NewSession
<1>3. CASE CreateMeasure(s)
  <2> DEFINE r == [r0 EXCEPT !.creator = "measured", !.snap = Metadata(s)]
  <2>1. r \in SessionState BY <1>0 DEF SessionState, Metadata
  <2>2. RecordSound(r)
    BY <1>0, <1>3 DEF CreateMeasure, RecordSound, SessionState, Ended, Torn
  <2>3. session' = [session EXCEPT ![s] = r] BY <1>3 DEF CreateMeasure, Sessions
  <2>4. r.term = r0.term /\ r.exited = r0.exited BY <1>0 DEF SessionState
  <2>5. UNCHANGED <<used, registry>> BY <1>3 DEF CreateMeasure, historyVars
  <2> HIDE DEF r
  <2> QED BY <1>2, <2>1, <2>2, <2>3, <2>4, <2>5, CarriesOn
<1>4. CASE CreatePersist(s)
  <2> DEFINE r == [r0 EXCEPT !.creator = "persisted"]
  <2>1. r \in SessionState BY <1>0 DEF SessionState
  <2>2. RecordSound(r)
    BY <1>0, <1>4 DEF CreatePersist, RecordSound, SessionState, Ended, Torn
  <2>3. session' = [session EXCEPT ![s] = r] BY <1>4 DEF CreatePersist, Sessions
  <2>4. r.term = r0.term /\ r.exited = r0.exited BY <1>0 DEF SessionState
  <2>5. UNCHANGED <<used, registry>> BY <1>4 DEF CreatePersist, historyVars
  <2> HIDE DEF r
  <2> QED BY <1>2, <2>1, <2>2, <2>3, <2>4, <2>5, CarriesOn
<1>5. CASE CreateAssign(s)
  <2> DEFINE r == [r0 EXCEPT !.creator = "assigned", !.reader = "assigned"]
  <2>1. r \in SessionState BY <1>0 DEF SessionState
  <2>2. RecordSound(r)
    BY <1>0, <1>5 DEF CreateAssign, RecordSound, SessionState, Ended, Torn
  <2>3. session' = [session EXCEPT ![s] = r] BY <1>5 DEF CreateAssign, Sessions
  <2>4. r.term = r0.term /\ r.exited = r0.exited BY <1>0 DEF SessionState
  <2>5. UNCHANGED <<used, registry>> BY <1>5 DEF CreateAssign, historyVars
  <2> HIDE DEF r
  <2> QED BY <1>2, <2>1, <2>2, <2>3, <2>4, <2>5, CarriesOn
<1>6. CASE CreateStart(s)
  <2> DEFINE r == [r0 EXCEPT !.creator = "done", !.reader = "reading"]
  <2>1. r \in SessionState BY <1>0 DEF SessionState
  <2>2. RecordSound(r)
    BY <1>0, <1>6 DEF CreateStart, RecordSound, SessionState, Ended, Torn
  <2>3. session' = [session EXCEPT ![s] = r] BY <1>6 DEF CreateStart, Sessions
  <2>4. r.term = r0.term /\ r.exited = r0.exited BY <1>0 DEF SessionState
  <2>5. UNCHANGED <<used, registry>> BY <1>6 DEF CreateStart, historyVars
  <2> HIDE DEF r
  <2> QED BY <1>2, <2>1, <2>2, <2>3, <2>4, <2>5, CarriesOn
<1> QED BY <1>3, <1>4, <1>5, <1>6 DEF Creation

(* The reader, and what it reads. *)
LEMMA ReadingSound ==
    ASSUME Sessions, NEW s \in Session, Reading(s) \/ ReadOutput(s)
    PROVE  Sessions'
<1> DEFINE r0 == session[s]
<1>0. r0 \in SessionState /\ RecordSound(r0) /\ PlaceSound(s) BY DEF Sessions
<1>1. r0.reader # "none"
  BY DEF Reading, ReadOutput, DispatchOutput, ReadEnds, ReaderCloses, ReaderFinishes
<1>2. s \in used BY <1>1, NotNewIsUsed DEF NewSession
<1>3. CASE ReadOutput(s)
  <2> DEFINE r == [r0 EXCEPT !.reader = "publishing", !.to = Attached(s),
                         !.produced = r0.produced + 1]
  <2>1. r \in SessionState
    <3>1. Attached(s) \in SUBSET Socket BY DEF Attached
    <3>2. r0.produced + 1 \in Nat BY <1>0 DEF SessionState
    <3> QED BY <1>0, <3>1, <3>2 DEF SessionState
  <2>2. RecordSound(r)
    BY <1>0, <1>3 DEF ReadOutput, RecordSound, SessionState, Ended, Torn
  <2>3. session' = [session EXCEPT ![s] = r] BY <1>3 DEF ReadOutput, Sessions
  <2>4. r.term = r0.term /\ r.exited = r0.exited BY <1>0 DEF SessionState
  <2>5. UNCHANGED <<used, registry>> BY <1>3 DEF ReadOutput, historyVars
  <2> HIDE DEF r
  <2> QED BY <1>2, <2>1, <2>2, <2>3, <2>4, <2>5, CarriesOn
<1>4. CASE DispatchOutput(s)
  <2> DEFINE r == [r0 EXCEPT !.reader = "reading", !.to = {}]
  <2>1. r \in SessionState BY <1>0 DEF SessionState
  <2>2. RecordSound(r)
    BY <1>0, <1>4 DEF DispatchOutput, RecordSound, SessionState, Ended, Torn
  <2>3. session' = [session EXCEPT ![s] = r] BY <1>4 DEF DispatchOutput, Sessions
  <2>4. r.term = r0.term /\ r.exited = r0.exited BY <1>0 DEF SessionState
  <2>5. UNCHANGED <<used, registry>> BY <1>4 DEF DispatchOutput, historyVars
  <2> HIDE DEF r
  <2> QED BY <1>2, <2>1, <2>2, <2>3, <2>4, <2>5, CarriesOn
<1>5. CASE ReadEnds(s)
  <2> DEFINE r == [r0 EXCEPT !.reader = "ended"]
  <2>1. r \in SessionState BY <1>0 DEF SessionState
  <2>2. RecordSound(r)
    BY <1>0, <1>5 DEF ReadEnds, RecordSound, SessionState, Ended, Torn
  <2>3. session' = [session EXCEPT ![s] = r] BY <1>5 DEF ReadEnds, Sessions
  <2>4. r.term = r0.term /\ r.exited = r0.exited BY <1>0 DEF SessionState
  <2>5. UNCHANGED <<used, registry>> BY <1>5 DEF ReadEnds, historyVars
  <2> HIDE DEF r
  <2> QED BY <1>2, <2>1, <2>2, <2>3, <2>4, <2>5, CarriesOn
<1>6. CASE ReaderCloses(s)
  <2> DEFINE r == [r0 EXCEPT !.reader = "closing", !.readerDone = TRUE, !.closed = TRUE]
  <2>1. r \in SessionState BY <1>0 DEF SessionState
  <2>2. RecordSound(r)
    BY <1>0, <1>6 DEF ReaderCloses, CloseMaster, RecordSound, SessionState, Ended, Torn
  <2>3. session' = [session EXCEPT ![s] = r] BY <1>6 DEF ReaderCloses, CloseMaster, Sessions
  <2>4. r.term = r0.term /\ r.exited = r0.exited BY <1>0 DEF SessionState
  <2>5. UNCHANGED <<used, registry>> BY <1>6 DEF ReaderCloses, historyVars
  <2> HIDE DEF r
  <2> QED BY <1>2, <2>1, <2>2, <2>3, <2>4, <2>5, CarriesOn
<1>7. CASE ReaderFinishes(s)
  <2> DEFINE r1 == [r0 EXCEPT !.reader = "done"]
             r  == Finish(r1)
  <2>1. r \in SessionState
    <3>1. r1 \in SessionState BY <1>0 DEF SessionState
    <3> QED BY <3>1, FinishType
  <2>2. RecordSound(r)
    BY <1>0, <1>7 DEF ReaderFinishes, Finish, Finished, RecordSound, SessionState, Ended, Torn
  <2>3. session' = [session EXCEPT ![s] = r] BY <1>7 DEF ReaderFinishes, Sessions
  <2>4. r.term = r0.term /\ r.exited = r0.exited BY <1>0 DEF Finish, SessionState
  <2>5. UNCHANGED <<used, registry>> BY <1>7 DEF ReaderFinishes, historyVars
  <2>6. s \in registry' => r.term = "no" /\ ~r.exited
    BY <1>0, <2>4, <2>5 DEF PlaceSound, Torn
  <2> QED BY <1>2, <2>1, <2>2, <2>3, <2>5, <2>6, UpdateSound
<1> QED BY <1>3, <1>4, <1>5, <1>6, <1>7 DEF Reading

(* A session that is being terminated left the registry, and stays out. *)
LEMMA ClaimedUpdateSound ==
    ASSUME Sessions, NEW s \in Session, session[s].term # "no", NEW r \in SessionState,
           session' = [session EXCEPT ![s] = r], RecordSound(r),
           used' = used, registry' = registry
    PROVE  Sessions'
<1>1. s \in used BY NotNewIsUsed DEF NewSession, Sessions
<1>2. s \notin registry BY DEF Sessions, PlaceSound
<1> QED BY <1>1, <1>2, UpdateSound

(* The thread that terminates it. *)
LEMMA TeardownSound ==
    ASSUME Sessions, NEW s \in Session,
           Teardown(s) \/ Claim(s, "reader") \/ Claim(s, "other")
    PROVE  Sessions'
<1> DEFINE r0 == session[s]
<1>0. r0 \in SessionState /\ RecordSound(r0) /\ PlaceSound(s) BY DEF Sessions
<1>1. r0.term # "no" \/ s \in registry
  BY DEF Teardown, Claim, MarkExited, FanOutAndKill, JoinReader, RemoveRecord, ReportExit,
         FinishAfterExit
<1>2. s \in used BY <1>0, <1>1, NotNewIsUsed DEF NewSession, PlaceSound
<1>3. ASSUME NEW who \in {"reader", "other"}, Claim(s, who) PROVE Sessions'
  <2> DEFINE r == [r0 EXCEPT !.term = "claimed", !.by = who]
  <2>1. r \in SessionState
    <3>1. [r0 EXCEPT !.term = "claimed"] \in SessionState BY <1>0 DEF SessionState
    <3>2. ASSUME NEW x \in SessionState PROVE [x EXCEPT !.by = who] \in SessionState
      BY <1>3 DEF SessionState
    <3> QED BY <3>1, <3>2
  <2>2. RecordSound(r)
    BY <1>0, <1>3 DEF Claim, RecordSound, PlaceSound, SessionState, Ended, Torn
  <2>3. session' = [session EXCEPT ![s] = r] BY <1>3 DEF Claim, Sessions
  <2> QED BY <1>0, <1>2, <1>3, <2>1, <2>2, <2>3, UpdateSound DEF Claim, historyVars
<1>4. CASE MarkExited(s)
  <2> DEFINE r == [r0 EXCEPT !.term = "marked", !.exited = TRUE]
  <2>1. r \in SessionState BY <1>0 DEF SessionState
  <2>2. RecordSound(r)
    BY <1>0, <1>4 DEF MarkExited, RecordSound, SessionState, Ended, Torn
  <2>3. session' = [session EXCEPT ![s] = r] BY <1>4 DEF MarkExited, Sessions
  <2>4. r0.term # "no" /\ used' = used /\ registry' = registry
    BY <1>4 DEF MarkExited, historyVars
  <2> QED BY <2>1, <2>2, <2>3, <2>4, ClaimedUpdateSound
<1>5. CASE FanOutAndKill(s)
  <2> DEFINE r == [r0 EXCEPT !.term = "killed", !.alive = FALSE]
  <2>1. r \in SessionState BY <1>0 DEF SessionState
  <2>2. RecordSound(r)
    BY <1>0, <1>5 DEF FanOutAndKill, RecordSound, SessionState, Ended, Torn
  <2>3. session' = [session EXCEPT ![s] = r] BY <1>5 DEF FanOutAndKill, Sessions
  <2>4. r0.term # "no" /\ used' = used /\ registry' = registry
    BY <1>5 DEF FanOutAndKill, historyVars
  <2> QED BY <2>1, <2>2, <2>3, <2>4, ClaimedUpdateSound
<1>6. CASE JoinReader(s)
  <2>0. s \notin registry BY <1>0, <1>6 DEF JoinReader, PlaceSound
  <2>1. UNCHANGED <<used, registry>> BY <1>6 DEF JoinReader, historyVars
  <2>2. ASSUME NEW r \in SessionState, session' = [session EXCEPT ![s] = r], RecordSound(r)
        PROVE  Sessions'
    BY <1>2, <2>0, <2>1, <2>2, UpdateSound
  <2>3. CASE r0.by = "reader" \/ r0.reader \in {"none", "done"}
    <3> DEFINE r == [r0 EXCEPT !.term = "joined", !.early = (r0.reader = "none"),
                               !.closed = TRUE]
    <3>1. r \in SessionState BY <1>0 DEF SessionState
    <3>2. RecordSound(r) BY <1>0, <1>6, <2>3 DEF JoinReader, RecordSound, SessionState, Ended, Torn
    <3>3. session' = [session EXCEPT ![s] = r] BY <1>6, <2>3 DEF JoinReader, CloseMaster, Sessions
    <3> QED BY <2>2, <3>1, <3>2, <3>3
  <2>4. CASE r0.by # "reader" /\ r0.reader = "assigned"
    <3> DEFINE r == [r0 EXCEPT !.term = "raised"]
    <3>1. r \in SessionState BY <1>0 DEF SessionState
    <3>2. RecordSound(r) BY <1>0, <1>6, <2>4 DEF JoinReader, RecordSound, SessionState, Ended, Torn
    <3>3. session' = [session EXCEPT ![s] = r] BY <1>6, <2>4 DEF JoinReader, Sessions
    <3> QED BY <2>2, <3>1, <3>2, <3>3
  <2>5. CASE r0.by # "reader" /\ r0.reader \notin {"none", "assigned", "done"}
    <3> DEFINE r == [r0 EXCEPT !.term = "joined"]
    <3>1. r \in SessionState BY <1>0 DEF SessionState
    <3>2. RecordSound(r) BY <1>0, <1>6, <2>5 DEF JoinReader, RecordSound, SessionState, Ended, Torn
    <3>3. session' = [session EXCEPT ![s] = r] BY <1>6, <2>5 DEF JoinReader, Sessions
    <3> QED BY <2>2, <3>1, <3>2, <3>3
  <2> QED BY <2>3, <2>4, <2>5
<1>7. CASE RemoveRecord(s)
  <2> DEFINE r == [r0 EXCEPT !.term = "removed"]
  <2>1. r \in SessionState BY <1>0 DEF SessionState
  <2>2. RecordSound(r)
    BY <1>0, <1>7 DEF RemoveRecord, RecordSound, SessionState, Ended, Torn
  <2>3. session' = [session EXCEPT ![s] = r] BY <1>7 DEF RemoveRecord, Sessions
  <2>4. r0.term # "no" /\ used' = used /\ registry' = registry
    BY <1>7 DEF RemoveRecord, historyVars
  <2> QED BY <2>1, <2>2, <2>3, <2>4, ClaimedUpdateSound
<1>8. CASE ReportExit(s)
  <2> DEFINE r == [r0 EXCEPT !.term = "reported", !.reported = TRUE]
  <2>1. r \in SessionState BY <1>0 DEF SessionState
  <2>2. RecordSound(r)
    BY <1>0, <1>8 DEF ReportExit, RecordSound, SessionState, Ended, Torn
  <2>3. session' = [session EXCEPT ![s] = r] BY <1>8 DEF ReportExit, Sessions
  <2>4. r0.term # "no" /\ used' = used /\ registry' = registry
    BY <1>8 DEF ReportExit, historyVars
  <2> QED BY <2>1, <2>2, <2>3, <2>4, ClaimedUpdateSound
<1>9. CASE FinishAfterExit(s)
  <2> DEFINE r1 == [r0 EXCEPT !.term = "done"]
             r  == Finish(r1)
  <2>1. r \in SessionState
    <3>1. r1 \in SessionState BY <1>0 DEF SessionState
    <3> QED BY <3>1, FinishType
  <2>2. RecordSound(r)
    BY <1>0, <1>9 DEF FinishAfterExit, Finish, Finished, RecordSound, SessionState, Ended, Torn
  <2>3. session' = [session EXCEPT ![s] = r] BY <1>9 DEF FinishAfterExit, Sessions
  <2>4. s \notin registry BY <1>0, <1>9 DEF FinishAfterExit, PlaceSound
  <2>5. UNCHANGED <<used, registry>> BY <1>9 DEF FinishAfterExit, historyVars
  <2> QED BY <1>2, <2>1, <2>2, <2>3, <2>4, <2>5, UpdateSound
<1> QED BY <1>3, <1>4, <1>5, <1>6, <1>7, <1>8, <1>9 DEF Teardown

-----------------------------------------------------------------------------
(* What a step of the container is to the terminals. *)

SessionChange(s) ==
    \/ \E d \in Descriptor : Create(s, d)
    \/ AgentExits(s) \/ AcknowledgePrior(s)
    \/ ReadOutput(s) \/ Creation(s) \/ Reading(s)
    \/ Claim(s, "other") \/ Claim(s, "reader") \/ Teardown(s)

SocketChange ==
    \E q \in Socket :
        LoopPut(q) \/ Disconnect(q) \/ Serving(q) \/ \E s \in Session : OpenSocket(q, s)

PersisterChange ==
    \E p \in Persister : Refresh(p) \/ \E s \in Session : ListLive(p, s)

TerminalChange == (\E s \in Session : SessionChange(s)) \/ SocketChange \/ PersisterChange

LEMMA StepOfTerminals ==
    ASSUME scope \in Scopes, [Next]_hostVars
    PROVE  /\ UNCHANGED scope
           /\ \/ TerminalChange /\ serving /\ serving'
              \/ TerminalsDie /\ serving /\ ~serving'
              \/ LoadPrior /\ ~serving /\ serving'
              \/ UNCHANGED terminalVars /\ (serving' <=> serving)
<1>s. /\ scope.sessions \subseteq Session /\ scope.sockets \subseteq Socket
      /\ scope.refreshes \subseteq Persister
  BY ScopesTyped
<1> USE DEF TerminalChange
<1>1. CASE Supervise BY <1>1 DEF Supervise, Loop, SupervisorOnly
<1>2. CASE ServerDies
  <2>1. UNCHANGED scope /\ ~serving' /\ (IF serving THEN TerminalsDie ELSE UNCHANGED terminalVars)
    BY <1>2 DEF ServerDies, ServerEnds
  <2> QED BY <2>1
<1>3. CASE Startup BY <1>3 DEF Startup
<1>4. CASE \E b \in scope.bases : Deploy(b)
  <2>1. UNCHANGED scope /\ ~serving' /\ (IF serving THEN TerminalsDie ELSE UNCHANGED terminalVars)
    BY <1>4 DEF Deploy
  <2> QED BY <2>1
<1>5. CASE Browse
  <2>1. ASSUME NEW s \in scope.sessions,
               \/ \E d \in Descriptor : TerminalOnly(Create(s, d))
               \/ TerminalOnly(AgentExits(s)) \/ TerminalOnly(AcknowledgePrior(s))
               \/ TerminalOnly(Claim(s, "other")) \/ TerminalOnly(ReadOutput(s))
        PROVE  UNCHANGED scope /\ TerminalChange /\ serving /\ serving'
    <3>1. UNCHANGED scope /\ serving /\ serving' BY <2>1 DEF TerminalOnly
    <3>2. SessionChange(s) BY <2>1 DEF TerminalOnly, SessionChange
    <3> QED BY <1>s, <3>1, <3>2
  <2>2. ASSUME NEW s \in scope.sessions, NEW q \in scope.sockets, TerminalOnly(OpenSocket(q, s))
        PROVE  UNCHANGED scope /\ TerminalChange /\ serving /\ serving'
    BY <1>s, <2>2 DEF TerminalOnly, SocketChange
  <2>3. ASSUME NEW q \in scope.sockets, TerminalOnly(Disconnect(q))
        PROVE  UNCHANGED scope /\ TerminalChange /\ serving /\ serving'
    BY <1>s, <2>3 DEF TerminalOnly, SocketChange
  <2>4. ASSUME NEW p \in scope.refreshes, NEW s \in scope.sessions, TerminalOnly(ListLive(p, s))
        PROVE  UNCHANGED scope /\ TerminalChange /\ serving /\ serving'
    BY <1>s, <2>4 DEF TerminalOnly, PersisterChange
  <2> QED BY <1>5, <2>1, <2>2, <2>3, <2>4 DEF Browse
<1>6. CASE Terminals
  <2>1. ASSUME NEW s \in scope.sessions, TerminalOnly(Threads(s))
        PROVE  UNCHANGED scope /\ TerminalChange /\ serving /\ serving'
    <3>1. UNCHANGED scope /\ serving /\ serving' BY <2>1 DEF TerminalOnly
    <3>2. SessionChange(s) BY <2>1 DEF TerminalOnly, SessionChange, Threads
    <3> QED BY <1>s, <3>1, <3>2
  <2>2. ASSUME NEW q \in scope.sockets, TerminalOnly(Serving(q))
        PROVE  UNCHANGED scope /\ TerminalChange /\ serving /\ serving'
    BY <1>s, <2>2 DEF TerminalOnly, SocketChange
  <2>3. ASSUME NEW p \in scope.refreshes, TerminalOnly(Refresh(p))
        PROVE  UNCHANGED scope /\ TerminalChange /\ serving /\ serving'
    BY <1>s, <2>3 DEF TerminalOnly, PersisterChange
  <2>4. ASSUME NEW q \in Socket, TerminalOnly(LoopPut(q))
        PROVE  UNCHANGED scope /\ TerminalChange /\ serving /\ serving'
    BY <2>4 DEF TerminalOnly, SocketChange
  <2> QED BY <1>6, <2>1, <2>2, <2>3, <2>4 DEF Terminals
<1>7. CASE Deadlines BY <1>7 DEF Deadlines, DeadlineOnly
<1>8. CASE Configuration BY <1>8 DEF Configuration, PolicyOnly
<1>9. CASE UNCHANGED hostVars BY <1>9 DEF hostVars
<1> QED BY <1>1, <1>2, <1>3, <1>4, <1>5, <1>6, <1>7, <1>8, <1>9 DEF Next

(* Sockets touch a session only where it keeps who is sent its output, and *)
(* of a new session not even that.                                         *)
LEMMA SocketsTouch ==
    ASSUME Sessions, SocketChange
    PROVE  /\ \E to \in [Session -> SUBSET Socket] :
                session' = [s \in Session |-> [session[s] EXCEPT !.to = to[s]]]
           /\ \A s \in Session : session[s] = NewSession => session'[s] = NewSession
           /\ UNCHANGED <<registry, owner, persister, ghosts, journal, historyVars>>
<1>1. CASE UNCHANGED <<session, registry, owner, persister, ghosts, journal, historyVars>>
  <2> DEFINE to == [s \in Session |-> session[s].to]
  <2>1. to \in [Session -> SUBSET Socket] BY DEF Sessions, SessionState
  <2>2. \A s \in Session : [session[s] EXCEPT !.to = to[s]] = session[s]
    BY DEF Sessions, SessionState
  <2>3. session' = [s \in Session |-> [session[s] EXCEPT !.to = to[s]]]
    BY <1>1, <2>2 DEF Sessions
  <2> QED BY <1>1, <2>1, <2>3
<1>2. ASSUME NEW q \in Socket, Leave(q),
             UNCHANGED <<registry, owner, persister, ghosts, journal, historyVars>>
      PROVE  /\ \E to \in [Session -> SUBSET Socket] :
                  session' = [s \in Session |-> [session[s] EXCEPT !.to = to[s]]]
             /\ \A s \in Session : session[s] = NewSession => session'[s] = NewSession
  <2> DEFINE to == [s \in Session |-> session[s].to \ {q}]
  <2>1. to \in [Session -> SUBSET Socket] BY DEF Sessions, SessionState
  <2>2. session' = [s \in Session |-> [session[s] EXCEPT !.to = to[s]]]
    BY <1>2 DEF Leave
  <2>3. NewSession.to = {} BY DEF NewSession
  <2>4. \A r \in SessionState : r.to = {} => [r EXCEPT !.to = {}] = r
    BY DEF SessionState
  <2>5. \A s \in Session : session[s] = NewSession => session'[s] = NewSession
    BY <2>2, <2>3, <2>4, NewSessionSound
  <2> QED BY <2>1, <2>2, <2>5
<1>3. \/ UNCHANGED <<session, registry, owner, persister, ghosts, journal, historyVars>>
      \/ /\ \E q \in Socket : Leave(q)
         /\ UNCHANGED <<registry, owner, persister, ghosts, journal, historyVars>>
  BY DEF SocketChange, LoopPut, Disconnect, Serving, Attach, SendReplay, SendMessage, OpenSocket
<1> QED BY <1>1, <1>2, <1>3

(* A new session, under an id that was not used. *)
LEMMA CreateSound ==
    ASSUME Sessions, NEW s \in Session, NEW d \in Descriptor, Create(s, d)
    PROVE  Sessions'
<1> DEFINE r == [NewSession EXCEPT !.creator = "inserted", !.fd = d, !.alive = TRUE]
<1>1. r \in SessionState /\ RecordSound(r) /\ r.term = "no" /\ ~r.exited
  BY DEF NewSession, SessionState, RecordSound, Ended, Torn
<1>2. /\ session' = [session EXCEPT ![s] = r]
      /\ registry' = {s} /\ used' = used \cup {s} /\ s \notin used
  BY DEF Create
<1>3. session' \in [Session -> SessionState] BY <1>1, <1>2 DEF Sessions
<1>4. ASSUME NEW t \in Session PROVE RecordSound(session'[t]) /\ PlaceSound(t)'
  <2>1. session'[t] = IF t = s THEN r ELSE session[t] BY <1>2 DEF Sessions
  <2>2. CASE t = s BY <1>1, <1>2, <2>1, <2>2 DEF PlaceSound
  <2>3. CASE t # s BY <1>2, <2>1, <2>3 DEF PlaceSound, Sessions
  <2> QED BY <2>2, <2>3
<1> QED BY <1>3, <1>4 DEF Sessions

(* The process is gone, and its sessions with it. *)
LEMMA EmptySound == ASSUME Sessions, TerminalsDie PROVE Sessions'
<1>1. session' = [s \in Session |-> NewSession] /\ registry' = {}
  BY DEF TerminalsDie, TerminalEmpty
<1> QED BY <1>1, NewSessionSound DEF Sessions, PlaceSound

LEMMA SessionsSound ==
    ASSUME scope \in Scopes, Sessions, [Next]_hostVars
    PROVE  Sessions'
<1>1. CASE \E s \in Session : SessionChange(s)
  <2> PICK s \in Session : SessionChange(s) BY <1>1
  <2>1. CASE \E d \in Descriptor : Create(s, d) BY <2>1, CreateSound
  <2>2. CASE AgentExits(s)
    <3> DEFINE r == [session[s] EXCEPT !.alive = FALSE]
    <3>1. session[s] \in SessionState /\ RecordSound(session[s]) /\ PlaceSound(s)
      BY DEF Sessions
    <3>2. s \in used BY <2>2, NotNewIsUsed DEF AgentExits, NewSession
    <3>3. r \in SessionState BY <3>1 DEF SessionState
    <3>4. RecordSound(r) BY <3>1 DEF RecordSound, SessionState
    <3>5. session' = [session EXCEPT ![s] = r] BY <2>2 DEF AgentExits, Sessions
    <3>6. r.term = session[s].term /\ r.exited = session[s].exited BY <3>1 DEF SessionState
    <3>7. UNCHANGED <<used, registry>> BY <2>2 DEF AgentExits, historyVars
    <3> HIDE DEF r
    <3> QED BY <3>2, <3>3, <3>4, <3>5, <3>6, <3>7, CarriesOn
  <2>3. CASE AcknowledgePrior(s) BY <2>3, SessionsStay DEF AcknowledgePrior
  <2>4. CASE ReadOutput(s) \/ Reading(s) BY <2>4, ReadingSound
  <2>5. CASE Creation(s) BY <2>5, CreationSound
  <2>6. CASE Claim(s, "other") \/ Claim(s, "reader") \/ Teardown(s)
    BY <2>6, TeardownSound
  <2> QED BY <2>1, <2>2, <2>3, <2>4, <2>5, <2>6 DEF SessionChange
<1>2. CASE SocketChange
  <2>1. PICK to \in [Session -> SUBSET Socket] :
            session' = [s \in Session |-> [session[s] EXCEPT !.to = to[s]]]
    BY <1>2, SocketsTouch
  <2>2. UNCHANGED <<registry, used>> BY <1>2, SocketsTouch DEF historyVars
  <2>3. ASSUME NEW s \in Session
        PROVE  session'[s] \in SessionState /\ RecordSound(session'[s]) /\ PlaceSound(s)'
    <3>1. session[s] \in SessionState /\ RecordSound(session[s]) /\ PlaceSound(s)
      BY DEF Sessions
    <3>2. session'[s] = [session[s] EXCEPT !.to = to[s]] BY <2>1
    <3>3. session'[s] \in SessionState BY <3>1, <3>2 DEF SessionState
    <3>4. RecordSound(session'[s]) BY <3>1, <3>2 DEF RecordSound, SessionState
    <3>5. s \notin used => session'[s] = NewSession
      <4> SUFFICES ASSUME s \notin used PROVE session'[s] = NewSession OBVIOUS
      <4>1. session[s] = NewSession BY <3>1 DEF PlaceSound
      <4> QED BY <1>2, <4>1, SocketsTouch
    <3> QED BY <2>2, <3>1, <3>2, <3>3, <3>4, <3>5 DEF PlaceSound, SessionState
  <2> QED BY <2>1, <2>3 DEF Sessions
<1>3. CASE PersisterChange
  BY <1>3, SessionsStay DEF PersisterChange, Refresh, SkipExited, Measure, Upsert, ListLive, historyVars
<1>4. CASE TerminalsDie BY <1>4, EmptySound
<1>5. CASE LoadPrior BY <1>5, SessionsStay DEF LoadPrior, historyVars
<1>6. CASE UNCHANGED terminalVars BY <1>6, SessionsStay DEF terminalVars, memoryVars
<1> QED BY <1>1, <1>2, <1>3, <1>4, <1>5, <1>6, StepOfTerminals DEF TerminalChange

LEMMA SessionsInitially == ASSUME Init PROVE scope \in Scopes /\ Sessions
<1>1. scope \in Scopes BY DEF Init
<1>2. session = [s \in Session |-> NewSession] /\ registry = {}
  BY DEF Init, TerminalInit
<1> QED BY <1>1, <1>2, NewSessionSound DEF Sessions, PlaceSound

(* The handshake of the two threads: whichever comes second, and at any    *)
(* time only one of them may, ends the ticket, for any number of sessions, *)
(* sockets and refreshes.                                                  *)
THEOREM LifetimeTicket == Spec => []LifetimeTicketEnds
<1> DEFINE I == scope \in Scopes /\ Sessions
<1>1. Init => I BY SessionsInitially
<1>2. I /\ [Next]_hostVars => I'
  <2>1. ASSUME I, [Next]_hostVars PROVE I'
    BY <2>1, SessionsSound, StepOfTerminals
  <2> QED BY <2>1
<1>3. I => LifetimeTicketEnds BY DEF Sessions, RecordSound, LifetimeTicketEnds
<1> QED BY <1>1, <1>2, <1>3, PTL DEF Spec

-----------------------------------------------------------------------------
(* Descriptors. *)

Owners ==
    /\ owner \in [Descriptor -> Session \cup {NoSession}]
    /\ \A s \in Session :
          (session[s].fd # NoDescriptor /\ ~session[s].closed) => owner[session[s].fd] = s

(* A step that opens and closes nothing. *)
LEMMA OwnersStay ==
    ASSUME Owners, UNCHANGED owner,
           \A s \in Session : /\ session'[s].fd = session[s].fd
                              /\ session'[s].closed = session[s].closed
    PROVE  Owners'
BY DEF Owners

LEMMA OwnersUpdate ==
    ASSUME Owners, Sessions, UNCHANGED owner, NEW s \in Session, NEW r \in SessionState,
           session' = [session EXCEPT ![s] = r],
           r.fd = session[s].fd, r.closed = session[s].closed
    PROVE  Owners'
<1>1. \A t \in Session : session'[t] = IF t = s THEN r ELSE session[t] BY DEF Sessions
<1> QED BY <1>1, OwnersStay

(* The master of s is closed.  Another session with this number would have *)
(* to be its owner as well.                                                *)
LEMMA OwnersClose ==
    ASSUME Owners, Sessions, NEW s \in Session, NEW r \in SessionState,
           r.fd = session[s].fd, CloseMaster(s, r)
    PROVE  Owners'
<1> DEFINE c == [r EXCEPT !.closed = TRUE]
<1>1. c.closed /\ c.fd = session[s].fd BY DEF SessionState
<1>2. \A t \in Session : session'[t] = IF t = s THEN c ELSE session[t]
  BY DEF CloseMaster, Sessions
<1>3. CASE session[s].closed BY <1>1, <1>2, <1>3 DEF CloseMaster, Owners
<1>4. CASE ~session[s].closed
  <2>1. owner' = [owner EXCEPT ![session[s].fd] = NoSession]
    BY <1>4 DEF CloseMaster, Closed
  <2>2. owner' \in [Descriptor -> Session \cup {NoSession}] BY <2>1 DEF Owners
  <2>3. ASSUME NEW t \in Session, session'[t].fd # NoDescriptor, ~session'[t].closed
        PROVE  owner'[session'[t].fd] = t
    <3>1. t # s /\ session'[t] = session[t] BY <1>1, <1>2, <2>3
    <3>2. owner[session[t].fd] = t BY <2>3, <3>1 DEF Owners
    <3>3. session[t].fd \in Descriptor BY <2>3, <3>1 DEF Sessions, SessionState
    <3>4. session[s].fd # session[t].fd
      BY <1>4, <2>3, <3>1, <3>2, <3>3 DEF Owners
    <3> QED BY <2>1, <3>1, <3>2, <3>3, <3>4 DEF Owners
  <2> QED BY <2>2, <2>3 DEF Owners
<1> QED BY <1>3, <1>4

LEMMA OwnersCreate ==
    ASSUME Owners, Sessions, NEW s \in Session, NEW d \in Descriptor, Create(s, d)
    PROVE  Owners'
<1> DEFINE r == [NewSession EXCEPT !.creator = "inserted", !.fd = d, !.alive = TRUE]
<1>1. r.fd = d BY DEF NewSession
<1>2. /\ owner[d] = NoSession /\ owner' = [owner EXCEPT ![d] = s]
      /\ session' = [session EXCEPT ![s] = r]
  BY DEF Create
<1>3. \A t \in Session : session'[t] = IF t = s THEN r ELSE session[t]
  BY <1>2 DEF Sessions
<1> HIDE DEF r
<1>4. owner' \in [Descriptor -> Session \cup {NoSession}] BY <1>2 DEF Owners
<1>5. ASSUME NEW t \in Session, session'[t].fd # NoDescriptor, ~session'[t].closed
      PROVE  owner'[session'[t].fd] = t
  <2>1. CASE t = s BY <1>1, <1>2, <1>3, <2>1 DEF Owners
  <2>2. CASE t # s
    <3>1. session'[t] = session[t] BY <1>3, <2>2
    <3>2. owner[session[t].fd] = t BY <1>5, <3>1 DEF Owners
    <3>3. session[t].fd # d BY <1>2, <3>2, TerminalAssumption
    <3>4. session[t].fd \in Descriptor BY <1>5, <3>1 DEF Sessions, SessionState
    <3> QED BY <1>2, <3>1, <3>2, <3>3, <3>4 DEF Owners
  <2> QED BY <2>1, <2>2
<1> QED BY <1>4, <1>5 DEF Owners

LEMMA OwnersSound ==
    ASSUME scope \in Scopes, Sessions, Owners, [Next]_hostVars
    PROVE  Owners'
<1> DEFINE Same == /\ UNCHANGED owner
                   /\ \A t \in Session : /\ session'[t].fd = session[t].fd
                                         /\ session'[t].closed = session[t].closed
<1>1. CASE \E s \in Session : SessionChange(s)
  <2> PICK s \in Session : SessionChange(s) BY <1>1
  <2>t. session[s] \in SessionState BY DEF Sessions
  <2>1. CASE \E d \in Descriptor : Create(s, d) BY <2>1, OwnersCreate
  <2>2. CASE ReaderCloses(s)
    <3> DEFINE r == [session[s] EXCEPT !.reader = "closing", !.readerDone = TRUE]
    <3>1. r \in SessionState /\ r.fd = session[s].fd BY <2>t DEF SessionState
    <3> QED BY <2>2, <3>1, OwnersClose DEF ReaderCloses
  <2>3. CASE JoinReader(s)
    <3>1. CASE session[s].by = "reader" \/ session[s].reader \in {"none", "done"}
      <4> DEFINE r == [session[s] EXCEPT !.term = "joined",
                                         !.early = (session[s].reader = "none")]
      <4>a. r \in SessionState BY <2>t DEF SessionState
      <4>b. r.fd = session[s].fd BY <2>t DEF SessionState
      <4>1. r \in SessionState /\ r.fd = session[s].fd BY <4>a, <4>b
      <4>2. CloseMaster(s, r) BY <2>3, <3>1 DEF JoinReader
      <4> QED BY <4>1, <4>2, OwnersClose
    <3>2. CASE session[s].by # "reader" /\ session[s].reader \notin {"none", "done"}
      <4>1. Same BY <2>t, <2>3, <3>2 DEF JoinReader, Sessions, SessionState
      <4> QED BY <4>1, OwnersStay
    <3> QED BY <3>1, <3>2
  <2>4. CASE CreateMeasure(s)
    <3>1. Same BY <2>t, <2>4 DEF CreateMeasure, historyVars, Sessions, SessionState
    <3> QED BY <3>1, OwnersStay
  <2>5. CASE CreatePersist(s)
    <3>1. Same BY <2>t, <2>5 DEF CreatePersist, historyVars, Sessions, SessionState
    <3> QED BY <3>1, OwnersStay
  <2>6. CASE CreateAssign(s)
    <3>1. Same BY <2>t, <2>6 DEF CreateAssign, historyVars, Sessions, SessionState
    <3> QED BY <3>1, OwnersStay
  <2>7. CASE CreateStart(s)
    <3>1. Same BY <2>t, <2>7 DEF CreateStart, historyVars, Sessions, SessionState
    <3> QED BY <3>1, OwnersStay
  <2>8. CASE ReadOutput(s)
    <3>1. Same BY <2>t, <2>8 DEF ReadOutput, historyVars, Sessions, SessionState
    <3> QED BY <3>1, OwnersStay
  <2>9. CASE DispatchOutput(s)
    <3>1. Same BY <2>t, <2>9 DEF DispatchOutput, historyVars, Sessions, SessionState
    <3> QED BY <3>1, OwnersStay
  <2>10. CASE ReadEnds(s)
    <3>1. Same BY <2>t, <2>10 DEF ReadEnds, historyVars, Sessions, SessionState
    <3> QED BY <3>1, OwnersStay
  <2>11. CASE AgentExits(s)
    <3>1. Same BY <2>t, <2>11 DEF AgentExits, historyVars, Sessions, SessionState
    <3> QED BY <3>1, OwnersStay
  <2>12. CASE AcknowledgePrior(s)
    <3>1. Same BY <2>t, <2>12 DEF AcknowledgePrior, historyVars, Sessions, SessionState
    <3> QED BY <3>1, OwnersStay
  <2>13. CASE Claim(s, "other") \/ Claim(s, "reader")
    <3>1. Same BY <2>t, <2>13 DEF Claim, historyVars, Sessions, SessionState
    <3> QED BY <3>1, OwnersStay
  <2>14. CASE MarkExited(s)
    <3>1. Same BY <2>t, <2>14 DEF MarkExited, historyVars, Sessions, SessionState
    <3> QED BY <3>1, OwnersStay
  <2>15. CASE FanOutAndKill(s)
    <3>1. Same BY <2>t, <2>15 DEF FanOutAndKill, historyVars, Sessions, SessionState
    <3> QED BY <3>1, OwnersStay
  <2>16. CASE RemoveRecord(s)
    <3>1. Same BY <2>t, <2>16 DEF RemoveRecord, historyVars, Sessions, SessionState
    <3> QED BY <3>1, OwnersStay
  <2>17. CASE ReportExit(s)
    <3>1. Same BY <2>t, <2>17 DEF ReportExit, historyVars, Sessions, SessionState
    <3> QED BY <3>1, OwnersStay
  <2>18. CASE FinishAfterExit(s)
    <3>1. Same BY <2>t, <2>18 DEF FinishAfterExit, Finish, historyVars, Sessions, SessionState
    <3> QED BY <3>1, OwnersStay
  <2>19. CASE ReaderFinishes(s)
    <3>1. Same BY <2>t, <2>19 DEF ReaderFinishes, Finish, historyVars, Sessions, SessionState
    <3> QED BY <3>1, OwnersStay
  <2> QED
    BY <2>1, <2>2, <2>3, <2>4, <2>5, <2>6, <2>7, <2>8, <2>9, <2>10, <2>11, <2>12, <2>13, <2>14, <2>15, <2>16, <2>17, <2>18, <2>19
    DEF SessionChange, Creation, Reading, Teardown
<1>2. CASE SocketChange
  <2>1. PICK to \in [Session -> SUBSET Socket] :
            session' = [s \in Session |-> [session[s] EXCEPT !.to = to[s]]]
    BY <1>2, SocketsTouch
  <2>2. Same BY <1>2, <2>1, SocketsTouch DEF Sessions, SessionState
  <2> QED BY <2>2, OwnersStay
<1>3. CASE PersisterChange
  <2>1. UNCHANGED <<session, owner>>
    BY <1>3 DEF PersisterChange, Refresh, SkipExited, Measure, Upsert, ListLive
  <2> QED BY <2>1, OwnersStay
<1>4. CASE TerminalsDie
  <2>1. /\ session' = [s \in Session |-> NewSession]
        /\ owner' = [d \in Descriptor |-> NoSession]
    BY <1>4 DEF TerminalsDie, TerminalEmpty
  <2>2. NewSession.fd = NoDescriptor BY DEF NewSession
  <2> QED BY <2>1, <2>2 DEF Owners
<1>5. CASE LoadPrior BY <1>5, OwnersStay DEF LoadPrior
<1>6. CASE UNCHANGED terminalVars BY <1>6, OwnersStay DEF terminalVars, memoryVars
<1> QED BY <1>1, <1>2, <1>3, <1>4, <1>5, <1>6, StepOfTerminals DEF TerminalChange

LEMMA OwnerInvariant == Spec => [](scope \in Scopes /\ Sessions /\ Owners)
<1> DEFINE I == scope \in Scopes /\ Sessions /\ Owners
<1>1. Init => I
  <2>1. ASSUME Init PROVE Owners
    <3>1. /\ session = [s \in Session |-> NewSession]
          /\ owner = [d \in Descriptor |-> NoSession]
      BY <2>1 DEF Init, TerminalInit
    <3>2. NewSession.fd = NoDescriptor BY DEF NewSession
    <3> QED BY <3>1, <3>2 DEF Owners
  <2> QED BY <2>1, SessionsInitially
<1>2. I /\ [Next]_hostVars => I'
  <2>1. ASSUME I, [Next]_hostVars PROVE I'
    BY <2>1, SessionsSound, OwnersSound, StepOfTerminals
  <2> QED BY <2>1
<1> QED BY <1>1, <1>2, PTL DEF Spec

(* A session that has not closed its master has its own PTY behind the     *)
(* number, whoever else closes what and however numbers are given out; and *)
(* a reader's master is closed under it only where the session ended       *)
(* before its reader was known.                                            *)
THEOREM OwnDescriptors == Spec => []DescriptorsAreOwn
<1>1. Sessions /\ Owners => DescriptorsAreOwn
  BY DEF Sessions, RecordSound, Owners, DescriptorsAreOwn, Ended
<1> QED BY <1>1, OwnerInvariant, PTL

-----------------------------------------------------------------------------
(* The streams of output.  First, what becomes of a line.                  *)
LEMMA ContinuesIs ==
    ASSUME NEW line \in Seq(Message), NEW shown \in Nat, NEW produced \in Nat
    PROVE  Continues(line, shown, produced) <=>
             /\ \A n \in (shown + 1)..produced : \E i \in 1..Len(line) : line[i] = n
             /\ \A i \in 1..Len(line) : line[i] \in (shown + 1)..produced \/ line[i] = 0
             /\ \A i, j \in 1..Len(line) : i < j /\ line[j] # 0 => line[i] < line[j]
<1>1. DOMAIN line = 1..Len(line) OBVIOUS
<1>2. \A x : x \in (shown + 1)..produced \cup {0} <=> x \in (shown + 1)..produced \/ x = 0
  OBVIOUS
<1> QED BY <1>1, <1>2, Zenon DEF Continues, Exit

(* The next output joins it at the end ... *)
LEMMA AddNext ==
    ASSUME NEW line \in Seq(Message), NEW shown \in Nat, NEW produced \in Nat,
           shown <= produced, Continues(line, shown, produced)
    PROVE  Continues(Append(line, produced + 1), shown, produced + 1)
<1> DEFINE new == Append(line, produced + 1)
<1>1. /\ new \in Seq(Message) /\ Len(new) = Len(line) + 1 /\ Len(line) \in Nat
      /\ \A i \in 1..Len(line) : new[i] = line[i]
      /\ new[Len(line) + 1] = produced + 1
  BY AppendProperties DEF Message
<1>2. /\ \A n \in (shown + 1)..produced : \E i \in 1..Len(line) : line[i] = n
      /\ \A i \in 1..Len(line) : line[i] \in (shown + 1)..produced \/ line[i] = 0
      /\ \A i, j \in 1..Len(line) : i < j /\ line[j] # 0 => line[i] < line[j]
  BY ContinuesIs
<1> HIDE DEF new
<1>3. ASSUME NEW n \in (shown + 1)..(produced + 1)
      PROVE  \E i \in 1..Len(new) : new[i] = n
  <2>1. CASE n = produced + 1
    <3>1. Len(line) + 1 \in 1..Len(new) BY <1>1
    <3> QED BY <1>1, <2>1, <3>1
  <2>2. CASE n # produced + 1
    <3>1. n \in (shown + 1)..produced BY <2>2
    <3>2. PICK i \in 1..Len(line) : line[i] = n BY <1>2, <3>1
    <3>3. i \in 1..Len(new) /\ new[i] = n BY <1>1, <3>2
    <3> QED BY <3>3
  <2> QED BY <2>1, <2>2
<1>4. ASSUME NEW i \in 1..Len(new)
      PROVE  \/ new[i] \in (shown + 1)..(produced + 1)
             \/ new[i] = 0
  <2>1. CASE i \in 1..Len(line)
    <3>1. line[i] \in (shown + 1)..produced \/ line[i] = 0 BY <1>2, <2>1
    <3>2. new[i] = line[i] BY <1>1, <2>1
    <3> QED BY <3>1, <3>2
  <2>2. CASE i = Len(line) + 1
    <3>1. new[i] = produced + 1 BY <1>1, <2>2
    <3> QED BY <3>1
  <2> QED BY <1>1, <2>1, <2>2
<1>5. ASSUME NEW i \in 1..Len(new), NEW j \in 1..Len(new), i < j, new[j] # 0
      PROVE  new[i] < new[j]
  <2>0. i \in 1..Len(line) /\ new[i] = line[i] BY <1>1, <1>5
  <2>1. CASE j \in 1..Len(line) BY <1>1, <1>2, <1>5, <2>0, <2>1
  <2>2. CASE j = Len(line) + 1
    <3>1. new[j] = produced + 1 BY <1>1, <2>2
    <3>2. line[i] \in (shown + 1)..produced \/ line[i] = 0 BY <1>2, <2>0
    <3> QED BY <2>0, <3>1, <3>2
  <2> QED BY <1>1, <2>1, <2>2
<1>6. produced + 1 \in Nat OBVIOUS
<1>7. Continues(new, shown, produced + 1) BY <1>1, <1>3, <1>4, <1>5, <1>6, ContinuesIs
<1> QED BY <1>7 DEF new

(* ... the exit may join it anywhere ... *)
LEMMA AddExit ==
    ASSUME NEW a \in Seq(Message), NEW b \in Seq(Message),
           NEW shown \in Nat, NEW produced \in Nat, Continues(a \o b, shown, produced)
    PROVE  Continues(Append(a, Exit) \o b, shown, produced)
<1> DEFINE old == a \o b
           new == Append(a, Exit) \o b
           N == Len(a)
<1>0. Exit \in Message BY DEF Exit, Message
<1>1. /\ Append(a, Exit) \in Seq(Message) /\ Len(Append(a, Exit)) = N + 1
      /\ \A i \in 1..N : Append(a, Exit)[i] = a[i]
      /\ Append(a, Exit)[N + 1] = 0 /\ N \in Nat /\ Len(b) \in Nat
  BY <1>0, AppendProperties DEF Exit
<1>2. /\ old \in Seq(Message) /\ Len(old) = N + Len(b)
      /\ \A i \in 1..(N + Len(b)) : old[i] = IF i <= N THEN a[i] ELSE b[i - N]
  BY ConcatProperties
<1>3. /\ new \in Seq(Message) /\ Len(new) = (N + 1) + Len(b)
      /\ \A i \in 1..((N + 1) + Len(b)) :
            new[i] = IF i <= N + 1 THEN Append(a, Exit)[i] ELSE b[i - (N + 1)]
  BY <1>1, ConcatProperties
<1>4. /\ \A n \in (shown + 1)..produced : \E i \in 1..Len(old) : old[i] = n
      /\ \A i \in 1..Len(old) : old[i] \in (shown + 1)..produced \/ old[i] = 0
      /\ \A i, j \in 1..Len(old) : i < j /\ old[j] # 0 => old[i] < old[j]
  BY <1>2, ContinuesIs
<1> HIDE DEF old, new, N
<1>5. /\ \A i \in 1..N : new[i] = old[i]
      /\ new[N + 1] = 0
      /\ \A i \in (N + 2)..Len(new) : new[i] = old[i - 1]
  <2>1. ASSUME NEW i \in 1..N PROVE new[i] = old[i]
    <3>1. i \in 1..((N + 1) + Len(b)) /\ i \in 1..(N + Len(b)) /\ i <= N /\ i <= N + 1
      BY <1>1, <2>1
    <3>2. new[i] = Append(a, Exit)[i] /\ old[i] = a[i] BY <1>2, <1>3, <3>1
    <3> QED BY <1>1, <2>1, <3>2
  <2>2. new[N + 1] = 0 BY <1>1, <1>3
  <2>3. ASSUME NEW i \in (N + 2)..Len(new) PROVE new[i] = old[i - 1]
    <3>1. i - 1 \in 1..(N + Len(b)) /\ ~(i - 1 <= N) /\ (i - 1) - N = i - (N + 1)
      BY <1>1, <1>3, <2>3
    <3>2. i \in 1..((N + 1) + Len(b)) /\ ~(i <= N + 1) BY <1>1, <1>3, <2>3
    <3>3. new[i] = b[i - (N + 1)] BY <1>3, <3>2
    <3>4. old[i - 1] = b[(i - 1) - N] BY <1>2, <3>1
    <3> QED BY <3>1, <3>3, <3>4
  <2> QED BY <2>1, <2>2, <2>3
<1>6. Len(new) = Len(old) + 1 /\ N <= Len(old) /\ N \in Nat /\ Len(old) \in Nat
  BY <1>1, <1>2, <1>3
<1>7. \A i \in 1..Len(new) : \/ new[i] = 0
                             \/ i <= N /\ i \in 1..Len(old) /\ new[i] = old[i]
                             \/ i >= N + 2 /\ i - 1 \in 1..Len(old) /\ new[i] = old[i - 1]
  <2> TAKE i \in 1..Len(new)
  <2>1. CASE i <= N BY <1>5, <1>6, <2>1
  <2>2. CASE i = N + 1 BY <1>5, <2>2
  <2>3. CASE i >= N + 2
    <3>1. i \in (N + 2)..Len(new) /\ i - 1 \in 1..Len(old) BY <1>6, <2>3
    <3> QED BY <1>5, <2>3, <3>1
  <2> QED BY <1>6, <2>1, <2>2, <2>3
<1>8. ASSUME NEW n \in (shown + 1)..produced PROVE \E i \in 1..Len(new) : new[i] = n
  <2>1. PICK i \in 1..Len(old) : old[i] = n BY <1>4
  <2>2. CASE i <= N
    <3>1. i \in 1..Len(new) /\ new[i] = n BY <1>5, <1>6, <2>1, <2>2
    <3> QED BY <3>1
  <2>3. CASE i > N
    <3>1. i + 1 \in (N + 2)..Len(new) /\ (i + 1) - 1 = i /\ i + 1 \in 1..Len(new)
      BY <1>6, <2>3
    <3>2. new[i + 1] = n BY <1>5, <2>1, <3>1
    <3> QED BY <3>1, <3>2
  <2> QED BY <1>6, <2>2, <2>3
<1>9. ASSUME NEW i \in 1..Len(new) PROVE new[i] \in (shown + 1)..produced \/ new[i] = 0
  BY <1>4, <1>7
<1>10. ASSUME NEW i \in 1..Len(new), NEW j \in 1..Len(new), i < j, new[j] # 0
       PROVE  new[i] < new[j]
  <2>1. CASE new[i] = 0
    <3>1. new[j] \in (shown + 1)..produced BY <1>9, <1>10
    <3> QED BY <2>1, <3>1
  <2>2. CASE i <= N /\ i \in 1..Len(old) /\ new[i] = old[i]
    <3>1. CASE j <= N /\ j \in 1..Len(old) /\ new[j] = old[j] BY <1>4, <1>10, <2>2, <3>1
    <3>2. CASE j >= N + 2 /\ j - 1 \in 1..Len(old) /\ new[j] = old[j - 1]
      <4>1. i < j - 1 BY <1>6, <2>2, <3>2
      <4> QED BY <1>4, <1>10, <2>2, <3>2, <4>1
    <3> QED BY <1>7, <1>10, <3>1, <3>2
  <2>3. CASE i >= N + 2 /\ i - 1 \in 1..Len(old) /\ new[i] = old[i - 1]
    <3>1. j >= N + 2 /\ i - 1 < j - 1 BY <1>6, <1>10, <2>3
    <3>2. j - 1 \in 1..Len(old) /\ new[j] = old[j - 1] BY <1>6, <1>7, <1>10, <3>1
    <3> QED BY <1>4, <1>10, <2>3, <3>1, <3>2
  <2> QED BY <1>7, <2>1, <2>2, <2>3
<1>11. Continues(new, shown, produced) BY <1>3, <1>8, <1>9, <1>10, ContinuesIs
<1> QED BY <1>11 DEF new

(* ... and the first of it is the next to be shown. *)
LEMMA ShowFirst ==
    ASSUME NEW a \in Seq(Message), NEW b \in Seq(Message), a # <<>>, Head(a) # Exit,
           NEW shown \in Nat, NEW produced \in Nat, Continues(a \o b, shown, produced)
    PROVE  /\ Head(a) \in (shown + 1)..produced
           /\ Continues(Tail(a) \o b, Head(a), produced)
<1> DEFINE old == a \o b
           new == Tail(a) \o b
           m == Head(a)
<1>1. /\ Len(a) \in Nat \ {0} /\ Len(b) \in Nat /\ Tail(a) \in Seq(Message)
      /\ m = a[1] /\ Len(Tail(a)) = Len(a) - 1
      /\ \A i \in 1..Len(Tail(a)) : Tail(a)[i] = a[i + 1]
  <2>1. Len(a) \in Nat \ {0} BY EmptySeq
  <2> QED BY <2>1, HeadTailProperties
<1>2. /\ old \in Seq(Message) /\ Len(old) = Len(a) + Len(b)
      /\ \A i \in 1..(Len(a) + Len(b)) : old[i] = IF i <= Len(a) THEN a[i] ELSE b[i - Len(a)]
  BY ConcatProperties
<1>3. /\ new \in Seq(Message) /\ Len(new) = Len(Tail(a)) + Len(b)
      /\ \A i \in 1..(Len(Tail(a)) + Len(b)) :
            new[i] = IF i <= Len(Tail(a)) THEN Tail(a)[i] ELSE b[i - Len(Tail(a))]
  BY <1>1, ConcatProperties
<1>4. /\ \A n \in (shown + 1)..produced : \E i \in 1..Len(old) : old[i] = n
      /\ \A i \in 1..Len(old) : old[i] \in (shown + 1)..produced \/ old[i] = 0
      /\ \A i, j \in 1..Len(old) : i < j /\ old[j] # 0 => old[i] < old[j]
  BY <1>2, ContinuesIs
<1> HIDE DEF old, new, m
<1>5. 1 \in 1..Len(old) /\ old[1] = m BY <1>1, <1>2
<1>6. m \in (shown + 1)..produced
  <2>1. m # 0 BY DEF m, Exit
  <2> QED BY <1>4, <1>5, <2>1
<1>7. Len(old) = Len(new) + 1 /\ Len(new) \in Nat BY <1>1, <1>2, <1>3
<1>8. ASSUME NEW i \in 1..Len(new) PROVE new[i] = old[i + 1] /\ i + 1 \in 1..Len(old)
  <2>1. /\ i \in 1..(Len(Tail(a)) + Len(b)) /\ i + 1 \in 1..(Len(a) + Len(b))
        /\ i - Len(Tail(a)) = (i + 1) - Len(a) /\ (i <= Len(Tail(a)) <=> i + 1 <= Len(a))
    BY <1>1, <1>3, <1>8
  <2>2. i + 1 \in 1..Len(old) BY <1>7, <1>8
  <2>3. CASE i <= Len(Tail(a))
    <3>1. new[i] = Tail(a)[i] /\ old[i + 1] = a[i + 1] BY <1>2, <1>3, <2>1, <2>3
    <3>2. i \in 1..Len(Tail(a)) BY <1>1, <2>1, <2>3
    <3> QED BY <1>1, <2>2, <3>1, <3>2
  <2>4. CASE ~(i <= Len(Tail(a)))
    <3>1. new[i] = b[i - Len(Tail(a))] /\ old[i + 1] = b[(i + 1) - Len(a)]
      BY <1>2, <1>3, <2>1, <2>4
    <3> QED BY <2>1, <2>2, <3>1
  <2> QED BY <2>3, <2>4
<1>9. ASSUME NEW n \in (m + 1)..produced PROVE \E i \in 1..Len(new) : new[i] = n
  <2>1. n \in (shown + 1)..produced /\ n # m BY <1>6, <1>9
  <2>2. PICK i \in 1..Len(old) : old[i] = n BY <1>4, <2>1
  <2>3. i # 1 BY <1>5, <2>1, <2>2
  <2>4. i - 1 \in 1..Len(new) /\ (i - 1) + 1 = i BY <1>7, <2>2, <2>3
  <2>5. new[i - 1] = n BY <1>8, <2>2, <2>4
  <2> QED BY <2>4, <2>5
<1>10. ASSUME NEW i \in 1..Len(new) PROVE new[i] \in (m + 1)..produced \/ new[i] = 0
  <2>1. new[i] = old[i + 1] /\ i + 1 \in 1..Len(old) /\ 1 < i + 1 BY <1>7, <1>8
  <2>2. old[i + 1] \in (shown + 1)..produced \/ old[i + 1] = 0 BY <1>4, <2>1
  <2>3. old[i + 1] # 0 => m < old[i + 1] BY <1>4, <1>5, <2>1
  <2> QED BY <1>6, <2>1, <2>2, <2>3
<1>11. ASSUME NEW i \in 1..Len(new), NEW j \in 1..Len(new), i < j, new[j] # 0
       PROVE  new[i] < new[j]
  <2>1. /\ i + 1 \in 1..Len(old) /\ j + 1 \in 1..Len(old) /\ i + 1 < j + 1
        /\ new[i] = old[i + 1] /\ new[j] = old[j + 1]
    BY <1>7, <1>8, <1>11
  <2> QED BY <1>4, <1>11, <2>1
<1>12. m \in Nat BY <1>6
<1>13. Continues(new, m, produced) BY <1>3, <1>9, <1>10, <1>11, <1>12, ContinuesIs
<1> QED BY <1>6, <1>13 DEF new, m

(* The loop's callback does not change it ... *)
LEMMA Moved ==
    ASSUME NEW a \in Seq(Message), NEW b \in Seq(Message), b # <<>>
    PROVE  Append(a, Head(b)) \o Tail(b) = a \o b
<1>1. /\ Len(b) \in Nat \ {0} /\ Tail(b) \in Seq(Message) /\ Head(b) \in Message
      /\ Head(b) = b[1] /\ Len(Tail(b)) = Len(b) - 1
      /\ \A i \in 1..Len(Tail(b)) : Tail(b)[i] = b[i + 1]
  <2>1. Len(b) \in Nat \ {0} BY EmptySeq
  <2> QED BY <2>1, HeadTailProperties
<1> DEFINE c == Append(a, Head(b))
           s == c \o Tail(b)
           t == a \o b
<1>2. /\ c \in Seq(Message) /\ Len(c) = Len(a) + 1 /\ Len(a) \in Nat
      /\ \A i \in 1..Len(a) : c[i] = a[i]
      /\ c[Len(a) + 1] = b[1]
  BY <1>1, AppendProperties
<1> HIDE DEF c
<1>3. /\ s \in Seq(Message) /\ Len(s) = Len(c) + Len(Tail(b))
      /\ \A i \in 1..(Len(c) + Len(Tail(b))) : s[i] = IF i <= Len(c) THEN c[i] ELSE Tail(b)[i - Len(c)]
  BY <1>1, <1>2, ConcatProperties
<1>4. /\ t \in Seq(Message) /\ Len(t) = Len(a) + Len(b)
      /\ \A i \in 1..(Len(a) + Len(b)) : t[i] = IF i <= Len(a) THEN a[i] ELSE b[i - Len(a)]
  BY ConcatProperties
<1> HIDE DEF s, t
<1>5. Len(s) = Len(t) BY <1>1, <1>2, <1>3, <1>4
<1>6. ASSUME NEW i \in 1..Len(t) PROVE s[i] = t[i]
  <2>1. i \in 1..(Len(c) + Len(Tail(b))) /\ i \in 1..(Len(a) + Len(b)) BY <1>3, <1>4, <1>5
  <2>2. CASE i <= Len(a)
    <3>1. i <= Len(c) /\ i \in 1..Len(a) BY <1>2, <2>1, <2>2
    <3> QED BY <1>2, <1>3, <1>4, <2>1, <2>2, <3>1
  <2>3. CASE i = Len(a) + 1
    <3>1. i <= Len(c) /\ ~(i <= Len(a)) /\ i - Len(a) = 1 BY <1>2, <2>3
    <3>2. s[i] = c[i] /\ t[i] = b[1] BY <1>3, <1>4, <2>1, <3>1
    <3> QED BY <1>2, <2>3, <3>2
  <2>4. CASE i > Len(a) + 1
    <3>1. /\ ~(i <= Len(c)) /\ ~(i <= Len(a)) /\ i - Len(c) \in 1..Len(Tail(b))
          /\ (i - Len(c)) + 1 = i - Len(a)
      BY <1>1, <1>2, <2>1, <2>4
    <3>2. s[i] = Tail(b)[i - Len(c)] /\ t[i] = b[i - Len(a)] BY <1>3, <1>4, <2>1, <3>1
    <3>3. Tail(b)[i - Len(c)] = b[(i - Len(c)) + 1] BY <1>1, <3>1
    <3> QED BY <3>1, <3>2, <3>3
  <2> QED BY <1>2, <2>1, <2>2, <2>3, <2>4
<1>7. s = t BY <1>3, <1>4, <1>5, <1>6, SeqEqual
<1> QED BY <1>7 DEF s, t, c

(* Where an output stands is one place for each socket: its reader holds   *)
(* it only while it publishes, for those attached when it was read.        *)
SocketState ==
    [stage : {"off", "opening", "replaying", "on"}, of : Session \cup {NoSession},
     shown : Nat, queue : Seq(Message), exited : BOOLEAN]

Shows(q) == sock[q].stage \in {"replaying", "on"}

StreamSound(q) ==
    /\ sock[q].stage # "off" => sock[q].of \in used \cap Session
    /\ ~Shows(q) => sock[q].queue = <<>> /\ ready[q] = <<>>
    /\ \A s \in Session : q \in session[s].to =>
          session[s].reader = "publishing" /\ sock[q].of = s /\ Shows(q)
    /\ Shows(q) => /\ sock[q].shown <= session[sock[q].of].produced
                   /\ \/ sock[q].queue = <<Overflow>>
                      \/ Continues(InFlight(q), sock[q].shown, session[sock[q].of].produced)

Streams ==
    /\ sock \in [Socket -> SocketState] /\ ready \in [Socket -> Seq(Message)]
    /\ \A q \in Socket : StreamSound(q)

LEMMA StreamTyped ==
    ASSUME Streams, Sessions, NEW q \in Socket
    PROVE  /\ sock[q] \in SocketState /\ sock[q].shown \in Nat
           /\ sock[q].queue \in Seq(Message) /\ ready[q] \in Seq(Message)
           /\ sock[q].queue \o ready[q] \in Seq(Message)
           /\ Shows(q) => sock[q].of \in Session /\ session[sock[q].of] \in SessionState
                          /\ session[sock[q].of].produced \in Nat
<1>1. sock[q] \in SocketState /\ ready[q] \in Seq(Message) BY DEF Streams
<1>2. sock[q].queue \in Seq(Message) /\ sock[q].shown \in Nat BY <1>1 DEF SocketState
<1>3. sock[q].queue \o ready[q] \in Seq(Message) BY <1>1, <1>2, ConcatProperties
<1>4. Shows(q) => sock[q].of \in Session BY DEF Streams, StreamSound, Shows
<1>5. ASSUME NEW s \in Session PROVE session[s] \in SessionState /\ session[s].produced \in Nat
  BY DEF Sessions, SessionState
<1> QED BY <1>1, <1>2, <1>3, <1>4, <1>5

(* A step that leaves a socket alone, and of the sessions who is sent what. *)
LEMMA SocketStays ==
    ASSUME Streams, Sessions, NEW q \in Socket,
           sock'[q] = sock[q], ready'[q] = ready[q], used \subseteq used',
           \A s \in Session : q \in session'[s].to <=> q \in session[s].to,
           \A s \in Session : q \in session[s].to => session'[s].reader = "publishing",
           Shows(q) => session'[sock[q].of].produced = session[sock[q].of].produced
    PROVE  StreamSound(q)'
<1>1. StreamSound(q) BY DEF Streams
<1>2. Shows(q)' <=> Shows(q) BY DEF Shows
<1>3. Shows(q) => sock[q].of \in Session BY StreamTyped
<1>4. Shows(q) => InFlight(q)' = InFlight(q) BY <1>3 DEF InFlight
<1>5. Shows(q) => session'[sock'[q].of].produced = session[sock[q].of].produced OBVIOUS
<1> QED BY <1>1, <1>2, <1>4, <1>5 DEF StreamSound

(* Most steps of a session's threads are of that kind. *)
LEMMA QuietChange ==
    ASSUME Streams, Sessions, UNCHANGED <<sock, ready>>, used \subseteq used',
           NEW s \in Session, NEW r, session' = [session EXCEPT ![s] = r],
           r.to = session[s].to, r.produced = session[s].produced,
           session[s].reader = "publishing" => r.reader = "publishing"
    PROVE  Streams'
<1>1. \A t \in Session : session'[t] = IF t = s THEN r ELSE session[t]
  BY DEF Sessions
<1>2. ASSUME NEW q \in Socket PROVE StreamSound(q)'
  <2>1. \A t \in Session : q \in session[t].to => session[t].reader = "publishing"
    BY DEF Streams, StreamSound
  <2>2. Shows(q) => sock[q].of \in Session BY StreamTyped
  <2>3. \A t \in Session : session'[t].to = session[t].to /\ session'[t].produced = session[t].produced
    BY <1>1
  <2>4. \A t \in Session : session[t].reader = "publishing" => session'[t].reader = "publishing"
    BY <1>1
  <2> QED BY <2>1, <2>2, <2>3, <2>4, SocketStays
<1> QED BY <1>2 DEF Streams

(* What a session's record keeps in its quiet steps. *)
LEMMA QuietRecord ==
    ASSUME Sessions, NEW s \in Session,
           \/ AgentExits(s) \/ Creation(s) \/ ReadEnds(s) \/ ReaderCloses(s)
           \/ ReaderFinishes(s) \/ Claim(s, "other") \/ Claim(s, "reader") \/ MarkExited(s)
           \/ JoinReader(s) \/ RemoveRecord(s) \/ ReportExit(s) \/ FinishAfterExit(s)
    PROVE  /\ UNCHANGED <<sock, ready, used>>
           /\ \E r : /\ session' = [session EXCEPT ![s] = r]
                     /\ r.to = session[s].to /\ r.produced = session[s].produced
                     /\ (session[s].reader = "publishing" => r.reader = "publishing")
<1>0. session[s] \in SessionState /\ RecordSound(session[s]) BY DEF Sessions
<1>1. UNCHANGED <<sock, ready, used>>
  BY DEF AgentExits, Creation, CreateMeasure, CreatePersist, CreateAssign, CreateStart,
         ReadEnds, ReaderCloses, ReaderFinishes, Claim, MarkExited, JoinReader, RemoveRecord,
         ReportExit, FinishAfterExit, historyVars
<1> DEFINE Good(r) == /\ session' = [session EXCEPT ![s] = r]
                      /\ r.to = session[s].to /\ r.produced = session[s].produced
                      /\ (session[s].reader = "publishing" => r.reader = "publishing")
<1>2. CASE AgentExits(s)
  <2>1. Good([session[s] EXCEPT !.alive = FALSE])
    BY <1>0, <1>2 DEF AgentExits, Sessions, SessionState
  <2> QED BY <1>1, <2>1
<1>3. CASE Creation(s)
  <2>1. CASE CreateMeasure(s)
    <3>1. Good([session[s] EXCEPT !.creator = "measured", !.snap = Metadata(s)])
      BY <1>0, <2>1 DEF CreateMeasure, Sessions, SessionState
    <3> QED BY <1>1, <3>1
  <2>2. CASE CreatePersist(s)
    <3>1. Good([session[s] EXCEPT !.creator = "persisted"])
      BY <1>0, <2>2 DEF CreatePersist, Sessions, SessionState
    <3> QED BY <1>1, <3>1
  <2>3. CASE CreateAssign(s)
    <3>1. Good([session[s] EXCEPT !.creator = "assigned", !.reader = "assigned"])
      BY <1>0, <2>3 DEF CreateAssign, Sessions, SessionState, RecordSound
    <3> QED BY <1>1, <3>1
  <2>4. CASE CreateStart(s)
    <3>1. Good([session[s] EXCEPT !.creator = "done", !.reader = "reading"])
      BY <1>0, <2>4 DEF CreateStart, Sessions, SessionState, RecordSound
    <3> QED BY <1>1, <3>1
  <2> QED BY <1>3, <2>1, <2>2, <2>3, <2>4 DEF Creation
<1>4. CASE ReadEnds(s)
  <2>1. Good([session[s] EXCEPT !.reader = "ended"])
    BY <1>0, <1>4 DEF ReadEnds, Sessions, SessionState
  <2> QED BY <1>1, <2>1
<1>5. CASE ReaderCloses(s)
  <2>1. Good([[session[s] EXCEPT !.reader = "closing", !.readerDone = TRUE] EXCEPT !.closed = TRUE])
    BY <1>0, <1>5 DEF ReaderCloses, CloseMaster, Sessions, SessionState
  <2> QED BY <1>1, <2>1
<1>6. CASE ReaderFinishes(s)
  <2>1. Good(Finish([session[s] EXCEPT !.reader = "done"]))
    BY <1>0, <1>6 DEF ReaderFinishes, Finish, Sessions, SessionState
  <2> QED BY <1>1, <2>1
<1>7. CASE Claim(s, "other") \/ Claim(s, "reader")
  <2>1. Good([session[s] EXCEPT !.term = "claimed", !.by = "other"])
        \/ Good([session[s] EXCEPT !.term = "claimed", !.by = "reader"])
    BY <1>0, <1>7 DEF Claim, Sessions, SessionState
  <2> QED BY <1>1, <2>1
<1>8. CASE MarkExited(s)
  <2>1. Good([session[s] EXCEPT !.term = "marked", !.exited = TRUE])
    BY <1>0, <1>8 DEF MarkExited, Sessions, SessionState
  <2> QED BY <1>1, <2>1
<1>9. CASE JoinReader(s)
  <2>1. \/ Good([[session[s] EXCEPT !.term = "joined", !.early = (session[s].reader = "none")]
                    EXCEPT !.closed = TRUE])
        \/ Good([session[s] EXCEPT !.term = "raised"])
        \/ Good([session[s] EXCEPT !.term = "joined"])
    BY <1>0, <1>9 DEF JoinReader, CloseMaster, Sessions, SessionState
  <2> QED BY <1>1, <2>1
<1>10. CASE RemoveRecord(s)
  <2>1. Good([session[s] EXCEPT !.term = "removed"])
    BY <1>0, <1>10 DEF RemoveRecord, Sessions, SessionState
  <2> QED BY <1>1, <2>1
<1>11. CASE ReportExit(s)
  <2>1. Good([session[s] EXCEPT !.term = "reported", !.reported = TRUE])
    BY <1>0, <1>11 DEF ReportExit, Sessions, SessionState
  <2> QED BY <1>1, <2>1
<1>12. CASE FinishAfterExit(s)
  <2>1. Good(Finish([session[s] EXCEPT !.term = "done"]))
    BY <1>0, <1>12 DEF FinishAfterExit, Finish, Sessions, SessionState
  <2> QED BY <1>1, <2>1
<1> QED BY <1>2, <1>3, <1>4, <1>5, <1>6, <1>7, <1>8, <1>9, <1>10, <1>11, <1>12

LEMMA JoinIs ==
    ASSUME NEW a \in Seq(Message), NEW b \in Seq(Message)
    PROVE  /\ a \o b \in Seq(Message) /\ a \o b \o <<>> = a \o b
           /\ \A n \in Nat : a \o b \o <<n>> = Append(a \o b, n)
<1>1. a \o b \in Seq(Message) BY ConcatProperties
<1>2. a \o b \o <<>> = a \o b BY <1>1, ConcatEmptySeq
<1>3. ASSUME NEW n \in Nat PROVE a \o b \o <<n>> = Append(a \o b, n)
  <2>1. n \in Message BY DEF Message
  <2> QED BY <1>1, <2>1, AppendIsConcat
<1> QED BY <1>1, <1>2, <1>3

LEMMA AppendLast ==
    ASSUME NEW a \in Seq(Message), NEW b \in Seq(Message), NEW m \in Message
    PROVE  a \o Append(b, m) = Append(a \o b, m)
<1>1. a \o b \in Seq(Message) BY ConcatProperties
<1>2. /\ Append(b, m) = b \o <<m>> /\ Append(a \o b, m) = (a \o b) \o <<m>>
      /\ <<m>> \in Seq(Message)
  BY <1>1, AppendIsConcat
<1>3. a \o (b \o <<m>>) = (a \o b) \o <<m>> BY <1>2, ConcatAssociative
<1> QED BY <1>2, <1>3

(* Nobody is sent what nobody has read. *)
LEMMA ToIs ==
    ASSUME Streams, Sessions, NEW q \in Socket, NEW s \in Session,
           session[s].reader # "publishing" \/ sock[q].of # s \/ ~Shows(q)
    PROVE  q \notin session[s].to
BY DEF Streams, StreamSound

LEMMA ReadOutputSound ==
    ASSUME Streams, Sessions, NEW s \in Session, ReadOutput(s)
    PROVE  Streams'
<1>1. /\ session' = [session EXCEPT ![s].reader = "publishing", ![s].to = Attached(s),
                                    ![s].produced = @ + 1]
      /\ UNCHANGED <<sock, ready, used>> /\ session[s].reader = "reading"
  BY DEF ReadOutput, historyVars
<1>2. \A t \in Session : t # s => session'[t] = session[t] BY <1>1 DEF Sessions
<1>3. /\ session'[s].reader = "publishing" /\ session'[s].to = Attached(s)
      /\ session'[s].produced = session[s].produced + 1
  BY <1>1 DEF Sessions, SessionState
<1>4. ASSUME NEW q \in Socket PROVE StreamSound(q)'
  <2>1. q \notin session[s].to BY <1>1, ToIs
  <2>2. CASE q \in Attached(s)
    <3>1. sock[q].of = s /\ Shows(q) BY <2>2 DEF Attached, Shows
    <3>2. \A t \in Session : q \in session'[t].to => t = s BY <1>2, <3>1, ToIs
    <3>3. /\ sock[q].queue \in Seq(Message) /\ ready[q] \in Seq(Message) /\ sock[q].shown \in Nat
          /\ session[s].produced \in Nat
      BY <3>1, StreamTyped
    <3> DEFINE line == sock[q].queue \o ready[q]
    <3>4. InFlight(q) = line BY <2>1, <3>1, <3>3, JoinIs DEF InFlight
    <3>5. InFlight(q)' = Append(line, session[s].produced + 1)
      <4>1. session[s].produced + 1 \in Nat BY <3>3
      <4>2. InFlight(q)' = line \o <<session[s].produced + 1>>
        BY <1>1, <1>3, <2>2, <3>1 DEF InFlight
      <4> QED BY <3>3, <4>1, <4>2, JoinIs
    <3>6. line \in Seq(Message) BY <3>3, JoinIs
    <3> HIDE DEF line
    <3>7. /\ sock[q].shown <= session[s].produced
          /\ sock[q].queue = <<Overflow>> \/ Continues(line, sock[q].shown, session[s].produced)
      BY <3>1, <3>4 DEF Streams, StreamSound
    <3>8. \/ sock[q].queue = <<Overflow>>
          \/ Continues(Append(line, session[s].produced + 1), sock[q].shown, session[s].produced + 1)
      BY <3>3, <3>6, <3>7, AddNext
    <3>9. sock[q].shown <= session[s].produced + 1 BY <3>3, <3>7
    <3>10. Shows(q)' BY <1>1, <3>1 DEF Shows
    <3>11. sock[q].of \in used \cap Session BY <3>1 DEF Streams, StreamSound, Shows
    <3> QED BY <1>1, <1>3, <3>1, <3>2, <3>5, <3>8, <3>9, <3>10, <3>11 DEF StreamSound
  <2>3. CASE q \notin Attached(s)
    <3>1. Shows(q) => sock[q].of # s BY <2>3 DEF Attached, Shows
    <3>2. \A t \in Session : q \in session'[t].to <=> q \in session[t].to
      BY <1>2, <1>3, <2>1, <2>3
    <3>3. \A t \in Session : q \in session[t].to => session'[t].reader = "publishing"
      BY <1>2, <1>3 DEF Streams, StreamSound
    <3>4. Shows(q) => session'[sock[q].of].produced = session[sock[q].of].produced
      BY <1>2, <3>1, StreamTyped
    <3> QED BY <1>1, <3>2, <3>3, <3>4, SocketStays
  <2> QED BY <2>2, <2>3
<1> QED BY <1>1, <1>4 DEF Streams

LEMMA DispatchedTyped ==
    ASSUME Streams, NEW qs, NEW m \in Message
    PROVE  /\ Dispatched(qs, m) \in [Socket -> Seq(Message)]
           /\ \A q \in Socket :
                 Dispatched(qs, m)[q] = IF q \in qs THEN Append(ready[q], m) ELSE ready[q]
<1>1. \A q \in Socket : ready[q] \in Seq(Message) /\ Append(ready[q], m) \in Seq(Message)
  BY AppendProperties DEF Streams
<1> QED BY <1>1 DEF Dispatched

LEMMA DispatchOutputSound ==
    ASSUME Streams, Sessions, NEW s \in Session, DispatchOutput(s)
    PROVE  Streams'
<1>1. /\ session' = [session EXCEPT ![s].reader = "reading", ![s].to = {}]
      /\ ready' = Dispatched(session[s].to, session[s].produced)
      /\ UNCHANGED <<sock, used>>
  BY DEF DispatchOutput, historyVars
<1>2. /\ \A t \in Session : t # s => session'[t] = session[t]
      /\ session'[s].to = {} /\ session'[s].produced = session[s].produced
  BY <1>1 DEF Sessions, SessionState
<1>3. session[s].produced \in Nat /\ session[s].produced \in Message
  BY DEF Sessions, SessionState, Message
<1>4. /\ ready' \in [Socket -> Seq(Message)]
      /\ \A q \in Socket : ready'[q] = IF q \in session[s].to
                                       THEN Append(ready[q], session[s].produced) ELSE ready[q]
  BY <1>1, <1>3, DispatchedTyped
<1>5. ASSUME NEW q \in Socket PROVE StreamSound(q)'
  <2>1. CASE q \in session[s].to
    <3>1. sock[q].of = s /\ Shows(q) BY <2>1, ToIs
    <3>2. \A t \in Session : q \notin session'[t].to BY <1>2, <3>1, ToIs
    <3>3. sock[q].queue \in Seq(Message) /\ ready[q] \in Seq(Message)
      BY StreamTyped
    <3>4. InFlight(q) = Append(sock[q].queue \o ready[q], session[s].produced)
      BY <1>3, <2>1, <3>1, <3>3, JoinIs DEF InFlight
    <3>5. InFlight(q)' = sock[q].queue \o Append(ready[q], session[s].produced)
      <4>1. Append(ready[q], session[s].produced) \in Seq(Message)
        BY <1>3, <3>3, AppendProperties
      <4>2. InFlight(q)' = sock[q].queue \o Append(ready[q], session[s].produced) \o <<>>
        BY <1>1, <1>4, <2>1, <3>1, <3>2 DEF InFlight
      <4> QED BY <3>3, <4>1, <4>2, JoinIs
    <3>6. InFlight(q)' = InFlight(q)
      BY <1>3, <3>3, <3>4, <3>5, AppendLast
    <3>7. Shows(q)' BY <1>1, <3>1 DEF Shows
    <3>8. StreamSound(q) BY DEF Streams
    <3> QED BY <1>1, <1>2, <3>1, <3>2, <3>6, <3>7, <3>8 DEF StreamSound
  <2>2. CASE q \notin session[s].to
    <3>1. \A t \in Session : q \in session'[t].to <=> q \in session[t].to BY <1>2, <2>2
    <3>2. \A t \in Session : q \in session[t].to => session'[t].reader = "publishing"
      BY <1>2, <2>2 DEF Streams, StreamSound
    <3>3. Shows(q) => session'[sock[q].of].produced = session[sock[q].of].produced
      BY <1>2, StreamTyped
    <3> QED BY <1>1, <1>4, <2>2, <3>1, <3>2, <3>3, SocketStays
  <2> QED BY <2>1, <2>2
<1> QED BY <1>1, <1>4, <1>5 DEF Streams

LEMMA FanOutSound ==
    ASSUME Streams, Sessions, NEW s \in Session, FanOutAndKill(s)
    PROVE  Streams'
<1>1. /\ session' = [session EXCEPT ![s].term = "killed", ![s].alive = FALSE]
      /\ ready' = Dispatched(Attached(s), Exit)
      /\ UNCHANGED <<sock, used>>
  BY DEF FanOutAndKill, historyVars
<1>2. \A t \in Session : /\ session'[t].to = session[t].to
                         /\ session'[t].produced = session[t].produced
                         /\ session'[t].reader = session[t].reader
  BY <1>1 DEF Sessions, SessionState
<1>3. Exit \in Message BY DEF Exit, Message
<1>4. /\ ready' \in [Socket -> Seq(Message)]
      /\ \A q \in Socket : ready'[q] = IF q \in Attached(s) THEN Append(ready[q], Exit) ELSE ready[q]
  BY <1>1, <1>3, DispatchedTyped
<1>5. ASSUME NEW q \in Socket PROVE StreamSound(q)'
  <2>0. \A t \in Session : q \in session[t].to => session[t].reader = "publishing"
    BY DEF Streams, StreamSound
  <2>1. CASE q \in Attached(s)
    <3>1. sock[q].of = s /\ Shows(q) BY <2>1 DEF Attached, Shows
    <3>2. /\ sock[q].queue \in Seq(Message) /\ ready[q] \in Seq(Message) /\ sock[q].shown \in Nat
          /\ session[s].produced \in Nat
      BY <3>1, StreamTyped
    <3> DEFINE a == sock[q].queue \o ready[q]
               b == IF q \in session[s].to THEN <<session[s].produced>> ELSE <<>>
    <3>3. InFlight(q) = a \o b BY <3>1 DEF InFlight
    <3>4. InFlight(q)' = Append(a, Exit) \o b
      <4>1. InFlight(q)' = (sock[q].queue \o Append(ready[q], Exit)) \o b
        <5>1. sock'[q] = sock[q] /\ ready'[q] = Append(ready[q], Exit) BY <1>1, <1>4, <2>1
        <5>2. session'[s].to = session[s].to /\ session'[s].produced = session[s].produced
          BY <1>2
        <5>3. InFlight(q)' = sock[q].queue \o Append(ready[q], Exit)
                 \o (IF q \in session'[s].to THEN <<session'[s].produced>> ELSE <<>>)
          BY <3>1, <5>1 DEF InFlight
        <5> QED BY <5>2, <5>3
      <4>2. sock[q].queue \o Append(ready[q], Exit) = Append(a, Exit)
        BY <1>3, <3>2, AppendLast
      <4> QED BY <4>1, <4>2
    <3>5. a \in Seq(Message) /\ b \in Seq(Message)
      <4>1. session[s].produced \in Message BY <3>2 DEF Message
      <4> QED BY <3>2, <4>1, JoinIs
    <3> HIDE DEF a, b
    <3>6. StreamSound(q) BY DEF Streams
    <3>7. sock[q].queue = <<Overflow>> \/ Continues(a \o b, sock[q].shown, session[s].produced)
      BY <3>1, <3>3, <3>6 DEF StreamSound
    <3>8. \/ sock[q].queue = <<Overflow>>
          \/ Continues(Append(a, Exit) \o b, sock[q].shown, session[s].produced)
      BY <3>2, <3>5, <3>7, AddExit
    <3>9. Shows(q)' BY <1>1, <3>1 DEF Shows
    <3> QED BY <1>1, <1>2, <3>1, <3>4, <3>6, <3>8, <3>9 DEF StreamSound
  <2>2. CASE q \notin Attached(s)
    <3>1. Shows(q) => sock[q].of \in Session BY StreamTyped
    <3> QED BY <1>1, <1>2, <1>4, <2>0, <2>2, <3>1, SocketStays
  <2> QED BY <2>1, <2>2
<1> QED BY <1>1, <1>4, <1>5 DEF Streams

(* A step of one socket: the others stay. *)
LEMMA OneSocket ==
    ASSUME Streams, Sessions, UNCHANGED <<session, used>>, NEW q \in Socket,
           NEW x \in SocketState, sock' = [sock EXCEPT ![q] = x],
           NEW y \in Seq(Message), ready' = [ready EXCEPT ![q] = y],
           StreamSound(q)'
    PROVE  Streams'
<1>1. sock' \in [Socket -> SocketState] /\ ready' \in [Socket -> Seq(Message)] BY DEF Streams
<1>2. ASSUME NEW p \in Socket PROVE StreamSound(p)'
  <2>1. CASE p = q BY <2>1
  <2>2. CASE p # q
    <3>1. sock'[p] = sock[p] /\ ready'[p] = ready[p] BY <2>2 DEF Streams
    <3>2. \A s \in Session : p \in session[s].to => session[s].reader = "publishing"
      BY DEF Streams, StreamSound
    <3>3. Shows(p) => sock[p].of \in Session BY StreamTyped
    <3> QED BY <3>1, <3>2, <3>3, SocketStays
  <2> QED BY <2>1, <2>2
<1> QED BY <1>1, <1>2 DEF Streams

LEMMA LeaveSound ==
    ASSUME Streams, Sessions, NEW q \in Socket, Leave(q), UNCHANGED used
    PROVE  Streams'
<1>0. Off \in SocketState /\ <<>> \in Seq(Message) /\ Off.queue = <<>> /\ Off.stage = "off"
  BY DEF Off, SocketState
<1>1. /\ sock' = [sock EXCEPT ![q] = Off] /\ ready' = [ready EXCEPT ![q] = <<>>]
      /\ session' = [s \in Session |-> [session[s] EXCEPT !.to = @ \ {q}]]
  BY DEF Leave
<1>2. sock' \in [Socket -> SocketState] /\ ready' \in [Socket -> Seq(Message)]
  BY <1>0, <1>1 DEF Streams
<1>3. \A s \in Session : /\ session'[s].to = session[s].to \ {q}
                         /\ session'[s].produced = session[s].produced
                         /\ session'[s].reader = session[s].reader
  BY <1>1 DEF Sessions, SessionState
<1>4. ASSUME NEW p \in Socket PROVE StreamSound(p)'
  <2>1. CASE p = q
    <3>1. sock'[p] = Off /\ ready'[p] = <<>> BY <1>1, <2>1 DEF Streams
    <3>2. ~Shows(p)' BY <1>0, <3>1 DEF Shows
    <3> QED BY <1>0, <1>3, <2>1, <3>1, <3>2 DEF StreamSound
  <2>2. CASE p # q
    <3>1. sock'[p] = sock[p] /\ ready'[p] = ready[p] BY <1>1, <2>2 DEF Streams
    <3>2. \A s \in Session : p \in session[s].to => session[s].reader = "publishing"
      BY DEF Streams, StreamSound
    <3>3. Shows(p) => sock[p].of \in Session BY StreamTyped
    <3>4. \A s \in Session : p \in session'[s].to <=> p \in session[s].to BY <1>3, <2>2
    <3> QED BY <1>3, <3>1, <3>2, <3>3, <3>4, SocketStays
  <2> QED BY <2>1, <2>2
<1> QED BY <1>2, <1>4 DEF Streams

LEMMA LoopPutSound ==
    ASSUME Streams, Sessions, NEW q \in Socket, LoopPut(q)
    PROVE  Streams'
<1> DEFINE queue == sock[q].queue
           m == Head(ready[q])
           new == Queued(queue, m)
           x == [sock[q] EXCEPT !.queue = new]
           s == sock[q].of
           b == IF q \in session[s].to THEN <<session[s].produced>> ELSE <<>>
<1>0. /\ ready[q] # <<>> /\ ready' = [ready EXCEPT ![q] = Tail(ready[q])]
      /\ sock' = [sock EXCEPT ![q].queue = Queued(@, m)]
      /\ UNCHANGED <<session, used>>
  BY DEF LoopPut, historyVars
<1>1. Shows(q) BY <1>0 DEF Streams, StreamSound
<1>2. /\ sock[q] \in SocketState /\ sock[q].shown \in Nat
      /\ queue \in Seq(Message) /\ ready[q] \in Seq(Message)
      /\ s \in Session /\ session[s].produced \in Nat
  BY <1>1, StreamTyped
<1>3. m \in Message /\ Tail(ready[q]) \in Seq(Message) BY <1>0, <1>2, HeadTailProperties
<1>4. new \in Seq(Message)
  <2>1. <<Overflow>> \in Seq(Message) BY DEF Message
  <2>2. Append(queue, m) \in Seq(Message) BY <1>2, <1>3, AppendProperties
  <2> QED BY <1>2, <2>1, <2>2 DEF Queued
<1>5. sock' = [sock EXCEPT ![q] = x] BY <1>0 DEF Streams
<1>6. x \in SocketState BY <1>2, <1>4 DEF SocketState
<1>7. /\ x.stage = sock[q].stage /\ x.of = s /\ x.shown = sock[q].shown /\ x.queue = new
  BY <1>2 DEF SocketState
<1>8. sock'[q] = x /\ ready'[q] = Tail(ready[q]) BY <1>0, <1>5 DEF Streams
<1> HIDE DEF x
<1>9. StreamSound(q) BY DEF Streams
<1> HIDE DEF new
<1>10. /\ InFlight(q) = queue \o ready[q] \o b
       /\ InFlight(q)' = new \o Tail(ready[q]) \o b
  <2>1. sock'[q].queue = new /\ sock'[q].of = s BY <1>7, <1>8
  <2>2. session' = session BY <1>0
  <2> QED BY <1>8, <2>1, <2>2 DEF InFlight
<1> HIDE DEF b
<1>11. new = <<Overflow>> \/ Continues(InFlight(q)', sock[q].shown, session[s].produced)
  <2>1. CASE queue = <<Overflow>> BY <2>1 DEF new, Queued
  <2>2. CASE queue # <<Overflow>> /\ Len(queue) < QueueSize
    <3>1. new = Append(queue, m) BY <2>2 DEF new, Queued
    <3>2. new \o Tail(ready[q]) = queue \o ready[q] BY <1>0, <1>2, <3>1, Moved
    <3>3. InFlight(q)' = InFlight(q) BY <1>10, <3>2
    <3>4. Continues(InFlight(q), sock[q].shown, session[s].produced)
      BY <1>1, <1>9, <2>2 DEF StreamSound
    <3> QED BY <3>3, <3>4
  <2>3. CASE queue # <<Overflow>> /\ ~(Len(queue) < QueueSize) BY <2>3 DEF new, Queued
  <2> QED BY <2>1, <2>2, <2>3
<1>12. StreamSound(q)'
  <2>1. Shows(q)' BY <1>1, <1>7, <1>8 DEF Shows
  <2>2. sock'[q].of = s /\ sock'[q].shown = sock[q].shown /\ sock'[q].queue = new
        /\ sock'[q].stage = sock[q].stage
    BY <1>7, <1>8
  <2> QED BY <1>0, <1>1, <1>9, <1>11, <2>1, <2>2 DEF StreamSound
<1> QED BY <1>0, <1>3, <1>5, <1>6, <1>12, OneSocket

(* What is replayed ends with the newest output: nothing is on its way. *)
LEMMA AttachSound ==
    ASSUME Streams, Sessions, NEW q \in Socket, Attach(q)
    PROVE  Streams'
<1> DEFINE s == sock[q].of
           x == [sock[q] EXCEPT !.stage = "replaying", !.shown = session[s].produced,
                                !.exited = session[s].exited]
<1>0. /\ sock[q].stage = "opening"
      /\ sock' = [sock EXCEPT ![q].stage = "replaying", ![q].shown = session[sock[q].of].produced,
                              ![q].exited = session[sock[q].of].exited]
      /\ UNCHANGED <<session, used, ready>>
  BY DEF Attach, historyVars
<1>1. ~Shows(q) /\ StreamSound(q) BY <1>0 DEF Shows, Streams
<1>2. /\ sock[q].queue = <<>> /\ ready[q] = <<>> /\ s \in Session /\ s \in used
      /\ \A t \in Session : q \notin session[t].to
  BY <1>0, <1>1 DEF StreamSound
<1>3. session[s].produced \in Nat /\ session[s].exited \in BOOLEAN
  BY <1>2 DEF Sessions, SessionState
<1>4. x \in SocketState BY <1>3 DEF Streams, SocketState
<1>5. /\ x.stage = "replaying" /\ x.of = s /\ x.shown = session[s].produced /\ x.queue = <<>>
  BY <1>2 DEF Streams, SocketState
<1>6. sock' = [sock EXCEPT ![q] = x] /\ ready' = [ready EXCEPT ![q] = <<>>]
  BY <1>0, <1>2 DEF Streams
<1>7. sock'[q] = x /\ ready'[q] = <<>> BY <1>6 DEF Streams
<1> HIDE DEF x
<1>8. <<>> \in Seq(Message) /\ <<>> \o <<>> \o <<>> = <<>> OBVIOUS
<1>9. InFlight(q)' = <<>> BY <1>0, <1>2, <1>5, <1>7, <1>8 DEF InFlight
<1>10. Continues(<<>>, session[s].produced, session[s].produced)
  <2>1. (session[s].produced + 1)..session[s].produced = {} BY <1>3
  <2> QED BY <2>1 DEF Continues
<1>11. StreamSound(q)'
  <2>1. sock'[q].stage = "replaying" /\ sock'[q].of = s BY <1>5, <1>7
  <2>2. sock'[q].shown = session'[s].produced /\ session'[s].produced <= session'[s].produced
    BY <1>0, <1>3, <1>5, <1>7
  <2>3. Continues(InFlight(q)', sock'[q].shown, session'[s].produced) BY <1>0, <1>9, <1>10, <2>2
  <2>4. \A t \in Session : q \notin session'[t].to BY <1>0, <1>2
  <2>5. s \in used' \cap Session BY <1>0, <1>2
  <2> HIDE DEF s
  <2> QED BY <2>1, <2>2, <2>3, <2>4, <2>5 DEF StreamSound, Shows
<1> QED BY <1>0, <1>4, <1>6, <1>8, <1>11, OneSocket

LEMMA Regrouped ==
    ASSUME NEW a \in Seq(Message), NEW b \in Seq(Message), NEW c \in Seq(Message)
    PROVE  a \o b \o c = a \o (b \o c)
BY ConcatAssociative

(* One output is shown. *)
LEMMA ShowSound ==
    ASSUME Streams, Sessions, NEW q \in Socket, sock[q].stage = "on", sock[q].queue # <<>>,
           Head(sock[q].queue) \notin {Exit, Overflow}, UNCHANGED <<session, ready, used>>,
           sock' = [sock EXCEPT ![q].queue = Tail(@), ![q].shown = Head(sock[q].queue)]
    PROVE  Streams'
<1> DEFINE queue == sock[q].queue
           m == Head(queue)
           s == sock[q].of
           x == [sock[q] EXCEPT !.queue = Tail(queue), !.shown = m]
           b == IF q \in session[s].to THEN <<session[s].produced>> ELSE <<>>
<1>1. Shows(q) /\ StreamSound(q) BY DEF Shows, Streams
<1>2. /\ sock[q] \in SocketState /\ sock[q].shown \in Nat
      /\ queue \in Seq(Message) /\ ready[q] \in Seq(Message)
      /\ s \in Session /\ session[s].produced \in Nat
  BY <1>1, StreamTyped
<1>3. m \in Message /\ m = queue[1] /\ Tail(queue) \in Seq(Message)
  BY <1>2, HeadTailProperties
<1>4. m \in Nat /\ m # Exit /\ queue # <<Overflow>>
  <2>1. m \in Nat /\ m # Exit BY <1>3 DEF Message
  <2>2. <<Overflow>>[1] = Overflow OBVIOUS
  <2>3. queue # <<Overflow>> BY <1>3, <2>2
  <2> QED BY <2>1, <2>3
<1>5. /\ sock[q].queue \o ready[q] \o b = queue \o (ready[q] \o b)
      /\ Tail(queue) \o ready[q] \o b = Tail(queue) \o (ready[q] \o b)
      /\ ready[q] \o b \in Seq(Message)
  <2>1. b \in Seq(Message)
    <3>1. session[s].produced \in Message BY <1>2 DEF Message
    <3> QED BY <3>1
  <2> HIDE DEF b
  <2>2. sock[q].queue \o ready[q] \o b = queue \o (ready[q] \o b)
    BY <1>2, <2>1, Regrouped
  <2>3. Tail(queue) \o ready[q] \o b = Tail(queue) \o (ready[q] \o b)
    BY <1>2, <1>3, <2>1, Regrouped
  <2>4. ready[q] \o b \in Seq(Message) BY <1>2, <2>1, ConcatProperties
  <2> QED BY <2>2, <2>3, <2>4
<1>6. Continues(queue \o (ready[q] \o b), sock[q].shown, session[s].produced)
  <2>1. InFlight(q) = queue \o ready[q] \o b BY DEF InFlight
  <2>2. Continues(InFlight(q), sock[q].shown, session[s].produced)
    BY <1>1, <1>4 DEF StreamSound
  <2> QED BY <1>5, <2>1, <2>2
<1>7. x \in SocketState BY <1>2, <1>3, <1>4 DEF SocketState
<1>8. x.stage = "on" /\ x.of = s /\ x.shown = m /\ x.queue = Tail(queue)
  BY <1>2 DEF SocketState
<1>9. sock' = [sock EXCEPT ![q] = x] /\ ready' = [ready EXCEPT ![q] = ready[q]]
  BY DEF Streams
<1>10. sock'[q] = x /\ ready'[q] = ready[q] BY <1>9 DEF Streams
<1> HIDE DEF x
<1>11. InFlight(q)' = Tail(queue) \o ready[q] \o b
  <2>1. sock'[q].queue = Tail(queue) /\ sock'[q].of = s BY <1>8, <1>10
  <2>2. session' = session /\ ready'[q] = ready[q] BY <1>10
  <2>3. InFlight(q)' = sock'[q].queue \o ready'[q]
           \o (IF q \in session'[sock'[q].of].to
               THEN <<session'[sock'[q].of].produced>> ELSE <<>>)
    BY DEF InFlight
  <2> HIDE DEF queue, s
  <2>4. InFlight(q)' = Tail(queue) \o ready[q]
           \o (IF q \in session[s].to THEN <<session[s].produced>> ELSE <<>>)
    BY <2>1, <2>2, <2>3
  <2> QED BY <2>4 DEF b
<1> HIDE DEF b
<1>12. /\ m \in (sock[q].shown + 1)..session[s].produced
       /\ Continues(Tail(queue) \o (ready[q] \o b), m, session[s].produced)
  BY <1>2, <1>4, <1>5, <1>6, ShowFirst
<1>13. m <= session[s].produced BY <1>2, <1>12
<1> HIDE DEF m, queue
<1>14. StreamSound(q)'
  <2>1. Shows(q)' BY <1>8, <1>10 DEF Shows
  <2>2. Continues(InFlight(q)', m, session[s].produced) BY <1>5, <1>11, <1>12
  <2> QED BY <1>1, <1>8, <1>10, <1>13, <2>1, <2>2 DEF StreamSound
<1> QED BY <1>2, <1>7, <1>9, <1>14, OneSocket

LEMMA OpenSocketSound ==
    ASSUME Streams, Sessions, NEW q \in Socket, NEW s \in Session, OpenSocket(q, s)
    PROVE  Streams'
<1> DEFINE x == [Off EXCEPT !.stage = "opening", !.of = s]
<1>0. /\ sock[q].stage = "off" /\ s \in registry /\ sock' = [sock EXCEPT ![q] = x]
      /\ UNCHANGED <<session, used, ready>>
  BY DEF OpenSocket, historyVars
<1>1. s \in used BY <1>0 DEF Sessions, PlaceSound
<1>2. ~Shows(q) /\ StreamSound(q) BY <1>0 DEF Shows, Streams
<1>3. /\ x \in SocketState /\ x.stage = "opening" /\ x.of = s /\ x.queue = <<>>
  <2>1. Off \in SocketState /\ Off.queue = <<>> BY DEF Off, SocketState
  <2> QED BY <2>1 DEF SocketState
<1>4. ready' = [ready EXCEPT ![q] = <<>>] /\ sock'[q] = x /\ ready'[q] = <<>>
  BY <1>0, <1>2 DEF Streams, StreamSound
<1> HIDE DEF x
<1>5. StreamSound(q)' BY <1>0, <1>1, <1>2, <1>3, <1>4 DEF StreamSound, Shows
<1>6. <<>> \in Seq(Message) OBVIOUS
<1> QED BY <1>0, <1>3, <1>4, <1>5, <1>6, OneSocket

(* Nothing of the streams changes. *)
LEMMA StreamsStay ==
    ASSUME Streams, Sessions, UNCHANGED <<session, sock, ready, used>>
    PROVE  Streams'
<1>1. ASSUME NEW q \in Socket PROVE StreamSound(q)'
  <2>1. \A s \in Session : q \in session[s].to => session[s].reader = "publishing"
    BY DEF Streams, StreamSound
  <2> QED BY <2>1, SocketStays
<1> QED BY <1>1 DEF Streams

LEMMA CreateStreams ==
    ASSUME Streams, Sessions, NEW s \in Session, NEW d \in Descriptor, Create(s, d)
    PROVE  Streams'
<1> DEFINE r == [NewSession EXCEPT !.creator = "inserted", !.fd = d, !.alive = TRUE]
<1>1. /\ session' = [session EXCEPT ![s] = r] /\ s \notin used /\ used \subseteq used'
      /\ UNCHANGED <<sock, ready>>
  BY DEF Create
<1>2. session[s] = NewSession BY <1>1 DEF Sessions, PlaceSound
<1>3. r.to = NewSession.to /\ r.produced = NewSession.produced /\ NewSession.reader = "none"
  BY DEF NewSession
<1> HIDE DEF r
<1>4. /\ r.to = session[s].to /\ r.produced = session[s].produced
      /\ session[s].reader # "publishing"
  BY <1>2, <1>3
<1> QED BY <1>1, <1>4, QuietChange

LEMMA EmptyStreams == ASSUME TerminalsDie PROVE Streams'
<1>1. /\ sock' = [q \in Socket |-> Off] /\ ready' = [q \in Socket |-> <<>>]
      /\ session' = [s \in Session |-> NewSession]
  BY DEF TerminalsDie, TerminalEmpty
<1>2. Off \in SocketState /\ <<>> \in Seq(Message) /\ Off.queue = <<>> /\ Off.stage = "off"
  BY DEF Off, SocketState
<1>3. NewSession.to = {} BY DEF NewSession
<1> QED BY <1>1, <1>2, <1>3 DEF Streams, StreamSound, Shows

LEMMA InitStreams == ASSUME Init PROVE Streams
<1>1. /\ sock = [q \in Socket |-> Off] /\ ready = [q \in Socket |-> <<>>]
      /\ session = [s \in Session |-> NewSession]
  BY DEF Init, TerminalInit
<1>2. Off \in SocketState /\ <<>> \in Seq(Message) /\ Off.queue = <<>> /\ Off.stage = "off"
  BY DEF Off, SocketState
<1>3. NewSession.to = {} BY DEF NewSession
<1> QED BY <1>1, <1>2, <1>3 DEF Streams, StreamSound, Shows

LEMMA ServingStreams ==
    ASSUME Streams, Sessions, NEW q \in Socket, Serving(q)
    PROVE  Streams'
<1>1. CASE Attach(q) BY <1>1, AttachSound
<1>2. CASE SendReplay(q)
  <2>1. UNCHANGED used BY <1>2 DEF SendReplay, historyVars
  <2>2. CASE Leave(q) BY <2>1, <2>2, LeaveSound
  <2>3. CASE sock' = [sock EXCEPT ![q].stage = "on"] /\ UNCHANGED <<session, ready>>
    <3> DEFINE x == [sock[q] EXCEPT !.stage = "on"]
    <3>1. sock[q].stage = "replaying" /\ Shows(q) /\ StreamSound(q)
      BY <1>2 DEF SendReplay, Shows, Streams
    <3>2. x \in SocketState /\ x.stage = "on" /\ x.of = sock[q].of /\ x.shown = sock[q].shown
          /\ x.queue = sock[q].queue
      BY DEF Streams, SocketState
    <3>3. /\ sock' = [sock EXCEPT ![q] = x] /\ ready' = [ready EXCEPT ![q] = ready[q]]
          /\ ready[q] \in Seq(Message)
      BY <2>3 DEF Streams
    <3>4. sock'[q] = x /\ ready'[q] = ready[q] BY <3>3 DEF Streams
    <3> HIDE DEF x
    <3>5. InFlight(q)' = InFlight(q)
      <4>1. sock'[q].queue = sock[q].queue /\ sock'[q].of = sock[q].of BY <3>2, <3>4
      <4>2. session' = session /\ ready'[q] = ready[q] BY <2>3
      <4> QED BY <4>1, <4>2 DEF InFlight
    <3>6. Shows(q)' BY <3>2, <3>4 DEF Shows
    <3>7. StreamSound(q)' BY <2>1, <2>3, <3>1, <3>2, <3>4, <3>5, <3>6 DEF StreamSound
    <3> QED BY <2>1, <2>3, <3>2, <3>3, <3>7, OneSocket
  <2> QED BY <1>2, <2>2, <2>3 DEF SendReplay
<1>3. CASE SendMessage(q)
  <2>1. UNCHANGED used BY <1>3 DEF SendMessage, historyVars
  <2>2. CASE Leave(q) BY <2>1, <2>2, LeaveSound
  <2>3. CASE ~Leave(q)
    <3>1. /\ sock[q].stage = "on" /\ sock[q].queue # <<>>
          /\ Head(sock[q].queue) \notin {Exit, Overflow} /\ UNCHANGED <<session, ready>>
          /\ sock' = [sock EXCEPT ![q].queue = Tail(@), ![q].shown = Head(sock[q].queue)]
      BY <1>3, <2>3 DEF SendMessage
    <3> QED BY <2>1, <3>1, ShowSound
  <2> QED BY <2>2, <2>3
<1> QED BY <1>1, <1>2, <1>3 DEF Serving

LEMMA StreamsSound ==
    ASSUME scope \in Scopes, Sessions, Streams, [Next]_hostVars
    PROVE  Streams'
<1>1. CASE \E s \in Session : SessionChange(s)
  <2> PICK s \in Session : SessionChange(s) BY <1>1
  <2>1. CASE \E d \in Descriptor : Create(s, d) BY <2>1, CreateStreams
  <2>2. CASE AcknowledgePrior(s) BY <2>2, StreamsStay DEF AcknowledgePrior
  <2>3. CASE ReadOutput(s) BY <2>3, ReadOutputSound
  <2>4. CASE DispatchOutput(s) BY <2>4, DispatchOutputSound
  <2>5. CASE FanOutAndKill(s) BY <2>5, FanOutSound
  <2>6. CASE \/ AgentExits(s) \/ Creation(s) \/ ReadEnds(s) \/ ReaderCloses(s)
             \/ ReaderFinishes(s) \/ Claim(s, "other") \/ Claim(s, "reader") \/ MarkExited(s)
             \/ JoinReader(s) \/ RemoveRecord(s) \/ ReportExit(s) \/ FinishAfterExit(s)
    <3>1. UNCHANGED <<sock, ready, used>> BY <2>6, QuietRecord
    <3>2. PICK r : /\ session' = [session EXCEPT ![s] = r]
                   /\ r.to = session[s].to /\ r.produced = session[s].produced
                   /\ (session[s].reader = "publishing" => r.reader = "publishing")
      BY <2>6, QuietRecord
    <3> QED BY <3>1, <3>2, QuietChange
  <2> QED BY <2>1, <2>2, <2>3, <2>4, <2>5, <2>6 DEF SessionChange, Reading, Teardown
<1>2. CASE SocketChange
  <2> PICK q \in Socket : LoopPut(q) \/ Disconnect(q) \/ Serving(q)
                          \/ \E s \in Session : OpenSocket(q, s)
    BY <1>2 DEF SocketChange
  <2>1. CASE LoopPut(q) BY <2>1, LoopPutSound
  <2>2. CASE Disconnect(q) BY <2>2, LeaveSound DEF Disconnect, historyVars
  <2>3. CASE Serving(q) BY <2>3, ServingStreams
  <2>4. CASE \E s \in Session : OpenSocket(q, s) BY <2>4, OpenSocketSound
  <2> QED BY <2>1, <2>2, <2>3, <2>4
<1>3. CASE PersisterChange
  BY <1>3, StreamsStay DEF PersisterChange, Refresh, SkipExited, Measure, Upsert, ListLive, historyVars
<1>4. CASE TerminalsDie BY <1>4, EmptyStreams
<1>5. CASE LoadPrior BY <1>5, StreamsStay DEF LoadPrior, historyVars
<1>6. CASE UNCHANGED terminalVars
  BY <1>6, StreamsStay DEF terminalVars, memoryVars
<1> QED BY <1>1, <1>2, <1>3, <1>4, <1>5, <1>6, StepOfTerminals DEF TerminalChange

LEMMA StreamInvariant == Spec => [](scope \in Scopes /\ Sessions /\ Streams)
<1> DEFINE I == scope \in Scopes /\ Sessions /\ Streams
<1>1. Init => I BY SessionsInitially, InitStreams
<1>2. I /\ [Next]_hostVars => I'
  <2>1. ASSUME I, [Next]_hostVars PROVE I'
    BY <2>1, SessionsSound, StreamsSound, StepOfTerminals
  <2> QED BY <2>1
<1> QED BY <1>1, <1>2, PTL DEF Spec

(* A terminal shows each output once and in order, or is told to reconnect,*)
(* for any number of sessions, sockets and outputs and any size of queue:  *)
(* what is on its way to it, in its queue, in the loop and in the reader's *)
(* hands, continues what it has shown.                                     *)
THEOREM OutputsInOrder == Spec => []NoGapNoRepeat
<1>1. Streams => NoGapNoRepeat BY DEF Streams, StreamSound, Shows, NoGapNoRepeat
<1> QED BY <1>1, StreamInvariant, PTL

-----------------------------------------------------------------------------
(***************************************************************************)
(* Which sessions a server that has started shows as ended by the restart. *)
(* These facts too are about one session at a time: what the registry      *)
(* knows of it, what the journal says, and who is about to write to it.    *)
(***************************************************************************)
Entry == {"absent", "live", "exited"}
Errand == [at : {"asleep", "listed", "checked", "measured"},
           of : Session \cup {NoSession}, snap : {"live", "exited"}]

Typed ==
    /\ registry \subseteq Session /\ owed \subseteq Session /\ ghosts \subseteq Session
    /\ journal \in [Session -> Entry]
    /\ persister \in [Persister -> Errand]
    /\ \A p \in Persister : persister[p].at # "asleep" => persister[p].of \in Session

(* A session in the registry is written to the journal as live, by anybody. *)
Registered(s) ==
    s \in registry =>
        /\ serving
        /\ Recorded(s) => journal[s] = "live"
        /\ session[s].creator = "measured" => session[s].snap = "live"
        /\ \A p \in Persister :
              persister[p].of = s /\ persister[p].at = "measured" => persister[p].snap = "live"

(* Ids are used once: none that is known comes back to the registry, and a *)
(* ghost is not a session of this server.                                  *)
Known(s) ==
    /\ ~serving => session[s].term = "no"
    /\ s \in ghosts => s \in used /\ s \notin registry /\ session[s].term = "no"
    /\ journal[s] # "absent" => s \in used
    /\ \A p \in Persister : persister[p].of = s /\ persister[p].at # "asleep" => s \in used

(* Nobody writes a settled session to the journal as live any more.        *)
Settled(s) ==
    s \in settled =>
        /\ s \in used /\ s \notin registry /\ s \notin ghosts /\ journal[s] # "live"
        /\ session[s].creator = "inserted" => session[s].exited
        /\ session[s].creator = "measured" => session[s].snap # "live"
        /\ \A p \in Persister : persister[p].of = s =>
              /\ persister[p].at \in {"listed", "checked"} => session[s].exited
              /\ persister[p].at = "measured" => persister[p].snap # "live"

(* What is owed is on disk until the next server has started.              *)
Owed(s) ==
    s \in owed => IF serving THEN s \in ghosts \cup acknowledged ELSE journal[s] = "live"

Standing(s) == Registered(s) /\ Known(s) /\ Settled(s) /\ Owed(s)

Restarts == Typed /\ \A s \in Session : Standing(s)

-----------------------------------------------------------------------------
(* What a step may do to a session that stands: its record goes on without *)
(* another measurement, and it leaves the registry or stays where it is.   *)
GoesOn(s) ==
    LET a == session[s]  b == session'[s] IN
    /\ \/ b.creator = a.creator
       \/ {a.creator, b.creator} \subseteq {"persisted", "assigned", "done"}
    /\ b.snap = a.snap /\ (a.exited => b.exited)
    /\ a.term = "no" => b.term = "no" \/ (s \notin ghosts /\ serving)

Remains(s) ==
    /\ journal'[s] = journal[s]
    /\ s \in registry' => s \in registry
    /\ s \in used => s \in used'
    /\ s \in ghosts' <=> s \in ghosts
    /\ s \in settled' => s \in settled
    /\ s \in owed' => s \in owed
    /\ s \in acknowledged => s \in acknowledged'

LEMMA StandsOn ==
    ASSUME NEW s \in Session, Standing(s), GoesOn(s), Remains(s),
           UNCHANGED <<persister, serving>>
    PROVE  Standing(s)'
<1>1. Registered(s)' BY DEF Standing, Registered, GoesOn, Remains, Recorded
<1>2. Known(s)' BY DEF Standing, Known, GoesOn, Remains
<1>3. Settled(s)' BY DEF Standing, Settled, GoesOn, Remains
<1>4. Owed(s)' BY DEF Standing, Owed, GoesOn, Remains
<1> QED BY <1>1, <1>2, <1>3, <1>4 DEF Standing

(* One session changes, and the others remain. *)
LEMMA OneChanges ==
    ASSUME Restarts, NEW s \in Session, Typed', Standing(s)', UNCHANGED <<persister, serving>>,
           \A t \in Session \ {s} : session'[t] = session[t] /\ Remains(t)
    PROVE  Restarts'
<1>1. ASSUME NEW t \in Session, t # s PROVE Standing(t)'
  <2>1. session'[t] = session[t] BY <1>1
  <2>2. GoesOn(t) BY <2>1 DEF GoesOn
  <2> QED BY <1>1, <2>2, StandsOn DEF Restarts
<1> QED BY <1>1 DEF Restarts

(* ... and goes on, with nothing written to the journal. *)
LEMMA OneGoesOn ==
    ASSUME Restarts, NEW s \in Session, GoesOn(s),
           \A t \in Session \ {s} : session'[t] = session[t],
           UNCHANGED <<persister, ghosts, journal, historyVars, serving>>,
           registry' \subseteq registry
    PROVE  Restarts'
<1>1. Typed' BY DEF Restarts, Typed, historyVars
<1>2. \A t \in Session : Remains(t) BY DEF Remains, historyVars
<1>3. Standing(s)' BY <1>2, StandsOn DEF Restarts
<1> QED BY <1>1, <1>2, <1>3, OneChanges

-----------------------------------------------------------------------------
(* The steps of sessions. *)

(* A thread of the session goes on; none of these measures or records it.  *)
Proceeds(s) ==
    \/ AgentExits(s) \/ CreateAssign(s) \/ CreateStart(s)
    \/ ReadOutput(s) \/ Reading(s)
    \/ Claim(s, "other") \/ Claim(s, "reader")
    \/ MarkExited(s) \/ FanOutAndKill(s) \/ JoinReader(s) \/ ReportExit(s) \/ FinishAfterExit(s)

LEMMA ProceedsSound ==
    ASSUME Sessions, Restarts, NEW s \in Session, Proceeds(s), serving, serving'
    PROVE  Restarts'
<1> DEFINE Others == \A t \in Session \ {s} : session'[t] = session[t]
           Kept == /\ UNCHANGED <<persister, ghosts, journal, historyVars, serving>>
                   /\ registry' \subseteq registry
<1>t. session \in [Session -> SessionState] /\ session[s] \in SessionState BY DEF Sessions
<1>1. CASE AgentExits(s)
  <2>1. GoesOn(s) /\ Others /\ Kept BY <1>t, <1>1 DEF AgentExits, GoesOn, SessionState
  <2> QED BY <2>1, OneGoesOn
<1>2. CASE CreateAssign(s)
  <2>1. GoesOn(s) /\ Others /\ Kept BY <1>t, <1>2 DEF CreateAssign, GoesOn, SessionState
  <2> QED BY <2>1, OneGoesOn
<1>3. CASE CreateStart(s)
  <2>1. GoesOn(s) /\ Others /\ Kept BY <1>t, <1>3 DEF CreateStart, GoesOn, SessionState
  <2> QED BY <2>1, OneGoesOn
<1>4. CASE ReadOutput(s)
  <2>1. GoesOn(s) /\ Others /\ Kept BY <1>t, <1>4 DEF ReadOutput, GoesOn, SessionState
  <2> QED BY <2>1, OneGoesOn
<1>5. CASE DispatchOutput(s)
  <2>1. GoesOn(s) /\ Others /\ Kept BY <1>t, <1>5 DEF DispatchOutput, GoesOn, SessionState
  <2> QED BY <2>1, OneGoesOn
<1>6. CASE ReadEnds(s)
  <2>1. GoesOn(s) /\ Others /\ Kept BY <1>t, <1>6 DEF ReadEnds, GoesOn, SessionState
  <2> QED BY <2>1, OneGoesOn
<1>7. CASE ReaderCloses(s)
  <2>1. GoesOn(s) /\ Others /\ Kept
    BY <1>t, <1>7 DEF ReaderCloses, CloseMaster, GoesOn, SessionState
  <2> QED BY <2>1, OneGoesOn
<1>8. CASE ReaderFinishes(s)
  <2>1. GoesOn(s) /\ Others /\ Kept
    BY <1>t, <1>8 DEF ReaderFinishes, Finish, GoesOn, SessionState
  <2> QED BY <2>1, OneGoesOn
<1>9. CASE Claim(s, "other") \/ Claim(s, "reader")
  <2>1. s \notin ghosts BY <1>9 DEF Claim, Restarts, Standing, Known
  <2>2. GoesOn(s) /\ Others /\ Kept BY <1>t, <1>9, <2>1 DEF Claim, GoesOn, SessionState
  <2> QED BY <2>2, OneGoesOn
<1>10. CASE MarkExited(s)
  <2>1. GoesOn(s) /\ Others /\ Kept BY <1>t, <1>10 DEF MarkExited, GoesOn, SessionState
  <2> QED BY <2>1, OneGoesOn
<1>11. CASE FanOutAndKill(s)
  <2>1. GoesOn(s) /\ Others /\ Kept BY <1>t, <1>11 DEF FanOutAndKill, GoesOn, SessionState
  <2> QED BY <2>1, OneGoesOn
<1>12. CASE JoinReader(s)
  <2>1. Kept BY <1>12 DEF JoinReader
  <2>2. PICK r \in SessionState : /\ session' = [session EXCEPT ![s] = r]
                                  /\ r.creator = session[s].creator /\ r.snap = session[s].snap
                                  /\ r.exited = session[s].exited
    <3>1. CASE session[s].by = "reader" \/ session[s].reader \in {"none", "done"}
      <4> DEFINE r == [session[s] EXCEPT !.term = "joined", !.closed = TRUE,
                                         !.early = (session[s].reader = "none")]
      <4>a. r \in SessionState BY <1>t DEF SessionState
      <4>b. session' = [session EXCEPT ![s] = r] BY <1>12, <3>1 DEF JoinReader, CloseMaster
      <4>1. r \in SessionState /\ session' = [session EXCEPT ![s] = r] BY <4>a, <4>b
      <4>2. r.creator = session[s].creator /\ r.snap = session[s].snap
            /\ r.exited = session[s].exited
        BY <1>t DEF SessionState
      <4> QED BY <4>1, <4>2
    <3>2. CASE session[s].by # "reader" /\ session[s].reader = "assigned"
      <4> DEFINE r == [session[s] EXCEPT !.term = "raised"]
      <4>1. r \in SessionState /\ session' = [session EXCEPT ![s] = r]
        BY <1>t, <1>12, <3>2 DEF JoinReader, SessionState
      <4>2. r.creator = session[s].creator /\ r.snap = session[s].snap
            /\ r.exited = session[s].exited
        BY <1>t DEF SessionState
      <4> QED BY <4>1, <4>2
    <3>3. CASE session[s].by # "reader" /\ session[s].reader \notin {"none", "assigned", "done"}
      <4> DEFINE r == [session[s] EXCEPT !.term = "joined"]
      <4>1. r \in SessionState /\ session' = [session EXCEPT ![s] = r]
        BY <1>t, <1>12, <3>3 DEF JoinReader, SessionState
      <4>2. r.creator = session[s].creator /\ r.snap = session[s].snap
            /\ r.exited = session[s].exited
        BY <1>t DEF SessionState
      <4> QED BY <4>1, <4>2
    <3> QED BY <3>1, <3>2, <3>3
  <2>3. Others /\ session'[s].creator = session[s].creator
        /\ session'[s].snap = session[s].snap /\ session'[s].exited = session[s].exited
    BY <1>t, <2>2
  <2>4. session[s].term = "killed" BY <1>12 DEF JoinReader
  <2>5. GoesOn(s) BY <2>3, <2>4 DEF GoesOn
  <2> QED BY <2>1, <2>3, <2>5, OneGoesOn
<1>13. CASE ReportExit(s)
  <2>1. GoesOn(s) /\ Others /\ Kept BY <1>t, <1>13 DEF ReportExit, GoesOn, SessionState
  <2> QED BY <2>1, OneGoesOn
<1>14. CASE FinishAfterExit(s)
  <2>1. GoesOn(s) /\ Others /\ Kept
    BY <1>t, <1>14 DEF FinishAfterExit, Finish, GoesOn, SessionState
  <2> QED BY <2>1, OneGoesOn
<1> QED
  BY <1>1, <1>2, <1>3, <1>4, <1>5, <1>6, <1>7, <1>8, <1>9, <1>10, <1>11, <1>12, <1>13, <1>14
  DEF Proceeds, Reading

(* The request's own record: a session in the registry is measured live.   *)
LEMMA CreateMeasureSound ==
    ASSUME Sessions, Restarts, NEW s \in Session, CreateMeasure(s), serving, serving'
    PROVE  Restarts'
<1>t. session \in [Session -> SessionState] /\ session[s] \in SessionState BY DEF Sessions
<1>1. /\ \A t \in Session \ {s} : session'[t] = session[t]
      /\ session'[s] = [session[s] EXCEPT !.creator = "measured", !.snap = Metadata(s)]
      /\ UNCHANGED <<registry, persister, ghosts, journal, historyVars>>
  BY <1>t DEF CreateMeasure
<1>2. Typed' BY <1>1 DEF Restarts, Typed, historyVars
<1>3. \A t \in Session : Remains(t) BY <1>1 DEF Remains, historyVars
<1>4. session[s].creator = "inserted" BY DEF CreateMeasure
<1>5. session'[s].creator = "measured" /\ session'[s].snap = Metadata(s)
      /\ session'[s].exited = session[s].exited /\ session'[s].term = session[s].term
  BY <1>t, <1>1 DEF SessionState
<1>6. Registered(s)'
  BY <1>1, <1>4, <1>5 DEF Restarts, Standing, Registered, Recorded, Metadata, Sessions, PlaceSound
<1>7. Known(s)' BY <1>1, <1>5 DEF Restarts, Standing, Known, historyVars
<1>8. Settled(s)'
  BY <1>1, <1>4, <1>5 DEF Restarts, Standing, Settled, Metadata, historyVars
<1>9. Owed(s)' BY <1>1 DEF Restarts, Standing, Owed, historyVars
<1>10. Standing(s)' BY <1>6, <1>7, <1>8, <1>9 DEF Standing
<1> QED BY <1>1, <1>2, <1>3, <1>10, OneChanges

LEMMA CreatePersistSound ==
    ASSUME Sessions, Restarts, NEW s \in Session, CreatePersist(s), serving, serving'
    PROVE  Restarts'
<1>t. session \in [Session -> SessionState] /\ session[s] \in SessionState BY DEF Sessions
<1>1. /\ \A t \in Session \ {s} : session'[t] = session[t] /\ journal'[t] = journal[t]
      /\ session'[s] = [session[s] EXCEPT !.creator = "persisted"]
      /\ journal'[s] = session[s].snap
      /\ journal' = [journal EXCEPT ![s] = session[s].snap]
      /\ UNCHANGED <<registry, persister, ghosts, historyVars>>
  BY <1>t DEF CreatePersist, Restarts, Typed
<1>2. Typed' BY <1>t, <1>1 DEF Restarts, Typed, historyVars, Entry, SessionState
<1>3. \A t \in Session \ {s} : Remains(t) BY <1>1 DEF Remains, historyVars
<1>4. session[s].creator = "measured" /\ s \in used
  <2>1. session[s].creator = "measured" BY DEF CreatePersist
  <2> QED BY <2>1, NotNewIsUsed DEF NewSession
<1>5. session'[s].creator = "persisted" /\ session'[s].term = session[s].term
      /\ session'[s].exited = session[s].exited
  BY <1>t, <1>1 DEF SessionState
<1>6. Registered(s)' BY <1>1, <1>4, <1>5 DEF Restarts, Standing, Registered, Recorded
<1>7. Known(s)' BY <1>1, <1>4, <1>5 DEF Restarts, Standing, Known, historyVars
<1>8. Settled(s)' BY <1>1, <1>4, <1>5 DEF Restarts, Standing, Settled, historyVars
<1>9. Owed(s)' BY <1>1 DEF Restarts, Standing, Owed, historyVars
<1>10. Standing(s)' BY <1>6, <1>7, <1>8, <1>9 DEF Standing
<1> QED BY <1>1, <1>2, <1>3, <1>10, OneChanges

(* The record goes: from here on, unless somebody was about to write it,   *)
(* nobody will, because who measures it now finds that it has exited.      *)
LEMMA RemoveRecordSound ==
    ASSUME Sessions, Restarts, NEW s \in Session, RemoveRecord(s), serving, serving'
    PROVE  Restarts'
<1>t. session \in [Session -> SessionState] /\ session[s] \in SessionState BY DEF Sessions
<1>1. /\ \A t \in Session \ {s} : session'[t] = session[t] /\ journal'[t] = journal[t]
      /\ session'[s] = [session[s] EXCEPT !.term = "removed"]
      /\ journal'[s] = "absent"
      /\ journal' = [journal EXCEPT ![s] = "absent"]
      /\ settled' = IF Refreshing(s) THEN settled ELSE settled \cup {s}
      /\ UNCHANGED <<registry, persister, ghosts, used, owed, acknowledged>>
  BY <1>t DEF RemoveRecord, Restarts, Typed
<1>2. Typed' BY <1>1 DEF Restarts, Typed, Entry
<1>3. \A t \in Session \ {s} : Remains(t) BY <1>1 DEF Remains
<1>4. session[s].term = "joined" BY DEF RemoveRecord
<1>5. session[s].exited /\ s \notin registry /\ s \in used
  <2>1. session[s].exited BY <1>4 DEF Sessions, RecordSound, Torn
  <2>2. s \notin registry BY <1>4 DEF Sessions, PlaceSound
  <2>3. s \in used BY <1>4, NotNewIsUsed DEF NewSession
  <2> QED BY <2>1, <2>2, <2>3
<1>6. s \notin ghosts BY <1>4 DEF Restarts, Standing, Known
<1>7. session'[s].creator = session[s].creator /\ session'[s].exited
      /\ session'[s].snap = session[s].snap
  BY <1>t, <1>1, <1>5 DEF SessionState
<1>8. Registered(s)' BY <1>1, <1>5 DEF Registered
<1>9. Known(s)' BY <1>1, <1>5, <1>6 DEF Restarts, Standing, Known
<1>10. Settled(s)'
  <2>1. CASE Refreshing(s)
    BY <1>1, <1>5, <1>6, <1>7, <2>1 DEF Restarts, Standing, Settled
  <2>2. CASE ~Refreshing(s)
    BY <1>1, <1>5, <1>6, <1>7, <2>2 DEF Refreshing, Settled
  <2> QED BY <2>1, <2>2
<1>11. Owed(s)' BY <1>1 DEF Restarts, Standing, Owed
<1>12. Standing(s)' BY <1>8, <1>9, <1>10, <1>11 DEF Standing
<1> QED BY <1>1, <1>2, <1>3, <1>12, OneChanges
(* A new session has an id that nobody has heard of. *)
LEMMA CreateRestarts ==
    ASSUME Sessions, Restarts, NEW s \in Session, NEW d \in Descriptor, Create(s, d),
           serving, serving'
    PROVE  Restarts'
<1> DEFINE r == [NewSession EXCEPT !.creator = "inserted", !.fd = d, !.alive = TRUE]
<1>1. /\ session' = [session EXCEPT ![s] = r]
      /\ registry' = {s} /\ registry = {} /\ used' = used \cup {s} /\ s \notin used
      /\ UNCHANGED <<persister, ghosts, journal, owed, acknowledged, settled>>
  BY DEF Create
<1>2. \A t \in Session \ {s} : session'[t] = session[t] /\ Remains(t)
  BY <1>1 DEF Remains, Sessions
<1>3. Typed' BY <1>1 DEF Restarts, Typed
<1>4. session'[s] = r BY <1>1 DEF Sessions
<1>5. r.creator = "inserted" BY DEF NewSession
<1>6. s \notin ghosts /\ s \notin settled /\ \A p \in Persister : persister[p].of = s => persister[p].at = "asleep"
  BY <1>1 DEF Restarts, Standing, Known, Settled
<1> HIDE DEF r
<1>7. Registered(s)' BY <1>1, <1>4, <1>5, <1>6 DEF Registered, Recorded
<1>8. Known(s)' BY <1>1, <1>6 DEF Restarts, Standing, Known
<1>9. Settled(s)' BY <1>1, <1>6 DEF Settled
<1>10. Owed(s)' BY <1>1 DEF Restarts, Standing, Owed
<1>11. Standing(s)' BY <1>7, <1>8, <1>9, <1>10 DEF Standing
<1> QED BY <1>1, <1>2, <1>3, <1>11, OneChanges

LEMMA AcknowledgeSound ==
    ASSUME Restarts, NEW s \in Session, AcknowledgePrior(s), serving, serving'
    PROVE  Restarts'
<1>1. /\ ghosts' = ghosts \ {s} /\ acknowledged' = acknowledged \cup {s}
      /\ UNCHANGED <<registry, session, persister, journal, used, owed, settled>>
  BY DEF AcknowledgePrior
<1>2. Typed' BY <1>1 DEF Restarts, Typed
<1>3. ASSUME NEW t \in Session PROVE Standing(t)'
  <2>1. Registered(t)' BY <1>1 DEF Restarts, Standing, Registered, Recorded
  <2>2. Known(t)' BY <1>1 DEF Restarts, Standing, Known
  <2>3. Settled(t)' BY <1>1 DEF Restarts, Standing, Settled
  <2>4. Owed(t)' BY <1>1 DEF Restarts, Standing, Owed
  <2> QED BY <2>1, <2>2, <2>3, <2>4 DEF Standing
<1> QED BY <1>2, <1>3 DEF Restarts

LEMMA SessionChangeRestarts ==
    ASSUME Sessions, Restarts, NEW s \in Session, SessionChange(s), serving, serving'
    PROVE  Restarts'
BY CreateRestarts, AcknowledgeSound, ProceedsSound, CreateMeasureSound, CreatePersistSound,
   RemoveRecordSound DEF SessionChange, Creation, Teardown, Proceeds

-----------------------------------------------------------------------------
(* Sockets, refreshes, and the process's own end and start. *)

LEMMA SocketChangeRestarts ==
    ASSUME Sessions, Restarts, SocketChange, serving, serving'
    PROVE  Restarts'
<1>1. PICK to \in [Session -> SUBSET Socket] :
          session' = [s \in Session |-> [session[s] EXCEPT !.to = to[s]]]
  BY SocketsTouch
<1>2. UNCHANGED <<registry, ghosts, journal, persister, historyVars>> BY SocketsTouch
<1>3. Typed' BY <1>2 DEF Restarts, Typed, historyVars
<1>4. ASSUME NEW t \in Session PROVE Standing(t)'
  <2>1. session[t] \in SessionState BY DEF Sessions
  <2>2. GoesOn(t) BY <1>1, <2>1 DEF GoesOn, SessionState
  <2>3. Remains(t) BY <1>2 DEF Remains, historyVars
  <2> QED BY <1>2, <2>2, <2>3, StandsOn DEF Restarts
<1> QED BY <1>3, <1>4 DEF Restarts

(* A refresh goes one step, for a session m of which it knows; n is its    *)
(* next errand.                                                            *)
LEMMA ErrandSound ==
    ASSUME Sessions, Restarts, NEW p \in Persister, NEW n \in Errand,
           persister' = [persister EXCEPT ![p] = n],
           UNCHANGED <<registry, session, ghosts, historyVars>>, serving, serving',
           journal' \in [Session -> Entry],
           \A t \in Session : journal'[t] = journal[t] \/
               (/\ journal'[t] = persister[p].snap /\ persister[p].of = t
                /\ persister[p].at = "measured"),
           n.at # "asleep" =>
               /\ n.of \in Session /\ n.of \in used
               /\ n.of \in registry /\ n.at = "measured" => n.snap = "live"
               /\ n.of \in settled =>
                     /\ n.at \in {"listed", "checked"} => session[n.of].exited
                     /\ n.at = "measured" => n.snap # "live"
    PROVE  Restarts'
<1>2. persister \in [Persister -> Errand] BY DEF Restarts, Typed
<1>3. \A x \in Persister : persister'[x] = IF x = p THEN n ELSE persister[x] BY <1>2
<1>1. Typed' BY <1>3 DEF Restarts, Typed, historyVars
<1>4. ASSUME NEW t \in Session PROVE Standing(t)'
  <2>0. Registered(t) /\ Known(t) /\ Settled(t) /\ Owed(t) BY DEF Restarts, Standing
  <2>1. Registered(t)' BY <1>3, <2>0 DEF Registered, Recorded
  <2>2. Known(t)' BY <1>3, <2>0 DEF Known, historyVars
  <2>3. Settled(t)' BY <1>3, <2>0 DEF Settled, historyVars
  <2>4. Owed(t)' BY <2>0 DEF Owed, historyVars
  <2> QED BY <2>1, <2>2, <2>3, <2>4 DEF Standing
<1> QED BY <1>1, <1>4 DEF Restarts
LEMMA PersisterChangeRestarts ==
    ASSUME Sessions, Restarts, PersisterChange, serving, serving'
    PROVE  Restarts'
<1>t. /\ persister \in [Persister -> Errand] /\ registry \subseteq Session
      /\ journal \in [Session -> Entry]
  BY DEF Restarts, Typed
<1>i. Idle \in Errand /\ Idle.at = "asleep" BY DEF Idle, Errand
<1>k. ASSUME NEW p \in Persister, persister[p].at # "asleep"
      PROVE  /\ persister[p].of \in Session /\ persister[p].of \in used
             /\ Registered(persister[p].of) /\ Settled(persister[p].of)
  BY <1>k DEF Restarts, Typed, Standing, Known
<1>1. ASSUME NEW p \in Persister, NEW s \in Session, ListLive(p, s) PROVE Restarts'
  <2> DEFINE n == [Idle EXCEPT !.at = "listed", !.of = s]
  <2>1. n \in Errand /\ n.at = "listed" /\ n.of = s BY DEF Idle, Errand
  <2>2. s \in registry BY <1>1 DEF ListLive
  <2>3. s \in used /\ s \notin settled
    BY <2>2 DEF Sessions, PlaceSound, Restarts, Standing, Settled
  <2>4. /\ persister' = [persister EXCEPT ![p] = n]
        /\ UNCHANGED <<registry, session, ghosts, journal, historyVars>>
    BY <1>1 DEF ListLive
  <2> HIDE DEF n
  <2> QED BY <1>t, <2>1, <2>3, <2>4, ErrandSound
<1>2. ASSUME NEW p \in Persister, SkipExited(p) PROVE Restarts'
  <2> DEFINE o == persister[p]
  <2>0. o \in Errand /\ o.at = "listed" BY <1>t, <1>2 DEF SkipExited
  <2>1. CASE p = "reaper" /\ session[o.of].exited
    <3>1. persister' = [persister EXCEPT ![p] = Idle] BY <1>t, <1>2, <2>1 DEF SkipExited
    <3>2. UNCHANGED <<registry, session, ghosts, journal, historyVars>> BY <1>2 DEF SkipExited
    <3> QED BY <1>t, <1>i, <3>1, <3>2, ErrandSound
  <2>2. CASE ~(p = "reaper" /\ session[o.of].exited)
    <3> DEFINE n == [o EXCEPT !.at = "checked"]
    <3>1. n \in Errand /\ n.at = "checked" /\ n.of = o.of BY <2>0 DEF Errand
    <3>2. persister' = [persister EXCEPT ![p] = n] BY <1>t, <1>2, <2>2 DEF SkipExited
    <3>3. UNCHANGED <<registry, session, ghosts, journal, historyVars>> BY <1>2 DEF SkipExited
    <3>4. /\ o.of \in Session /\ o.of \in used
          /\ o.of \in settled => session[o.of].exited
      BY <1>k, <2>0 DEF Settled
    <3> HIDE DEF n
    <3> QED BY <1>t, <3>1, <3>2, <3>3, <3>4, ErrandSound
  <2> QED BY <2>1, <2>2
<1>3. ASSUME NEW p \in Persister, Measure(p) PROVE Restarts'
  <2> DEFINE o == persister[p]
             n == [o EXCEPT !.at = "measured", !.snap = Metadata(o.of)]
  <2>0. o \in Errand /\ o.at = "checked" BY <1>t, <1>3 DEF Measure
  <2>1. n \in Errand /\ n.at = "measured" /\ n.of = o.of /\ n.snap = Metadata(o.of)
    BY <2>0 DEF Errand, Metadata
  <2>2. persister' = [persister EXCEPT ![p] = n] BY <1>t, <1>3 DEF Measure
  <2>3. UNCHANGED <<registry, session, ghosts, journal, historyVars>> BY <1>3 DEF Measure
  <2>4. o.of \in Session /\ o.of \in used BY <1>k, <2>0
  <2>5. o.of \in registry => Metadata(o.of) = "live"
    BY <2>4 DEF Metadata, Sessions, PlaceSound
  <2>6. o.of \in settled => Metadata(o.of) # "live"
    BY <1>k, <2>0 DEF Metadata, Settled
  <2> HIDE DEF n
  <2> QED BY <1>t, <2>1, <2>2, <2>3, <2>4, <2>5, <2>6, ErrandSound
<1>4. ASSUME NEW p \in Persister, Upsert(p) PROVE Restarts'
  <2> DEFINE o == persister[p]
  <2>0. o \in Errand /\ o.at = "measured" BY <1>t, <1>4 DEF Upsert
  <2>1. /\ journal' = [journal EXCEPT ![o.of] = o.snap]
        /\ persister' = [persister EXCEPT ![p] = Idle]
        /\ UNCHANGED <<registry, session, ghosts, historyVars>>
    BY <1>4 DEF Upsert
  <2>2. journal' \in [Session -> Entry] BY <1>t, <2>0, <2>1 DEF Entry, Errand
  <2>3. \A t \in Session : journal'[t] = journal[t] \/ (journal'[t] = o.snap /\ o.of = t)
    BY <1>t, <2>1
  <2> QED BY <1>i, <2>0, <2>1, <2>2, <2>3, ErrandSound
<1> QED BY <1>1, <1>2, <1>3, <1>4 DEF PersisterChange, Refresh

(* The process ends: what it had recorded is what its successor owes.      *)
LEMMA DieRestarts ==
    ASSUME Sessions, Restarts, TerminalsDie, serving, ~serving'
    PROVE  Restarts'
<1>1. /\ registry' = {} /\ session' = [s \in Session |-> NewSession] /\ ghosts' = {}
      /\ persister' = [p \in Persister |-> Idle]
      /\ owed' = {s \in registry : Recorded(s)}
      /\ UNCHANGED <<journal, used, acknowledged, settled>>
  BY DEF TerminalsDie, TerminalEmpty
<1>i. Idle \in Errand /\ Idle.at = "asleep" BY DEF Idle, Errand
<1>2. \A p \in Persister : persister'[p].at = "asleep" BY <1>1, <1>i
<1>3. Typed' BY <1>1, <1>2, <1>i DEF Restarts, Typed
<1>4. ASSUME NEW t \in Session PROVE Standing(t)'
  <2>0. Registered(t) /\ Known(t) /\ Settled(t) BY DEF Restarts, Standing
  <2>1. session'[t] = NewSession BY <1>1
  <2>2. NewSession.term = "no" /\ NewSession.creator = "none" BY DEF NewSession
  <2>3. Registered(t)' BY <1>1 DEF Registered
  <2>4. Known(t)' BY <1>1, <1>2, <2>0, <2>1, <2>2 DEF Known
  <2>5. Settled(t)' BY <1>1, <1>2, <2>0, <2>1, <2>2 DEF Settled
  <2>6. Owed(t)' BY <1>1, <2>0 DEF Registered, Owed
  <2> QED BY <2>3, <2>4, <2>5, <2>6 DEF Standing
<1> QED BY <1>3, <1>4 DEF Restarts

(* Its successor starts: what is on disk as live becomes its ghosts.       *)
LEMMA LoadRestarts ==
    ASSUME Restarts, LoadPrior, ~serving, serving'
    PROVE  Restarts'
<1>1. /\ ghosts' = {s \in Session : journal[s] = "live"}
      /\ journal' = [s \in Session |-> "absent"]
      /\ UNCHANGED <<registry, session, persister, used, owed, acknowledged, settled>>
  BY DEF LoadPrior, historyVars
<1>2. Typed' BY <1>1 DEF Restarts, Typed, Entry
<1>3. ASSUME NEW t \in Session PROVE Standing(t)'
  <2>0. Registered(t) /\ Known(t) /\ Settled(t) /\ Owed(t) BY DEF Restarts, Standing
  <2>1. t \notin registry BY <2>0 DEF Registered
  <2>2. Registered(t)' BY <1>1, <2>1 DEF Registered
  <2>3. Known(t)' BY <1>1, <2>0, <2>1 DEF Known
  <2>4. Settled(t)' BY <1>1, <2>0 DEF Settled
  <2>5. Owed(t)' BY <1>1, <2>0 DEF Owed
  <2> QED BY <2>2, <2>3, <2>4, <2>5 DEF Standing
<1> QED BY <1>2, <1>3 DEF Restarts

LEMMA RestartsInitially == ASSUME Init PROVE Restarts
<1>1. /\ registry = {} /\ ghosts = {} /\ used = {} /\ owed = {} /\ settled = {}
      /\ session = [s \in Session |-> NewSession]
      /\ persister = [p \in Persister |-> Idle]
      /\ journal = [s \in Session |-> "absent"]
  BY DEF Init, TerminalInit
<1>2. /\ Idle \in Errand /\ Idle.at = "asleep" /\ NewSession.term = "no"
      /\ \A p \in Persister : persister[p].at = "asleep"
  BY <1>1 DEF Idle, Errand, NewSession
<1>3. Typed BY <1>1, <1>2 DEF Typed, Entry
<1>4. \A s \in Session : Standing(s)
  BY <1>1, <1>2 DEF Standing, Registered, Known, Settled, Owed
<1> QED BY <1>3, <1>4 DEF Restarts

LEMMA RestartsSound ==
    ASSUME scope \in Scopes, Sessions, Restarts, [Next]_hostVars
    PROVE  Restarts'
<1>1. CASE TerminalChange /\ serving /\ serving'
  BY <1>1, SessionChangeRestarts, SocketChangeRestarts, PersisterChangeRestarts
  DEF TerminalChange
<1>2. CASE TerminalsDie /\ serving /\ ~serving' BY <1>2, DieRestarts
<1>3. CASE LoadPrior /\ ~serving /\ serving' BY <1>3, LoadRestarts
<1>4. CASE UNCHANGED terminalVars /\ (serving' <=> serving)
  <2>1. UNCHANGED <<registry, session, persister, ghosts, journal, used, owed, acknowledged,
                    settled>>
    BY <1>4 DEF terminalVars, memoryVars
  <2>2. Typed' BY <2>1 DEF Restarts, Typed
  <2>3. ASSUME NEW t \in Session PROVE Standing(t)'
    BY <1>4, <2>1 DEF Restarts, Standing, Registered, Recorded, Known, Settled, Owed
  <2> QED BY <2>2, <2>3 DEF Restarts
<1> QED BY <1>1, <1>2, <1>3, <1>4, StepOfTerminals

-----------------------------------------------------------------------------
(* The sessions' records and their restarts are one inductive invariant.   *)
LEMMA RestartInvariant == Spec => [](scope \in Scopes /\ Sessions /\ Restarts)
<1> DEFINE I == scope \in Scopes /\ Sessions /\ Restarts
<1>1. Init => I BY SessionsInitially, RestartsInitially
<1>2. I /\ [Next]_hostVars => I'
  <2>1. ASSUME I, [Next]_hostVars PROVE I'
    BY <2>1, SessionsSound, RestartsSound, StepOfTerminals
  <2> QED BY <2>1
<1> QED BY <1>1, <1>2, PTL DEF Spec

(* Every session that was live and recorded when the server died is a      *)
(* ghost of the server that replaces it, until it is dismissed, however    *)
(* many sessions, refreshes, deaths, failed starts and deployments.        *)
THEOREM RestartGhosts == Spec => []GhostsCoverCrash
<1>1. Restarts => GhostsCoverCrash
  BY DEF Restarts, Typed, Standing, Owed, GhostsCoverCrash, GhostsCover
<1> QED BY <1>1, RestartInvariant, PTL

(* A session that was closed, with no refresh of it under way, is no ghost *)
(* of any later server.                                                    *)
THEOREM ClosedIsNoGhost == Spec => []ClosedStaysClosed
<1>1. Restarts => ClosedStaysClosed
  BY DEF Restarts, Typed, Standing, Settled, ClosedStaysClosed
<1> QED BY <1>1, RestartInvariant, PTL

-----------------------------------------------------------------------------
(* The types of the whole container. *)
ServingType == serving \in BOOLEAN /\ (serving => child = "up" \/ ~Running)

LEMMA ServingSound ==
    ASSUME ServingType, [Next]_hostVars
    PROVE  ServingType'
<1> USE DEF ServingType, Running
<1>1. CASE SupervisorSteps /\ UNCHANGED serving
  BY <1>1 DEF SupervisorSteps, Spawn, SpawnDue, SpawnFails, HandleChild, HandleStop,
              HandleDeadline, Tick, SendStop
<1>2. CASE serving' = FALSE BY <1>2
<1>3. CASE UNCHANGED supervisorVars /\ (UNCHANGED serving \/ (child = "up" /\ serving' = TRUE))
  <2>1. child' = child /\ status' = status BY <1>3 DEF supervisorVars
  <2>2. CASE serving' = serving BY <2>1, <2>2
  <2>3. CASE child = "up" /\ serving' = TRUE BY <2>1, <2>3
  <2> QED BY <1>3, <2>2, <2>3
<1> QED BY <1>1, <1>2, <1>3, StepOfParent

LEMMA TerminalTypes ==
    ASSUME Sessions, Streams, Owners, Typed
    PROVE  TerminalTypeOK
<1>1. ASSUME NEW q \in Socket
      PROVE  /\ sock[q].stage \in {"off", "opening", "replaying", "on"}
             /\ sock[q].of \in Session \cup {NoSession}
             /\ sock[q].shown \in Nat /\ sock[q].queue \in Seq(Message)
  BY DEF Streams, SocketState
<1>2. session \in [Session -> SessionState] BY DEF Sessions
<1>3. ready \in [Socket -> Seq(Message)] BY DEF Streams
<1>4. owner \in [Descriptor -> Session \cup {NoSession}] BY DEF Owners
<1>5. /\ registry \subseteq Session /\ ghosts \subseteq Session
      /\ persister \in [Persister -> Errand] /\ journal \in [Session -> Entry]
  BY DEF Typed
<1> QED BY <1>1, <1>2, <1>3, <1>4, <1>5 DEF TerminalTypeOK, Errand, Entry

(* Every variable of a container keeps its type, in any environment, and a *)
(* server serves only as the supervisor's child, or is left behind by one  *)
(* that has ended.                                                         *)
THEOREM ContainerTypes == Spec => []TypeOK
<1>1. Spec => []ServingType
  <2>1. Init => ServingType BY DEF Init, ServingType
  <2>2. ServingType /\ [Next]_hostVars => ServingType' BY ServingSound
  <2> QED BY <2>1, <2>2, PTL DEF Spec
<1>2. /\ DequeInv /\ DeadlineIInv /\ PolicyIInv /\ ServingType /\ scope \in Scopes
      /\ Sessions /\ Streams /\ Owners /\ Restarts
      => TypeOK
  BY TerminalTypes DEF TypeOK, DequeInv, DeadlineIInv, PolicyIInv, ServingType, Restarts
<1> QED BY <1>1, <1>2, SupervisorInvariant, DeadlineInvariant, PolicyInvariant, StreamInvariant,
       OwnerInvariant, RestartInvariant, PTL
=============================================================================
