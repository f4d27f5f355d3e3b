--------------------------- MODULE WorkersProofs ---------------------------
(***************************************************************************)
(* The help outbox: its types, what a request is told and what leaves the  *)
(* outbox, by the inductive invariant HelpIInv.  The bearer's maintenance: *)
(* its types, and by the inductive invariant BearerIInv that the attendee's*)
(* file never holds an expired bearer.  Then the server: its workers share *)
(* no state, so a behaviour of all is a behaviour of each, and what is     *)
(* proved of one holds of the server.                                      *)
(***************************************************************************)
EXTENDS ServerWorkers, BackgroundProofs

(* States of the help outbox: no more is acknowledged than numbered. *)
Valid(s) == s \in HelpState /\ s.acked <= Len(s.log)

(* What storage holds, what a flush writes and what memory holds follow    *)
(* each other, and memory is retained when nothing is pending.             *)
Chained ==
    /\ Valid(help) /\ Valid(kept) /\ Valid(flight.state)
    /\ Covers(help, kept)
    /\ unkept = 0 => kept = help
    /\ flight.writes =>
          /\ Covers(help, flight.state) /\ Covers(flight.state, kept)
          /\ flight.count <= unkept /\ (flight.count = unkept => flight.state = help)

Informed ==
    \A c \in Asker :
        /\ Valid(asker[c].since) /\ Covers(help, asker[c].since)
        /\ asker[c].told => Covers(kept, asker[c].since)

(* CT has read a number; and if it read another entry under it, a crash    *)
(* had taken that one.                                                     *)
Read(n) ==
    /\ \E o \in filed : o[1] = n
    /\ \/ n \in 1..Len(help.log) /\ <<n, help.log[n]>> \in filed
       \/ n \in reissued

Shown(o) ==
    \/ o[1] \in 1..Len(help.log) /\ help.log[o[1]] = o[2]
    \/ o[1] \in reissued

ReadSound ==
    /\ \A n \in 1..help.acked : Read(n)
    /\ \A n \in acks : \A m \in 1..n : Read(m)
    /\ \A o \in offered :
          /\ Shown(o)
          /\ \A m \in 1..o[1] : Read(m) \/ \E q \in offered : q[1] = m

HelpIInv == HelpTypeOK /\ Chained /\ Informed /\ ReadSound

-----------------------------------------------------------------------------
(* What follows what. *)

LEMMA CoversTrans ==
    ASSUME NEW a \in HelpState, NEW b \in HelpState, NEW c \in HelpState,
           Covers(a, b), Covers(b, c)
    PROVE  Covers(a, c)
<1>1. Len(a.log) \in Nat /\ Len(b.log) \in Nat /\ Len(c.log) \in Nat
  BY DEF HelpState
<1>2. 1..Len(c.log) \subseteq 1..Len(b.log) BY <1>1 DEF Covers
<1>3. c.acked <= a.acked /\ Len(c.log) <= Len(a.log) BY <1>1 DEF Covers, HelpState
<1> QED BY <1>2, <1>3 DEF Covers

LEMMA CoversSelf == ASSUME NEW s \in HelpState PROVE Covers(s, s)
BY DEF Covers, HelpState

LEMMA BlankIsValid == Valid(Blank) /\ Blank \in HelpState
BY DEF Valid, Blank, HelpState

LEMMA CoversBlank == ASSUME NEW s \in HelpState PROVE Covers(s, Blank)
BY DEF Covers, Blank, HelpState

(* One more entry, or a later acknowledgement. *)
LEMMA PostCovers ==
    ASSUME NEW s \in HelpState, Valid(s), NEW e \in Nat
    PROVE  LET t == [s EXCEPT !.log = Append(@, e)]
           IN  Valid(t) /\ Covers(t, s) /\ t # s /\ t.acked = s.acked
<1> DEFINE t == [s EXCEPT !.log = Append(@, e)]
<1>1. s.log \in Seq(Nat) /\ s.acked \in Nat /\ s.acked <= Len(s.log) BY DEF HelpState, Valid
<1>2. /\ Append(s.log, e) \in Seq(Nat) /\ Len(Append(s.log, e)) = Len(s.log) + 1
      /\ \A n \in 1..Len(s.log) : Append(s.log, e)[n] = s.log[n]
  BY <1>1
<1>3. t.log = Append(s.log, e) /\ t.acked = s.acked /\ t \in HelpState BY <1>1, <1>2 DEF HelpState
<1>4. Len(s.log) \in Nat BY <1>1
<1>5. Valid(t) BY <1>1, <1>2, <1>3, <1>4 DEF Valid
<1>6. Covers(t, s) BY <1>1, <1>2, <1>3, <1>4 DEF Covers
<1>7. Append(s.log, e) # s.log BY <1>2, <1>4
<1> QED BY <1>3, <1>5, <1>6, <1>7

LEMMA AckCovers ==
    ASSUME Valid(help), NEW n \in Nat, n <= Len(help.log)
    PROVE  LET t == Acknowledged(n)
           IN  /\ Valid(t) /\ Covers(t, help) /\ t.log = help.log
               /\ t.acked = help.acked \/ t.acked = n
<1>1. help.log \in Seq(Nat) /\ help.acked \in Nat /\ help.acked <= Len(help.log)
  BY DEF HelpState, Valid
<1>2. Acknowledged(n) \in HelpState BY <1>1 DEF Acknowledged, HelpState, Valid
<1>3. Acknowledged(n).log = help.log
      /\ Acknowledged(n).acked = IF n > help.acked THEN n ELSE help.acked
  BY <1>1 DEF Acknowledged, HelpState, Valid
<1> QED BY <1>1, <1>2, <1>3 DEF Valid, Covers

-----------------------------------------------------------------------------
(* The journal's part of a step. *)

Grows == Covers(help', help) /\ Covers(kept', kept)

LEMMA StillChained ==
    ASSUME Chained, UNCHANGED <<help, kept, unkept>>, flight' \in {flight, NoFlight}
    PROVE  Chained' /\ Grows
<1>1. flight'.state \in {flight.state, Blank} /\ (flight'.writes => flight' = flight)
  BY DEF NoFlight
<1>2. help \in HelpState /\ kept \in HelpState BY DEF Chained, Valid
<1> QED BY <1>1, <1>2, CoversSelf, BlankIsValid DEF Chained, Grows

LEMMA ChangesSound ==
    ASSUME HelpTypeOK, Chained, NEW s, Valid(s), Covers(s, help), Changes(s)
    PROVE  Chained' /\ Grows /\ unkept' \in Nat
<1>1. help' = s /\ kept' = kept /\ flight' = flight BY DEF Changes
<1>2. /\ unkept' \in Nat /\ unkept' >= unkept
      /\ unkept' = unkept => s = help
  BY DEF Changes, HelpTypeOK
<1>3. /\ help \in HelpState /\ kept \in HelpState /\ flight.state \in HelpState /\ s \in HelpState
      /\ flight.count \in Nat /\ unkept \in Nat
  BY DEF Valid, Chained, HelpTypeOK, FlightState
<1>4. Covers(s, kept) /\ (flight.writes => Covers(s, flight.state))
  BY <1>3, CoversTrans DEF Chained
<1>5. unkept' = 0 => kept = s BY <1>2, <1>3 DEF Chained
<1>6. flight.writes => flight.count <= unkept' /\ (flight.count = unkept' => flight.state = s)
  BY <1>2, <1>3 DEF Chained
<1> QED BY <1>1, <1>2, <1>3, <1>4, <1>5, <1>6, CoversSelf DEF Chained, Grows

(* The requests' part. *)
AskersMove ==
    /\ asker' \in [Asker -> AskerState]
    /\ \A c \in Asker :
          /\ asker'[c].since \in {asker[c].since, Blank, help'}
          /\ asker'[c].told =>
                \/ asker'[c].since = Blank
                \/ asker'[c].since = asker[c].since /\ (asker[c].told \/ unkept = 0)

LEMMA InformedKept ==
    ASSUME HelpTypeOK, Chained, Chained', Informed, Grows, AskersMove
    PROVE  Informed'
<1> SUFFICES ASSUME NEW c \in Asker
             PROVE  /\ Valid(asker'[c].since) /\ Covers(help', asker'[c].since)
                    /\ asker'[c].told => Covers(kept', asker'[c].since)
  BY DEF Informed
<1> DEFINE s == asker[c].since
           t == asker'[c].since
<1>1. /\ help \in HelpState /\ help' \in HelpState /\ kept \in HelpState /\ kept' \in HelpState
      /\ Valid(help') /\ Valid(s) /\ s \in HelpState /\ Covers(help, s)
      /\ asker[c].told => Covers(kept, s)
      /\ unkept = 0 => kept = help
      /\ Covers(help', help) /\ Covers(kept', kept)
  BY DEF Valid, Chained, Informed, Grows
<1>8. t \in {s, Blank, help'} BY DEF AskersMove
<1>2. asker'[c].told => t = Blank \/ (t = s /\ (asker[c].told \/ unkept = 0))
  BY Zenon DEF AskersMove
<1> HIDE DEF s, t
<1>3. Valid(t) BY <1>1, <1>8, BlankIsValid
<1>4. Covers(help', s) BY <1>1, CoversTrans
<1>5. Covers(help', t) BY <1>1, <1>8, <1>4, CoversBlank, CoversSelf
<1>6. asker[c].told \/ unkept = 0 => Covers(kept', s) BY <1>1, CoversTrans
<1>7. asker'[c].told => Covers(kept', t) BY <1>1, <1>2, <1>6, CoversBlank
<1> QED BY <1>3, <1>5, <1>7 DEF t

LEMMA AskersRest ==
    ASSUME HelpTypeOK, asker' = asker PROVE AskersMove
BY DEF AskersMove, HelpTypeOK

LEMMA AsksMoves ==
    ASSUME HelpTypeOK, NEW c \in Asker, NEW for \in {"change", "presence"}, Asks(c, for),
           help' \in HelpState
    PROVE  AskersMove
<1>1. [at |-> "asking", for |-> for, told |-> FALSE, since |-> help'] \in AskerState
  BY DEF AskerState
<1> QED BY <1>1 DEF Asks, AskersMove, HelpTypeOK

LEMMA OneAskerMoves ==
    ASSUME HelpTypeOK, NEW c \in Asker, NEW r \in AskerState, asker' = [asker EXCEPT ![c] = r],
           r.since \in {asker[c].since, Blank},
           r.told => \/ r.since = Blank
                     \/ r.since = asker[c].since /\ (asker[c].told \/ unkept = 0)
    PROVE  AskersMove
<1>1. asker' \in [Asker -> AskerState] BY DEF HelpTypeOK
<1>2. ASSUME NEW d \in Asker
      PROVE  /\ asker'[d].since \in {asker[d].since, Blank, help'}
             /\ asker'[d].told =>
                   \/ asker'[d].since = Blank
                   \/ asker'[d].since = asker[d].since /\ (asker[d].told \/ unkept = 0)
  <2>1. CASE d = c
    <3>1. asker'[d] = r BY <2>1 DEF HelpTypeOK
    <3> QED BY <2>1, <3>1
  <2>2. CASE d # c
    <3>1. asker'[d] = asker[d] BY <2>2 DEF HelpTypeOK
    <3> QED BY <3>1
  <2> QED BY <2>1, <2>2
<1> QED BY <1>1, <1>2 DEF AskersMove

LEMMA AnsweredMoves ==
    ASSUME HelpTypeOK, NEW c \in Asker, NEW told \in BOOLEAN, Answered(c, told),
           told => unkept = 0
    PROVE  AskersMove
<1> DEFINE a == asker[c]
           r == IF told THEN [a EXCEPT !.at = "answered", !.told = TRUE]
                ELSE [a EXCEPT !.at = "answered", !.since = Blank]
<1>1. a \in AskerState BY DEF HelpTypeOK
<1>2. r \in AskerState BY <1>1, BlankIsValid DEF AskerState
<1>3. r.since \in {a.since, Blank}
      /\ (r.told => r.since = Blank \/ (r.since = a.since /\ (a.told \/ unkept = 0)))
  <2>1. CASE told
    <3>1. r.since = a.since BY <1>1, <2>1 DEF AskerState
    <3> QED BY <2>1, <3>1
  <2>2. CASE ~told
    <3>1. r.since = Blank BY <1>1, <2>2 DEF AskerState
    <3> QED BY <3>1
  <2> QED BY <2>1, <2>2
<1>4. asker' = [asker EXCEPT ![c] = r] BY DEF Answered, HelpTypeOK
<1> HIDE DEF r
<1> QED BY <1>2, <1>3, <1>4, OneAskerMoves

-----------------------------------------------------------------------------
(* What CT has read and is shown. *)

LEMMA ReadStays ==
    ASSUME HelpTypeOK, Grows, help' \in HelpState,
           filed \subseteq filed', reissued \subseteq reissued'
    PROVE  /\ \A n : Read(n) => Read(n)'
           /\ \A o : Shown(o) => Shown(o)'
<1>1. Len(help.log) \in Nat /\ Len(help'.log) \in Nat BY DEF HelpTypeOK, HelpState
<1>2. \A n \in 1..Len(help.log) : n \in 1..Len(help'.log) /\ help'.log[n] = help.log[n]
  BY <1>1 DEF Grows, Covers
<1>3. ASSUME NEW n, Read(n) PROVE Read(n)'
  BY <1>2, <1>3, Zenon DEF Read
<1>4. ASSUME NEW o, Shown(o) PROVE Shown(o)'
  BY <1>2, <1>4, Zenon DEF Shown
<1> QED BY <1>3, <1>4

(* What CT has read up to a number, it still has. *)
LEMMA StillRead ==
    ASSUME HelpTypeOK, ReadSound, Grows, help' \in HelpState, filed' = filed, reissued' = reissued,
           help'.acked \in {help.acked} \cup acks, acks' \subseteq acks,
           offered' \in {offered, {}}
    PROVE  ReadSound'
<1>1. (\A n : Read(n) => Read(n)') /\ (\A o : Shown(o) => Shown(o)')
  BY ReadStays
<1>2. \A n \in 1..help'.acked : Read(n) BY DEF ReadSound
<1>3. \A n \in acks' : \A m \in 1..n : Read(m) BY DEF ReadSound
<1>4. \A o \in offered' :
          Shown(o) /\ \A m \in 1..o[1] : Read(m) \/ \E q \in offered' : q[1] = m
  BY DEF ReadSound
<1> HIDE DEF Read, Shown
<1>5. /\ \A n \in 1..help'.acked : Read(n)'
      /\ \A n \in acks' : \A m \in 1..n : Read(m)'
  BY <1>1, <1>2, <1>3
<1>6. \A o \in offered' :
          Shown(o)' /\ \A m \in 1..o[1] : Read(m)' \/ \E q \in offered' : q[1] = m
  BY <1>1, <1>4, Zenon
<1> QED BY <1>5, <1>6, Zenon DEF ReadSound

(* A page follows what is acknowledged without a gap. *)
LEMMA PageSound ==
    ASSUME HelpTypeOK, ReadSound, UNCHANGED <<help, filed, acks, reissued>>,
           offered' = {<<n, help.log[n]>> : n \in Page}
    PROVE  ReadSound' /\ offered' \subseteq Nat \X Nat
<1>1. /\ help.log \in Seq(Nat) /\ help.acked \in Nat /\ OutboxPage \in Nat
      /\ Len(help.log) \in Nat
  BY HelpAssumption DEF HelpTypeOK, HelpState
<1>2. \A n \in Page : n \in 1..Len(help.log) /\ help.log[n] \in Nat BY <1>1 DEF Page
<1>3. \A n \in Page : \A m \in 1..n : m \in 1..help.acked \/ m \in Page
  BY <1>1 DEF Page
<1>4. \A n : Read(n)' <=> Read(n) BY DEF Read
<1>5. \A o : Shown(o)' <=> Shown(o) BY DEF Shown
<1>6. \A n \in 1..help.acked : Read(n) BY DEF ReadSound
<1>7. ASSUME NEW o \in offered'
      PROVE  Shown(o) /\ \A m \in 1..o[1] : Read(m) \/ \E q \in offered' : q[1] = m
  <2>1. PICK n \in Page : o = <<n, help.log[n]>> OBVIOUS
  <2>2. Shown(o) BY <1>2, <2>1 DEF Shown
  <2>3. ASSUME NEW m \in 1..o[1] PROVE Read(m) \/ \E q \in offered' : q[1] = m
    <3>1. m \in 1..help.acked \/ m \in Page BY <1>3, <2>1
    <3>2. ASSUME m \in Page PROVE \E q \in offered' : q[1] = m
      <4>1. <<m, help.log[m]>> \in offered' BY <3>2
      <4>2. <<m, help.log[m]>>[1] = m OBVIOUS
      <4> QED BY <4>1, <4>2, Zenon
    <3> QED BY <3>1, <3>2, <1>6
  <2> QED BY <2>2, <2>3
<1>8. \A n \in acks : \A m \in 1..n : Read(m) BY DEF ReadSound
<1>9. ReadSound'
  <2> HIDE DEF Read, Shown
  <2>1. help'.acked = help.acked /\ acks' = acks OBVIOUS
  <2> QED BY <1>4, <1>5, <1>6, <1>7, <1>8, <2>1, Zenon DEF ReadSound
<1>10. offered' \subseteq Nat \X Nat BY <1>2
<1> QED BY <1>9, <1>10

(* CT acknowledges what it has read without a gap. *)
LEMMA CollectSound ==
    ASSUME HelpTypeOK, Chained, ReadSound, Collect
    PROVE  ReadSound' /\ acks' \subseteq Nat /\ filed' \subseteq Nat \X Nat
<1>1. PICK o \in offered : acks' = acks \cup {o[1]} BY Zenon DEF Collect
<1>2. UNCHANGED <<help, flushVars, asker, reissued>> /\ offered' = {} /\ filed' = filed \cup offered
  BY DEF Collect
<1>3. help' = help /\ reissued' = reissued /\ kept' = kept BY <1>2 DEF flushVars
<1>4. offered \subseteq Nat \X Nat /\ filed \subseteq Nat \X Nat /\ acks \subseteq Nat
  BY DEF HelpTypeOK
<1>5. Grows /\ help' \in HelpState BY <1>3, CoversSelf DEF Grows, Chained, Valid
<1>6. \A n : Read(n) => Read(n)' BY <1>2, <1>3, <1>5, ReadStays
<1>7. ASSUME NEW q \in offered PROVE Read(q[1])'
  <2>1. q = <<q[1], q[2]>> /\ q \in filed' BY <1>2, <1>4
  <2>2. Shown(q) BY DEF ReadSound
  <2>3. \E p \in filed' : p[1] = q[1] BY <2>1
  <2>4. CASE q[1] \in 1..Len(help.log) /\ help.log[q[1]] = q[2]
    <3>1. <<q[1], help'.log[q[1]]>> \in filed' BY <2>1, <2>4, <1>3
    <3> QED BY <3>1, <2>3, <2>4, <1>3 DEF Read
  <2>5. CASE q[1] \in reissued BY <2>3, <2>5, <1>3 DEF Read
  <2> QED BY <2>2, <2>4, <2>5 DEF Shown
<1>8. \A m \in 1..o[1] : Read(m)'
  <2>1. ASSUME NEW m \in 1..o[1] PROVE Read(m)'
    <3>1. Read(m) \/ \E q \in offered : q[1] = m BY DEF ReadSound
    <3> HIDE DEF Read
    <3> QED BY <3>1, <1>6, <1>7
  <2> QED BY <2>1
<1>9. /\ \A n \in 1..help.acked : Read(n)
      /\ \A n \in acks : \A m \in 1..n : Read(m)
  BY DEF ReadSound
<1>10. /\ \A n \in 1..help'.acked : Read(n)'
       /\ \A n \in acks' : \A m \in 1..n : Read(m)'
  <2> HIDE DEF Read
  <2> QED BY <1>1, <1>3, <1>6, <1>8, <1>9
<1> QED BY <1>1, <1>2, <1>4, <1>10 DEF ReadSound

(* A crash takes back no more than it marks. *)
LEMMA LostAreMarked ==
    ASSUME HelpTypeOK, Chained, ReadSound, kept' \in HelpState, help' = kept', Covers(help, kept'),
           reissued' = reissued \cup
                       {o[1] : o \in {o \in filed \cup offered : o[1] > Len(kept'.log)}},
           UNCHANGED ctHelpVars
    PROVE  ReadSound' /\ reissued' \subseteq Nat
<1>1. filed' = filed /\ offered' = offered /\ acks' = acks BY DEF ctHelpVars
<1>2. offered \subseteq Nat \X Nat /\ filed \subseteq Nat \X Nat /\ reissued \subseteq Nat
  BY DEF HelpTypeOK
<1>3. /\ help.acked \in Nat /\ help'.acked \in Nat /\ help'.acked <= help.acked
      /\ Len(help.log) \in Nat /\ Len(help'.log) \in Nat
      /\ \A n \in 1..Len(help'.log) : help'.log[n] = help.log[n]
  BY DEF Covers, HelpState, HelpTypeOK
<1>4. \A o \in filed \cup offered : o[1] \in Nat /\ (o[1] > Len(help'.log) => o[1] \in reissued')
  BY <1>2
<1>5. \A o \in filed \cup offered :
          o[1] \in 1..Len(help.log) => o[1] \in 1..Len(help'.log) \/ o[1] \in reissued'
  BY <1>3, <1>4
<1>6. ASSUME NEW n, Read(n) PROVE Read(n)'
  <2>1. PICK o \in filed : o[1] = n BY <1>6 DEF Read
  <2>2. CASE n \in reissued BY <1>1, <2>1, <2>2 DEF Read
  <2>3. CASE n \in 1..Len(help.log) /\ <<n, help.log[n]>> \in filed
    <3>1. n \in 1..Len(help'.log) \/ n \in reissued' BY <1>5, <2>1, <2>3
    <3>2. CASE n \in reissued' BY <1>1, <2>1, <3>2 DEF Read
    <3>3. CASE n \in 1..Len(help'.log) BY <1>1, <1>3, <2>1, <2>3, <3>3 DEF Read
    <3> QED BY <3>1, <3>2, <3>3
  <2> QED BY <1>6, <2>2, <2>3 DEF Read
<1>7. ASSUME NEW o \in offered PROVE Shown(o)'
  <2>1. Shown(o) BY DEF ReadSound
  <2>2. CASE o[1] \in reissued BY <2>2 DEF Shown
  <2>3. CASE o[1] \in 1..Len(help.log) /\ help.log[o[1]] = o[2]
    <3>1. o[1] \in 1..Len(help'.log) \/ o[1] \in reissued' BY <1>5, <2>3
    <3> QED BY <1>3, <2>3, <3>1 DEF Shown
  <2> QED BY <2>1, <2>2, <2>3 DEF Shown
<1>8. \A n \in 1..help'.acked : Read(n) BY <1>3 DEF ReadSound
<1>9. /\ \A n \in acks : \A m \in 1..n : Read(m)
      /\ \A o \in offered : \A m \in 1..o[1] : Read(m) \/ \E q \in offered : q[1] = m
  BY DEF ReadSound
<1>10. ReadSound'
  <2> HIDE DEF Read, Shown
  <2>1. \A n \in 1..help'.acked : Read(n)' BY <1>6, <1>8
  <2>2. \A n \in acks' : \A m \in 1..n : Read(m)' BY <1>1, <1>6, <1>9
  <2>3. \A o \in offered' :
            Shown(o)' /\ \A m \in 1..o[1] : Read(m)' \/ \E q \in offered' : q[1] = m
    BY <1>1, <1>6, <1>7, <1>9
  <2> QED BY <2>1, <2>2, <2>3, Zenon DEF ReadSound
<1>11. reissued' \subseteq Nat BY <1>2
<1> QED BY <1>10, <1>11

-----------------------------------------------------------------------------
(* The steps. *)

OthersTyped ==
    /\ unkept \in Nat /\ flight \in FlightState
    /\ barrier \in {"none", "flushing", "returned", "raised"}
    /\ flusher \in {"sleeping", "flushing", "returned", "raised"}
    /\ flushError \in BOOLEAN
    /\ offered \subseteq Nat \X Nat /\ filed \subseteq Nat \X Nat
    /\ acks \subseteq Nat /\ reissued \subseteq Nat
    /\ left \in HelpScopeType

(* What a step has to show. *)
Sound == OthersTyped' /\ Chained' /\ Grows /\ AskersMove /\ ReadSound'

LEMMA SoundStep == ASSUME HelpIInv, Sound PROVE HelpIInv'
<1>1. Informed' BY InformedKept DEF HelpIInv, Sound
<1>2. HelpTypeOK' BY DEF Sound, OthersTyped, Chained, Valid, AskersMove, HelpTypeOK
<1> QED BY <1>1, <1>2 DEF HelpIInv, Sound

LEMMA Spent ==
    ASSUME HelpTypeOK,
           NEW b \in {"posts", "amends", "wakes", "failures", "losses", "crashes"}, Spend(b)
    PROVE  left' \in HelpScopeType
BY DEF HelpTypeOK, Spend, HelpScopeType

(* A change of the help state, by a request. *)
LEMMA RequestSound ==
    ASSUME HelpIInv, NEW s, Valid(s), Covers(s, help), Changes(s), NEW c \in Asker,
           Asks(c, "change"), s.acked \in {help.acked} \cup acks,
           acks' \subseteq acks, UNCHANGED <<offered, filed, reissued>>,
           left' \in HelpScopeType
    PROVE  Sound
<1>1. Chained' /\ Grows /\ unkept' \in Nat BY ChangesSound DEF HelpIInv
<1>2. help' = s /\ s \in HelpState BY DEF Changes, Valid
<1>3. AskersMove BY <1>2, AsksMoves DEF HelpIInv
<1>4. ReadSound' BY <1>1, <1>2, StillRead DEF HelpIInv
<1>5. OthersTyped' BY <1>1 DEF OthersTyped, HelpIInv, HelpTypeOK, Changes
<1> QED BY <1>1, <1>3, <1>4, <1>5 DEF Sound

LEMMA PostSound == ASSUME HelpIInv, NEW c \in Asker, Post(c) PROVE Sound
<1> DEFINE s == [help EXCEPT !.log = Append(@, left.posts)]
<1>1. help \in HelpState /\ Valid(help) /\ left.posts \in Nat
  BY DEF HelpIInv, HelpTypeOK, Chained, HelpScopeType
<1>2. Valid(s) /\ Covers(s, help) /\ s.acked = help.acked BY <1>1, PostCovers
<1>3. left' \in HelpScopeType BY Spent DEF Post, HelpIInv
<1>4. Changes(s) /\ Asks(c, "change") BY Zenon DEF Post
<1>5. acks' = acks /\ UNCHANGED <<offered, filed, reissued>> BY DEF Post, ctHelpVars
<1> HIDE DEF s
<1> QED BY <1>2, <1>3, <1>4, <1>5, RequestSound

LEMMA AckSound == ASSUME HelpIInv, NEW c \in Asker, NEW n \in acks, Ack(c, n) PROVE Sound
<1> DEFINE s == Acknowledged(n)
<1>1. n \in Nat /\ Valid(help) BY DEF HelpIInv, HelpTypeOK, Chained
<1>2. CASE n <= Len(help.log)
  <2>1. Valid(s) /\ Covers(s, help) /\ s.acked \in {help.acked, n} BY <1>1, <1>2, AckCovers
  <2>2. ~(n > Len(help.log)) BY <1>1, <1>2 DEF Valid, HelpState
  <2>3. Changes(s) /\ Asks(c, "change") BY <2>2, Zenon DEF Ack
  <2>4. acks' \subseteq acks /\ UNCHANGED <<offered, filed, reissued>> BY <2>2 DEF Ack
  <2>5. UNCHANGED left \/ Spend("losses") BY <2>2, Zenon DEF Ack
  <2>6. left' \in HelpScopeType BY <2>5, Spent DEF HelpIInv, HelpTypeOK
  <2> HIDE DEF s
  <2> QED BY <2>1, <2>3, <2>4, <2>6, RequestSound
<1>3. CASE ~(n <= Len(help.log))
  <2>1. n > Len(help.log) BY <1>1, <1>3 DEF Valid, HelpState
  <2>2. /\ UNCHANGED <<help, flushVars, asker, offered, filed, reissued, left>>
        /\ acks' \subseteq acks
    BY <2>1 DEF Ack
  <2>3. Chained' /\ Grows BY <2>2, StillChained DEF flushVars, HelpIInv
  <2>4. ReadSound' BY <2>2, <2>3, StillRead DEF HelpIInv, HelpTypeOK
  <2>5. AskersMove BY <2>2, AskersRest DEF HelpIInv
  <2>6. OthersTyped' BY <2>2 DEF OthersTyped, HelpIInv, HelpTypeOK, flushVars
  <2> QED BY <2>3, <2>4, <2>5, <2>6 DEF Sound
<1> QED BY <1>2, <1>3

(* Steps that leave the journal and CT alone. *)
LEMMA QuietSound ==
    ASSUME HelpIInv,
           UNCHANGED <<help, kept, unkept, flushError>>, UNCHANGED <<ctHelpVars, reissued>>,
           flight' \in {flight, NoFlight},
           barrier' \in {"none", "flushing", "returned", "raised"},
           flusher' \in {"sleeping", "flushing", "returned", "raised"},
           left' \in HelpScopeType, AskersMove
    PROVE  Sound
<1>1. Chained' /\ Grows BY StillChained DEF HelpIInv
<1>2. ReadSound' BY <1>1, StillRead DEF HelpIInv, HelpTypeOK, ctHelpVars
<1>3. flight' \in FlightState
  <2>1. NoFlight \in FlightState BY BlankIsValid DEF FlightState, NoFlight
  <2> QED BY <2>1 DEF HelpIInv, HelpTypeOK
<1>4. OthersTyped' BY <1>3 DEF OthersTyped, HelpIInv, HelpTypeOK, ctHelpVars
<1> QED BY <1>1, <1>2, <1>4 DEF Sound

LEMMA AmendSound == ASSUME HelpIInv, NEW c \in Asker, Amend(c) PROVE Sound
<1>1. HelpTypeOK BY DEF HelpIInv
<1>2. left' \in HelpScopeType BY <1>1, Spent DEF Amend
<1>3. help' = help /\ kept' = kept /\ flight' = flight /\ unkept' = unkept + 1
  BY DEF Amend
<1>4. AskersMove BY <1>1, <1>3, AsksMoves DEF Amend, HelpTypeOK
<1>5. Chained'
  <2>1. unkept' \in Nat /\ unkept' # 0 /\ flight.count \in Nat /\ unkept \in Nat
    BY <1>1, <1>3 DEF HelpTypeOK, FlightState
  <2>2. flight.writes => flight.count <= unkept' /\ flight.count # unkept'
    BY <1>3, <2>1 DEF HelpIInv, Chained
  <2> QED BY <1>3, <2>1, <2>2 DEF HelpIInv, Chained
<1>6. Grows BY <1>1, <1>3, CoversSelf DEF Grows, HelpTypeOK
<1>7. ReadSound' BY <1>1, <1>3, <1>6, StillRead DEF HelpIInv, HelpTypeOK, Amend, ctHelpVars
<1>8. OthersTyped' BY <1>1, <1>2, <1>3 DEF OthersTyped, HelpTypeOK, Amend, ctHelpVars
<1> QED BY <1>4, <1>5, <1>6, <1>7, <1>8 DEF Sound

LEMMA PollSound == ASSUME HelpIInv, NEW c \in Asker, Poll(c) PROVE Sound
<1>1. HelpTypeOK BY DEF HelpIInv
<1>2. UNCHANGED <<help, flushVars, ctHelpVars, reissued>> BY DEF Poll
<1>3. UNCHANGED left \/ Spend("losses") BY Zenon DEF Poll
<1>4. left' \in HelpScopeType BY <1>1, <1>3, Spent DEF HelpTypeOK
<1>5. AskersMove BY <1>1, <1>2, AsksMoves DEF Poll, HelpTypeOK
<1> QED BY <1>1, <1>2, <1>4, <1>5, QuietSound DEF flushVars, HelpTypeOK

LEMMA LookSound == ASSUME HelpIInv, NEW c \in Asker, Look(c) PROVE Sound
<1>1. HelpTypeOK BY DEF HelpIInv
<1>2. UNCHANGED <<help, kept, unkept, flight, flusher, flushError, ctHelpVars, reissued, left>>
  BY DEF Look
<1>3. CASE unkept = 0 /\ Answered(c, TRUE) /\ UNCHANGED barrier
  <2>1. AskersMove BY <1>1, <1>3, AnsweredMoves
  <2> QED BY <1>1, <1>2, <1>3, <2>1, QuietSound DEF HelpTypeOK
<1>4. CASE Answered(c, FALSE) /\ UNCHANGED barrier
  <2>1. AskersMove BY <1>1, <1>4, AnsweredMoves
  <2> QED BY <1>1, <1>2, <1>4, <2>1, QuietSound DEF HelpTypeOK
<1>5. CASE /\ asker' = [asker EXCEPT ![c].at = "waiting"]
           /\ barrier' = IF barrier = "none" THEN "flushing" ELSE barrier
  <2> DEFINE r == [asker[c] EXCEPT !.at = "waiting"]
  <2>1. asker[c] \in AskerState BY <1>1 DEF HelpTypeOK
  <2>2. r \in AskerState /\ r.since = asker[c].since /\ r.told = asker[c].told
    BY <2>1 DEF AskerState
  <2>3. asker' = [asker EXCEPT ![c] = r] BY <1>5
  <2> HIDE DEF r
  <2>4. AskersMove BY <1>1, <2>2, <2>3, OneAskerMoves
  <2> QED BY <1>1, <1>2, <1>5, <2>4, QuietSound DEF HelpTypeOK
<1> QED BY <1>3, <1>4, <1>5, Zenon DEF Look

LEMMA TimeoutSound == ASSUME HelpIInv, NEW c \in Asker, Timeout(c) PROVE Sound
<1>1. HelpTypeOK BY DEF HelpIInv
<1>2. AskersMove BY <1>1, AnsweredMoves DEF Timeout
<1>3. UNCHANGED <<help, flushVars, ctHelpVars, reissued, left>> BY DEF Timeout
<1> QED BY <1>1, <1>2, <1>3, QuietSound DEF flushVars, HelpTypeOK

LEMMA RestingIsTyped == Resting \in AskerState /\ Resting.since = Blank /\ ~Resting.told
BY BlankIsValid DEF Resting, AskerState

LEMMA RespondSound == ASSUME HelpIInv, NEW c \in Asker, Respond(c) PROVE Sound
<1>1. HelpTypeOK BY DEF HelpIInv
<1>2. UNCHANGED <<help, flushVars, filed, acks, reissued>> BY DEF Respond
<1>3. AskersMove
  <2>1. asker' = [asker EXCEPT ![c] = Resting] BY DEF Respond
  <2> QED BY <1>1, <2>1, RestingIsTyped, OneAskerMoves
<1>4. Chained' /\ Grows BY <1>1, <1>2, StillChained DEF flushVars, HelpIInv
<1>5. /\ UNCHANGED left \/ Spend("losses")
      /\ offered' = {<<n, help.log[n]>> : n \in Page} \/ offered' \in {offered, {}}
  BY DEF Respond
<1>6. left' \in HelpScopeType BY <1>1, <1>5, Spent DEF HelpTypeOK
<1>7. ReadSound' /\ offered' \subseteq Nat \X Nat
  <2>1. CASE offered' = {<<n, help.log[n]>> : n \in Page}
    BY <1>1, <1>2, <2>1, PageSound DEF HelpIInv
  <2>2. CASE offered' \in {offered, {}}
    BY <1>1, <1>2, <1>4, <2>2, StillRead DEF HelpIInv, HelpTypeOK
  <2> QED BY <1>5, <2>1, <2>2
<1>8. OthersTyped' BY <1>1, <1>2, <1>6, <1>7 DEF OthersTyped, HelpTypeOK, flushVars
<1> QED BY <1>3, <1>4, <1>7, <1>8 DEF Sound

LEMMA BarrierDoneSound == ASSUME HelpIInv, BarrierDone PROVE Sound
<1>1. HelpTypeOK BY DEF HelpIInv
<1>2. UNCHANGED <<help, kept, unkept, flight, flusher, flushError, ctHelpVars, reissued, left>>
      /\ barrier' = "none"
  BY DEF BarrierDone
<1>3. ASSUME NEW c \in Asker
      PROVE  /\ Woken(asker[c]) \in AskerState
             /\ Woken(asker[c]).since \in {asker[c].since, Blank}
             /\ Woken(asker[c]).told = asker[c].told
  <2>1. asker[c] \in AskerState BY <1>1 DEF HelpTypeOK
  <2> QED BY <2>1, BlankIsValid DEF Woken, AskerState
<1>4. asker' = [c \in Asker |-> IF asker[c].at = "waiting" THEN Woken(asker[c]) ELSE asker[c]]
  BY DEF BarrierDone
<1>5. ASSUME NEW c \in Asker
      PROVE  /\ asker'[c] \in AskerState
             /\ asker'[c].since \in {asker[c].since, Blank}
             /\ asker'[c].told = asker[c].told
  <2>1. asker[c] \in AskerState BY <1>1 DEF HelpTypeOK
  <2>2. asker'[c] \in {Woken(asker[c]), asker[c]} BY <1>4
  <2> HIDE DEF Woken
  <2> QED BY <1>3, <2>1, <2>2
<1>6. asker' \in [Asker -> AskerState] BY <1>4, <1>5
<1>7. ASSUME NEW c \in Asker
      PROVE  /\ asker'[c].since \in {asker[c].since, Blank, help'}
             /\ asker'[c].told =>
                   \/ asker'[c].since = Blank
                   \/ asker'[c].since = asker[c].since /\ (asker[c].told \/ unkept = 0)
  <2>1. asker'[c].since \in {asker[c].since, Blank} /\ asker'[c].told = asker[c].told BY <1>5
  <2> QED BY <2>1
<1>8. AskersMove BY <1>6, <1>7 DEF AskersMove
<1> QED BY <1>1, <1>2, <1>8, QuietSound DEF HelpTypeOK

LEMMA FlusherSound == ASSUME HelpIInv, FlusherWakes \/ FlusherNotes PROVE Sound
<1>1. HelpTypeOK BY DEF HelpIInv
<1>2. UNCHANGED <<help, kept, unkept, flight, barrier, asker, ctHelpVars, reissued>>
      /\ flushError' \in BOOLEAN /\ flusher' \in {"sleeping", "flushing"}
  BY <1>1 DEF FlusherWakes, FlusherNotes, HelpTypeOK
<1>3. UNCHANGED left \/ Spend("wakes") BY Zenon DEF FlusherWakes, FlusherNotes
<1>4. left' \in HelpScopeType BY <1>1, <1>3, Spent DEF HelpTypeOK
<1>5. AskersMove BY <1>1, <1>2, AskersRest
<1>6. Chained' /\ Grows BY <1>1, <1>2, StillChained DEF HelpIInv
<1>7. ReadSound' BY <1>1, <1>2, <1>6, StillRead DEF HelpIInv, HelpTypeOK, ctHelpVars
<1>8. OthersTyped' BY <1>1, <1>2, <1>4 DEF OthersTyped, HelpTypeOK, ctHelpVars
<1> QED BY <1>5, <1>6, <1>7, <1>8 DEF Sound

LEMMA EndsTyped ==
    ASSUME HelpTypeOK, NEW by, NEW how \in {"returned", "raised"}, Ends(by, how)
    PROVE  /\ flight' = NoFlight
           /\ barrier' \in {"none", "flushing", "returned", "raised"}
           /\ flusher' \in {"sleeping", "flushing", "returned", "raised"}
BY DEF Ends, HelpTypeOK

LEMMA FlushLookSound ==
    ASSUME HelpIInv, NEW by \in {"barrier", "flusher"}, FlushLook(by) PROVE Sound
<1>1. HelpTypeOK BY DEF HelpIInv
<1>2. UNCHANGED <<help, kept, unkept, flushError, asker, ctHelpVars, reissued, left>>
  BY DEF FlushLook
<1>3. AskersMove BY <1>1, <1>2, AskersRest
<1>4. CASE unkept = 0
  <2>1. Ends(by, "returned") BY <1>4, Zenon DEF FlushLook
  <2>2. /\ flight' = NoFlight
        /\ barrier' \in {"none", "flushing", "returned", "raised"}
        /\ flusher' \in {"sleeping", "flushing", "returned", "raised"}
    BY <1>1, <2>1, EndsTyped
  <2> QED BY <1>1, <1>2, <1>3, <2>2, QuietSound DEF HelpTypeOK
<1>5. CASE unkept # 0
  <2>1. /\ flight' = [by |-> by, writes |-> TRUE, state |-> help, count |-> unkept]
        /\ UNCHANGED <<barrier, flusher>>
    BY <1>5 DEF FlushLook
  <2>2. flight'.writes /\ flight'.state = help /\ flight'.count = unkept BY <2>1
  <2>3. unkept \in Nat /\ help \in HelpState /\ kept \in HelpState BY <1>1 DEF HelpTypeOK
  <2>4. Chained' BY <1>2, <1>5, <2>2, <2>3, CoversSelf DEF HelpIInv, Chained
  <2>5. Grows BY <1>2, <2>3, CoversSelf DEF Grows
  <2>6. ReadSound' BY <1>1, <1>2, <2>5, StillRead DEF HelpIInv, HelpTypeOK, ctHelpVars
  <2>7. flight' \in FlightState BY <2>1, <2>3 DEF FlightState
  <2>8. OthersTyped' BY <1>1, <1>2, <2>1, <2>7 DEF OthersTyped, HelpTypeOK, ctHelpVars
  <2> QED BY <1>3, <2>4, <2>5, <2>6, <2>8 DEF Sound
<1> QED BY <1>4, <1>5

LEMMA FlushLandsSound == ASSUME HelpIInv, FlushLands PROVE Sound
<1>1. HelpTypeOK BY DEF HelpIInv
<1>2. /\ UNCHANGED <<help, barrier, flusher, flushError, asker, ctHelpVars, reissued, left>>
      /\ kept' = flight.state /\ unkept' = unkept - flight.count /\ flight.writes
      /\ flight' = [NoFlight EXCEPT !.by = flight.by]
  BY DEF FlushLands
<1>3. ~flight'.writes /\ flight'.state = Blank BY <1>2 DEF NoFlight
<1>4. flight.count \in Nat /\ unkept \in Nat /\ flight.count <= unkept
      /\ flight.state \in HelpState /\ help \in HelpState
  BY <1>1, <1>2 DEF HelpTypeOK, FlightState, HelpIInv, Chained
<1>5. unkept' \in Nat /\ (unkept' = 0 => flight.count = unkept) BY <1>2, <1>4
<1>6. Chained' BY <1>2, <1>3, <1>5, BlankIsValid DEF HelpIInv, Chained
<1>7. Grows BY <1>2, <1>4, CoversSelf DEF Grows, HelpIInv, Chained
<1>8. ReadSound' BY <1>1, <1>2, <1>7, StillRead DEF HelpIInv, HelpTypeOK, ctHelpVars
<1>9. flight' \in FlightState BY <1>1, <1>2, BlankIsValid DEF HelpTypeOK, FlightState, NoFlight
<1>10. OthersTyped' BY <1>1, <1>2, <1>5, <1>9 DEF OthersTyped, HelpTypeOK, ctHelpVars
<1>11. AskersMove BY <1>1, <1>2, AskersRest
<1> QED BY <1>6, <1>7, <1>8, <1>10, <1>11 DEF Sound

LEMMA FlushFailsSound == ASSUME HelpIInv, FlushFails PROVE Sound
<1>1. HelpTypeOK BY DEF HelpIInv
<1>2. UNCHANGED <<help, kept, unkept, flushError, asker, ctHelpVars, reissued>>
      /\ Ends(flight.by, "raised")
  BY Zenon DEF FlushFails
<1>3. UNCHANGED left \/ Spend("failures") BY Zenon DEF FlushFails
<1>4. left' \in HelpScopeType BY <1>1, <1>3, Spent DEF HelpTypeOK
<1>5. /\ flight' = NoFlight
      /\ barrier' \in {"none", "flushing", "returned", "raised"}
      /\ flusher' \in {"sleeping", "flushing", "returned", "raised"}
  BY <1>1, <1>2, EndsTyped
<1>6. AskersMove BY <1>1, <1>2, AskersRest
<1> QED BY <1>2, <1>4, <1>5, <1>6, QuietSound

LEMMA CollectsSound == ASSUME HelpIInv, Collect PROVE Sound
<1>1. HelpTypeOK BY DEF HelpIInv
<1>2. UNCHANGED <<help, flushVars, asker, reissued, left>> /\ offered' = {}
  BY DEF Collect
<1>3. ReadSound' /\ acks' \subseteq Nat /\ filed' \subseteq Nat \X Nat
  BY CollectSound DEF HelpIInv
<1>4. Chained' /\ Grows BY <1>2, StillChained DEF flushVars, HelpIInv
<1>5. AskersMove BY <1>1, <1>2, AskersRest
<1>6. OthersTyped' BY <1>1, <1>2, <1>3 DEF OthersTyped, HelpTypeOK, flushVars
<1> QED BY <1>3, <1>4, <1>5, <1>6 DEF Sound

LEMMA LoseAckSound == ASSUME HelpIInv, LoseAck PROVE Sound
<1>1. HelpTypeOK BY DEF HelpIInv
<1>2. UNCHANGED <<help, flushVars, asker, offered, filed, reissued>> /\ acks' \subseteq acks
  BY DEF LoseAck
<1>3. left' \in HelpScopeType BY <1>1, Spent DEF LoseAck
<1>4. Chained' /\ Grows BY <1>2, StillChained DEF flushVars, HelpIInv
<1>5. ReadSound' BY <1>1, <1>2, <1>4, StillRead DEF HelpIInv, HelpTypeOK
<1>6. AskersMove BY <1>1, <1>2, AskersRest
<1>7. OthersTyped' BY <1>1, <1>2, <1>3 DEF OthersTyped, HelpTypeOK, flushVars
<1> QED BY <1>4, <1>5, <1>6, <1>7 DEF Sound

(* A crash leaves what storage has, or the write that was under way. *)
LEMMA HelpCrashSound == ASSUME HelpIInv, HelpCrash PROVE HelpIInv'
<1>1. HelpTypeOK /\ Chained /\ ReadSound BY DEF HelpIInv
<1>2. kept' = kept \/ (flight.writes /\ kept' = flight.state) BY DEF HelpCrash
<1>3. Valid(kept') /\ Covers(help, kept') BY <1>1, <1>2 DEF Chained
<1>4. /\ help' = kept' /\ unkept' = 0 /\ flight' = NoFlight /\ barrier' = "none"
      /\ flusher' = "sleeping" /\ flushError' = FALSE
      /\ asker' = [c \in Asker |-> Resting]
      /\ reissued' = reissued \cup
            {o[1] : o \in {o \in filed \cup offered : o[1] > Len(kept'.log)}}
      /\ UNCHANGED ctHelpVars
  BY DEF HelpCrash
<1>5. kept' \in HelpState BY <1>3 DEF Valid
<1>6. ReadSound' /\ reissued' \subseteq Nat BY <1>1, <1>3, <1>4, <1>5, LostAreMarked
<1>7. left' \in HelpScopeType BY <1>1, Spent DEF HelpCrash
<1>8. ~flight'.writes /\ flight'.state = Blank /\ flight' \in FlightState
  BY <1>4, BlankIsValid DEF NoFlight, FlightState
<1>9. Chained' BY <1>3, <1>4, <1>5, <1>8, BlankIsValid, CoversSelf DEF Chained
<1>10. \A c \in Asker : asker'[c] \in AskerState /\ asker'[c].since = Blank
  BY <1>4, RestingIsTyped
<1>11. Informed' BY <1>4, <1>5, <1>10, BlankIsValid, CoversBlank DEF Informed
<1>12. asker' \in [Asker -> AskerState] BY <1>4, RestingIsTyped
<1>13. HelpTypeOK' BY <1>1, <1>4, <1>5, <1>6, <1>7, <1>8, <1>12 DEF HelpTypeOK, ctHelpVars
<1> QED BY <1>6, <1>9, <1>11, <1>13 DEF HelpIInv

LEMMA HelpStart == HelpInit => HelpIInv
<1> SUFFICES ASSUME HelpInit PROVE HelpIInv OBVIOUS
<1>1. /\ help = Blank /\ kept = Blank /\ unkept = 0 /\ flight = NoFlight
      /\ asker = [c \in Asker |-> Resting]
      /\ barrier = "none" /\ flusher = "sleeping" /\ flushError = FALSE
      /\ offered = {} /\ filed = {} /\ acks = {} /\ reissued = {} /\ left \in HelpScopeType
  BY HelpAssumption DEF HelpInit
<1>2. ~flight.writes /\ flight.state = Blank /\ flight \in FlightState
  BY <1>1, BlankIsValid DEF NoFlight, FlightState
<1>3. \A c \in Asker : asker[c] \in AskerState /\ asker[c].since = Blank
  BY <1>1, RestingIsTyped
<1>4. Chained BY <1>1, <1>2, BlankIsValid, CoversBlank DEF Chained
<1>5. Informed BY <1>1, <1>3, BlankIsValid, CoversBlank DEF Informed
<1>6. help.acked = 0 BY <1>1 DEF Blank
<1>7. ReadSound BY <1>1, <1>6 DEF ReadSound
<1>8. asker \in [Asker -> AskerState] BY <1>1, RestingIsTyped
<1>9. HelpTypeOK BY <1>1, <1>2, <1>8, BlankIsValid DEF HelpTypeOK
<1> QED BY <1>4, <1>5, <1>7, <1>9 DEF HelpIInv

LEMMA HelpRests == ASSUME HelpIInv, UNCHANGED helpVars PROVE HelpIInv'
<1>1. UNCHANGED <<help, kept, unkept, flight, barrier, flusher, flushError, asker, offered, filed,
                  acks, reissued, left>>
  BY DEF helpVars, flushVars, ctHelpVars
<1>2. AskersMove BY <1>1, AskersRest DEF HelpIInv
<1> QED BY <1>1, <1>2, QuietSound, SoundStep DEF HelpIInv, HelpTypeOK, ctHelpVars

LEMMA HelpStep == HelpIInv /\ [HelpNext]_helpVars => HelpIInv'
<1> SUFFICES ASSUME HelpIInv, [HelpNext]_helpVars PROVE HelpIInv' OBVIOUS
<1>1. ASSUME NEW c \in Asker, Post(c) \/ Amend(c) PROVE Sound
  BY <1>1, PostSound, AmendSound
<1>2. ASSUME NEW c \in Asker, Look(c) \/ Timeout(c) \/ Respond(c) \/ Poll(c) PROVE Sound
  BY <1>2, LookSound, TimeoutSound, RespondSound, PollSound
<1>3. ASSUME NEW c \in Asker, NEW n \in acks, Ack(c, n) PROVE Sound BY <1>3, AckSound
<1>4. CASE Flushing
  BY <1>4, FlusherSound, FlushLandsSound, FlushFailsSound, FlushLookSound, SoundStep, Zenon
     DEF Flushing
<1>5. CASE Collection BY <1>2, <1>3, <1>5, CollectsSound, SoundStep, Zenon DEF Collection
<1>6. CASE BarrierDone \/ LoseAck BY <1>6, BarrierDoneSound, LoseAckSound, SoundStep
<1>7. CASE HelpCrash BY <1>7, HelpCrashSound
<1>8. CASE UNCHANGED helpVars BY <1>8, HelpRests
<1> QED BY <1>1, <1>4, <1>5, <1>6, <1>7, <1>8, SoundStep, Zenon DEF HelpNext

LEMMA HelpIsSound == HelpSpec => []HelpIInv
BY HelpStart, HelpStep, PTL DEF HelpSpec

(* Every variable of the help outbox has its type. *)
THEOREM HelpTypeCorrect == HelpSpec => []HelpTypeOK
<1>1. HelpIInv => HelpTypeOK BY DEF HelpIInv
<1> QED BY <1>1, HelpIsSound, PTL

(* A request that is told its change is retained has it in storage, with   *)
(* everything before it, from then on until it has answered.               *)
THEOREM ToldStaysRetained == HelpSpec => []ToldIsRetained
<1>1. HelpIInv => ToldIsRetained BY DEF HelpIInv, Informed, ToldIsRetained
<1> QED BY <1>1, HelpIsSound, PTL

(* Whatever order flushes, polls, acknowledgements and crashes come in, an *)
(* entry leaves the outbox only once CT has read it, unless CT had read    *)
(* its number before a crash.                                              *)
THEOREM DroppedWasFiled == HelpSpec => []DroppedIsFiled
<1>1. ASSUME HelpIInv PROVE DroppedIsFiled
  <2>1. help.acked \in Nat /\ Len(help.log) \in Nat /\ help.acked <= Len(help.log)
    BY <1>1 DEF HelpIInv, Chained, Valid, HelpState
  <2>2. \A n \in 1..help.acked : n <= Len(help.log) /\ Read(n)
    BY <1>1, <2>1 DEF HelpIInv, ReadSound
  <2> QED BY <2>2 DEF DroppedIsFiled, Read
<1> QED BY <1>1, HelpIsSound, PTL

-----------------------------------------------------------------------------
(* The app's own bearer: types. *)

(* The parts of the bearer's state that name bearers, apart from what has  *)
(* been minted.                                                            *)
ProbeTyped ==
    /\ rotation \in {"starting", "sleeping", "waiting", "probing"}
    /\ probe \in [by : Client \cup {Rotation, Nobody}, bearer : Bearers, stalled : BOOLEAN,
                  at : {"done", "authenticating", "validating", "fanning", "emergency"}]

ClientTyped ==
    client \in [Client -> [got : Bearers \cup {Pat}, revision : Nat,
          at : {"idle", "rotating", "probing", "looking", "emergency", "serving", "configuring"}]]

HeldTyped ==
    held \in [bearer : Bearers, validatedAt : Nat,
              health : {"unknown", "rotating", "degraded", "unhealthy"}]

AttendeeTyped ==
    attendee \in [known : BOOLEAN, ready : BOOLEAN, revision : Nat, file : Bearers \cup {Pat}]

TimesTyped ==
    /\ clock \in Nat /\ forcedAt \in Int /\ probedAt \in Int /\ patience \in {0, 1}
    /\ excused \subseteq {"outage", "behind"}

CredentialParts ==
    /\ expires \in Seq(Nat) /\ credit \in CredentialScopeType
    /\ ProbeTyped /\ ClientTyped /\ HeldTyped /\ AttendeeTyped /\ TimesTyped

LEMMA PartsAreAll ==
    (CredentialTypeOK <=> CredentialParts) /\ (CredentialTypeOK' <=> CredentialParts')
BY Zenon DEF CredentialTypeOK, CredentialParts, ProbeTyped, ClientTyped, HeldTyped,
    AttendeeTyped, TimesTyped

LEMMA BearersStay == UNCHANGED expires => Bearers' = Bearers
BY DEF Bearers

LEMMA BearersGrow ==
    ASSUME expires \in Seq(Nat), NEW e \in Nat, expires' = Append(expires, e)
    PROVE  /\ expires' \in Seq(Nat) /\ Bearers \subseteq Bearers'
           /\ Len(expires') = Len(expires) + 1 /\ Len(expires') \in Bearers'
<1>1. Len(expires) \in Nat OBVIOUS
<1>2. Len(expires') = Len(expires) + 1 /\ expires' \in Seq(Nat) BY <1>1
<1> QED BY <1>1, <1>2 DEF Bearers

LEMMA NoBearerIsOne == ASSUME expires \in Seq(Nat) PROVE NoBearer \in Bearers
<1>1. Len(expires) \in Nat OBVIOUS
<1> QED BY <1>1 DEF Bearers, NoBearer

LEMMA Drawn ==
    ASSUME credit \in CredentialScopeType,
           NEW bound \in {"ticks", "asks", "mints", "outages"}, Draw(bound)
    PROVE  credit' \in CredentialScopeType
BY DEF Draw, CredentialScopeType

LEMMA ProbeEndsTyped ==
    ASSUME ProbeTyped, ClientTyped, expires' \in Seq(Nat), Bearers \subseteq Bearers', ProbeEnds
    PROVE  ProbeTyped' /\ ClientTyped'
<1>1. NoBearer \in Bearers' BY NoBearerIsOne DEF Bearers, NoBearer
<1>2. ProbeTyped' BY <1>1 DEF ProbeTyped, ProbeEnds, NoProbe
<1>3. ClientTyped' BY DEF ClientTyped, ProbeEnds
<1> QED BY <1>2, <1>3

LEMMA ProbeGoesOnTyped ==
    ASSUME ProbeTyped, ClientTyped, Bearers \subseteq Bearers',
           NEW at \in {"done", "authenticating", "validating", "fanning", "emergency"},
           NEW b \in Bearers', NEW stalled \in BOOLEAN, ProbeGoesOn(at, b, stalled)
    PROVE  ProbeTyped' /\ ClientTyped'
<1>1. ProbeTyped' BY DEF ProbeTyped, ProbeGoesOn
<1>2. ClientTyped' BY DEF ClientTyped, ProbeGoesOn
<1> QED BY <1>1, <1>2

LEMMA ClearedTyped ==
    ASSUME expires' \in Seq(Nat), NEW health \in {"degraded", "unhealthy"},
           held' = Cleared(health)
    PROVE  HeldTyped'
<1>1. NoBearer \in Bearers' BY DEF Bearers, NoBearer
<1> QED BY <1>1 DEF HeldTyped, Cleared

LEMMA PartsKept ==
    ASSUME Bearers \subseteq Bearers'
    PROVE  /\ ProbeTyped /\ UNCHANGED <<rotation, probe>> => ProbeTyped'
           /\ ClientTyped /\ UNCHANGED client => ClientTyped'
           /\ HeldTyped /\ UNCHANGED held => HeldTyped'
           /\ AttendeeTyped /\ UNCHANGED attendee => AttendeeTyped'
BY DEF ProbeTyped, ClientTyped, HeldTyped, AttendeeTyped

LEMMA NothingMinted ==
    ASSUME CredentialParts, UNCHANGED expires
    PROVE  Bearers \subseteq Bearers' /\ expires' \in Seq(Nat) /\ NoBearer \in Bearers'
BY NoBearerIsOne, BearersStay DEF CredentialParts

LEMMA HeartbeatTyped == ASSUME CredentialParts, Heartbeat PROVE CredentialParts'
<1>1. Bearers \subseteq Bearers' /\ expires' \in Seq(Nat) BY NothingMinted DEF Heartbeat
<1>2. ProbeTyped' BY <1>1 DEF Heartbeat, CredentialParts, ProbeTyped
<1>3. TimesTyped' BY DEF Heartbeat, CredentialParts, TimesTyped
<1> QED BY <1>1, <1>2, <1>3, PartsKept DEF Heartbeat, Free, CredentialParts

LEMMA StartProbeTyped ==
    ASSUME ProbeTyped, NoBearer \in Bearers', NEW who \in Client \cup {Rotation}, StartProbe(who),
           rotation' \in {rotation, "probing"}
    PROVE  ProbeTyped'
BY DEF ProbeTyped, StartProbe, NoProbe

LEMMA RotationEntersTyped == ASSUME CredentialParts, RotationEnters PROVE CredentialParts'
<1>1. Bearers \subseteq Bearers' /\ expires' \in Seq(Nat) /\ NoBearer \in Bearers'
  BY NothingMinted DEF RotationEnters
<1>2. ProbeTyped' BY <1>1, StartProbeTyped DEF RotationEnters, CredentialParts
<1>3. TimesTyped' BY DEF RotationEnters, CredentialParts, TimesTyped
<1> QED BY <1>1, <1>2, <1>3, PartsKept DEF RotationEnters, Free, CredentialParts

LEMMA OutageTyped ==
    ASSUME CredentialParts
    PROVE  /\ Free => credit' \in CredentialScopeType
           /\ Outage => /\ credit' \in CredentialScopeType
                        /\ excused' \subseteq {"outage", "behind"}
<1>1. Outage => credit' \in CredentialScopeType BY Drawn DEF Outage, CredentialParts
<1> QED BY <1>1 DEF Outage, Free, CredentialParts, TimesTyped

(* What a probe may have minted. *)
LEMMA SdkBearersTyped ==
    ASSUME CredentialParts, BearerLife \in Nat
    PROVE  /\ SdkBearers \in Seq(Nat) /\ Len(SdkBearers) \in Nat
           /\ Len(SdkBearers) >= Len(expires)
           /\ Append(SdkBearers, clock + BearerLife) \in Seq(Nat)
           /\ Len(Append(SdkBearers, clock + BearerLife)) = Len(SdkBearers) + 1
<1>1. expires \in Seq(Nat) /\ clock + BearerLife \in Nat BY DEF CredentialParts, TimesTyped
<1>2. Append(expires, clock + BearerLife) \in Seq(Nat)
      /\ Len(Append(expires, clock + BearerLife)) = Len(expires) + 1
  BY <1>1
<1>3. SdkBearers \in {expires, Append(expires, clock + BearerLife)} BY DEF SdkBearers
<1>4. Len(expires) \in Nat BY <1>1
<1>5. SdkBearers \in Seq(Nat) /\ Len(SdkBearers) >= Len(expires) BY <1>1, <1>2, <1>3, <1>4
<1> QED BY <1>1, <1>5

LEMMA AuthenticateTyped == ASSUME CredentialParts, Authenticate PROVE CredentialParts'
<1> DEFINE had == SdkBearers
<1>1. had \in Seq(Nat) /\ Len(had) \in Nat /\ Len(had) >= Len(expires)
      /\ Append(had, clock + BearerLife) \in Seq(Nat)
      /\ Len(Append(had, clock + BearerLife)) = Len(had) + 1
  BY SdkBearersTyped, CredentialAssumption
<1>2. Len(expires) \in Nat BY DEF CredentialParts
<1>3. /\ expires' \in {had, Append(had, clock + BearerLife)}
      /\ \/ expires' = had /\ ProbeGoesOn("validating", Len(had), FALSE)
         \/ /\ expires' = Append(had, clock + BearerLife)
            /\ ProbeGoesOn("validating", Len(had) + 1, FALSE)
      /\ (Free /\ UNCHANGED excused) \/ Outage
      /\ forcedAt' \in {forcedAt, clock}
      /\ UNCHANGED <<clock, held, probedAt, attendee, patience>>
  BY DEF Authenticate
<1> HIDE DEF had
<1>4. expires' \in Seq(Nat) /\ Bearers \subseteq Bearers' BY <1>1, <1>2, <1>3 DEF Bearers
<1>5. /\ Len(had) \in Bearers'
      /\ expires' = Append(had, clock + BearerLife) => Len(had) + 1 \in Bearers'
  BY <1>1, <1>3 DEF Bearers
<1>6. ProbeTyped' /\ ClientTyped'
  <2>1. CASE ProbeGoesOn("validating", Len(had), FALSE)
    BY <1>4, <1>5, <2>1, ProbeGoesOnTyped DEF CredentialParts
  <2>2. CASE /\ expires' = Append(had, clock + BearerLife)
             /\ ProbeGoesOn("validating", Len(had) + 1, FALSE)
    BY <1>4, <1>5, <2>2, ProbeGoesOnTyped DEF CredentialParts
  <2> QED BY <1>3, <2>1, <2>2
<1>7. credit' \in CredentialScopeType BY <1>3, OutageTyped
<1>8. TimesTyped'
  <2>1. excused' \subseteq {"outage", "behind"}
    BY <1>3, OutageTyped DEF CredentialParts, TimesTyped
  <2>2. clock' \in Nat /\ forcedAt' \in Int /\ probedAt' \in Int /\ patience' \in {0, 1}
    BY <1>3 DEF CredentialParts, TimesTyped
  <2> QED BY <2>1, <2>2 DEF TimesTyped
<1> QED BY <1>3, <1>4, <1>6, <1>7, <1>8, PartsKept DEF CredentialParts

(* The rest of a probe mints nothing. *)
LEMMA ProbeEndsPart ==
    ASSUME CredentialParts, UNCHANGED expires, ProbeEnds
    PROVE  ProbeTyped' /\ ClientTyped'
BY NothingMinted, ProbeEndsTyped DEF CredentialParts

LEMMA TimesKept ==
    ASSUME TimesTyped, UNCHANGED <<clock, forcedAt, probedAt, patience>>,
           excused' \subseteq {"outage", "behind"}
    PROVE  TimesTyped'
BY DEF TimesTyped

LEMMA AuthenticateFailsTyped == ASSUME CredentialParts, AuthenticateFails PROVE CredentialParts'
<1>1. UNCHANGED <<clock, expires, forcedAt, probedAt, attendee, patience>> BY DEF AuthenticateFails
<1>2. Bearers \subseteq Bearers' /\ expires' \in Seq(Nat) /\ NoBearer \in Bearers'
  BY <1>1, NothingMinted
<1>3. credit' \in CredentialScopeType /\ excused' \subseteq {"outage", "behind"}
  BY OutageTyped DEF AuthenticateFails
<1>4. TimesTyped' BY <1>1, <1>3, TimesKept DEF CredentialParts
<1>5. AttendeeTyped' BY <1>1, <1>2, PartsKept DEF CredentialParts
<1>6. CASE held' = held /\ ProbeGoesOn("emergency", NoBearer, FALSE)
  <2>1. HeldTyped' BY <1>2, <1>6, PartsKept DEF CredentialParts
  <2>2. ProbeTyped' /\ ClientTyped' BY <1>2, <1>6, ProbeGoesOnTyped DEF CredentialParts
  <2> QED BY <1>2, <1>3, <1>4, <1>5, <2>1, <2>2 DEF CredentialParts
<1>7. CASE held' = Cleared("unhealthy") /\ ProbeEnds
  <2>1. HeldTyped' BY <1>2, <1>7, ClearedTyped
  <2>2. ProbeTyped' /\ ClientTyped' BY <1>1, <1>7, ProbeEndsPart
  <2> QED BY <1>2, <1>3, <1>4, <1>5, <2>1, <2>2 DEF CredentialParts
<1> QED BY <1>6, <1>7 DEF AuthenticateFails

LEMMA ValidatedTyped == ASSUME CredentialParts, Validated PROVE CredentialParts'
<1>1. UNCHANGED <<clock, expires, forcedAt, probedAt, attendee, patience>> BY DEF Validated
<1>2. Bearers \subseteq Bearers' /\ expires' \in Seq(Nat) BY <1>1, NothingMinted
<1>3. credit' \in CredentialScopeType BY OutageTyped DEF Validated
<1>4. excused' \subseteq {"outage", "behind"}
  BY DEF Validated, OutageOver, CredentialParts, TimesTyped
<1>5. TimesTyped' BY <1>1, <1>4, TimesKept DEF CredentialParts
<1>6. AttendeeTyped' BY <1>1, <1>2, PartsKept DEF CredentialParts
<1>7. HeldTyped'
  <2>1. Adopted \in [bearer : Bearers', validatedAt : Nat,
                     health : {"unknown", "rotating", "degraded", "unhealthy"}]
    BY <1>2 DEF Adopted, CredentialParts, ProbeTyped, TimesTyped
  <2>2. [held EXCEPT !.health = "unhealthy"] \in [bearer : Bearers', validatedAt : Nat,
                     health : {"unknown", "rotating", "degraded", "unhealthy"}]
    BY <1>2 DEF CredentialParts, HeldTyped
  <2>3. held' \in {Adopted, [held EXCEPT !.health = "unhealthy"]} BY DEF Validated
  <2> QED BY <2>1, <2>2, <2>3 DEF HeldTyped
<1>8. probe.bearer \in Bearers' /\ Lapsing \in BOOLEAN
  BY <1>2 DEF CredentialParts, ProbeTyped, Lapsing
<1>9. ProbeTyped' /\ ClientTyped'
  <2>1. CASE ProbeEnds BY <1>1, <2>1, ProbeEndsPart
  <2>2. CASE ProbeGoesOn("fanning", probe.bearer, Lapsing)
    BY <1>2, <1>8, <2>2, ProbeGoesOnTyped DEF CredentialParts
  <2> QED BY <2>1, <2>2 DEF Validated
<1> QED BY <1>2, <1>3, <1>5, <1>6, <1>7, <1>9 DEF CredentialParts

LEMMA FanoutEndsTyped ==
    ASSUME CredentialParts, FanoutEnds, AttendeeTyped', credit' \in CredentialScopeType,
           excused' \subseteq {"outage", "behind"}
    PROVE  CredentialParts'
<1>1. UNCHANGED <<clock, expires, forcedAt, probedAt, patience>> BY DEF FanoutEnds
<1>2. Bearers \subseteq Bearers' /\ expires' \in Seq(Nat) BY <1>1, NothingMinted
<1>3. TimesTyped' BY <1>1, TimesKept DEF CredentialParts
<1>4. HeldTyped' BY <1>2 DEF FanoutEnds, CredentialParts, HeldTyped
<1>5. ProbeTyped' /\ ClientTyped' BY <1>1, ProbeEndsPart DEF FanoutEnds
<1> QED BY <1>2, <1>3, <1>4, <1>5 DEF CredentialParts

LEMMA WrittenTyped ==
    ASSUME AttendeeTyped, Bearers \subseteq Bearers', NEW b \in Bearers' \cup {Pat}
    PROVE  Written(b) \in
             [known : BOOLEAN, ready : BOOLEAN, revision : Nat, file : Bearers' \cup {Pat}]
<1> DEFINE Type == [known : BOOLEAN, ready : BOOLEAN, revision : Nat, file : Bearers' \cup {Pat}]
           later == [attendee EXCEPT !.revision = @ + 1]
<1>1. later \in Type BY DEF AttendeeTyped
<1>2. Written(b) = [later EXCEPT !.file = b] BY Zenon DEF Written
<1> HIDE DEF later
<1> QED BY <1>1, <1>2

LEMMA FanoutTyped == ASSUME CredentialParts, Fanout PROVE CredentialParts'
<1>1. Bearers \subseteq Bearers' BY NothingMinted DEF Fanout, FanoutEnds
<1>2. probe.bearer \in Bearers' BY <1>1 DEF CredentialParts, ProbeTyped
<1>3. AttendeeTyped'
  <2>1. CASE attendee' = Written(probe.bearer)
    BY <1>1, <1>2, <2>1, WrittenTyped DEF CredentialParts, AttendeeTyped
  <2>2. CASE attendee' = attendee BY <1>1, <2>2, PartsKept DEF CredentialParts
  <2> QED BY <2>1, <2>2 DEF Fanout
<1>4. credit' \in CredentialScopeType BY OutageTyped DEF Fanout
<1>5. excused' \subseteq {"outage", "behind"}
  BY DEF Fanout, OutageOver, CredentialParts, TimesTyped
<1> QED BY <1>3, <1>4, <1>5, FanoutEndsTyped DEF Fanout

LEMMA FanoutFailsTyped == ASSUME CredentialParts, FanoutFails PROVE CredentialParts'
<1>1. Bearers \subseteq Bearers' BY NothingMinted DEF FanoutFails, FanoutEnds
<1>2. AttendeeTyped' BY <1>1 DEF FanoutFails, CredentialParts, AttendeeTyped
<1>3. credit' \in CredentialScopeType BY Drawn DEF FanoutFails, CredentialParts
<1>4. excused' \subseteq {"outage", "behind"}
  BY DEF FanoutFails, CredentialParts, TimesTyped
<1> QED BY <1>2, <1>3, <1>4, FanoutEndsTyped DEF FanoutFails

LEMMA ProbeFailsTyped ==
    ASSUME CredentialParts, ProbeEnds, HeldTyped', credit' \in CredentialScopeType,
           excused' \subseteq {"outage", "behind"},
           UNCHANGED <<clock, expires, forcedAt, probedAt, attendee, patience>>
    PROVE  CredentialParts'
<1>1. Bearers \subseteq Bearers' /\ expires' \in Seq(Nat) BY NothingMinted
<1>2. TimesTyped' BY TimesKept DEF CredentialParts
<1>3. AttendeeTyped' BY <1>1, PartsKept DEF CredentialParts
<1>4. ProbeTyped' /\ ClientTyped' BY ProbeEndsPart
<1> QED BY <1>1, <1>2, <1>3, <1>4 DEF CredentialParts

LEMMA RejectedTyped == ASSUME CredentialParts, Rejected PROVE CredentialParts'
<1>1. credit' \in CredentialScopeType /\ excused' \subseteq {"outage", "behind"}
  BY OutageTyped DEF Rejected, CredentialParts, TimesTyped
<1>2. HeldTyped' BY NothingMinted, ClearedTyped DEF Rejected
<1> QED BY <1>1, <1>2, ProbeFailsTyped DEF Rejected

LEMMA NoAnswerTyped == ASSUME CredentialParts, NoAnswer PROVE CredentialParts'
<1>1. credit' \in CredentialScopeType /\ excused' \subseteq {"outage", "behind"}
  BY OutageTyped DEF NoAnswer
<1>2. Bearers \subseteq Bearers' /\ expires' \in Seq(Nat) BY NothingMinted DEF NoAnswer
<1>3. HeldTyped'
  <2>1. CASE held' = Cleared("unhealthy") BY <1>2, <2>1, ClearedTyped
  <2>2. CASE held' = [held EXCEPT !.health = "unhealthy"]
    BY <1>2, <2>2 DEF CredentialParts, HeldTyped
  <2>3. CASE held' = held BY <1>2, <2>3, PartsKept DEF CredentialParts
  <2> QED BY <2>1, <2>2, <2>3 DEF NoAnswer
<1> QED BY <1>1, <1>3, ProbeFailsTyped DEF NoAnswer

LEMMA EmergencyProbeTyped == ASSUME CredentialParts, EmergencyProbe PROVE CredentialParts'
<1>1. credit' \in CredentialScopeType /\ excused' \subseteq {"outage", "behind"}
  BY OutageTyped DEF EmergencyProbe, CredentialParts, TimesTyped
<1>2. expires' \in Seq(Nat) BY NothingMinted DEF EmergencyProbe
<1>3. HeldTyped' BY <1>2, ClearedTyped DEF EmergencyProbe
<1> QED BY <1>1, <1>3, ProbeFailsTyped DEF EmergencyProbe

(* A request. *)
LEMMA ClientMoves ==
    ASSUME CredentialParts, NEW c \in Client, UNCHANGED expires, NEW r \in Nat,
           NEW at \in {"idle", "rotating", "probing", "looking", "emergency", "serving",
                       "configuring"},
           NEW got \in Bearers \cup {Pat},
           client' = [client EXCEPT ![c] = [at |-> at, got |-> got, revision |-> r]]
    PROVE  ClientTyped'
<1>1. Bearers' = Bearers BY BearersStay
<1> QED BY <1>1 DEF CredentialParts, ClientTyped

LEMMA ClientGoesTyped ==
    ASSUME CredentialParts, NEW c \in Client, UNCHANGED expires,
           NEW at \in {"idle", "rotating", "probing", "looking", "emergency", "serving",
                       "configuring"},
           NEW got \in Bearers \cup {Pat}, ClientGoes(c, at, got)
    PROVE  ClientTyped'
BY ClientMoves DEF ClientGoes

(* What a request leaves alone, and what it is left to show. *)
LEMMA RequestTyped ==
    ASSUME CredentialParts, ClientOnly, ProbeTyped', ClientTyped', HeldTyped', AttendeeTyped',
           credit' \in CredentialScopeType, excused' \subseteq {"outage", "behind"}
    PROVE  CredentialParts'
<1>1. expires' \in Seq(Nat) BY DEF ClientOnly, CredentialParts
<1>2. TimesTyped' BY TimesKept DEF ClientOnly, CredentialParts
<1> QED BY <1>1, <1>2 DEF CredentialParts

LEMMA QuietParts ==
    ASSUME CredentialParts, ClientOnly
    PROVE  /\ Bearers' = Bearers /\ NoBearer \in Bearers /\ held.bearer \in Bearers
           /\ \A c \in Client : client[c].got \in Bearers \cup {Pat}
           /\ UNCHANGED probe => ProbeTyped'
           /\ UNCHANGED held => HeldTyped'
           /\ UNCHANGED attendee => AttendeeTyped'
           /\ Free => credit' \in CredentialScopeType
           /\ UNCHANGED excused => excused' \subseteq {"outage", "behind"}
<1>1. Bearers' = Bearers BY BearersStay DEF ClientOnly
<1>2. NoBearer \in Bearers BY NoBearerIsOne DEF CredentialParts
<1>3. held.bearer \in Bearers BY DEF CredentialParts, HeldTyped
<1>4. \A c \in Client : client[c].got \in Bearers \cup {Pat} BY DEF CredentialParts, ClientTyped
<1>5. UNCHANGED rotation BY DEF ClientOnly
<1>6. Free => credit' \in CredentialScopeType BY OutageTyped
<1>7. UNCHANGED excused => excused' \subseteq {"outage", "behind"}
  BY DEF CredentialParts, TimesTyped
<1> QED BY <1>1, <1>2, <1>3, <1>4, <1>5, <1>6, <1>7, PartsKept DEF CredentialParts

LEMMA AskTyped == ASSUME CredentialParts, NEW c \in Client, Ask(c) PROVE CredentialParts'
<1>1. ClientOnly /\ UNCHANGED <<held, probe, excused>> BY DEF Ask
<1>2. credit' \in CredentialScopeType BY Drawn DEF Ask, CredentialParts
<1>3. AttendeeTyped' BY <1>1, QuietParts DEF Ask, CredentialParts, AttendeeTyped
<1>4. ClientTyped' BY <1>1, QuietParts, ClientGoesTyped DEF Ask, ClientOnly
<1> QED BY <1>1, <1>2, <1>3, <1>4, QuietParts, RequestTyped

LEMMA RotatesTyped == ASSUME CredentialParts, NEW c \in Client, Rotates(c) PROVE CredentialParts'
<1>1. ClientOnly /\ UNCHANGED <<held, attendee, excused>> /\ Free BY DEF Rotates
<1>2. ProbeTyped'
  <2>1. CASE UNCHANGED probe BY <1>1, <2>1, QuietParts
  <2>2. CASE StartProbe(c)
    BY <1>1, <2>2, QuietParts, StartProbeTyped DEF ClientOnly, CredentialParts
  <2> QED BY <2>1, <2>2 DEF Rotates
<1>3. ClientTyped' BY <1>1, QuietParts, ClientGoesTyped DEF Rotates, ClientOnly
<1> QED BY <1>1, <1>2, <1>3, QuietParts, RequestTyped

LEMMA LooksTyped == ASSUME CredentialParts, NEW c \in Client, Looks(c) PROVE CredentialParts'
<1>1. ClientOnly /\ UNCHANGED <<held, probe, attendee, excused>> /\ Free BY DEF Looks
<1>2. ClientTyped'
  <2>1. CASE ClientGoes(c, "serving", held.bearer)
    BY <1>1, <2>1, QuietParts, ClientGoesTyped DEF ClientOnly
  <2>2. CASE ClientGoes(c, IF credit.pat THEN "emergency" ELSE "idle", NoBearer)
    BY <1>1, <2>2, QuietParts, ClientGoesTyped DEF ClientOnly
  <2> QED BY <2>1, <2>2 DEF Looks
<1> QED BY <1>1, <1>2, QuietParts, RequestTyped

LEMMA EmergencyTyped ==
    ASSUME CredentialParts, NEW c \in Client, Emergency(c) PROVE CredentialParts'
<1>1. ClientOnly /\ UNCHANGED <<probe, attendee>> BY DEF Emergency
<1>2. credit' \in CredentialScopeType /\ excused' \subseteq {"outage", "behind"}
  BY OutageTyped DEF Emergency, CredentialParts, TimesTyped
<1>3. HeldTyped'
  BY <1>1, NothingMinted, ClearedTyped DEF Emergency, ClientOnly
<1>4. ClientTyped' BY <1>1, QuietParts, ClientGoesTyped DEF Emergency, ClientOnly
<1> QED BY <1>1, <1>2, <1>3, <1>4, QuietParts, RequestTyped

LEMMA UpdatesTyped == ASSUME CredentialParts, NEW c \in Client, Updates(c) PROVE CredentialParts'
<1>1. ClientOnly /\ UNCHANGED <<held, probe>> /\ Free BY DEF Updates
<1>2. excused' \subseteq {"outage", "behind"} BY DEF Updates, CredentialParts, TimesTyped
<1>3. AttendeeTyped'
  BY <1>1, QuietParts, WrittenTyped DEF Updates, CredentialParts, AttendeeTyped
<1>4. ClientTyped' BY <1>1, QuietParts, ClientGoesTyped DEF Updates, ClientOnly
<1> QED BY <1>1, <1>2, <1>3, <1>4, QuietParts, RequestTyped

LEMMA ConfiguresTyped ==
    ASSUME CredentialParts, NEW c \in Client, Configures(c) PROVE CredentialParts'
<1>1. ClientOnly /\ UNCHANGED <<held, probe>> /\ Free BY DEF Configures
<1>2. excused' \subseteq {"outage", "behind"}
  BY DEF Configures, Behind, CredentialParts, TimesTyped
<1>3. AttendeeTyped'
  <2>1. attendee' \in [known : BOOLEAN, ready : BOOLEAN, revision : Nat, file : Bearers \cup {Pat}]
    BY DEF Configures, CredentialParts, AttendeeTyped
  <2>2. Bearers' = Bearers BY <1>1, QuietParts
  <2> QED BY <2>1, <2>2 DEF AttendeeTyped
<1>4. ClientTyped'
  <2>1. attendee.revision + 1 \in Nat BY DEF CredentialParts, AttendeeTyped
  <2>2. client[c].got \in Bearers \cup {Pat} BY <1>1, QuietParts
  <2> QED BY <1>1, <2>1, <2>2, ClientMoves DEF Configures, ClientOnly
<1> QED BY <1>1, <1>2, <1>3, <1>4, QuietParts, RequestTyped

LEMMA AgentsReadyTyped ==
    ASSUME CredentialParts, NEW c \in Client, AgentsReady(c) PROVE CredentialParts'
<1>1. ClientOnly /\ UNCHANGED <<held, probe, client, excused>> /\ Free BY DEF AgentsReady
<1>2. AttendeeTyped' BY <1>1, QuietParts DEF AgentsReady, CredentialParts, AttendeeTyped
<1>3. ClientTyped' BY <1>1, QuietParts, PartsKept DEF CredentialParts
<1> QED BY <1>1, <1>2, <1>3, QuietParts, RequestTyped

LEMMA CommitsTyped == ASSUME CredentialParts, NEW c \in Client, Commits(c) PROVE CredentialParts'
<1>1. ClientOnly /\ UNCHANGED <<held, probe>> /\ Free BY DEF Commits
<1>2. excused' \subseteq {"outage", "behind"}
  BY DEF Commits, InOrder, CredentialParts, TimesTyped
<1>3. AttendeeTyped' BY <1>1, QuietParts DEF Commits, CredentialParts, AttendeeTyped
<1>4. ClientTyped' BY <1>1, QuietParts, ClientGoesTyped DEF Commits, ClientOnly
<1> QED BY <1>1, <1>2, <1>3, <1>4, QuietParts, RequestTyped

(* The outside. *)
LEMMA SdkMintsTyped == ASSUME CredentialParts, SdkMints PROVE CredentialParts'
<1>1. clock + BearerLife \in Nat BY CredentialAssumption DEF CredentialParts, TimesTyped
<1>2. Bearers \subseteq Bearers' /\ expires' \in Seq(Nat)
  BY <1>1, BearersGrow DEF SdkMints, CredentialParts
<1>3. credit' \in CredentialScopeType BY Drawn DEF SdkMints, CredentialParts
<1>4. TimesTyped' BY DEF SdkMints, CredentialParts, TimesTyped
<1> QED BY <1>2, <1>3, <1>4, PartsKept DEF SdkMints, CredentialParts

LEMMA TickTyped == ASSUME CredentialParts, Tick PROVE CredentialParts'
<1>1. Bearers \subseteq Bearers' /\ expires' \in Seq(Nat) BY NothingMinted DEF Tick
<1>2. credit' \in CredentialScopeType BY Drawn DEF Tick, CredentialParts
<1>3. TimesTyped' BY DEF Tick, CredentialParts, TimesTyped
<1> QED BY <1>1, <1>2, <1>3, PartsKept DEF Tick, CredentialParts

LEMMA CredentialStart == CredentialInit => CredentialParts
<1> SUFFICES ASSUME CredentialInit PROVE CredentialParts OBVIOUS
<1>1. expires \in Seq(Nat) BY DEF CredentialInit
<1>2. NoBearer \in Bearers BY <1>1, NoBearerIsOne
<1>3. ProbeTyped BY <1>2 DEF CredentialInit, ProbeTyped, NoProbe
<1>4. ClientTyped BY <1>2 DEF CredentialInit, ClientTyped
<1>5. HeldTyped BY <1>2 DEF CredentialInit, HeldTyped, Cleared
<1>6. AttendeeTyped BY <1>2 DEF CredentialInit, AttendeeTyped
<1>7. TimesTyped BY CredentialAssumption DEF CredentialInit, TimesTyped
<1>8. credit \in CredentialScopeType BY CredentialAssumption DEF CredentialInit
<1> QED BY <1>1, <1>3, <1>4, <1>5, <1>6, <1>7, <1>8 DEF CredentialParts

LEMMA CredentialStep == CredentialParts /\ [CredentialNext]_credentialVars => CredentialParts'
<1> SUFFICES ASSUME CredentialParts, [CredentialNext]_credentialVars PROVE CredentialParts'
  OBVIOUS
<1>1. CASE Heartbeat \/ RotationEnters BY <1>1, HeartbeatTyped, RotationEntersTyped
<1>2. CASE Authenticate \/ AuthenticateFails \/ Validated \/ Rejected \/ NoAnswer
  BY <1>2, AuthenticateTyped, AuthenticateFailsTyped, ValidatedTyped, RejectedTyped, NoAnswerTyped
<1>3. CASE Fanout \/ FanoutFails \/ EmergencyProbe
  BY <1>3, FanoutTyped, FanoutFailsTyped, EmergencyProbeTyped
<1>4. CASE \E c \in Client : Requesting(c)
  <2>1. PICK c \in Client : Requesting(c) BY <1>4
  <2>2. CASE Ask(c) \/ Rotates(c) \/ Looks(c) \/ Emergency(c)
    BY <2>2, AskTyped, RotatesTyped, LooksTyped, EmergencyTyped
  <2>3. CASE Updates(c) \/ Configures(c) \/ AgentsReady(c) \/ Commits(c)
    BY <2>3, UpdatesTyped, ConfiguresTyped, AgentsReadyTyped, CommitsTyped
  <2> QED BY <2>1, <2>2, <2>3 DEF Requesting
<1>5. CASE SdkMints \/ Tick BY <1>5, SdkMintsTyped, TickTyped
<1>6. CASE UNCHANGED credentialVars
  <2>1. Bearers \subseteq Bearers' /\ expires' \in Seq(Nat)
    BY <1>6, NothingMinted DEF credentialVars
  <2>2. TimesTyped' BY <1>6 DEF credentialVars, CredentialParts, TimesTyped
  <2> QED BY <1>6, <2>1, <2>2, PartsKept DEF credentialVars, CredentialParts
<1> QED BY <1>1, <1>2, <1>3, <1>4, <1>5, <1>6, Zenon DEF CredentialNext, Probing

(* Every variable of the bearer's maintenance has its type: no bearer is   *)
(* held, validated or written that was not minted.                         *)
THEOREM CredentialTypeCorrect == CredentialSpec => []CredentialTypeOK
<1>1. CredentialParts => CredentialTypeOK BY PartsAreAll
<1> QED BY <1>1, CredentialStart, CredentialStep, PTL DEF CredentialSpec

-----------------------------------------------------------------------------
(* The app's own bearer: the file. *)

Latest == Len(expires)
Calm == "outage" \notin excused

(* Bearers are minted in turn, and the last forced refresh parts those     *)
(* that were about to lapse from those it and later mints brought.         *)
MintedInTurn ==
    /\ \A j, k \in 1..Latest : j <= k => expires[j] <= expires[k]
    /\ \A k \in 1..Latest :
          /\ expires[k] <= clock + BearerLife
          /\ expires[k] <= forcedAt + ForceWindow \/ expires[k] >= forcedAt + BearerLife
    /\ forcedAt <= clock
    /\ Calm /\ Latest > 0 => expires[Latest] >= forcedAt + BearerLife

(* The thread comes round: what patience promises. *)
Cadence ==
    /\ probedAt <= clock
    /\ rotation = "starting" => clock + patience = 1
    /\ rotation \in {"waiting", "probing"} => clock + patience = probedAt + 1
    /\ rotation = "sleeping" =>
          clock + patience <= 1 \/ clock + patience <= probedAt + ProbeInterval

(* Who has the lock, and what its holder has done so far. *)
LockHeld ==
    /\ probe.by = Rotation <=> rotation \in {"starting", "probing"}
    /\ probe.by = Nobody <=> probe.at = "done"
    /\ \A c \in Client : probe.by = c => client[c].at = "probing"
    /\ probe.at \in {"validating", "fanning"} => probe.bearer \in 1..Latest
    /\ probe.at = "emergency" => ~Calm
    /\ probe.at = "fanning" /\ probe.stalled => TimeLeft(probe.bearer) <= Margin
    /\ probe.at = "fanning" /\ held.bearer # NoBearer =>
          /\ held.bearer = probe.bearer /\ held.health = "rotating"
          /\ rotation # "waiting" => probedAt <= held.validatedAt

(* Nobody is served before the process has started. *)
NobodyYet ==
    /\ rotation = "starting" => ~attendee.known
    /\ ~attendee.known => attendee.file = NoBearer /\ \A c \in Client : client[c].at = "idle"

(* b lasts n ticks from when the thread must have come round, and so does  *)
(* what would replace it.                                                  *)
Lasts(b, n) == b \in 1..Latest /\ TimeLeft(b) >= n + patience
Succeeded(b, n) == b = Latest \/ TimeLeft(Latest) >= n + patience

StartsInTime ==
    rotation = "starting" /\ probe.at = "authenticating" =>
        held.bearer = NoBearer /\ (Latest > 0 => TimeLeft(Latest) >= BearerLife - 1 + patience)

SleepsInTime ==
    rotation = "sleeping" =>
        /\ probe.by = Nobody /\ probedAt <= held.validatedAt
        /\ Lasts(held.bearer, ForceWindow - 1) /\ Succeeded(held.bearer, ForceWindow)

WaitsInTime ==
    rotation \in {"waiting", "probing"} /\ probe.at \in {"done", "authenticating"} =>
        Lasts(held.bearer, ForceWindow - 2) /\ Succeeded(held.bearer, ForceWindow - 1)

ValidatesInTime ==
    probe.at = "validating" =>
        /\ Lasts(probe.bearer, ForceWindow - 1) /\ Succeeded(probe.bearer, ForceWindow)
        /\ rotation # "starting" => Lasts(held.bearer, ForceWindow - 2)

FansInTime ==
    probe.at = "fanning" =>
        /\ held.bearer = probe.bearer /\ ~probe.stalled
        /\ Lasts(held.bearer, ForceWindow - 1) /\ Succeeded(held.bearer, ForceWindow)

InTime ==
    Calm =>
        /\ rotation # "starting" => held.bearer # NoBearer /\ held.health = "rotating"
        /\ StartsInTime /\ SleepsInTime /\ WaitsInTime /\ ValidatesInTime /\ FansInTime

(* A token in the file is the one that is held, unless that one is being   *)
(* fanned out to replace it; and so is a token that will be written there  *)
(* in its turn.                                                            *)
InOrderFor(b) ==
    b \notin {NoBearer, Pat} =>
        /\ "behind" \notin excused /\ held.bearer # NoBearer /\ probe.at # "fanning" =>
              b = held.bearer
        /\ excused = {} /\ probe.at = "fanning" =>
              b = held.bearer \/ Lasts(b, ForceWindow - 2)

WritesNext(c) == client[c].at = "configuring" /\ client[c].revision = attendee.revision

FileInOrder ==
    /\ InOrderFor(attendee.file)
    /\ \A c \in Client :
          /\ client[c].at = "configuring" => client[c].revision <= attendee.revision
          /\ client[c].at \in {"serving", "configuring"} => client[c].got # NoBearer
          /\ WritesNext(c) =>
                InOrderFor(client[c].got) /\ \A d \in Client : WritesNext(d) => d = c

BearerIInv ==
    CredentialParts /\ MintedInTurn /\ Cadence /\ LockHeld /\ NobodyYet /\ InTime /\ FileInOrder

(* What the types say, in the terms of these. *)
Plain ==
    /\ clock \in Nat /\ patience \in {0, 1} /\ forcedAt \in Int /\ probedAt \in Int
    /\ excused \subseteq {"outage", "behind"}
    /\ expires \in Seq(Nat) /\ Latest \in Nat /\ \A k \in 1..Latest : expires[k] \in Nat
    /\ rotation \in {"starting", "sleeping", "waiting", "probing"}
    /\ held.bearer \in 0..Latest /\ held.validatedAt \in Nat
    /\ probe.bearer \in 0..Latest /\ probe.stalled \in BOOLEAN
    /\ probe.by \in Client \cup {Rotation, Nobody}
    /\ probe.at \in {"done", "authenticating", "validating", "fanning", "emergency"}
    /\ attendee.known \in BOOLEAN /\ attendee.ready \in BOOLEAN /\ attendee.revision \in Nat
    /\ attendee.file \in 0..Latest \cup {Pat}
    /\ \A c \in Client : client[c].revision \in Nat /\ client[c].got \in 0..Latest \cup {Pat}

LEMMA TypesArePlain == (CredentialParts => Plain) /\ (CredentialParts' => Plain')
<1>1. ASSUME CredentialParts PROVE Plain
  <2>1. expires \in Seq(Nat) BY <1>1 DEF CredentialParts
  <2>2. Latest \in Nat /\ (\A k \in 1..Latest : expires[k] \in Nat) /\ Bearers = 0..Latest
    BY <2>1 DEF Latest, Bearers
  <2> HIDE DEF Latest
  <2>3. ProbeTyped /\ ClientTyped /\ HeldTyped /\ AttendeeTyped /\ TimesTyped
    BY <1>1 DEF CredentialParts
  <2>4. clock \in Nat /\ patience \in {0, 1} /\ forcedAt \in Int /\ probedAt \in Int
        /\ excused \subseteq {"outage", "behind"}
    BY <2>3 DEF TimesTyped
  <2>5. held.bearer \in 0..Latest /\ held.validatedAt \in Nat BY <2>2, <2>3 DEF HeldTyped
  <2>6. /\ rotation \in {"starting", "sleeping", "waiting", "probing"}
        /\ probe.bearer \in 0..Latest /\ probe.stalled \in BOOLEAN
        /\ probe.by \in Client \cup {Rotation, Nobody}
        /\ probe.at \in {"done", "authenticating", "validating", "fanning", "emergency"}
    BY <2>2, <2>3 DEF ProbeTyped
  <2>7. /\ attendee.known \in BOOLEAN /\ attendee.ready \in BOOLEAN /\ attendee.revision \in Nat
        /\ attendee.file \in 0..Latest \cup {Pat}
    BY <2>2, <2>3 DEF AttendeeTyped
  <2>8. \A c \in Client : client[c].revision \in Nat /\ client[c].got \in 0..Latest \cup {Pat}
    BY <2>2, <2>3 DEF ClientTyped
  <2> QED BY <2>1, <2>2, <2>4, <2>5, <2>6, <2>7, <2>8 DEF Plain
<1>2. CredentialParts => Plain BY <1>1
<1>3. CredentialParts' => Plain' BY <1>2, PTL
<1> QED BY <1>2, <1>3

LEMMA Windows ==
    /\ BearerLife \in Nat /\ ProbeInterval \in Nat /\ ProbeWindow \in Nat /\ ForceWindow \in Nat
    /\ Cooldown \in Nat /\ Margin \in Nat /\ MaxAge \in Nat
    /\ 1 <= ProbeInterval /\ ProbeInterval <= MaxAge
    /\ 3 <= ForceWindow /\ ForceWindow <= ProbeWindow /\ ForceWindow < BearerLife
    /\ Margin + 1 < ForceWindow /\ ForceWindow + Cooldown <= BearerLife
BY CredentialAssumption, WindowsFit

Numbered ==
    /\ forcedAt \in Int /\ probedAt \in Int
    /\ clock \in Int /\ patience \in Int /\ 0 <= patience /\ patience <= 1
    /\ Latest \in Int /\ 0 <= Latest /\ 0 <= clock
    /\ \A k \in 1..Latest : expires[k] \in Int

LEMMA Numbers == (Plain => Numbered) /\ (Plain' => Numbered')
<1>1. Plain => Numbered BY DEF Plain, Numbered
<1>2. Plain' => Numbered' BY <1>1, PTL
<1> QED BY <1>1, <1>2

LEMMA TokensAreNumbers ==
    ASSUME Plain
    PROVE  /\ held.bearer \in Int /\ probe.bearer \in Int /\ attendee.file \in Int
           /\ \A c \in Client : client[c].got \in Int
<1>1. \A b \in 0..Latest \cup {Pat} : b \in Int BY Numbers DEF Numbered, Pat
<1>2. /\ held.bearer \in 0..Latest /\ probe.bearer \in 0..Latest
      /\ attendee.file \in 0..Latest \cup {Pat}
      /\ \A c \in Client : client[c].got \in 0..Latest \cup {Pat}
  BY Zenon DEF Plain
<1> QED BY <1>1, <1>2, Zenon

(* What has been minted. *)

(* The bearers that there were keep their place and their expiry. *)
Minting == expires' = Append(expires, clock + BearerLife) /\ clock' = clock

LEMMA Minted ==
    ASSUME Plain, Minting
    PROVE  /\ Latest' = Latest + 1 /\ expires'[Latest'] = clock + BearerLife
           /\ \A k \in 1..Latest : expires'[k] = expires[k]
           /\ clock + BearerLife \in Nat
<1>1. expires \in Seq(Nat) /\ clock + BearerLife \in Nat BY Windows DEF Plain
<1> QED BY <1>1 DEF Minting, Latest

(* Nothing is minted, or one bearer; and time does not run out faster than *)
(* patience.                                                               *)
GoesOn ==
    /\ UNCHANGED expires \/ Minting
    /\ clock' + patience' <= clock + patience

LEMMA LatestStays == UNCHANGED expires => Latest' = Latest
BY DEF Latest

LEMMA LastsKept ==
    ASSUME Plain, Plain', GoesOn
    PROVE  \A b, n \in Int : Lasts(b, n) => Lasts(b, n)'
<1> SUFFICES ASSUME NEW b \in Int, NEW n \in Int, Lasts(b, n) PROVE Lasts(b, n)'
  OBVIOUS
<1>1. b \in 1..Latest' /\ expires'[b] = expires[b]
  BY Minted, LatestStays, Numbers DEF GoesOn, Lasts, Numbered
<1>2. expires[b] \in Int /\ expires[b] - clock >= n + patience
  BY Numbers DEF Lasts, TimeLeft, Numbered
<1>3. expires'[b] - clock' >= n + patience'
  BY <1>1, <1>2, Numbers DEF GoesOn, Numbered
<1> QED BY <1>1, <1>3 DEF Lasts, TimeLeft

LEMMA SucceededKept ==
    ASSUME Plain, Plain', GoesOn, Latest > 0
    PROVE  \A b, n \in Int : n <= ForceWindow /\ Succeeded(b, n) => Succeeded(b, n)'
<1> SUFFICES ASSUME NEW b \in Int, NEW n \in Int, n <= ForceWindow, Succeeded(b, n)
             PROVE  Succeeded(b, n)'
  OBVIOUS
<1>1. CASE Minting
  <2>1. expires'[Latest'] - clock' = BearerLife
    <3>1. expires'[Latest'] = clock + BearerLife /\ clock' = clock BY <1>1, Minted DEF Minting
    <3> QED BY <3>1, Numbers, Windows DEF Numbered
  <2>2. BearerLife >= n + patience' BY Numbers, Windows DEF Numbered
  <2> QED BY <2>1, <2>2 DEF Succeeded, TimeLeft
<1>2. CASE UNCHANGED expires
  <2>1. Latest' = Latest /\ expires' = expires BY <1>2, LatestStays
  <2>2. CASE b = Latest BY <2>1, <2>2 DEF Succeeded
  <2>3. CASE expires[Latest] - clock >= n + patience
    <3>1. expires[Latest] \in Int BY Numbers DEF Numbered
    <3>2. expires'[Latest'] - clock' >= n + patience'
      BY <2>1, <2>3, <3>1, Numbers DEF GoesOn, Numbered
    <3> QED BY <3>2 DEF Succeeded, TimeLeft
  <2> QED BY <2>2, <2>3 DEF Succeeded, TimeLeft
<1> QED BY <1>1, <1>2 DEF GoesOn

LEMMA MintedKept ==
    ASSUME Plain, Plain', MintedInTurn, UNCHANGED <<expires, forcedAt>>, clock' >= clock,
           Calm' => Calm
    PROVE  MintedInTurn'
<1>1. Latest' = Latest BY LatestStays
<1>2. forcedAt \in Int BY Numbers DEF Numbered
<1>3. forcedAt <= clock' BY <1>2, Numbers DEF MintedInTurn, Numbered
<1>4. \A k \in 1..Latest : expires[k] <= clock' + BearerLife
  BY Numbers, Windows DEF MintedInTurn, Numbered
<1> QED BY <1>1, <1>3, <1>4 DEF MintedInTurn

LEMMA MintedMore ==
    ASSUME Plain, Plain', MintedInTurn, Minting, UNCHANGED forcedAt
    PROVE  MintedInTurn'
<1>1. /\ Latest' = Latest + 1 /\ expires'[Latest'] = clock + BearerLife
      /\ \A k \in 1..Latest : expires'[k] = expires[k]
      /\ clock' = clock
  BY Minted DEF Minting
<1>2. \A k \in 1..Latest' : k \in 1..Latest \/ k = Latest' BY <1>1, Numbers DEF Numbered
<1>3. ASSUME NEW j \in 1..Latest', NEW k \in 1..Latest', j <= k
      PROVE  expires'[j] <= expires'[k]
  <2>1. CASE k \in 1..Latest
    <3>1. j \in 1..Latest BY <1>3, <2>1, Numbers DEF Numbered
    <3> QED BY <1>1, <1>3, <2>1, <3>1 DEF MintedInTurn
  <2>2. CASE k = Latest'
    <3>1. CASE j \in 1..Latest BY <1>1, <2>2, <3>1 DEF MintedInTurn
    <3>2. CASE j = Latest' BY <1>1, <2>2, <3>2, Minted
    <3> QED BY <1>2, <3>1, <3>2
  <2> QED BY <1>2, <2>1, <2>2
<1>4. ASSUME NEW k \in 1..Latest'
      PROVE  /\ expires'[k] <= clock + BearerLife
             /\ expires'[k] <= forcedAt + ForceWindow \/ expires'[k] >= forcedAt + BearerLife
  <2>1. CASE k \in 1..Latest BY <1>1, <2>1 DEF MintedInTurn
  <2>2. CASE k = Latest'
    <3>1. forcedAt \in Int /\ forcedAt <= clock BY Numbers DEF MintedInTurn, Numbered
    <3> QED BY <1>1, <2>2, <3>1, Numbers, Windows DEF Numbered
  <2> QED BY <1>2, <2>1, <2>2
<1>5. expires'[Latest'] >= forcedAt + BearerLife
  BY <1>1, Windows, Numbers DEF MintedInTurn, Numbered
<1> QED BY <1>1, <1>3, <1>4, <1>5 DEF MintedInTurn

(* A forced refresh, of a bearer that was about to lapse. *)
LEMMA MintedForced ==
    ASSUME Plain, Plain', MintedInTurn, forcedAt' = clock, clock' = clock,
           Latest > 0, TimeLeft(Latest) <= ForceWindow,
           Minting \/ (UNCHANGED expires /\ ~Calm')
    PROVE  MintedInTurn'
<1>1. ASSUME NEW k \in 1..Latest
      PROVE  expires[k] <= clock + ForceWindow /\ expires[k] <= clock + BearerLife
  <2>1. Latest \in 1..Latest /\ k <= Latest BY Numbers DEF Numbered
  <2>2. expires[k] <= expires[Latest] BY <2>1 DEF MintedInTurn
  <2>3. expires[Latest] \in Int /\ expires[k] \in Int BY <2>1, Numbers DEF Numbered
  <2> QED BY <2>2, <2>3, Windows, Numbers DEF TimeLeft, MintedInTurn, Numbered
<1>2. CASE UNCHANGED expires /\ ~Calm'
  <2>1. Latest' = Latest BY <1>2, LatestStays
  <2> QED BY <1>1, <1>2, <2>1, Numbers DEF MintedInTurn, Numbered
<1>3. CASE Minting
  <2>1. /\ Latest' = Latest + 1 /\ expires'[Latest'] = clock + BearerLife
        /\ \A k \in 1..Latest : expires'[k] = expires[k]
    BY <1>3, Minted
  <2>2. \A k \in 1..Latest' : k \in 1..Latest \/ k = Latest' BY <2>1, Numbers DEF Numbered
  <2>3. ASSUME NEW j \in 1..Latest', NEW k \in 1..Latest', j <= k
        PROVE  expires'[j] <= expires'[k]
    <3>1. CASE k \in 1..Latest
      <4>1. j \in 1..Latest BY <2>3, <3>1, Numbers DEF Numbered
      <4> QED BY <2>1, <2>3, <3>1, <4>1 DEF MintedInTurn
    <3>2. CASE k = Latest'
      <4>1. CASE j \in 1..Latest BY <1>1, <2>1, <3>2, <4>1
      <4>2. CASE j = Latest' BY <1>3, <2>1, <3>2, <4>2, Minted
      <4> QED BY <2>2, <4>1, <4>2
    <3> QED BY <2>2, <3>1, <3>2
  <2>4. ASSUME NEW k \in 1..Latest'
        PROVE  /\ expires'[k] <= clock + BearerLife
               /\ expires'[k] <= clock + ForceWindow \/ expires'[k] >= clock + BearerLife
    <3>1. CASE k \in 1..Latest BY <1>1, <2>1, <3>1
    <3>2. CASE k = Latest' BY <2>1, <3>2, Windows, Numbers DEF Numbered
    <3> QED BY <2>2, <3>1, <3>2
  <2>5. expires'[Latest'] >= clock + BearerLife BY <2>1, Windows, Numbers DEF Numbered
  <2> QED BY <2>3, <2>4, <2>5, Windows, Numbers DEF MintedInTurn, Numbered
<1> QED BY <1>2, <1>3

(* An outage that is over leaves a bearer that the last forced refresh, or *)
(* a later mint, brought.                                                  *)
LEMMA MintedAfterOutage ==
    ASSUME Plain, Plain', MintedInTurn, UNCHANGED <<expires, forcedAt, clock>>,
           NEW b \in 1..Latest, TimeLeft(b) > ForceWindow
    PROVE  MintedInTurn'
<1>1. Latest' = Latest BY LatestStays
<1>2. expires[b] \in Int BY Numbers DEF Numbered
<1>3. forcedAt \in Int /\ forcedAt <= clock BY Numbers DEF MintedInTurn, Numbered
<1>4. expires[b] >= forcedAt + BearerLife
  <2>1. expires[b] <= forcedAt + ForceWindow \/ expires[b] >= forcedAt + BearerLife
    BY DEF MintedInTurn
  <2>2. expires[b] - clock > ForceWindow BY DEF TimeLeft
  <2> QED BY <1>2, <1>3, <2>1, <2>2, Numbers, Windows DEF Numbered
<1>5. Latest \in 1..Latest /\ b <= Latest /\ expires[Latest] \in Int
  BY Numbers DEF Numbered
<1>6. expires[Latest] >= expires[b] BY <1>5 DEF MintedInTurn
<1>7. expires[Latest] >= forcedAt + BearerLife BY <1>2, <1>3, <1>4, <1>5, <1>6, Windows
<1> QED BY <1>1, <1>7 DEF MintedInTurn

-----------------------------------------------------------------------------
(* What a step leaves as it was. *)

(* Nobody but the holder of the lock goes on, and what is held stays. *)
Quiet ==
    /\ GoesOn /\ clock' >= clock /\ clock' + patience' = clock + patience
    /\ UNCHANGED <<forcedAt, probedAt, rotation, probe, held>>
    /\ Calm' => Calm
    /\ \A c \in Client : client[c].at = "probing" => client'[c].at = "probing"

LEMMA LockKept ==
    ASSUME Plain, Plain', LockHeld, GoesOn, clock' >= clock, Calm' => Calm,
           UNCHANGED <<probedAt, rotation, probe, held>>,
           \A c \in Client : client[c].at = "probing" => client'[c].at = "probing"
    PROVE  LockHeld'
<1>1. \A b \in 1..Latest : b \in 1..Latest' /\ expires'[b] = expires[b]
  BY Minted, LatestStays, Numbers DEF GoesOn, Numbered
<1>2. \A b \in 1..Latest : TimeLeft(b) <= Margin => TimeLeft(b)' <= Margin
  BY <1>1, Numbers, Windows DEF TimeLeft, Numbered
<1> QED BY <1>1, <1>2, Zenon DEF LockHeld

LEMMA StartsKept ==
    ASSUME Plain, Plain', GoesOn, StartsInTime, UNCHANGED <<rotation, probe, held>>
    PROVE  StartsInTime'
<1> SUFFICES ASSUME rotation = "starting", probe.at = "authenticating", Latest' > 0
             PROVE  TimeLeft(Latest)' >= BearerLife - 1 + patience'
  BY DEF StartsInTime
<1>1. CASE Minting
  <2>1. expires'[Latest'] = clock + BearerLife /\ clock' = clock BY <1>1, Minted DEF Minting
  <2> QED BY <2>1, Numbers, Windows DEF TimeLeft, Numbered
<1>2. CASE UNCHANGED expires
  <2>1. Latest' = Latest /\ expires' = expires BY <1>2, LatestStays
  <2>2. TimeLeft(Latest) >= BearerLife - 1 + patience BY <2>1 DEF StartsInTime
  <2>3. expires[Latest] \in Int BY <2>1, Numbers DEF Numbered
  <2>4. expires[Latest] - clock' >= BearerLife - 1 + patience'
    BY <2>2, <2>3, Numbers, Windows DEF TimeLeft, GoesOn, Numbered
  <2> QED BY <2>1, <2>4 DEF TimeLeft
<1> QED BY <1>1, <1>2 DEF GoesOn

LEMMA SomeLatest == ASSUME Plain, NEW b, NEW n, Lasts(b, n) PROVE b \in Int /\ Latest > 0
BY DEF Lasts, Plain

LEMMA InTimeKept ==
    ASSUME Plain, Plain', GoesOn, InTime, Calm' => Calm,
           UNCHANGED <<rotation, probe, held, probedAt>>
    PROVE  InTime'
<1> SUFFICES ASSUME Calm' PROVE InTime' BY DEF InTime
<1>1. Calm /\ StartsInTime' BY StartsKept DEF InTime
<1>2. \A b, n \in Int : Lasts(b, n) => Lasts(b, n)' BY LastsKept
<1>3. Latest > 0 => \A b, n \in Int : n <= ForceWindow /\ Succeeded(b, n) => Succeeded(b, n)'
  BY SucceededKept
<1>4. ForceWindow \in Int /\ ForceWindow - 1 \in Int /\ ForceWindow - 2 \in Int
      /\ ForceWindow - 1 <= ForceWindow
  BY Windows
<1>5. held' = held /\ probe' = probe /\ rotation' = rotation /\ probedAt' = probedAt OBVIOUS
<1>6. held.bearer \in Int /\ probe.bearer \in Int BY TokensAreNumbers
<1>7. \A b, n \in Int : Lasts(b, n) => Latest > 0 BY SomeLatest
<1> HIDE DEF Lasts, Succeeded
<1>8. SleepsInTime' BY <1>1, <1>2, <1>3, <1>4, <1>5, <1>6, <1>7 DEF InTime, SleepsInTime
<1>9. WaitsInTime' BY <1>1, <1>2, <1>3, <1>4, <1>5, <1>6, <1>7 DEF InTime, WaitsInTime
<1>10. ValidatesInTime' BY <1>1, <1>2, <1>3, <1>4, <1>5, <1>6, <1>7 DEF InTime, ValidatesInTime
<1>11. FansInTime' BY <1>1, <1>2, <1>3, <1>4, <1>5, <1>6, <1>7 DEF InTime, FansInTime
<1> QED BY <1>1, <1>5, <1>8, <1>9, <1>10, <1>11 DEF InTime

LEMMA QuietStep ==
    ASSUME Plain, Plain', BearerIInv, Quiet
    PROVE  MintedInTurn' /\ Cadence' /\ LockHeld' /\ InTime'
<1>1. MintedInTurn'
  <2>1. CASE UNCHANGED expires BY <2>1, MintedKept DEF Quiet, BearerIInv
  <2>2. CASE Minting BY <2>2, MintedMore DEF Quiet, BearerIInv
  <2> QED BY <2>1, <2>2 DEF Quiet, GoesOn
<1>2. Cadence'
  <2>1. probedAt \in Int BY Numbers DEF Numbered
  <2> QED BY <2>1, Numbers, Windows DEF Quiet, BearerIInv, Cadence, Numbered
<1>3. LockHeld' BY LockKept DEF Quiet, BearerIInv
<1>4. InTime' BY InTimeKept DEF Quiet, BearerIInv
<1> QED BY <1>1, <1>2, <1>3, <1>4

(* Nobody writes, and what was in order remains so. *)
KeepsOrder ==
    /\ "behind" \in excused => "behind" \in excused'
    /\ probe.at = "fanning" <=> probe'.at = "fanning"
    /\ probe'.at = "fanning" => excused \subseteq excused'
    /\ held'.bearer = held.bearer \/ (held'.bearer = NoBearer /\ excused' # {})
    /\ excused = {} /\ probe.at = "fanning" =>
          \A b \in Int : Lasts(b, ForceWindow - 2) => Lasts(b, ForceWindow - 2)'

LEMMA OrderKept ==
    ASSUME KeepsOrder, NEW b \in Int, InOrderFor(b) PROVE InOrderFor(b)'
<1> HIDE DEF Lasts
<1> QED BY DEF KeepsOrder, InOrderFor

NobodyWrites ==
    /\ attendee'.revision = attendee.revision /\ attendee'.file = attendee.file
    /\ \A c \in Client :
          /\ client'[c].at = "configuring" => client'[c] = client[c]
          /\ client'[c].at = "serving" => client'[c].got # NoBearer

LEMMA FileKept ==
    ASSUME Plain, FileInOrder, KeepsOrder, NobodyWrites
    PROVE  FileInOrder'
<1>1. attendee.file \in Int /\ \A c \in Client : client[c].got \in Int BY TokensAreNumbers
<1>2. InOrderFor(attendee.file)'
  <2>1. PICK f \in Int : f = attendee.file BY <1>1
  <2>2. f = attendee'.file BY <2>1 DEF NobodyWrites
  <2>3. InOrderFor(f)' BY <2>1, OrderKept DEF FileInOrder
  <2> QED BY <2>2, <2>3 DEF InOrderFor, Lasts, TimeLeft
<1>3. ASSUME NEW c \in Client
      PROVE  /\ client'[c].at = "configuring" => client'[c].revision <= attendee'.revision
             /\ client'[c].at \in {"serving", "configuring"} => client'[c].got # NoBearer
             /\ WritesNext(c)' => WritesNext(c) /\ client'[c].got = client[c].got
  BY DEF FileInOrder, NobodyWrites, WritesNext
<1>4. ASSUME NEW c \in Client, WritesNext(c)'
      PROVE  InOrderFor(client[c].got)' /\ \A d \in Client : WritesNext(d)' => d = c
  <2>1. InOrderFor(client[c].got) /\ \A d \in Client : WritesNext(d) => d = c
    BY <1>3, <1>4 DEF FileInOrder
  <2>2. PICK g \in Int : g = client[c].got BY <1>1
  <2>3. g = client'[c].got BY <1>3, <1>4, <2>2
  <2>4. InOrderFor(g)' BY <2>1, <2>2, OrderKept
  <2>5. InOrderFor(client[c].got)' BY <2>3, <2>4 DEF InOrderFor, Lasts, TimeLeft
  <2> QED BY <1>3, <2>1, <2>5
<1> HIDE DEF WritesNext, InOrderFor
<1> QED BY <1>2, <1>3, <1>4 DEF FileInOrder

LEMMA QuietBearer ==
    ASSUME BearerIInv, CredentialParts', Quiet, excused \subseteq excused', NobodyWrites, NobodyYet'
    PROVE  BearerIInv'
<1>1. Plain /\ Plain' BY TypesArePlain DEF BearerIInv
<1>2. MintedInTurn' /\ Cadence' /\ LockHeld' /\ InTime' BY <1>1, QuietStep
<1>3. GoesOn BY DEF Quiet
<1>4. \A b, n \in Int : Lasts(b, n) => Lasts(b, n)' BY <1>1, <1>3, LastsKept
<1>5. ForceWindow - 2 \in Int BY Windows
<1>6. KeepsOrder
  <2> HIDE DEF Lasts
  <2> QED BY <1>4, <1>5 DEF KeepsOrder, Quiet
<1>7. FileInOrder' BY <1>1, <1>6, FileKept DEF BearerIInv
<1> QED BY <1>2, <1>7 DEF BearerIInv

LEMMA NobodyYetKept ==
    ASSUME NobodyYet, attendee'.known = attendee.known, attendee'.file = attendee.file,
           rotation' = "starting" => rotation = "starting",
           \A c \in Client : client[c].at = "idle" => client'[c].at = "idle"
    PROVE  NobodyYet'
BY DEF NobodyYet

(* Where a request goes. *)
LEMMA Went ==
    ASSUME ClientTyped, NEW c \in Client, NEW at, NEW got, ClientGoes(c, at, got)
    PROVE  /\ client'[c] = [at |-> at, got |-> got, revision |-> 0]
           /\ \A d \in Client : d # c => client'[d] = client[d]
BY DEF ClientTyped, ClientGoes

(* A request that only moves on: its attendee is known. *)
LEMMA RequestMoves ==
    ASSUME BearerIInv, CredentialParts', ClientOnly, UNCHANGED <<held, probe, excused>>,
           NEW c \in Client, NEW at \in {"idle", "rotating", "looking", "emergency", "serving"},
           NEW got, ClientGoes(c, at, got), at = "serving" => got # NoBearer,
           client[c].at # "probing",
           attendee'.revision = attendee.revision, attendee'.file = attendee.file,
           attendee'.known, rotation # "starting"
    PROVE  BearerIInv'
<1>1. Plain BY TypesArePlain DEF BearerIInv
<1>2. /\ client'[c] = [at |-> at, got |-> got, revision |-> 0]
      /\ \A d \in Client : d # c => client'[d] = client[d]
  BY Went DEF BearerIInv, CredentialParts
<1>3. client'[c].at = at /\ client'[c].got = got BY <1>2
<1>4. NobodyWrites BY <1>2, <1>3 DEF NobodyWrites, BearerIInv, FileInOrder
<1>5. Quiet
  <2>1. \A d \in Client : client[d].at = "probing" => client'[d].at = "probing" BY <1>2
  <2> QED BY <1>1, <2>1, Numbers DEF Quiet, GoesOn, ClientOnly, Calm, Numbered
<1>6. NobodyYet' BY DEF NobodyYet, ClientOnly
<1> QED BY <1>4, <1>5, <1>6, QuietBearer

(* Whoever is served is known. *)
LEMMA ServedIsKnown ==
    ASSUME NobodyYet, AttendeeTyped, NEW c \in Client, client[c].at # "idle"
    PROVE  attendee.known /\ rotation # "starting"
BY DEF NobodyYet, AttendeeTyped

LEMMA AskSound ==
    ASSUME BearerIInv, CredentialParts', NEW c \in Client, Ask(c) PROVE BearerIInv'
<1>1. /\ attendee' = [attendee EXCEPT !.known = TRUE] /\ AttendeeTyped
      /\ ClientOnly /\ UNCHANGED <<held, probe, excused>>
      /\ client[c].at = "idle" /\ rotation # "starting"
  BY DEF Ask, BearerIInv, CredentialParts
<1>2. attendee'.revision = attendee.revision /\ attendee'.file = attendee.file /\ attendee'.known
  BY <1>1 DEF AttendeeTyped
<1>3. CASE ClientGoes(c, "serving", held.bearer) /\ HeldFresh
  <2>1. held.bearer # NoBearer BY <1>3 DEF HeldFresh
  <2> QED BY <1>1, <1>2, <1>3, <2>1, RequestMoves
<1>4. CASE ClientGoes(c, "rotating", NoBearer) BY <1>1, <1>2, <1>4, RequestMoves
<1> QED BY <1>3, <1>4 DEF Ask

LEMMA LooksSound ==
    ASSUME BearerIInv, CredentialParts', NEW c \in Client, Looks(c) PROVE BearerIInv'
<1>1. /\ ClientOnly /\ UNCHANGED <<held, probe, excused, attendee>> /\ client[c].at = "looking"
      /\ attendee.known /\ rotation # "starting"
  BY ServedIsKnown DEF Looks, BearerIInv, CredentialParts
<1>2. CASE ClientGoes(c, "serving", held.bearer) /\ held.bearer # NoBearer
  BY <1>1, <1>2, RequestMoves
<1>3. CASE ClientGoes(c, "emergency", NoBearer) BY <1>1, <1>3, RequestMoves
<1>4. CASE ClientGoes(c, "idle", NoBearer) BY <1>1, <1>4, RequestMoves
<1> QED BY <1>2, <1>3, <1>4 DEF Looks

LEMMA AgentsReadySound ==
    ASSUME BearerIInv, CredentialParts', NEW c \in Client, AgentsReady(c) PROVE BearerIInv'
<1>1. Plain BY TypesArePlain DEF BearerIInv
<1>2. /\ attendee' = [attendee EXCEPT !.ready = TRUE] /\ AttendeeTyped
      /\ ClientOnly /\ UNCHANGED <<held, probe, excused, client>>
  BY DEF AgentsReady, BearerIInv, CredentialParts
<1>3. attendee'.revision = attendee.revision /\ attendee'.file = attendee.file
      /\ attendee'.known = attendee.known
  BY <1>2 DEF AttendeeTyped
<1>4. NobodyWrites BY <1>2, <1>3 DEF NobodyWrites, BearerIInv, FileInOrder
<1>5. Quiet BY <1>1, <1>2, Numbers DEF Quiet, GoesOn, ClientOnly, Calm, Numbered
<1>6. NobodyYet' BY <1>2, <1>3, NobodyYetKept DEF BearerIInv, ClientOnly
<1> QED BY <1>2, <1>4, <1>5, <1>6, QuietBearer

LEMMA SdkMintsSound == ASSUME BearerIInv, CredentialParts', SdkMints PROVE BearerIInv'
<1>1. Plain BY TypesArePlain DEF BearerIInv
<1>2. NobodyWrites BY DEF SdkMints, NobodyWrites, BearerIInv, FileInOrder
<1>3. Quiet BY <1>1, Numbers DEF Quiet, GoesOn, Minting, SdkMints, Calm, Numbered
<1>4. NobodyYet' BY NobodyYetKept DEF BearerIInv, SdkMints
<1> QED BY <1>2, <1>3, <1>4, QuietBearer DEF SdkMints

LEMMA TickSound == ASSUME BearerIInv, CredentialParts', Tick PROVE BearerIInv'
<1>1. Plain BY TypesArePlain DEF BearerIInv
<1>2. NobodyWrites BY DEF Tick, NobodyWrites, BearerIInv, FileInOrder
<1>3. Quiet BY <1>1, Numbers DEF Quiet, GoesOn, Tick, Calm, Numbered
<1>4. NobodyYet' BY NobodyYetKept DEF BearerIInv, Tick
<1> QED BY <1>2, <1>3, <1>4, QuietBearer DEF Tick

-----------------------------------------------------------------------------
(* The thread comes round. *)

LEMMA HeartbeatInTime ==
    ASSUME Plain, Plain', Cadence, LockHeld, MintedInTurn, InTime, Heartbeat
    PROVE  InTime'
<1> SUFFICES ASSUME Calm' PROVE InTime' BY DEF InTime
<1>1. /\ UNCHANGED <<clock, expires, held, probe, excused>> /\ patience' = 1
      /\ rotation = "sleeping" /\ rotation' \in {"sleeping", "waiting"}
  BY DEF Heartbeat
<1>2. Calm /\ Latest' = Latest BY <1>1, LatestStays DEF Calm
<1>3. /\ held.bearer # NoBearer /\ held.health = "rotating" /\ probe.at = "done"
      /\ probedAt <= held.validatedAt
      /\ Lasts(held.bearer, ForceWindow - 1) /\ Succeeded(held.bearer, ForceWindow)
  BY <1>1, <1>2 DEF InTime, SleepsInTime, LockHeld
<1> DEFINE e == expires[held.bearer]
           l == expires[Latest]
<1>4. held.bearer \in 1..Latest /\ Latest \in 1..Latest /\ e \in Int /\ l \in Int /\ e <= l
  BY <1>3, Numbers DEF Lasts, Numbered, MintedInTurn
<1>5. e - clock >= ForceWindow - 1 + patience
      /\ (held.bearer = Latest \/ l - clock >= ForceWindow + patience)
  BY <1>3 DEF Lasts, Succeeded, TimeLeft
<1>6. CASE Due
  <2>1. rotation' = "waiting" BY <1>6 DEF Heartbeat
  <2>2. e - clock >= ForceWindow - 2 + 1
        /\ (held.bearer = Latest \/ l - clock >= ForceWindow - 1 + 1)
    BY <1>4, <1>5, Numbers, Windows DEF Numbered
  <2> HIDE DEF e, l
  <2>3. Lasts(held.bearer, ForceWindow - 2)' /\ Succeeded(held.bearer, ForceWindow - 1)'
    BY <1>1, <1>2, <1>4, <2>2 DEF Lasts, Succeeded, TimeLeft, e, l
  <2> QED BY <1>1, <1>3, <2>1, <2>3
      DEF InTime, StartsInTime, SleepsInTime, WaitsInTime, ValidatesInTime, FansInTime
<1>7. CASE ~Due
  <2>1. rotation' = "sleeping" /\ patience = 0 /\ probedAt' = probedAt
    BY <1>1, <1>7 DEF Heartbeat
  <2>2. ~(e - clock <= ProbeWindow) BY <1>3, <1>7 DEF Due, TimeLeft
  <2>3. e - clock >= ForceWindow - 1 + 1 /\ l - clock >= ForceWindow + 1
    BY <1>4, <2>2, Numbers, Windows DEF Numbered
  <2> HIDE DEF e, l
  <2>4. Lasts(held.bearer, ForceWindow - 1)' /\ Succeeded(held.bearer, ForceWindow)'
    BY <1>1, <1>2, <1>4, <2>3 DEF Lasts, Succeeded, TimeLeft, e, l
  <2>5. probe.by = Nobody BY <1>3 DEF LockHeld
  <2> QED BY <1>1, <1>3, <2>1, <2>4, <2>5
      DEF InTime, StartsInTime, SleepsInTime, WaitsInTime, ValidatesInTime, FansInTime
<1> QED BY <1>6, <1>7

LEMMA HeartbeatSound == ASSUME BearerIInv, CredentialParts', Heartbeat PROVE BearerIInv'
<1>1. Plain /\ Plain' BY TypesArePlain DEF BearerIInv
<1>2. /\ UNCHANGED <<clock, expires, held, forcedAt, probe, client, attendee, excused>>
      /\ patience' = 1 /\ rotation = "sleeping"
      /\ \/ Due /\ rotation' = "waiting" /\ probedAt' = clock
         \/ ~Due /\ patience = 0 /\ UNCHANGED <<rotation, probedAt>>
  BY DEF Heartbeat
<1>3. MintedInTurn'
  <2>1. Calm' => Calm BY <1>2 DEF Calm
  <2> QED BY <1>1, <1>2, <2>1, MintedKept, Numbers DEF BearerIInv, Numbered
<1>4. Cadence'
  <2>1. probedAt \in Int /\ probedAt <= clock BY <1>1, Numbers DEF BearerIInv, Cadence, Numbered
  <2>2. CASE ~Due
    <3>1. clock + 1 <= probedAt + ProbeInterval
      BY <1>1, <2>1, <2>2, Numbers, Windows DEF Due, Numbered
    <3> QED BY <1>2, <2>1, <2>2, <3>1 DEF Cadence
  <2>3. CASE Due BY <1>1, <1>2, <2>3, Numbers DEF Cadence, Numbered
  <2> QED BY <2>2, <2>3
<1>5. LockHeld'
  <2>1. Latest' = Latest /\ Calm' = Calm BY <1>2, LatestStays DEF Calm
  <2> QED BY <1>2, <2>1 DEF BearerIInv, LockHeld, TimeLeft
<1>6. NobodyYet' BY <1>2, NobodyYetKept DEF BearerIInv
<1>7. InTime' BY <1>1, HeartbeatInTime DEF BearerIInv
<1>8. KeepsOrder
  <2>1. excused = {} => probe.at # "fanning"
    BY <1>2 DEF BearerIInv, InTime, SleepsInTime, LockHeld, Calm
  <2> QED BY <1>2, <2>1 DEF KeepsOrder
<1>9. NobodyWrites BY <1>2 DEF NobodyWrites, BearerIInv, FileInOrder
<1>10. FileInOrder' BY <1>1, <1>8, <1>9, FileKept DEF BearerIInv
<1> QED BY <1>3, <1>4, <1>5, <1>6, <1>7, <1>10 DEF BearerIInv

(* A probe starts while the thread waits or probes. *)
LEMMA ProbeStarts ==
    ASSUME BearerIInv, CredentialParts', NEW who \in Client \cup {Rotation}, StartProbe(who),
           UNCHANGED <<clock, expires, held, forcedAt, probedAt, attendee, patience, excused>>,
           rotation' = IF who = Rotation THEN "probing" ELSE rotation,
           who = Rotation => rotation = "waiting",
           Calm => rotation \in {"waiting", "probing"},
           \A c \in Client : c = who => client'[c].at = "probing",
           \A c \in Client : client'[c] # client[c] => who = c /\ client[c].at = "rotating"
    PROVE  BearerIInv'
<1>1. Plain /\ Plain' BY TypesArePlain DEF BearerIInv
<1>2. /\ probe.by = Nobody /\ probe.at = "done"
      /\ probe'.by = who /\ probe'.at = "authenticating"
      /\ Rotation \notin Client /\ Nobody \notin Client \cup {Rotation}
  BY CredentialAssumption DEF StartProbe, NoProbe, BearerIInv, LockHeld
<1>3. Calm' = Calm /\ Latest' = Latest BY LatestStays DEF Calm
<1>4. MintedInTurn' BY <1>1, <1>3, MintedKept, Numbers DEF BearerIInv, Numbered
<1>5. Cadence' BY DEF BearerIInv, Cadence
<1>6. LockHeld' BY <1>2 DEF BearerIInv, LockHeld
<1>7. NobodyYet' BY <1>2, NobodyYetKept DEF BearerIInv
<1>8. InTime'
  <2>1. GoesOn BY <1>1, Numbers DEF GoesOn, Numbered
  <2>2. Calm => /\ Lasts(held.bearer, ForceWindow - 2) /\ Succeeded(held.bearer, ForceWindow - 1)
                /\ held.bearer # NoBearer /\ held.health = "rotating"
    BY <1>2 DEF BearerIInv, InTime, WaitsInTime
  <2>3. Calm => /\ Lasts(held.bearer, ForceWindow - 2)' /\ Succeeded(held.bearer, ForceWindow - 1)'
    BY <1>3, <2>2 DEF Lasts, Succeeded, TimeLeft
  <2> HIDE DEF Lasts, Succeeded
  <2> QED BY <1>2, <1>3, <2>2, <2>3
      DEF InTime, StartsInTime, SleepsInTime, WaitsInTime, ValidatesInTime, FansInTime
<1>9. KeepsOrder BY <1>2 DEF KeepsOrder
<1>10. NobodyWrites
  <2>1. \A c \in Client : client'[c].at = "configuring" \/ client'[c].at = "serving" =>
            client'[c] = client[c]
    OBVIOUS
  <2> QED BY <2>1 DEF NobodyWrites, BearerIInv, FileInOrder
<1>11. FileInOrder' BY <1>1, <1>9, <1>10, FileKept DEF BearerIInv
<1> QED BY <1>4, <1>5, <1>6, <1>7, <1>8, <1>11 DEF BearerIInv

LEMMA RotationEntersSound == ASSUME BearerIInv, CredentialParts', RotationEnters PROVE BearerIInv'
<1>1. Rotation \notin Client BY CredentialAssumption
<1> QED BY <1>1, ProbeStarts DEF RotationEnters

(* In time, what is held is fresh as long as the thread sleeps. *)
LEMMA SleepsFresh ==
    ASSUME BearerIInv, Calm, rotation = "sleeping" PROVE HeldFresh
<1>1. Plain BY TypesArePlain DEF BearerIInv
<1>2. /\ held.bearer # NoBearer /\ held.health = "rotating"
      /\ probedAt <= held.validatedAt /\ Lasts(held.bearer, ForceWindow - 1)
  BY DEF BearerIInv, InTime, SleepsInTime
<1>3. held.bearer \in 1..Latest /\ TimeLeft(held.bearer) \in Int
      /\ TimeLeft(held.bearer) >= ForceWindow - 1
  BY <1>1, <1>2, Numbers, Windows DEF Lasts, TimeLeft, Numbered
<1>4. held.validatedAt \in Nat /\ probedAt \in Int BY <1>1 DEF Plain
<1>5. clock + patience <= 1 \/ clock + patience <= probedAt + ProbeInterval
  BY DEF BearerIInv, Cadence
<1>6. clock - held.validatedAt <= MaxAge
  BY <1>1, <1>2, <1>4, <1>5, Numbers, Windows DEF Numbered
<1>7. TimeLeft(held.bearer) > Margin BY <1>3, Windows
<1> QED BY <1>2, <1>6, <1>7 DEF HeldFresh

LEMMA RotatesSound ==
    ASSUME BearerIInv, CredentialParts', NEW c \in Client, Rotates(c) PROVE BearerIInv'
<1>1. /\ ClientOnly /\ UNCHANGED <<held, attendee, excused>> /\ client[c].at = "rotating"
      /\ attendee.known /\ rotation # "starting" /\ probe.by = Nobody
  BY ServedIsKnown DEF Rotates, BearerIInv, CredentialParts
<1>2. CASE HeldFresh
  <2>1. ClientGoes(c, "looking", NoBearer) /\ UNCHANGED probe BY <1>2 DEF Rotates
  <2> QED BY <1>1, <2>1, RequestMoves
<1>3. CASE ~HeldFresh
  <2>1. ClientGoes(c, "probing", NoBearer) /\ StartProbe(c) BY <1>3 DEF Rotates
  <2>2. /\ client'[c] = [at |-> "probing", got |-> NoBearer, revision |-> 0]
        /\ \A d \in Client : d # c => client'[d] = client[d]
    BY <2>1, Went DEF BearerIInv, CredentialParts
  <2>3. client'[c].at = "probing" BY <2>2
  <2>4. c # Rotation /\ c \in Client \cup {Rotation} BY CredentialAssumption
  <2>5. Calm => rotation \in {"waiting", "probing"}
    <3>1. rotation \in {"starting", "sleeping", "waiting", "probing"}
      BY TypesArePlain DEF BearerIInv, Plain
    <3> QED BY <1>1, <1>3, <3>1, SleepsFresh
  <2> QED BY <1>1, <2>1, <2>2, <2>3, <2>4, <2>5, ProbeStarts DEF ClientOnly
<1> QED BY <1>2, <1>3

-----------------------------------------------------------------------------
(* A probe ends. *)

LEMMA EndsRequest ==
    ASSUME BearerIInv, ProbeEnds
    PROVE  /\ \A c \in Client : /\ client'[c].at = "configuring" => client'[c] = client[c]
                                /\ client'[c].at = "serving" => client'[c] = client[c]
                                /\ client[c].at = "idle" => client'[c].at = "idle"
           /\ rotation' = "starting" => FALSE
           /\ rotation' \in {rotation, "sleeping"}
           /\ rotation' # rotation => probe.by = Rotation
           /\ probe.by = Rotation => rotation' = "sleeping"
           /\ probe'.by = Nobody /\ probe'.at = "done"
<1>1. \A c \in Client : client'[c] = IF probe.by = c THEN [client[c] EXCEPT !.at = "looking"]
                                     ELSE client[c]
  BY DEF ProbeEnds
<1>2. \A c \in Client : probe.by = c => client[c].at = "probing" BY DEF BearerIInv, LockHeld
<1>3. \A c \in Client : [client[c] EXCEPT !.at = "looking"].at = "looking"
  BY DEF BearerIInv, CredentialParts, ClientTyped
<1>4. probe.by = Rotation <=> rotation \in {"starting", "probing"} BY DEF BearerIInv, LockHeld
<1>5. \A c \in Client : /\ client'[c].at = "configuring" => client'[c] = client[c]
                        /\ client'[c].at = "serving" => client'[c] = client[c]
                        /\ client[c].at = "idle" => client'[c].at = "idle"
  BY <1>1, <1>2, <1>3
<1>6. rotation' = IF probe.by = Rotation THEN "sleeping" ELSE rotation BY DEF ProbeEnds
<1>7. probe'.by = Nobody /\ probe'.at = "done" BY DEF ProbeEnds, NoProbe
<1> QED BY <1>4, <1>5, <1>6, <1>7

LEMMA EndsLock ==
    ASSUME BearerIInv, Plain, ProbeEnds, UNCHANGED <<clock, patience, probedAt>>
    PROVE  Cadence' /\ LockHeld'
<1>1. Cadence'
  <2>1. probedAt \in Int /\ probedAt <= clock BY Numbers DEF BearerIInv, Cadence, Numbered
  <2>2. CASE rotation' = rotation BY <2>2, EndsRequest DEF BearerIInv, Cadence
  <2>3. CASE rotation' # rotation
    <3>1. rotation' = "sleeping" /\ rotation \in {"starting", "probing"}
      BY <2>3, EndsRequest DEF BearerIInv, LockHeld
    <3>2. clock + patience <= 1 \/ clock + patience <= probedAt + ProbeInterval
      BY <2>1, <3>1, Numbers, Windows DEF BearerIInv, Cadence, Numbered
    <3> QED BY <2>1, <3>1, <3>2 DEF Cadence
  <2> QED BY <2>2, <2>3
<1>2. LockHeld'
  <2>1. probe'.by = Nobody /\ probe'.at = "done" /\ Nobody \notin Client \cup {Rotation}
    BY EndsRequest, CredentialAssumption
  <2>2. rotation' \notin {"starting", "probing"} BY EndsRequest DEF BearerIInv, LockHeld
  <2> QED BY <2>1, <2>2 DEF LockHeld
<1> QED BY <1>1, <1>2

LEMMA EndsWriting ==
    ASSUME BearerIInv, ProbeEnds, UNCHANGED attendee
    PROVE  NobodyWrites /\ NobodyYet'
<1>1. NobodyWrites BY EndsRequest DEF NobodyWrites, BearerIInv, FileInOrder
<1>2. NobodyYet' BY EndsRequest, NobodyYetKept DEF BearerIInv
<1> QED BY <1>1, <1>2

(* A probe that fails leaves an outage, or there was one. *)
LEMMA ProbeFails ==
    ASSUME BearerIInv, CredentialParts',
           UNCHANGED <<clock, expires, forcedAt, probedAt, attendee, patience>>,
           ~Calm', excused \subseteq excused', probe.at \notin {"fanning", "done"},
           held'.bearer \in {held.bearer, NoBearer},
           ProbeEnds \/ ProbeGoesOn("emergency", NoBearer, FALSE)
    PROVE  BearerIInv'
<1>1. Plain /\ Plain' BY TypesArePlain DEF BearerIInv
<1>2. MintedInTurn' BY <1>1, MintedKept, Numbers DEF BearerIInv, Numbered
<1>3. InTime' BY DEF InTime
<1>4. excused' # {} BY DEF Calm
<1>5. CASE ProbeEnds
  <2>1. Cadence' /\ LockHeld' BY <1>1, <1>5, EndsLock
  <2>2. NobodyWrites /\ NobodyYet' BY <1>5, EndsWriting
  <2>3. KeepsOrder BY <1>4, <1>5, EndsRequest DEF KeepsOrder
  <2>4. FileInOrder' BY <1>1, <2>2, <2>3, FileKept DEF BearerIInv
  <2> QED BY <1>2, <1>3, <2>1, <2>2, <2>4 DEF BearerIInv
<1>6. CASE ProbeGoesOn("emergency", NoBearer, FALSE)
  <2>1. probe'.at = "emergency" /\ probe'.by = probe.by /\ UNCHANGED <<rotation, client>>
    BY <1>6 DEF ProbeGoesOn, BearerIInv, CredentialParts, ProbeTyped
  <2>2. Cadence' BY <2>1 DEF BearerIInv, Cadence
  <2>3. LockHeld' BY <2>1 DEF BearerIInv, LockHeld
  <2>4. NobodyWrites BY <2>1 DEF NobodyWrites, BearerIInv, FileInOrder
  <2>5. NobodyYet' BY <2>1, NobodyYetKept DEF BearerIInv
  <2>6. KeepsOrder BY <1>4, <2>1 DEF KeepsOrder
  <2>7. FileInOrder' BY <1>1, <2>4, <2>6, FileKept DEF BearerIInv
  <2> QED BY <1>2, <1>3, <2>2, <2>3, <2>5, <2>7 DEF BearerIInv
<1> QED BY <1>5, <1>6

LEMMA AuthenticateFailsSound ==
    ASSUME BearerIInv, CredentialParts', AuthenticateFails PROVE BearerIInv'
<1>1. /\ UNCHANGED <<clock, expires, forcedAt, probedAt, attendee, patience>>
      /\ probe.at = "authenticating" /\ ~Calm' /\ excused \subseteq excused'
  BY DEF AuthenticateFails, Outage, Calm
<1>2. CASE held' = held /\ ProbeGoesOn("emergency", NoBearer, FALSE)
  <2>1. held'.bearer \in {held.bearer, NoBearer} BY <1>2
  <2> QED BY <1>1, <1>2, <2>1, ProbeFails
<1>3. CASE held' = Cleared("unhealthy") /\ ProbeEnds
  <2>1. held'.bearer \in {held.bearer, NoBearer} BY <1>3 DEF Cleared
  <2> QED BY <1>1, <1>3, <2>1, ProbeFails
<1> QED BY <1>2, <1>3 DEF AuthenticateFails

(* In time, no bearer lapses while it is validated. *)
LEMMA RejectedSound ==
    ASSUME BearerIInv, CredentialParts', Rejected PROVE BearerIInv'
<1>1. Plain BY TypesArePlain DEF BearerIInv
<1>2. /\ UNCHANGED <<clock, expires, forcedAt, probedAt, attendee, patience>>
      /\ probe.at = "validating" /\ ProbeEnds /\ excused \subseteq excused'
      /\ held'.bearer = NoBearer
  BY DEF Rejected, Outage, Cleared
<1>3. ~Calm'
  <2>1. CASE Outage BY <2>1 DEF Outage, Calm
  <2>2. CASE TimeLeft(probe.bearer) <= 0 /\ UNCHANGED excused
    <3>1. Calm => Lasts(probe.bearer, ForceWindow - 1)
      BY <1>2 DEF BearerIInv, InTime, ValidatesInTime
    <3>2. Calm => TimeLeft(probe.bearer) \in Int /\ TimeLeft(probe.bearer) >= 1
      BY <1>1, <3>1, Numbers, Windows DEF Lasts, TimeLeft, Numbered
    <3> QED BY <2>2, <3>2 DEF Calm
  <2> QED BY <2>1, <2>2 DEF Rejected
<1> QED BY <1>2, <1>3, ProbeFails

LEMMA NoAnswerSound ==
    ASSUME BearerIInv, CredentialParts', NoAnswer PROVE BearerIInv'
<1>1. /\ UNCHANGED <<clock, expires, forcedAt, probedAt, attendee, patience>>
      /\ probe.at = "validating" /\ ProbeEnds /\ excused \subseteq excused' /\ ~Calm'
  BY DEF NoAnswer, Outage, Calm
<1>2. [held EXCEPT !.health = "unhealthy"].bearer = held.bearer
  BY DEF BearerIInv, CredentialParts, HeldTyped
<1>3. held' \in {Cleared("unhealthy"), [held EXCEPT !.health = "unhealthy"], held}
  BY DEF NoAnswer
<1>4. held'.bearer \in {held.bearer, NoBearer}
  <2>1. Cleared("unhealthy").bearer = NoBearer BY DEF Cleared
  <2> QED BY <1>2, <1>3, <2>1
<1> QED BY <1>1, <1>4, ProbeFails

LEMMA EmergencyProbeSound ==
    ASSUME BearerIInv, CredentialParts', EmergencyProbe PROVE BearerIInv'
<1>1. /\ UNCHANGED <<clock, expires, forcedAt, probedAt, attendee, patience>>
      /\ probe.at = "emergency" /\ ProbeEnds /\ excused \subseteq excused'
      /\ held'.bearer = NoBearer
  BY DEF EmergencyProbe, Outage, Cleared
<1>2. ~Calm' BY <1>1 DEF BearerIInv, LockHeld, Calm
<1> QED BY <1>1, <1>2, ProbeFails

(* A request that clears what is held: an outage. *)
LEMMA EmergencySound ==
    ASSUME BearerIInv, CredentialParts', NEW c \in Client, Emergency(c) PROVE BearerIInv'
<1>1. Plain /\ Plain' BY TypesArePlain DEF BearerIInv
<1>2. /\ ClientOnly /\ UNCHANGED <<probe, attendee>> /\ client[c].at = "emergency"
      /\ held'.bearer = NoBearer /\ excused \subseteq excused' /\ ~Calm'
      /\ ClientGoes(c, "serving", Pat) \/ ClientGoes(c, "idle", NoBearer)
  BY DEF Emergency, Outage, Cleared, Calm
<1>3. UNCHANGED <<clock, expires, forcedAt, probedAt, rotation, patience>> BY <1>2 DEF ClientOnly
<1>4. /\ \A d \in Client : d # c => client'[d] = client[d]
      /\ client'[c].at \in {"serving", "idle"}
      /\ client'[c].at = "serving" => client'[c].got = Pat
  <2>1. CASE ClientGoes(c, "serving", Pat)
    <3>1. client'[c] = [at |-> "serving", got |-> Pat, revision |-> 0]
          /\ \A d \in Client : d # c => client'[d] = client[d]
      BY <2>1, Went DEF BearerIInv, CredentialParts
    <3>2. client'[c].at = "serving" /\ client'[c].got = Pat BY <3>1
    <3> QED BY <3>1, <3>2
  <2>2. CASE ClientGoes(c, "idle", NoBearer)
    <3>1. client'[c] = [at |-> "idle", got |-> NoBearer, revision |-> 0]
          /\ \A d \in Client : d # c => client'[d] = client[d]
      BY <2>2, Went DEF BearerIInv, CredentialParts
    <3>2. client'[c].at = "idle" BY <3>1
    <3> QED BY <3>1, <3>2
  <2> QED BY <1>2, <2>1, <2>2
<1>5. MintedInTurn' BY <1>1, <1>2, <1>3, MintedKept, Numbers DEF BearerIInv, Numbered
<1>6. Cadence' BY <1>3 DEF BearerIInv, Cadence
<1>7. LockHeld'
  <2>1. Latest' = Latest BY <1>3, LatestStays
  <2>2. \A d \in Client : probe.by = d => client'[d].at = "probing"
    BY <1>2, <1>4 DEF BearerIInv, LockHeld
  <2> QED BY <1>2, <1>3, <2>1, <2>2 DEF BearerIInv, LockHeld, TimeLeft
<1>8. NobodyYet'
  <2>1. \A d \in Client : client[d].at = "idle" => client'[d].at = "idle" BY <1>2, <1>4
  <2> QED BY <1>2, <1>3, <2>1, NobodyYetKept DEF BearerIInv
<1>9. InTime' BY <1>2 DEF InTime
<1>10. KeepsOrder
  <2>1. excused' # {} BY <1>2 DEF Calm
  <2>2. \A b \in Int : Lasts(b, ForceWindow - 2) => Lasts(b, ForceWindow - 2)'
    <3>1. GoesOn BY <1>1, <1>3, Numbers DEF GoesOn, Numbered
    <3>2. ForceWindow - 2 \in Int BY Windows
    <3> HIDE DEF Lasts
    <3> QED BY <1>1, <3>1, <3>2, LastsKept
  <2> HIDE DEF Lasts
  <2> QED BY <1>2, <2>1, <2>2 DEF KeepsOrder
<1>11. NobodyWrites BY <1>2, <1>4 DEF NobodyWrites, BearerIInv, FileInOrder, NoBearer, Pat
<1>12. FileInOrder' BY <1>1, <1>10, <1>11, FileKept DEF BearerIInv
<1> QED BY <1>5, <1>6, <1>7, <1>8, <1>9, <1>12 DEF BearerIInv

-----------------------------------------------------------------------------
(* A probe authenticates. *)

LEMMA AuthenticateIs ==
    ASSUME Plain, CredentialParts, Authenticate
    PROVE  /\ UNCHANGED <<clock, held, probedAt, attendee, patience, rotation, client>>
           /\ probe.at = "authenticating" /\ probe'.at = "validating" /\ probe'.by = probe.by
           /\ probe'.bearer = Latest' /\ Latest' > 0 /\ excused \subseteq excused'
           /\ \/ /\ UNCHANGED <<expires, forcedAt, excused>> /\ Latest > 0
                 /\ ~MustForce(Latest, TimeLeft(Latest))
              \/ Minting /\ UNCHANGED <<forcedAt, excused>>
              \/ /\ forcedAt' = clock /\ Latest > 0 /\ TimeLeft(Latest) <= ForceWindow
                 /\ (Minting /\ UNCHANGED excused) \/ (UNCHANGED expires /\ ~Calm')
<1> DEFINE had == SdkBearers
           b == Len(had)
           remaining == had[b] - clock
<1>1. /\ UNCHANGED <<clock, held, probedAt, attendee, patience>> /\ probe.at = "authenticating"
      /\ \/ /\ MustForce(b, remaining) /\ forcedAt' = clock
            /\ \/ /\ expires' = Append(had, clock + BearerLife) /\ UNCHANGED excused
                  /\ ProbeGoesOn("validating", b + 1, FALSE)
               \/ expires' = had /\ Outage /\ ProbeGoesOn("validating", b, FALSE)
         \/ /\ ~MustForce(b, remaining) /\ expires' = had /\ UNCHANGED <<forcedAt, excused>>
            /\ ProbeGoesOn("validating", b, FALSE)
  BY Zenon DEF Authenticate, Free
<1>2. \A n : ProbeGoesOn("validating", n, FALSE) =>
          /\ probe'.at = "validating" /\ probe'.by = probe.by /\ probe'.bearer = n
          /\ UNCHANGED <<rotation, client>>
  BY DEF ProbeGoesOn, CredentialParts, ProbeTyped
<1>3. Outage => ~Calm' /\ excused \subseteq excused' BY DEF Outage, Calm
<1>4. expires \in Seq(Nat) /\ clock + BearerLife \in Nat /\ Latest \in Nat
  BY Windows DEF Plain
<1>5. /\ Append(expires, clock + BearerLife) \in Seq(Nat)
      /\ Len(Append(expires, clock + BearerLife)) = Latest + 1
      /\ Append(expires, clock + BearerLife)[Latest + 1] = clock + BearerLife
  BY <1>4 DEF Latest
<1>6. CASE expires # <<>> /\ TimeLeft(Len(expires)) > 0
  <2>1. had = expires /\ b = Latest /\ remaining = TimeLeft(Latest) /\ Latest > 0
    BY <1>4, <1>6 DEF SdkBearers, Latest, TimeLeft
  <2> HIDE DEF had, b, remaining
  <2>2. Len(expires') = b + 1 \/ expires' # Append(expires, clock + BearerLife)
    BY <1>5, <2>1
  <2>3. MustForce(b, remaining) => TimeLeft(Latest) <= ForceWindow BY <2>1 DEF MustForce
  <2>4. b + 1 > 0 BY <1>4, <2>1
  <2> HIDE DEF MustForce
  <2> QED BY <1>1, <1>2, <1>3, <2>1, <2>2, <2>3, <2>4 DEF Minting, Latest
<1>7. CASE ~(expires # <<>> /\ TimeLeft(Len(expires)) > 0)
  <2>1. had = Append(expires, clock + BearerLife) BY <1>7 DEF SdkBearers
  <2>2. b = Latest + 1 /\ remaining = BearerLife
    <3>1. clock \in Nat /\ BearerLife \in Nat BY Windows DEF Plain
    <3>2. b = Latest + 1 /\ had[b] = clock + BearerLife BY <1>5, <2>1
    <3> HIDE DEF had, b
    <3> QED BY <3>1, <3>2
  <2> HIDE DEF had, b, remaining
  <2>3. ~MustForce(b, remaining) BY <2>2, Windows DEF MustForce
  <2>4. Minting /\ Latest' = b /\ Latest' > 0
    <3>1. expires' = Append(expires, clock + BearerLife) /\ clock' = clock
      BY <1>1, <2>1, <2>3
    <3>2. Latest' = Latest + 1 BY <1>5, <3>1 DEF Latest
    <3> QED BY <1>4, <2>2, <3>1, <3>2 DEF Minting
  <2> QED BY <1>1, <1>2, <2>3, <2>4
<1> QED BY <1>6, <1>7

(* The bearer that is validated lasts: it was minted just now, or it need  *)
(* not be forced, as there is more of it left, or it is newer than what is *)
(* held; and in time a cooldown never stands in the way.                   *)
LEMMA AuthenticateInTime ==
    ASSUME Plain, Plain', CredentialParts, MintedInTurn, LockHeld, InTime, Authenticate
    PROVE  InTime'
<1> SUFFICES ASSUME Calm' PROVE InTime' BY DEF InTime
<1>1. /\ UNCHANGED <<clock, held, probedAt, attendee, patience, rotation, client>>
      /\ probe.at = "authenticating" /\ probe'.at = "validating" /\ probe'.by = probe.by
      /\ probe'.bearer = Latest' /\ Latest' > 0 /\ excused \subseteq excused'
      /\ \/ /\ UNCHANGED <<expires, forcedAt, excused>> /\ Latest > 0
            /\ ~MustForce(Latest, TimeLeft(Latest))
         \/ Minting
  BY AuthenticateIs
<1>2. Calm /\ GoesOn BY <1>1, Numbers DEF Calm, GoesOn, Numbered
<1>3. probe.by # Nobody /\ rotation # "sleeping"
  BY <1>1, <1>2 DEF LockHeld, InTime, SleepsInTime
<1>4. rotation # "starting" =>
          /\ held.bearer # NoBearer /\ held.health = "rotating"
          /\ Lasts(held.bearer, ForceWindow - 2) /\ Succeeded(held.bearer, ForceWindow - 1)
  BY <1>1, <1>2, <1>3 DEF InTime, WaitsInTime, Plain
<1>5. rotation # "starting" => Lasts(held.bearer, ForceWindow - 2)'
  <2>1. PICK h \in Int : h = held.bearer BY TokensAreNumbers
  <2>2. ForceWindow - 2 \in Int BY Windows
  <2>3. rotation # "starting" => Lasts(h, ForceWindow - 2)'
    <3> HIDE DEF Lasts
    <3> QED BY <1>2, <1>4, <2>1, <2>2, LastsKept
  <2> QED BY <1>1, <2>1, <2>3 DEF Lasts, TimeLeft
<1>6. expires'[Latest'] - clock' >= ForceWindow - 1 + patience'
  <2>1. CASE Minting
    <3>1. expires'[Latest'] = clock + BearerLife /\ clock' = clock
      BY <2>1, Minted DEF Minting
    <3> QED BY <3>1, Numbers, Windows DEF Numbered
  <2>2. CASE /\ UNCHANGED <<expires, forcedAt, excused>> /\ Latest > 0
             /\ ~MustForce(Latest, TimeLeft(Latest))
    <3>1. Latest' = Latest /\ Latest \in 1..Latest /\ expires[Latest] \in Int
      BY <2>2, LatestStays, Numbers DEF Numbered
    <3>2. CASE TimeLeft(Latest) > ForceWindow
      BY <1>1, <2>2, <3>1, <3>2, Numbers, Windows DEF TimeLeft, Numbered
    <3>3. CASE held.bearer \notin {Latest, NoBearer}
      <4>1. rotation # "starting" BY <1>1, <1>2, <3>3 DEF InTime, StartsInTime
      <4>2. TimeLeft(Latest) >= ForceWindow - 1 + patience BY <1>4, <3>3, <4>1 DEF Succeeded
      <4> QED BY <1>1, <2>2, <3>1, <4>2 DEF TimeLeft
    <3>4. CASE TimeLeft(Latest) <= ForceWindow /\ clock - forcedAt < Cooldown
      <4>1. expires[Latest] >= forcedAt + BearerLife /\ forcedAt \in Int
        BY <1>2, <2>2, Numbers DEF MintedInTurn, Numbered
      <4>2. FALSE BY <3>1, <3>4, <4>1, Numbers, Windows DEF TimeLeft, Numbered
      <4> QED BY <4>2
    <3>5. /\ TimeLeft(Latest) <= ForceWindow \/ TimeLeft(Latest) > ForceWindow
          /\ clock - forcedAt >= Cooldown \/ clock - forcedAt < Cooldown
      BY <3>1, Numbers, Windows DEF TimeLeft, Numbered
    <3> QED BY <2>2, <3>2, <3>3, <3>4, <3>5 DEF MustForce
  <2> QED BY <1>1, <2>1, <2>2
<1>7. Lasts(probe.bearer, ForceWindow - 1)' /\ Succeeded(probe.bearer, ForceWindow)'
  BY <1>1, <1>6, Numbers DEF Lasts, Succeeded, TimeLeft, Numbered
<1> HIDE DEF Lasts, Succeeded
<1> QED BY <1>1, <1>3, <1>4, <1>5, <1>7
    DEF InTime, StartsInTime, SleepsInTime, WaitsInTime, ValidatesInTime, FansInTime

LEMMA AuthenticateSound ==
    ASSUME BearerIInv, CredentialParts', Authenticate PROVE BearerIInv'
<1>1. Plain /\ Plain' BY TypesArePlain DEF BearerIInv
<1>2. /\ UNCHANGED <<clock, held, probedAt, attendee, patience, rotation, client>>
      /\ probe.at = "authenticating" /\ probe'.at = "validating" /\ probe'.by = probe.by
      /\ probe'.bearer = Latest' /\ Latest' > 0 /\ excused \subseteq excused'
      /\ \/ UNCHANGED <<expires, forcedAt, excused>>
         \/ Minting /\ UNCHANGED <<forcedAt, excused>>
         \/ /\ forcedAt' = clock /\ Latest > 0 /\ TimeLeft(Latest) <= ForceWindow
            /\ Minting \/ (UNCHANGED expires /\ ~Calm')
  BY <1>1, AuthenticateIs DEF BearerIInv
<1>3. MintedInTurn'
  <2>1. CASE UNCHANGED <<expires, forcedAt, excused>>
    BY <1>1, <1>2, <2>1, MintedKept, Numbers DEF BearerIInv, Calm, Numbered
  <2>2. CASE Minting /\ UNCHANGED <<forcedAt, excused>> BY <1>1, <2>2, MintedMore DEF BearerIInv
  <2>3. CASE /\ forcedAt' = clock /\ Latest > 0 /\ TimeLeft(Latest) <= ForceWindow
             /\ Minting \/ (UNCHANGED expires /\ ~Calm')
    BY <1>1, <1>2, <2>3, MintedForced DEF BearerIInv
  <2> QED BY <1>2, <2>1, <2>2, <2>3
<1>4. Cadence' BY <1>2 DEF BearerIInv, Cadence
<1>5. LockHeld'
  <2>1. Latest' \in 1..Latest' BY <1>1, <1>2, Numbers DEF Numbered
  <2> QED BY <1>2, <2>1 DEF BearerIInv, LockHeld
<1>6. NobodyYet' BY <1>2, NobodyYetKept DEF BearerIInv
<1>7. InTime' BY <1>1, AuthenticateInTime DEF BearerIInv
<1>8. KeepsOrder BY <1>2 DEF KeepsOrder
<1>9. NobodyWrites BY <1>2 DEF NobodyWrites, BearerIInv, FileInOrder
<1>10. FileInOrder' BY <1>1, <1>8, <1>9, FileKept DEF BearerIInv
<1> QED BY <1>3, <1>4, <1>5, <1>6, <1>7, <1>10 DEF BearerIInv

-----------------------------------------------------------------------------
(* A probe comes to its end with a bearer. *)

EndsWith(b) ==
    /\ b \in 1..Latest /\ held'.bearer = b /\ held'.health = "rotating"
    /\ Lasts(b, ForceWindow - 1) /\ Succeeded(b, ForceWindow)
    /\ rotation' = "sleeping" => probedAt <= held'.validatedAt

LEMMA EndsInTime ==
    ASSUME Plain, Plain', BearerIInv, ProbeEnds, UNCHANGED <<clock, expires, probedAt, patience>>,
           Calm' => \E b \in Int : EndsWith(b)
    PROVE  InTime'
<1> SUFFICES ASSUME Calm', NEW b \in Int, EndsWith(b) PROVE InTime' BY DEF InTime
<1>1. held'.bearer = b /\ held'.bearer # NoBearer /\ held'.health = "rotating"
  BY DEF EndsWith, NoBearer
<1>2. /\ rotation' # "starting" /\ probe'.by = Nobody /\ probe'.at = "done"
      /\ rotation' = "sleeping" => probedAt' <= held'.validatedAt
  BY EndsRequest DEF EndsWith
<1> DEFINE e == expires[b]
           l == expires[Latest]
<1>3. b \in 1..Latest /\ Latest' = Latest /\ e \in Int /\ l \in Int
  BY LatestStays, Numbers DEF EndsWith, Numbered
<1>4. /\ e - clock >= ForceWindow - 1 + patience
      /\ b = Latest \/ l - clock >= ForceWindow + patience
  BY DEF EndsWith, Lasts, Succeeded, TimeLeft
<1>5. /\ e - clock >= ForceWindow - 2 + patience
      /\ b = Latest \/ l - clock >= ForceWindow - 1 + patience
  BY <1>3, <1>4, Numbers, Windows DEF Numbered
<1>6. /\ Lasts(held.bearer, ForceWindow - 1)' /\ Succeeded(held.bearer, ForceWindow)'
      /\ Lasts(held.bearer, ForceWindow - 2)' /\ Succeeded(held.bearer, ForceWindow - 1)'
  BY <1>1, <1>3, <1>4, <1>5 DEF Lasts, Succeeded, TimeLeft
<1> HIDE DEF Lasts, Succeeded
<1> QED BY <1>1, <1>2, <1>6
    DEF InTime, StartsInTime, SleepsInTime, WaitsInTime, ValidatesInTime, FansInTime

(* A bearer that need not be replaced at once lasts. *)
LEMMA AmpleLasts ==
    ASSUME Plain, MintedInTurn, NEW b \in 1..Latest, TimeLeft(b) > ForceWindow
    PROVE  Lasts(b, ForceWindow - 1) /\ Succeeded(b, ForceWindow)
<1>1. Latest \in 1..Latest /\ expires[b] \in Int /\ expires[Latest] \in Int
      /\ expires[b] <= expires[Latest]
  BY Numbers DEF Numbered, MintedInTurn
<1>2. expires[b] - clock > ForceWindow BY DEF TimeLeft
<1>3. /\ expires[b] - clock >= ForceWindow - 1 + patience
      /\ expires[Latest] - clock >= ForceWindow + patience
  BY <1>1, <1>2, Numbers, Windows DEF Numbered
<1> QED BY <1>3 DEF Lasts, Succeeded, TimeLeft

(* Whether an outage is over, and what then is held. *)
LEMMA OutageEnds ==
    ASSUME Plain, NEW gone \in {"behind", "none"}, excused' = OutageOver \ {gone}, Calm', ~Calm
    PROVE  held.bearer = probe.bearer /\ TimeLeft(probe.bearer) > ForceWindow
BY DEF OutageOver, Calm

LEMMA EndsMinted ==
    ASSUME Plain, Plain', MintedInTurn, UNCHANGED <<clock, expires, forcedAt>>,
           probe.bearer \in 1..Latest,
           Calm' /\ ~Calm => TimeLeft(probe.bearer) > ForceWindow
    PROVE  MintedInTurn'
<1>1. CASE Calm' => Calm BY <1>1, MintedKept, Numbers DEF Numbered
<1>2. CASE Calm' /\ ~Calm
  <2>1. PICK b \in 1..Latest : b = probe.bearer OBVIOUS
  <2> QED BY <1>2, <2>1, MintedAfterOutage
<1> QED BY <1>1, <1>2

(* A bearer about to lapse replaces none: not in time. *)
LEMMA ValidatedTooLate ==
    ASSUME BearerIInv, CredentialParts', Validated, Lapsing, held.bearer # NoBearer
    PROVE  BearerIInv'
<1>1. Plain BY TypesArePlain DEF BearerIInv
<1>2. /\ UNCHANGED <<clock, expires, forcedAt, probedAt, attendee, patience, excused>>
      /\ probe.at = "validating" /\ ProbeEnds /\ held' = [held EXCEPT !.health = "unhealthy"]
  BY DEF Validated
<1>3. held'.bearer = held.bearer BY <1>2 DEF BearerIInv, CredentialParts, HeldTyped
<1>4. ~Calm
  <2>1. Calm => Lasts(probe.bearer, ForceWindow - 1)
    BY <1>2 DEF BearerIInv, InTime, ValidatesInTime
  <2>2. Calm => TimeLeft(probe.bearer) \in Int /\ TimeLeft(probe.bearer) >= ForceWindow - 1
    BY <1>1, <2>1, Numbers, Windows DEF Lasts, TimeLeft, Numbered
  <2> QED BY <2>2, Windows DEF Lapsing
<1>5. ~Calm' BY <1>2, <1>4 DEF Calm
<1> QED BY <1>2, <1>3, <1>5, ProbeFails

(* The bearer that is held is validated again. *)
LEMMA ValidatedAgain ==
    ASSUME BearerIInv, CredentialParts', Validated, probe.bearer = held.bearer,
           ~(Lapsing /\ held.bearer # NoBearer)
    PROVE  BearerIInv'
<1>1. Plain /\ Plain' BY TypesArePlain DEF BearerIInv
<1>2. /\ UNCHANGED <<clock, expires, forcedAt, probedAt, attendee, patience>>
      /\ probe.at = "validating" /\ ProbeEnds /\ held' = Adopted /\ excused' = OutageOver
  BY DEF Validated
<1>3. /\ held'.bearer = probe.bearer /\ held'.validatedAt = clock /\ held'.health = "rotating"
      /\ probe.bearer \in 1..Latest
  BY <1>2 DEF Adopted, BearerIInv, LockHeld
<1>4. Calm' /\ ~Calm => TimeLeft(probe.bearer) > ForceWindow
  BY <1>2 DEF OutageOver, Calm
<1>5. MintedInTurn' BY <1>1, <1>2, <1>3, <1>4, EndsMinted DEF BearerIInv
<1>6. Cadence' /\ LockHeld' BY <1>1, <1>2, EndsLock
<1>7. NobodyWrites /\ NobodyYet' BY <1>2, EndsWriting
<1>8. InTime'
  <2>1. PICK b \in 1..Latest : b = probe.bearer BY <1>3
  <2>2. b \in Int /\ probedAt <= clock BY <1>1, Numbers DEF BearerIInv, Cadence, Numbered
  <2>3. Calm => Lasts(b, ForceWindow - 1) /\ Succeeded(b, ForceWindow)
    BY <1>2, <2>1 DEF BearerIInv, InTime, ValidatesInTime
  <2>4. Calm' /\ ~Calm => Lasts(b, ForceWindow - 1) /\ Succeeded(b, ForceWindow)
    BY <1>1, <1>4, <2>1, AmpleLasts DEF BearerIInv
  <2>5. Calm' => EndsWith(b) BY <1>3, <2>1, <2>2, <2>3, <2>4 DEF EndsWith
  <2> HIDE DEF EndsWith
  <2> QED BY <1>1, <1>2, <2>2, <2>5, EndsInTime
<1>9. KeepsOrder
  <2>1. "behind" \in excused => "behind" \in excused' BY <1>2 DEF OutageOver
  <2>2. probe'.at = "done" BY <1>2, EndsRequest
  <2> QED BY <1>2, <1>3, <2>1, <2>2 DEF KeepsOrder
<1>10. FileInOrder' BY <1>1, <1>7, <1>9, FileKept DEF BearerIInv
<1> QED BY <1>5, <1>6, <1>7, <1>8, <1>10 DEF BearerIInv

(* Another bearer is adopted: what the file has, or is to have next, is    *)
(* the one held until now.                                                 *)
LEMMA ValidatedAnew ==
    ASSUME BearerIInv, CredentialParts', Validated, probe.bearer # held.bearer,
           ~(Lapsing /\ held.bearer # NoBearer)
    PROVE  BearerIInv'
<1>1. Plain /\ Plain' BY TypesArePlain DEF BearerIInv
<1>2. /\ UNCHANGED <<clock, expires, forcedAt, probedAt, attendee, patience, excused>>
      /\ probe.at = "validating" /\ ProbeGoesOn("fanning", probe.bearer, Lapsing)
      /\ held' = Adopted
  BY DEF Validated
<1>3. /\ held'.bearer = probe.bearer /\ held'.validatedAt = clock /\ held'.health = "rotating"
      /\ probe.bearer \in 1..Latest /\ probe.bearer # NoBearer
  BY <1>1, <1>2 DEF Adopted, BearerIInv, LockHeld, NoBearer
<1>4. /\ probe'.at = "fanning" /\ probe'.by = probe.by /\ probe'.bearer = probe.bearer
      /\ probe'.stalled = Lapsing /\ UNCHANGED <<rotation, client>>
  BY <1>2 DEF ProbeGoesOn, BearerIInv, CredentialParts, ProbeTyped
<1>5. Calm' = Calm /\ Latest' = Latest BY <1>2, LatestStays DEF Calm
<1>6. MintedInTurn' BY <1>1, <1>2, <1>5, MintedKept, Numbers DEF BearerIInv, Numbered
<1>7. Cadence' BY <1>2, <1>4 DEF BearerIInv, Cadence
<1>8. LockHeld'
  <2>1. probe'.stalled => TimeLeft(probe.bearer) <= Margin BY <1>4 DEF Lapsing
  <2>2. probedAt <= clock BY DEF BearerIInv, Cadence
  <2> QED BY <1>2, <1>3, <1>4, <1>5, <2>1, <2>2 DEF BearerIInv, LockHeld, TimeLeft
<1>9. NobodyYet' BY <1>2, <1>4, NobodyYetKept DEF BearerIInv
<1>10. InTime'
  <2>1. Calm => /\ Lasts(probe.bearer, ForceWindow - 1) /\ Succeeded(probe.bearer, ForceWindow)
                /\ rotation # "sleeping"
    BY <1>2 DEF BearerIInv, InTime, ValidatesInTime, SleepsInTime, LockHeld
  <2>2. Calm => ~Lapsing
    <3>1. Calm => TimeLeft(probe.bearer) \in Int /\ TimeLeft(probe.bearer) >= ForceWindow - 1
      BY <1>1, <2>1, Numbers, Windows DEF Lasts, TimeLeft, Numbered
    <3> QED BY <3>1, Windows DEF Lapsing
  <2>3. Calm => /\ Lasts(held.bearer, ForceWindow - 1)' /\ Succeeded(held.bearer, ForceWindow)'
    BY <1>2, <1>3, <1>5, <2>1 DEF Lasts, Succeeded, TimeLeft
  <2> HIDE DEF Lasts, Succeeded
  <2> QED BY <1>3, <1>4, <1>5, <2>1, <2>2, <2>3
      DEF InTime, StartsInTime, SleepsInTime, WaitsInTime, ValidatesInTime, FansInTime
<1>11. ASSUME NEW b \in Int, InOrderFor(b), rotation # "starting" \/ b = NoBearer
       PROVE  InOrderFor(b)'
  <2> SUFFICES ASSUME b \notin {NoBearer, Pat}, excused = {}
               PROVE  b = held'.bearer \/ Lasts(b, ForceWindow - 2)'
    BY <1>2, <1>4 DEF InOrderFor
  <2>1. Calm /\ rotation # "starting" BY <1>11 DEF Calm
  <2>2. held.bearer # NoBearer /\ Lasts(held.bearer, ForceWindow - 2)
    BY <1>2, <2>1 DEF BearerIInv, InTime, ValidatesInTime
  <2>3. b = held.bearer BY <1>2, <1>11, <2>2 DEF InOrderFor
  <2> QED BY <1>2, <1>5, <2>2, <2>3 DEF Lasts, TimeLeft
<1>12. FileInOrder'
  <2>1. attendee.file \in Int /\ \A c \in Client : client[c].got \in Int
    BY <1>1, TokensAreNumbers
  <2>2. InOrderFor(attendee.file)'
    <3>1. PICK f \in Int : f = attendee.file BY <2>1
    <3>2. rotation # "starting" \/ f = NoBearer BY <3>1 DEF BearerIInv, NobodyYet
    <3>3. InOrderFor(f)' BY <1>11, <3>1, <3>2 DEF BearerIInv, FileInOrder
    <3> QED BY <1>2, <3>1, <3>3 DEF InOrderFor, Lasts, TimeLeft
  <2>3. ASSUME NEW c \in Client, WritesNext(c) PROVE InOrderFor(client[c].got)'
    <3>1. PICK g \in Int : g = client[c].got BY <2>1
    <3>2. rotation # "starting"
      BY <2>3, ServedIsKnown DEF BearerIInv, CredentialParts, WritesNext
    <3>3. InOrderFor(g)' BY <1>11, <2>3, <3>1, <3>2 DEF BearerIInv, FileInOrder
    <3> QED BY <1>4, <3>1, <3>3 DEF InOrderFor, Lasts, TimeLeft
  <2>4. \A c \in Client : WritesNext(c)' <=> WritesNext(c) BY <1>2, <1>4 DEF WritesNext
  <2> HIDE DEF WritesNext, InOrderFor
  <2> QED BY <1>2, <1>4, <2>2, <2>3, <2>4 DEF BearerIInv, FileInOrder
<1> QED BY <1>6, <1>7, <1>8, <1>9, <1>10, <1>12 DEF BearerIInv

LEMMA ValidatedSound == ASSUME BearerIInv, CredentialParts', Validated PROVE BearerIInv'
BY ValidatedTooLate, ValidatedAgain, ValidatedAnew

(* The file gets what is held, or is left behind. *)
FansOut ==
    /\ probe.at = "fanning" /\ FanoutEnds
    /\ attendee'.known = attendee.known
    /\ IF attendee.known
       THEN /\ attendee'.revision = attendee.revision + 1
            /\ attendee'.file = probe.bearer \/ "behind" \in excused'
       ELSE attendee' = attendee
    /\ Calm' /\ ~Calm => held.bearer = probe.bearer /\ TimeLeft(probe.bearer) > ForceWindow

LEMMA AnyFanoutSound ==
    ASSUME BearerIInv, CredentialParts', FansOut
    PROVE  BearerIInv'
<1>1. Plain /\ Plain' BY TypesArePlain DEF BearerIInv
<1>2. /\ UNCHANGED <<clock, expires, forcedAt, probedAt, patience>>
      /\ probe.at = "fanning" /\ ProbeEnds
      /\ held' = IF probe.stalled THEN [held EXCEPT !.health = "unhealthy"] ELSE held
      /\ attendee'.known = attendee.known
      /\ IF attendee.known
         THEN /\ attendee'.revision = attendee.revision + 1
              /\ attendee'.file = probe.bearer \/ "behind" \in excused'
         ELSE attendee' = attendee
      /\ Calm' /\ ~Calm => held.bearer = probe.bearer /\ TimeLeft(probe.bearer) > ForceWindow
      /\ probe.bearer \in 1..Latest
  BY DEF FansOut, FanoutEnds, BearerIInv, LockHeld
<1>3. held'.bearer = held.bearer /\ held'.validatedAt = held.validatedAt
      /\ (~probe.stalled => held' = held)
  BY <1>2 DEF BearerIInv, CredentialParts, HeldTyped
<1>4. MintedInTurn' BY <1>1, <1>2, EndsMinted DEF BearerIInv
<1>5. Cadence' /\ LockHeld' BY <1>1, <1>2, EndsLock
<1>6. held.bearer # NoBearer => held.bearer = probe.bearer BY <1>2 DEF BearerIInv, LockHeld
<1>7. InTime'
  <2>1. PICK b \in 1..Latest : b = probe.bearer BY <1>2
  <2>2. b \in Int /\ b # NoBearer BY <1>1 DEF Plain, NoBearer
  <2>3. Calm => /\ held.bearer = b /\ ~probe.stalled
                /\ Lasts(b, ForceWindow - 1) /\ Succeeded(b, ForceWindow)
    BY <1>2, <2>1 DEF BearerIInv, InTime, FansInTime
  <2>4. Calm' /\ ~Calm => /\ held.bearer = b /\ ~probe.stalled
                          /\ Lasts(b, ForceWindow - 1) /\ Succeeded(b, ForceWindow)
    <3>1. expires[b] \in Int BY <1>1, Numbers DEF Numbered
    <3>2. probe.stalled => TimeLeft(b) <= Margin BY <1>2, <2>1 DEF BearerIInv, LockHeld
    <3>3. Calm' /\ ~Calm => ~probe.stalled
      BY <1>1, <1>2, <2>1, <3>1, <3>2, Numbers, Windows DEF TimeLeft, Numbered
    <3> QED BY <1>1, <1>2, <2>1, <3>3, AmpleLasts DEF BearerIInv
  <2>5. held.bearer = b => /\ held.health = "rotating"
                           /\ rotation # "waiting" => probedAt <= held.validatedAt
    BY <1>2, <2>1, <2>2 DEF BearerIInv, LockHeld
  <2>6. rotation' = "sleeping" => rotation # "waiting"
    BY <1>2, EndsRequest DEF BearerIInv, LockHeld
  <2>7. Calm' => EndsWith(b) BY <1>3, <2>3, <2>4, <2>5, <2>6 DEF EndsWith
  <2> HIDE DEF EndsWith
  <2> QED BY <1>1, <1>2, <2>2, <2>7, EndsInTime
<1>8. NobodyYet'
  <2>1. attendee'.file = attendee.file \/ attendee.known BY <1>2
  <2> QED BY <1>2, <2>1, EndsRequest DEF BearerIInv, NobodyYet
<1>9. FileInOrder'
  <2>1. probe'.at = "done" BY <1>2, EndsRequest
  <2>2. \A c \in Client : /\ client'[c].at = "configuring" => client'[c] = client[c]
                          /\ client'[c].at = "serving" => client'[c] = client[c]
    BY <1>2, EndsRequest
  <2>3. InOrderFor(attendee.file)'
    <3>1. CASE attendee.known
      <4>1. attendee'.file = probe.bearer \/ "behind" \in excused' BY <1>2, <3>1
      <4> QED BY <1>3, <1>6, <2>1, <4>1 DEF InOrderFor
    <3>2. CASE ~attendee.known
      BY <1>2, <3>2 DEF InOrderFor, BearerIInv, NobodyYet
    <3> QED BY <3>1, <3>2
  <2>4. ASSUME NEW c \in Client
        PROVE  /\ client'[c].at = "configuring" => client'[c].revision <= attendee'.revision
               /\ ~WritesNext(c)'
    <3>1. client[c].revision \in Nat /\ attendee.revision \in Nat BY <1>1 DEF Plain
    <3>2. client'[c].at = "configuring" =>
              /\ client[c].revision <= attendee.revision /\ client[c].at = "configuring"
              /\ client'[c].revision = client[c].revision
      BY <2>2 DEF BearerIInv, FileInOrder
    <3>3. client'[c].at = "configuring" => attendee'.revision = attendee.revision + 1
      BY <1>2, <3>2, ServedIsKnown DEF BearerIInv, CredentialParts
    <3> QED BY <3>1, <3>2, <3>3 DEF WritesNext
  <2>5. \A c \in Client : client'[c].at \in {"serving", "configuring"} => client'[c].got # NoBearer
    BY <2>2 DEF BearerIInv, FileInOrder
  <2> HIDE DEF WritesNext, InOrderFor
  <2> QED BY <2>3, <2>4, <2>5 DEF FileInOrder
<1> QED BY <1>4, <1>5, <1>7, <1>8, <1>9 DEF BearerIInv

LEMMA FanoutSound == ASSUME BearerIInv, CredentialParts', Fanout PROVE BearerIInv'
<1>1. /\ probe.at = "fanning" /\ FanoutEnds /\ AttendeeTyped
      /\ attendee' = IF attendee.known THEN Written(probe.bearer) ELSE attendee
      /\ excused' = OutageOver \ {"behind"}
  BY DEF Fanout, BearerIInv, CredentialParts
<1>2. /\ Written(probe.bearer).known = attendee.known
      /\ Written(probe.bearer).revision = attendee.revision + 1
      /\ Written(probe.bearer).file = probe.bearer
  BY <1>1 DEF Written, AttendeeTyped
<1>3. Calm' /\ ~Calm => held.bearer = probe.bearer /\ TimeLeft(probe.bearer) > ForceWindow
  BY <1>1 DEF OutageOver, Calm
<1>4. FansOut BY <1>1, <1>2, <1>3 DEF FansOut
<1> QED BY <1>4, AnyFanoutSound

LEMMA FanoutFailsSound == ASSUME BearerIInv, CredentialParts', FanoutFails PROVE BearerIInv'
<1>1. /\ probe.at = "fanning" /\ FanoutEnds /\ AttendeeTyped /\ attendee.known
      /\ attendee' = [attendee EXCEPT !.revision = @ + 1]
      /\ excused' = excused \cup {"behind"}
  BY DEF FanoutFails, BearerIInv, CredentialParts
<1>2. attendee'.known = attendee.known /\ attendee'.revision = attendee.revision + 1
  BY <1>1 DEF AttendeeTyped
<1>3. FansOut BY <1>1, <1>2 DEF FansOut, Calm
<1> QED BY <1>3, AnyFanoutSound

-----------------------------------------------------------------------------
(* A request writes, or takes its place among the writes. *)

LEMMA WriteIsQuiet ==
    ASSUME BearerIInv, ClientOnly, UNCHANGED <<held, probe>>, Calm' => Calm,
           NEW c \in Client, client[c].at # "probing",
           \A d \in Client : d # c => client'[d] = client[d]
    PROVE  Quiet
<1>1. Plain BY TypesArePlain DEF BearerIInv
<1>2. \A d \in Client : client[d].at = "probing" => client'[d].at = "probing" OBVIOUS
<1> QED BY <1>1, <1>2, Numbers DEF Quiet, GoesOn, ClientOnly, Numbered

LEMMA UpdatesSound ==
    ASSUME BearerIInv, CredentialParts', NEW c \in Client, Updates(c) PROVE BearerIInv'
<1>1. Plain /\ Plain' BY TypesArePlain DEF BearerIInv
<1>2. /\ ClientOnly /\ UNCHANGED <<held, probe>> /\ client[c].at = "serving"
      /\ attendee.known /\ rotation # "starting" /\ AttendeeTyped
      /\ attendee' = Written(client[c].got)
      /\ excused' = IF client[c].got = held.bearer THEN excused \ {"behind"}
                    ELSE excused \cup {"behind"}
  BY ServedIsKnown DEF Updates, BearerIInv, CredentialParts
<1>3. attendee'.known = attendee.known /\ attendee'.revision = attendee.revision + 1
      /\ attendee'.file = client[c].got
  BY <1>2 DEF Written, AttendeeTyped
<1>4. client'[c] = [at |-> "idle", got |-> NoBearer, revision |-> 0]
      /\ \A d \in Client : d # c => client'[d] = client[d]
  BY Went DEF Updates, BearerIInv, CredentialParts
<1>5. client'[c].at = "idle" BY <1>4
<1>6. Calm' = Calm BY <1>2 DEF Calm
<1>7. Quiet BY <1>2, <1>4, <1>6, WriteIsQuiet
<1>8. MintedInTurn' /\ Cadence' /\ LockHeld' /\ InTime' BY <1>1, <1>7, QuietStep
<1>9. NobodyYet' BY <1>2, <1>3 DEF NobodyYet, ClientOnly
<1>10. InOrderFor(attendee.file)' BY <1>2, <1>3 DEF InOrderFor
<1>11. ASSUME NEW d \in Client
       PROVE  /\ client'[d].at = "configuring" => client'[d].revision <= attendee'.revision
              /\ client'[d].at \in {"serving", "configuring"} => client'[d].got # NoBearer
              /\ ~WritesNext(d)'
  <2>1. CASE d = c BY <1>5, <2>1 DEF WritesNext
  <2>2. CASE d # c
    <3>1. client[d].revision \in Nat /\ attendee.revision \in Nat BY <1>1 DEF Plain
    <3> QED BY <1>3, <1>4, <2>2, <3>1 DEF WritesNext, BearerIInv, FileInOrder
  <2> QED BY <2>1, <2>2
<1>12. FileInOrder'
  <2> HIDE DEF WritesNext, InOrderFor
  <2> QED BY <1>10, <1>11 DEF FileInOrder
<1> QED BY <1>8, <1>9, <1>12 DEF BearerIInv

LEMMA ConfiguresSound ==
    ASSUME BearerIInv, CredentialParts', NEW c \in Client, Configures(c) PROVE BearerIInv'
<1>1. Plain /\ Plain' BY TypesArePlain DEF BearerIInv
<1>2. /\ ClientOnly /\ UNCHANGED <<held, probe>> /\ client[c].at = "serving"
      /\ attendee.known /\ rotation # "starting" /\ AttendeeTyped /\ ClientTyped
      /\ attendee' = [attendee EXCEPT !.revision = @ + 1]
      /\ client' = [client EXCEPT ![c] =
            [at |-> "configuring", got |-> client[c].got, revision |-> attendee.revision + 1]]
      /\ excused' = Behind(client[c].got)
  BY ServedIsKnown DEF Configures, BearerIInv, CredentialParts
<1>3. attendee'.known = attendee.known /\ attendee'.revision = attendee.revision + 1
      /\ attendee'.file = attendee.file
  BY <1>2 DEF AttendeeTyped
<1>4. /\ client'[c] = [at |-> "configuring", got |-> client[c].got,
                       revision |-> attendee.revision + 1]
      /\ \A d \in Client : d # c => client'[d] = client[d]
  BY <1>2 DEF ClientTyped
<1>5. /\ client'[c].at = "configuring" /\ client'[c].got = client[c].got
      /\ client'[c].revision = attendee.revision + 1
  BY <1>4
<1>6. Calm' = Calm /\ excused \subseteq excused' BY <1>2 DEF Calm, Behind
<1>7. Quiet BY <1>2, <1>4, <1>6, WriteIsQuiet
<1>8. MintedInTurn' /\ Cadence' /\ LockHeld' /\ InTime' BY <1>1, <1>7, QuietStep
<1>9. NobodyYet' BY <1>2, <1>3 DEF NobodyYet, ClientOnly
<1>10. InOrderFor(attendee.file)'
  <2>1. PICK f \in Int : f = attendee.file BY <1>1, TokensAreNumbers
  <2>2. KeepsOrder
    <3>1. UNCHANGED <<clock, expires, patience>> BY <1>2 DEF ClientOnly
    <3>2. \A b \in Int : Lasts(b, ForceWindow - 2) => Lasts(b, ForceWindow - 2)'
      BY <3>1, LatestStays DEF Lasts, TimeLeft
    <3> HIDE DEF Lasts
    <3> QED BY <1>2, <1>6, <3>2 DEF KeepsOrder
  <2>3. InOrderFor(f)' BY <2>1, <2>2, OrderKept DEF BearerIInv, FileInOrder
  <2> QED BY <1>3, <2>1, <2>3 DEF InOrderFor, Lasts, TimeLeft
<1>11. InOrderFor(client[c].got)' BY <1>2, <1>5 DEF InOrderFor, Behind
<1>12. ASSUME NEW d \in Client
       PROVE  /\ client'[d].at = "configuring" => client'[d].revision <= attendee'.revision
              /\ client'[d].at \in {"serving", "configuring"} => client'[d].got # NoBearer
              /\ WritesNext(d)' => d = c
  <2>1. attendee.revision \in Nat BY <1>1 DEF Plain
  <2>2. CASE d = c BY <1>2, <1>3, <1>5, <2>1, <2>2 DEF BearerIInv, FileInOrder
  <2>3. CASE d # c
    <3>1. client[d].revision \in Nat BY <1>1 DEF Plain
    <3> QED BY <1>3, <1>4, <2>1, <2>3, <3>1 DEF WritesNext, BearerIInv, FileInOrder
  <2> QED BY <2>2, <2>3
<1>13. FileInOrder'
  <2> HIDE DEF WritesNext, InOrderFor
  <2> QED BY <1>10, <1>11, <1>12 DEF FileInOrder
<1> QED BY <1>8, <1>9, <1>13 DEF BearerIInv

LEMMA CommitsSound ==
    ASSUME BearerIInv, CredentialParts', NEW c \in Client, Commits(c) PROVE BearerIInv'
<1>1. Plain /\ Plain' BY TypesArePlain DEF BearerIInv
<1>2. /\ ClientOnly /\ UNCHANGED <<held, probe>> /\ client[c].at = "configuring"
      /\ attendee.known /\ rotation # "starting" /\ AttendeeTyped
      /\ ClientGoes(c, "idle", NoBearer)
  BY ServedIsKnown DEF Commits, BearerIInv, CredentialParts
<1>3. CASE client[c].revision # attendee.revision
  <2>1. UNCHANGED <<attendee, excused>> BY <1>3 DEF Commits
  <2> QED BY <1>2, <2>1, RequestMoves
<1>4. CASE client[c].revision = attendee.revision
  <2>1. /\ attendee' = [attendee EXCEPT !.file = client[c].got]
        /\ excused' = InOrder(client[c].got)
    BY <1>4 DEF Commits
  <2>2. attendee'.known = attendee.known /\ attendee'.revision = attendee.revision
        /\ attendee'.file = client[c].got
    BY <1>2, <2>1 DEF AttendeeTyped
  <2>3. client'[c] = [at |-> "idle", got |-> NoBearer, revision |-> 0]
        /\ \A d \in Client : d # c => client'[d] = client[d]
    BY <1>2, Went DEF BearerIInv, CredentialParts
  <2>4. client'[c].at = "idle" BY <2>3
  <2>5. Calm' = Calm BY <2>1 DEF Calm, InOrder
  <2>6. Quiet BY <1>2, <2>3, <2>5, WriteIsQuiet
  <2>7. MintedInTurn' /\ Cadence' /\ LockHeld' /\ InTime' BY <1>1, <2>6, QuietStep
  <2>8. NobodyYet' BY <1>2, <2>2 DEF NobodyYet, ClientOnly
  <2>9. WritesNext(c) BY <1>2, <1>4 DEF WritesNext
  <2>10. InOrderFor(client[c].got) /\ \A d \in Client : WritesNext(d) => d = c
    BY <2>9 DEF BearerIInv, FileInOrder
  <2>11. InOrderFor(attendee.file)'
    <3>1. CASE client[c].got = held.bearer BY <1>2, <2>2, <3>1 DEF InOrderFor
    <3>2. CASE client[c].got # held.bearer
      <4>1. excused' = excused BY <2>1, <3>2 DEF InOrder
      <4>2. UNCHANGED <<clock, expires, patience>> /\ Latest' = Latest
        BY <1>2, LatestStays DEF ClientOnly
      <4> QED BY <1>2, <2>2, <2>10, <4>1, <4>2 DEF InOrderFor, Lasts, TimeLeft
    <3> QED BY <3>1, <3>2
  <2>12. ASSUME NEW d \in Client
         PROVE  /\ client'[d].at = "configuring" => client'[d].revision <= attendee'.revision
                /\ client'[d].at \in {"serving", "configuring"} => client'[d].got # NoBearer
                /\ ~WritesNext(d)'
    <3>1. CASE d = c BY <2>4, <3>1 DEF WritesNext
    <3>2. CASE d # c
      <4>1. WritesNext(d)' => WritesNext(d) BY <2>2, <2>3, <3>2 DEF WritesNext
      <4>2. ~WritesNext(d)' BY <2>10, <3>2, <4>1
      <4> QED BY <2>2, <2>3, <3>2, <4>2 DEF BearerIInv, FileInOrder
    <3> QED BY <3>1, <3>2
  <2>13. FileInOrder'
    <3> HIDE DEF WritesNext, InOrderFor
    <3> QED BY <2>11, <2>12 DEF FileInOrder
  <2> QED BY <2>7, <2>8, <2>13 DEF BearerIInv
<1> QED BY <1>3, <1>4

-----------------------------------------------------------------------------
(* Every step. *)

LEMMA BearerStart == CredentialInit => BearerIInv
<1> SUFFICES ASSUME CredentialInit PROVE BearerIInv OBVIOUS
<1>1. /\ clock = 0 /\ expires = <<>> /\ held = Cleared("unknown")
      /\ forcedAt = -Cooldown /\ probedAt = -ProbeInterval /\ rotation = "starting"
      /\ probe = [NoProbe EXCEPT !.by = Rotation, !.at = "authenticating"]
      /\ client = [c \in Client |-> [at |-> "idle", got |-> NoBearer, revision |-> 0]]
      /\ attendee = [known |-> FALSE, ready |-> FALSE, revision |-> 0, file |-> NoBearer]
      /\ patience = 1 /\ excused = {}
  BY DEF CredentialInit
<1>2. Latest = 0 /\ held.bearer = NoBearer BY <1>1 DEF Latest, Cleared
<1>3. probe.by = Rotation /\ probe.at = "authenticating" BY <1>1 DEF NoProbe
<1>4. CredentialParts BY CredentialStart
<1>5. MintedInTurn BY <1>1, <1>2, Windows DEF MintedInTurn
<1>6. Cadence BY <1>1, Windows DEF Cadence
<1>7. LockHeld BY <1>1, <1>3, CredentialAssumption DEF LockHeld
<1>8. NobodyYet BY <1>1 DEF NobodyYet
<1>9. InTime
  BY <1>1, <1>2, <1>3
  DEF InTime, StartsInTime, SleepsInTime, WaitsInTime, ValidatesInTime, FansInTime
<1>10. FileInOrder BY <1>1 DEF FileInOrder, InOrderFor, WritesNext
<1> QED BY <1>4, <1>5, <1>6, <1>7, <1>8, <1>9, <1>10 DEF BearerIInv

LEMMA BearerStep == BearerIInv /\ [CredentialNext]_credentialVars => BearerIInv'
<1> SUFFICES ASSUME BearerIInv, [CredentialNext]_credentialVars PROVE BearerIInv'
  OBVIOUS
<1>1. CredentialParts' BY CredentialStep DEF BearerIInv
<1>2. CASE Heartbeat \/ RotationEnters BY <1>1, <1>2, HeartbeatSound, RotationEntersSound
<1>3. CASE Authenticate \/ AuthenticateFails \/ Validated \/ Rejected \/ NoAnswer
  BY <1>1, <1>3, AuthenticateSound, AuthenticateFailsSound, ValidatedSound, RejectedSound,
     NoAnswerSound
<1>4. CASE Fanout \/ FanoutFails \/ EmergencyProbe
  BY <1>1, <1>4, FanoutSound, FanoutFailsSound, EmergencyProbeSound
<1>5. CASE \E c \in Client : Requesting(c)
  <2>1. PICK c \in Client : Requesting(c) BY <1>5
  <2>2. CASE Ask(c) \/ Rotates(c) \/ Looks(c) \/ Emergency(c)
    BY <1>1, <2>2, AskSound, RotatesSound, LooksSound, EmergencySound
  <2>3. CASE Updates(c) \/ Configures(c) \/ AgentsReady(c) \/ Commits(c)
    BY <1>1, <2>3, UpdatesSound, ConfiguresSound, AgentsReadySound, CommitsSound
  <2> QED BY <2>1, <2>2, <2>3 DEF Requesting
<1>6. CASE SdkMints \/ Tick BY <1>1, <1>6, SdkMintsSound, TickSound
<1>7. CASE UNCHANGED credentialVars
  <2>1. /\ UNCHANGED <<clock, expires, held, forcedAt, probedAt, rotation, probe, client, attendee>>
        /\ UNCHANGED <<patience, excused>>
    BY <1>7 DEF credentialVars
  <2>2. Plain BY TypesArePlain DEF BearerIInv
  <2>3. Quiet BY <2>1, <2>2, Numbers DEF Quiet, GoesOn, Calm, Numbered
  <2>4. NobodyWrites BY <2>1 DEF NobodyWrites, BearerIInv, FileInOrder
  <2>5. NobodyYet' BY <2>1, NobodyYetKept DEF BearerIInv
  <2> QED BY <1>1, <2>1, <2>3, <2>4, <2>5, QuietBearer
<1> QED BY <1>2, <1>3, <1>4, <1>5, <1>6, <1>7, Zenon DEF CredentialNext, Probing

LEMMA InOrderIsFresh == BearerIInv => FileIsNeverExpired
<1> SUFFICES ASSUME BearerIInv, excused = {}, attendee.file \notin {NoBearer, Pat}
             PROVE  TimeLeft(attendee.file) > 0
  BY DEF FileIsNeverExpired
<1>1. Plain /\ Calm /\ rotation # "starting"
  BY TypesArePlain DEF BearerIInv, Calm, NobodyYet
<1>2. /\ held.bearer # NoBearer
      /\ Lasts(held.bearer, ForceWindow - 2) \/ Lasts(held.bearer, ForceWindow - 1)
  <2>1. rotation \in {"sleeping", "waiting", "probing"}
        /\ probe.at \in {"done", "authenticating", "validating", "fanning", "emergency"}
    BY <1>1 DEF Plain
  <2>2. probe.at # "emergency" BY <1>1 DEF BearerIInv, LockHeld
  <2> QED BY <1>1, <2>1, <2>2
      DEF BearerIInv, InTime, SleepsInTime, WaitsInTime, ValidatesInTime, FansInTime
<1>3. attendee.file = held.bearer \/ Lasts(attendee.file, ForceWindow - 2)
  BY <1>2 DEF BearerIInv, FileInOrder, InOrderFor
<1>4. Lasts(attendee.file, ForceWindow - 2) \/ Lasts(attendee.file, ForceWindow - 1)
  BY <1>2, <1>3
<1> QED BY <1>1, <1>4, Numbers, Windows DEF Lasts, TimeLeft, Numbered

(* "A replacement is validated and fanned out well before attendee CLIs    *)
(* could read an expired file" (_tick): with windows that fit, the file    *)
(* never holds an expired bearer, for any number of requests, outages and  *)
(* mints, but for the excuses of FileIsNeverExpired.                       *)
THEOREM FileStaysFresh == CredentialSpec => []FileIsNeverExpired
BY BearerStart, BearerStep, InOrderIsFresh, PTL DEF CredentialSpec

-----------------------------------------------------------------------------
(* The server. *)

LEMMA StepOfEach ==
    ASSUME [WorkersNext]_workersVars
    PROVE  /\ [Next]_omnigentVars /\ [EntitlementNext]_entitlementVars
           /\ [HelpNext]_helpVars /\ [CredentialNext]_credentialVars
<1>1. CASE HostOnly(Next) BY <1>1, Zenon DEF HostOnly
<1>2. CASE ReconcilerOnly(EntitlementNext) BY <1>2, Zenon DEF ReconcilerOnly
<1>3. CASE HelpOnly(HelpNext) BY <1>3, Zenon DEF HelpOnly
<1>4. CASE BearerOnly(CredentialNext) BY <1>4, Zenon DEF BearerOnly
<1>5. CASE UNCHANGED workersVars BY <1>5 DEF workersVars
<1> QED BY <1>1, <1>2, <1>3, <1>4, <1>5, Zenon DEF WorkersNext

(* The server's workers are a host worker, a reconciler, a help outbox and *)
(* the maintenance of a bearer: none takes a step its own specification    *)
(* does not allow.                                                         *)
THEOREM WorkersAreEach ==
    WorkersSpec => Spec /\ EntitlementSpec /\ HelpSpec /\ CredentialSpec
<1>1. WorkersInit => Init /\ EntitlementInit /\ HelpInit /\ CredentialInit
  BY Zenon DEF WorkersInit
<1>2. [WorkersNext]_workersVars =>
          /\ [Next]_omnigentVars /\ [EntitlementNext]_entitlementVars
          /\ [HelpNext]_helpVars /\ [CredentialNext]_credentialVars
  BY StepOfEach
<1> QED BY <1>1, <1>2, PTL DEF WorkersSpec, Spec, EntitlementSpec, HelpSpec, CredentialSpec

(* Every variable of the server's workers has its type. *)
THEOREM WorkersTypeCorrect == WorkersSpec => []WorkersTypeOK
<1>1. TypeOK /\ EntitlementTypeOK /\ HelpTypeOK /\ CredentialTypeOK => WorkersTypeOK
  BY Zenon DEF WorkersTypeOK
<1> QED
  BY <1>1, WorkersAreEach, OmnigentTypeCorrect, EntitlementTypeCorrect, HelpTypeCorrect,
     CredentialTypeCorrect, PTL
=============================================================================
