----------------------------- MODULE HelpOutbox -----------------------------
(***************************************************************************)
(* Raise-hand and its messages on their way to Control Tower (CT):         *)
(* server/help.py, over the capture journal, and the two endpoints of      *)
(* server/admin.py that CT polls.                                          *)
(*                                                                         *)
(* A request changes the help state in memory and then gives the journal   *)
(* a bounded time to retain it.  Requests that wait share one flush (the   *)
(* barrier); none starts one while the journal's own flusher backs off.    *)
(* Whatever comes of it, the request goes on: presence shows CT what is in *)
(* memory, retained or not, and CT acknowledges the numbers it has read.   *)
(*                                                                         *)
(* The journal is taken at its interface, for one process: changes are     *)
(* accepted in memory and counted as pending until a flush, one at a time, *)
(* has written the state it looked at.  The direct push to CT is left out: *)
(* collection delivers what it does not.                                   *)
(***************************************************************************)
EXTENDS Integers, Sequences

CONSTANTS
    Asker,          \* request threads
    OutboxPage,     \* _OUTBOX_PAGE
    HelpScopes      \* environments: bounds, and whether storage is down

HelpScopeType ==
    [posts : Nat, amends : Nat, wakes : Nat, failures : Nat, losses : Nat, crashes : Nat,
     down : BOOLEAN]

ASSUME HelpAssumption == OutboxPage \in Nat \ {0} /\ HelpScopes \subseteq HelpScopeType

VARIABLES
    help,           \* the help state in memory: the entries numbered so far, acked_through
    kept,           \* the help state in storage
    unkept,         \* pending_operations
    flight,         \* the holder of the flush lock: what it writes
    barrier,        \* the shared flush: where its thread is
    flusher,        \* the journal's own flusher
    flushError,     \* flush_error
    asker,          \* asker[c]: where a request stands
    offered,        \* a presence answer on its way to CT: [n, entry] of its page
    filed,          \* external: what CT has read
    acks,           \* external: acknowledgements on their way
    reissued,       \* ghost: numbers given before a crash that took their entries
    left            \* the environment: what is left of its bounds, and if storage is down

flushVars == <<kept, unkept, flight, barrier, flusher, flushError>>
ctHelpVars == <<offered, filed, acks>>
helpVars == <<help, flushVars, asker, ctHelpVars, reissued, left>>

Blank == [log |-> <<>>, acked |-> 0]

NoFlight == [by |-> "nobody", writes |-> FALSE, state |-> Blank, count |-> 0]

Resting == [at |-> "idle", for |-> "change", told |-> FALSE, since |-> Blank]

HelpInit ==
    /\ help = Blank /\ kept = help /\ unkept = 0
    /\ flight = NoFlight /\ barrier = "none" /\ flusher = "sleeping" /\ flushError = FALSE
    /\ asker = [c \in Asker |-> Resting]
    /\ offered = {} /\ filed = {} /\ acks = {} /\ reissued = {}
    /\ left \in HelpScopes

Spend(bound) == left[bound] > 0 /\ left' = [left EXCEPT ![bound] = @ - 1]

-----------------------------------------------------------------------------
(* The requests.  Each makes its change under _lock and then flushes.      *)

Asks(c, for) ==
    /\ asker[c].at = "idle"
    /\ asker' = [asker EXCEPT ![c] =
          [at |-> "asking", for |-> for, told |-> FALSE, since |-> help']]

(* A change the help state takes is one more pending operation. *)
Changes(state) ==
    /\ help' = state
    /\ unkept' = unkept + (IF state = help THEN 0 ELSE 1)
    /\ UNCHANGED <<kept, flight, barrier, flusher, flushError>>

(* _enqueue: the next number, a new entry. *)
Post(c) ==
    /\ Spend("posts")
    /\ Changes([help EXCEPT !.log = Append(@, left.posts)])
    /\ Asks(c, "change")
    /\ UNCHANGED <<ctHelpVars, reissued>>

(* A hand raised or lowered, a reply kept, a handoff asked for again: the  *)
(* help state changes, the outbox does not.                                *)
Amend(c) ==
    /\ Spend("amends")
    /\ help' = help /\ unkept' = unkept + 1
    /\ Asks(c, "change")
    /\ UNCHANGED <<kept, flight, barrier, flusher, flushError, ctHelpVars, reissued>>

(* ack_outbox: monotonic and bounded by what has been numbered.  CT hears  *)
(* nothing of an answer that is lost, and collects again what was refused. *)
Acknowledged(n) == [help EXCEPT !.acked = IF n > @ THEN n ELSE @]

Ack(c, n) ==
    /\ n \in acks
    /\ IF n > Len(help.log)
       THEN acks' = acks \ {n} /\ UNCHANGED <<help, flushVars, asker>> /\ UNCHANGED left
       ELSE /\ Changes(Acknowledged(n)) /\ Asks(c, "change")
            /\ \/ acks' = acks \ {n} /\ UNCHANGED left
               \/ acks' = acks /\ Spend("losses")
    /\ UNCHANGED <<offered, filed, reissued>>

(* CT polls GET /presence, one collection at a time, when it has had its   *)
(* answer to the last acknowledgement or has given up waiting for it.  A   *)
(* poll that finds the outbox empty is left out.                           *)
Poll(c) ==
    /\ offered = {} /\ \A d \in Asker : asker[d].for # "presence"
    /\ help.acked < Len(help.log)
    /\ IF acks = {} THEN UNCHANGED left ELSE Spend("losses")
    /\ UNCHANGED help /\ Asks(c, "presence")
    /\ UNCHANGED <<flushVars, ctHelpVars, reissued>>

-----------------------------------------------------------------------------
(* flush_help_persistence: what the request does until it knows, or its    *)
(* time is up.  It looks at the journal's health, and joins the flush that *)
(* is under way or starts one.                                             *)
Answered(c, told) ==
    asker' = [asker EXCEPT ![c] =
        IF told THEN [@ EXCEPT !.at = "answered", !.told = TRUE]
        ELSE [@ EXCEPT !.at = "answered", !.since = Blank]]

Look(c) ==
    /\ asker[c].at = "asking"
    /\ \/ unkept = 0 /\ Answered(c, TRUE) /\ UNCHANGED barrier
       \/ unkept > 0 /\ flushError /\ Answered(c, FALSE) /\ UNCHANGED barrier
       \/ /\ unkept > 0 /\ ~flushError
          /\ asker' = [asker EXCEPT ![c].at = "waiting"]
          /\ barrier' = IF barrier = "none" THEN "flushing" ELSE barrier
    /\ UNCHANGED <<help, kept, unkept, flight, flusher, flushError, ctHelpVars, reissued>>
    /\ UNCHANGED left

(* Mutant of Timeout: whoever has joined the flush waits for its end. *)
TimeoutOnLook(c) ==
    /\ asker[c].at = "asking" /\ unkept > 0 /\ ~flushError /\ Answered(c, FALSE)
    /\ UNCHANGED <<help, flushVars, ctHelpVars, reissued>> /\ UNCHANGED left

Timeout(c) ==
    /\ \/ asker[c].at = "asking" /\ unkept > 0 /\ ~flushError
       \/ asker[c].at = "waiting"
    /\ Answered(c, FALSE)
    /\ UNCHANGED <<help, flushVars, ctHelpVars, reissued>> /\ UNCHANGED left

(* Mutant of Woken: what the shared flush drained is taken for one's own. *)
WokenContent(r) ==
    [r EXCEPT !.at = "answered", !.told = (barrier = "returned")]

(* Who waited for a flush that returned looks again, as it may have begun  *)
(* before the change; who waited for one that raised goes on without.      *)
Woken(r) ==
    IF barrier = "returned" THEN [r EXCEPT !.at = "asking"]
    ELSE [r EXCEPT !.at = "answered", !.since = Blank]

BarrierDone ==
    /\ barrier \in {"returned", "raised"} /\ barrier' = "none"
    /\ asker' = [c \in Asker |-> IF asker[c].at = "waiting" THEN Woken(asker[c]) ELSE asker[c]]
    /\ UNCHANGED <<help, kept, unkept, flight, flusher, flushError, ctHelpVars, reissued>>
    /\ UNCHANGED left

(* Mutant of Page: the newest entries instead of the oldest. *)
PageOfNewest == {n \in help.acked + 1..Len(help.log) : n > Len(help.log) - OutboxPage}

Page == {n \in help.acked + 1..Len(help.log) : n <= help.acked + OutboxPage}

(* presence_fields shows the outbox as it is now, whatever the flush came  *)
(* to; the answer may be lost.  Any other request is just answered.        *)
Respond(c) ==
    /\ asker[c].at = "answered" /\ asker' = [asker EXCEPT ![c] = Resting]
    /\ \/ /\ asker[c].for = "presence"
          /\ offered' = {<<n, help.log[n]>> : n \in Page} /\ UNCHANGED left
       \/ asker[c].for = "presence" /\ offered' = {} /\ Spend("losses")
       \/ asker[c].for = "change" /\ UNCHANGED offered /\ UNCHANGED left
    /\ UNCHANGED <<help, flushVars, filed, acks, reissued>>

-----------------------------------------------------------------------------
(* The journal: one flush at a time, the barrier's or the flusher's own.   *)

(* The flusher comes round every now and then, if there is something to do. *)
FlusherWakes ==
    /\ flusher = "sleeping" /\ (unkept > 0 \/ flushError) /\ flusher' = "flushing"
    /\ Spend("wakes")
    /\ UNCHANGED <<help, kept, unkept, flight, barrier, flushError, asker, ctHelpVars, reissued>>

FlusherNotes ==
    /\ flusher \in {"returned", "raised"} /\ flusher' = "sleeping"
    /\ flushError' = (flusher = "raised")
    /\ UNCHANGED <<help, kept, unkept, flight, barrier, asker, ctHelpVars, reissued>>
    /\ UNCHANGED left

Ends(by, how) ==
    /\ flight' = NoFlight
    /\ barrier' = IF by = "barrier" THEN how ELSE barrier
    /\ flusher' = IF by = "flusher" THEN how ELSE flusher

(* With the lock, a flush writes all that is pending when it looks, and    *)
(* then looks again.                                                       *)
FlushLook(by) ==
    /\ IF by = "barrier" THEN barrier = "flushing" ELSE flusher = "flushing"
    /\ flight.by \in {"nobody", by} /\ ~flight.writes
    /\ IF unkept = 0 THEN Ends(by, "returned")
       ELSE /\ flight' = [by |-> by, writes |-> TRUE, state |-> help, count |-> unkept]
            /\ UNCHANGED <<barrier, flusher>>
    /\ UNCHANGED <<help, kept, unkept, flushError, asker, ctHelpVars, reissued>> /\ UNCHANGED left

FlushLands ==
    /\ flight.writes /\ ~left.down
    /\ kept' = flight.state /\ unkept' = unkept - flight.count
    /\ flight' = [NoFlight EXCEPT !.by = flight.by]
    /\ UNCHANGED <<help, barrier, flusher, flushError, asker, ctHelpVars, reissued>> /\ UNCHANGED left

FlushFails ==
    /\ flight.writes /\ Ends(flight.by, "raised")
    /\ \/ left.down /\ UNCHANGED left
       \/ Spend("failures")
    /\ UNCHANGED <<help, kept, unkept, flushError, asker, ctHelpVars, reissued>>

Flushing ==
    \/ FlusherWakes \/ FlusherNotes \/ FlushLands \/ FlushFails
    \/ \E by \in {"barrier", "flusher"} : FlushLook(by)

-----------------------------------------------------------------------------
(* External: CT reads a page, files its entries and acknowledges the last. *)
Collect ==
    /\ offered # {} /\ offered' = {} /\ filed' = filed \cup offered
    /\ \E o \in offered :
          /\ \A q \in offered : q[1] <= o[1]
          /\ acks' = acks \cup {o[1]}
    /\ UNCHANGED <<help, flushVars, asker, reissued>> /\ UNCHANGED left

LoseAck ==
    /\ \E n \in acks : acks' = acks \ {n}
    /\ Spend("losses")
    /\ UNCHANGED <<help, flushVars, asker, offered, filed, reissued>>

(* The process dies and another one loads what storage holds, which may    *)
(* have the write that was under way.  A number that is lost is given      *)
(* again; what is on its way to or from CT is not recalled.                *)
HelpCrash ==
    /\ Spend("crashes")
    /\ kept' \in {kept} \cup (IF flight.writes /\ ~left.down THEN {flight.state} ELSE {})
    /\ help' = kept' /\ unkept' = 0 /\ flight' = NoFlight
    /\ barrier' = "none" /\ flusher' = "sleeping" /\ flushError' = FALSE
    /\ asker' = [c \in Asker |-> Resting]
    /\ reissued' = reissued \cup
          {o[1] : o \in {o \in filed \cup offered : o[1] > Len(kept'.log)}}
    /\ UNCHANGED ctHelpVars

(* What brings messages to CT: its polls and acknowledgements, and the     *)
(* requests that answer them.                                              *)
Collection ==
    \/ \E c \in Asker :
          \/ Look(c) \/ Timeout(c) \/ Respond(c) \/ Poll(c)
          \/ \E n \in acks : Ack(c, n)
    \/ Collect

HelpNext ==
    \/ \E c \in Asker : Post(c) \/ Amend(c)
    \/ Collection \/ BarrierDone \/ Flushing \/ LoseAck \/ HelpCrash

HelpSpec == HelpInit /\ [][HelpNext]_helpVars

-----------------------------------------------------------------------------
HelpState == [log : Seq(Nat), acked : Nat]
FlightState == [by : {"nobody", "barrier", "flusher"}, writes : BOOLEAN, state : HelpState,
                count : Nat]
AskerState == [at : {"idle", "asking", "waiting", "answered"}, for : {"change", "presence"},
               told : BOOLEAN, since : HelpState]

HelpTypeOK ==
    /\ help \in HelpState /\ kept \in HelpState /\ unkept \in Nat
    /\ flight \in FlightState /\ asker \in [Asker -> AskerState]
    /\ barrier \in {"none", "flushing", "returned", "raised"}
    /\ flusher \in {"sleeping", "flushing", "returned", "raised"}
    /\ flushError \in BOOLEAN
    /\ offered \subseteq Nat \X Nat /\ filed \subseteq Nat \X Nat
    /\ acks \subseteq Nat /\ reissued \subseteq Nat
    /\ left \in HelpScopeType

Covers(s, t) ==
    /\ t.acked <= s.acked /\ Len(t.log) <= Len(s.log)
    /\ \A n \in 1..Len(t.log) : s.log[n] = t.log[n]

(* A request that is told its change is retained has it, and everything    *)
(* before it, in storage, whichever flush it waited for                    *)
(* (flush_help_persistence).                                               *)
ToldIsRetained ==
    \A c \in Asker : asker[c].told => Covers(kept, asker[c].since)

(* "Pending messages are never evicted" (ack_outbox): an entry leaves the  *)
(* outbox when CT has read it.  Only a number that CT had read before a    *)
(* crash took its entry may go for the other one.                          *)
DroppedIsFiled ==
    \A n \in 1..help.acked :
        /\ n <= Len(help.log)
        /\ \/ <<n, help.log[n]>> \in filed
           \/ n \in reissued /\ \E o \in filed : o[1] = n

Unheard ==
    {n \in 1..Len(help.log) : n \notin reissued /\ <<n, help.log[n]>> \notin filed}

(* "A waiting attendee outranks a gap in the retained history" (presence): *)
(* as long as CT polls, it reads every message there is, also when the     *)
(* store never takes one.                                                  *)
HelpIsHeard == []<>(Unheard = {})
=============================================================================
