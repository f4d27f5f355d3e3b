--------------------------- MODULE EventDelivery ---------------------------
(***************************************************************************)
(* Attendee events on their way to Control Tower (CT): server/             *)
(* event_emitter.py over the capture journal, and the two endpoints of     *)
(* server/admin.py that CT polls.                                          *)
(*                                                                         *)
(* Producers emit keyed outputs to the process's memory.  CT reads a page  *)
(* without consuming it, commits the page on its side and acknowledges the *)
(* prefix it committed.  A collection waits for the journal's durability   *)
(* barrier before it reads, an acknowledgement before it answers.          *)
(*                                                                         *)
(* The journal is taken at its interface (CaptureJournal models it): an    *)
(* effective mutator is pending until a flush retains it, in order; a      *)
(* process whose history another process extended replays what is pending  *)
(* on top.  One process is modelled in full; Foreign is another one of the *)
(* same unit during a redeploy.  An output stands for an envelope without  *)
(* its time of occurrence.  CT is external: it asks from the cursor of the *)
(* pages it committed, forgets the cursor when it is refused, and only     *)
(* acknowledges positions it committed.                                    *)
(***************************************************************************)
EXTENDS Integers, Sequences, FiniteSets

CONSTANTS
    Output,         \* envelopes producers may emit
    Key, KeyOf,     \* their logical keys
    MaxBuffer,      \* max_buffer: events not acknowledged
    PageLimit,      \* the limit CT asks for
    MaxEmits,       \* bound: emissions, retries included
    MaxCrashes,     \* bound: crashes of the process
    MaxForeign,     \* bound: operations another process retains first
    MaxLosses       \* bound: responses lost, requests and creates failed

ASSUME DeliveryAssumption ==
    /\ KeyOf \in [Output -> Key]
    /\ MaxBuffer \in Nat \ {0} /\ PageLimit \in Nat \ {0}
    /\ MaxEmits \in Nat /\ MaxCrashes \in Nat /\ MaxForeign \in Nat /\ MaxLosses \in Nat

VARIABLES
    retained,       \* the insight state storage holds
    live,           \* the insight state in the process's memory
    pending,        \* effective mutators not yet retained: [op, state after]
    replay,         \* mutators a rebase still has to replay
    behind,         \* storage holds operations this process has not loaded
    get,            \* CT's collection request in the process
    page,           \* an answered page on its way to CT
    ack,            \* CT's acknowledgement in the process
    ct,             \* CT's cursor: stream and position
    delivered,      \* what CT committed: [stream, seq, output, sure]
    released,       \* ghost: the last acknowledgement answered to CT
    accepted,       \* ghost: outputs whose emit returned a sequence number
    attempted,      \* ghost: outputs whose emit returned or raised
    epochs,         \* stream ids drawn so far
    emits, crashes, foreigns, losses    \* uses of the bounds

journalVars == <<retained, live, pending, replay, behind, epochs>>
ctVars      == <<page, ct, delivered, released>>
emitVars    == <<accepted, attempted, emits>>
vars == <<journalVars, get, ack, ctVars, emitVars, crashes, foreigns, losses>>

Larger(m, n) == IF m >= n THEN m ELSE n
Smaller(m, n) == IF m <= n THEN m ELSE n

-----------------------------------------------------------------------------
(* The insight state, and the mutators that change it. *)

NoStream == 0
NoState == [stream |-> NoStream, events |-> <<>>, acked |-> 0, issues |-> FALSE]

SeqsOf(s, k) == {n \in 1..Len(s.events) : KeyOf[s.events[n]] = k}

Unacked(s) == Len(s.events) - s.acked

Contradicts(s, o) == \E n \in SeqsOf(s, KeyOf[o]) : s.events[n] # o

Full(s, o) == SeqsOf(s, KeyOf[o]) = {} /\ Unacked(s) >= MaxBuffer

Exceeds(s, n) == n > Len(s.events)

Initialize(e)     == [kind |-> "initialize", stream |-> e]
Envelope(o)       == [kind |-> "append", output |-> o]
Acknowledge(e, n) == [kind |-> "acknowledge", stream |-> e, through |-> n]
RecordIssue       == [kind |-> "record"]

(* The mutator raises, so that nothing is committed. *)
Raises(s, op) ==
    \/ op.kind # "initialize" /\ s.stream = NoStream
    \/ op.kind = "append" /\ (Contradicts(s, op.output) \/ Full(s, op.output))
    \/ op.kind = "acknowledge" /\ (op.stream # s.stream \/ Exceeds(s, op.through))

(* What it leaves: a repeated initialization, key, acknowledgement or      *)
(* issue leaves the state as it is.                                        *)
Result(s, op) ==
    CASE op.kind = "initialize" ->
            IF s.stream = NoStream THEN [s EXCEPT !.stream = op.stream] ELSE s
      [] op.kind = "append" ->
            IF SeqsOf(s, KeyOf[op.output]) = {}
            THEN [s EXCEPT !.events = Append(@, op.output)] ELSE s
      [] op.kind = "acknowledge" -> [s EXCEPT !.acked = Larger(@, op.through)]
      [] op.kind = "record" -> [s EXCEPT !.issues = TRUE]

Effective(s, op) == ~Raises(s, op) /\ Result(s, op) # s

(* transaction(): an effective mutator becomes pending, any other is done. *)
Transact(op) ==
    IF Effective(live, op)
    THEN /\ live' = Result(live, op)
         /\ pending' = Append(pending, [op |-> op, state |-> Result(live, op)])
    ELSE UNCHANGED <<live, pending>>

-----------------------------------------------------------------------------
NoPage  == [stream |-> NoStream]
NoGet   == [stage |-> "none"]
NoAck   == [stage |-> "none"]

Init ==
    /\ retained = NoState /\ live = NoState
    /\ pending = <<>> /\ replay = <<>> /\ behind = FALSE
    /\ get = NoGet /\ page = NoPage /\ ack = NoAck
    /\ ct = [stream |-> NoStream, at |-> 0]
    /\ delivered = {} /\ released = [stream |-> NoStream, through |-> 0, sure |-> FALSE]
    /\ accepted = {} /\ attempted = {}
    /\ epochs = 0 /\ emits = 0 /\ crashes = 0 /\ foreigns = 0 /\ losses = 0

Loses == losses < MaxLosses /\ losses' = losses + 1

(* While a rebase replays, it holds the journal's lock. *)
Unlocked == replay = <<>>

Ready == Unlocked /\ live.stream # NoStream

(* flush() returns: nothing is pending any more. *)
Durable == Unlocked /\ pending = <<>>

(* A process that finds no stream starts one. *)
InitializeStream ==
    /\ Unlocked /\ live.stream = NoStream
    /\ epochs' = epochs + 1
    /\ Transact(Initialize(epochs + 1))
    /\ UNCHANGED <<retained, replay, behind, get, ack, ctVars, emitVars,
                   crashes, foreigns, losses>>

(* emit: the output gets a sequence number, perhaps the one it already has;*)
(* or it is refused and the refusal becomes an issue of the capture state. *)
Emit(o) ==
    /\ Ready
    /\ emits < MaxEmits
    /\ emits' = emits + 1
    /\ attempted' = attempted \cup {o}
    /\ \/ /\ ~Raises(live, Envelope(o))
          /\ Transact(Envelope(o))
          /\ accepted' = accepted \cup {o}
       \/ /\ Raises(live, Envelope(o))
          /\ Transact(RecordIssue)
          /\ UNCHANGED accepted
    /\ UNCHANGED <<retained, replay, behind, epochs, get, ack, ctVars,
                   crashes, foreigns, losses>>

-----------------------------------------------------------------------------
(* The journal's flusher. *)

(* A prefix of what is pending is retained: all that was pending when the  *)
(* flush took its snapshot, or one operation of a burst that was split.    *)
Retain ==
    /\ Unlocked /\ ~behind
    /\ \E k \in 1..Len(pending) :
          /\ retained' = pending[k].state
          /\ pending' = SubSeq(pending, k + 1, Len(pending))
    /\ UNCHANGED <<live, replay, behind, epochs, get, ack, ctVars, emitVars,
                   crashes, foreigns, losses>>

(* The create landed but could not be confirmed: it stays pending, and the *)
(* next create meets its own operation.                                    *)
RetainUnconfirmed ==
    /\ Unlocked /\ ~behind
    /\ Loses
    /\ \E k \in 1..Len(pending) : retained' = pending[k].state
    /\ behind' = TRUE
    /\ UNCHANGED <<live, pending, replay, epochs, get, ack, ctVars, emitVars,
                   crashes, foreigns>>

(* Another process of the unit retains an output first. *)
Foreign(o) ==
    LET fresh == retained.stream = NoStream
        base  == IF fresh THEN [retained EXCEPT !.stream = epochs + 1] ELSE retained
    IN
    /\ foreigns < MaxForeign
    /\ foreigns' = foreigns + 1
    /\ Effective(base, Envelope(o))
    /\ retained' = Result(base, Envelope(o))
    /\ epochs' = IF fresh THEN epochs + 1 ELSE epochs
    /\ behind' = TRUE
    /\ UNCHANGED <<live, pending, replay, get, ack, ctVars, emitVars, crashes, losses>>

(* Mutant of Rebase: what was pending is not replayed. *)
RebaseForgets ==
    /\ Unlocked /\ behind /\ pending # <<>>
    /\ live' = retained
    /\ pending' = <<>> /\ behind' = FALSE
    /\ UNCHANGED <<retained, replay, epochs, get, ack, ctVars, emitVars,
                   crashes, foreigns, losses>>

(* A create that met another operation: load the history, then replay.     *)
Rebase ==
    /\ Unlocked /\ behind /\ pending # <<>>
    /\ live' = retained
    /\ replay' = [k \in 1..Len(pending) |-> pending[k].op]
    /\ pending' = <<>> /\ behind' = FALSE
    /\ UNCHANGED <<retained, epochs, get, ack, ctVars, emitVars,
                   crashes, foreigns, losses>>

(* A mutator the loaded history refuses is dropped without an issue. *)
Replay ==
    /\ replay # <<>>
    /\ Transact(Head(replay))
    /\ replay' = Tail(replay)
    /\ UNCHANGED <<retained, behind, epochs, get, ack, ctVars, emitVars,
                   crashes, foreigns, losses>>

(* The process dies; a page already answered still reaches CT.             *)
Crash ==
    /\ crashes < MaxCrashes
    /\ crashes' = crashes + 1
    /\ live' = retained
    /\ pending' = <<>> /\ replay' = <<>> /\ behind' = FALSE
    /\ get' = NoGet /\ ack' = NoAck
    /\ UNCHANGED <<retained, epochs, ctVars, emitVars, foreigns, losses>>

-----------------------------------------------------------------------------
(* GET /insight-events: flush, then collect. *)

GetBegin ==
    /\ get = NoGet /\ page = NoPage
    /\ get' = [stage |-> "asked", stream |-> ct.stream, after |-> ct.at,
               before |-> attempted, sure |-> 0]
    /\ UNCHANGED <<journalVars, ack, ctVars, emitVars, crashes, foreigns, losses>>

(* Mutant of GetFlush: the collection does not wait for the barrier. *)
GetFlushNever ==
    /\ get.stage = "asked" /\ Ready
    /\ get' = [get EXCEPT !.stage = "flushed", !.sure = Len(live.events)]
    /\ UNCHANGED <<journalVars, ack, ctVars, emitVars, crashes, foreigns, losses>>

GetFlush ==
    /\ get.stage = "asked" /\ Ready /\ Durable
    /\ get' = [get EXCEPT !.stage = "flushed", !.sure = Len(live.events)]
    /\ UNCHANGED <<journalVars, ack, ctVars, emitVars, crashes, foreigns, losses>>

(* 503, or the request is lost. *)
GetFails ==
    /\ get # NoGet
    /\ Loses
    /\ get' = NoGet
    /\ UNCHANGED <<journalVars, ack, ctVars, emitVars, crashes, foreigns>>

(* The position the page is read from; a cursor of another stream is reset.*)
After == IF get.after > 0 /\ get.stream # live.stream THEN 0 ELSE get.after

Floor == Larger(After, live.acked)

PageEnd == Smaller(Len(live.events), Floor + PageLimit)

Answered(entries) ==
    page' = [stream |-> live.stream, floor |-> Floor, entries |-> entries,
             high |-> IF entries = <<>> THEN After ELSE PageEnd,
             sure |-> get.sure, before |-> get.before]

(* Mutant of Held: an empty page hides refused output. *)
HeldNever(entries) == FALSE

(* Nothing left to read, but some output was never retained. *)
Held(entries) == entries = <<>> /\ live.issues

(* Mutant of GetCollect: what is read is consumed. *)
GetConsume ==
    LET entries == SubSeq(live.events, Floor + 1, PageEnd) IN
    /\ get.stage = "flushed" /\ Ready
    /\ get' = NoGet
    /\ After <= Len(live.events)
    /\ IF Held(entries) THEN UNCHANGED page ELSE Answered(entries)
    /\ Transact(Acknowledge(live.stream, PageEnd))
    /\ UNCHANGED <<retained, replay, behind, epochs, ack, ct, delivered, released,
                   emitVars, crashes, foreigns, losses>>

(* collect reads the process's memory as it is now, which may hold more    *)
(* than the barrier covered.                                               *)
GetCollect ==
    LET entries == SubSeq(live.events, Floor + 1, PageEnd) IN
    /\ get.stage = "flushed" /\ Ready
    /\ get' = NoGet
    /\ \/ After <= Len(live.events) /\ ~Held(entries) /\ Answered(entries) /\ UNCHANGED ct
       \/ After <= Len(live.events) /\ Held(entries) /\ UNCHANGED <<page, ct>>     \* 503
       \/ After > Len(live.events) /\ ct' = [ct EXCEPT !.at = 0] /\ UNCHANGED page \* 422
    /\ UNCHANGED <<journalVars, ack, delivered, released, emitVars,
                   crashes, foreigns, losses>>

PageLost ==
    /\ page # NoPage
    /\ Loses
    /\ page' = NoPage
    /\ UNCHANGED <<journalVars, get, ack, ct, delivered, released, emitVars,
                   crashes, foreigns>>

(* CT commits a page and moves its cursor. *)
CTCommit ==
    /\ page # NoPage
    /\ page' = NoPage
    /\ delivered' = delivered \cup
          {[stream |-> page.stream, seq |-> page.floor + n, output |-> page.entries[n],
            sure |-> page.floor + n <= page.sure] : n \in 1..Len(page.entries)}
    /\ ct' = [stream |-> page.stream,
              at |-> IF ct.stream = page.stream THEN Larger(ct.at, page.high)
                     ELSE page.high]
    /\ UNCHANGED <<journalVars, get, ack, released, emitVars, crashes, foreigns, losses>>

-----------------------------------------------------------------------------
(* POST /insight-events/ack: acknowledge, flush, then answer. *)

(* CT acknowledges where its cursor stands or, late, where it stood. *)
AckBegin ==
    /\ ack = NoAck
    /\ \E n \in 1..ct.at :
          ack' = [stage |-> "asked", stream |-> ct.stream, through |-> n, sure |-> FALSE]
    /\ UNCHANGED <<journalVars, get, ctVars, emitVars, crashes, foreigns, losses>>

(* CT read position n of stream e below a barrier. *)
ReadBelowBarrier(e, n) == \E d \in delivered : d.stream = e /\ d.seq = n /\ d.sure

(* The process acknowledges in memory.  Whether all that memory now        *)
(* acknowledges was read below a barrier is a ghost.                       *)
AckApply ==
    LET op == Acknowledge(ack.stream, ack.through) IN
    /\ ack.stage = "asked" /\ Ready
    /\ \/ /\ ~Raises(live, op)
          /\ Transact(op)
          /\ ack' = [ack EXCEPT !.stage = "applied",
                       !.sure = \A m \in 1..live'.acked : ReadBelowBarrier(ack.stream, m)]
       \/ Raises(live, op) /\ ack' = NoAck /\ UNCHANGED <<live, pending>>      \* 422
    /\ UNCHANGED <<retained, replay, behind, epochs, get, ctVars, emitVars,
                   crashes, foreigns, losses>>

(* Mutant of AckAnswer: the answer does not wait for the barrier. *)
AckAnswerEarly ==
    /\ ack.stage = "applied"
    /\ ack' = NoAck
    /\ released' = [stream |-> ack.stream, through |-> ack.through, sure |-> ack.sure]
    /\ UNCHANGED <<journalVars, get, page, ct, delivered, emitVars, crashes,
                   foreigns, losses>>

AckAnswer ==
    /\ ack.stage = "applied" /\ Durable
    /\ ack' = NoAck
    /\ released' = [stream |-> ack.stream, through |-> ack.through, sure |-> ack.sure]
    /\ UNCHANGED <<journalVars, get, page, ct, delivered, emitVars, crashes,
                   foreigns, losses>>

AckFails ==
    /\ ack # NoAck
    /\ Loses
    /\ ack' = NoAck
    /\ UNCHANGED <<journalVars, get, ctVars, emitVars, crashes, foreigns>>

-----------------------------------------------------------------------------
Flusher == Retain \/ Rebase \/ Replay

Collection == GetBegin \/ GetFlush \/ GetCollect \/ CTCommit

Next ==
    \/ InitializeStream
    \/ \E o \in Output : Emit(o) \/ Foreign(o)
    \/ Flusher \/ RetainUnconfirmed \/ Crash
    \/ Collection \/ GetFails \/ PageLost
    \/ AckBegin \/ AckApply \/ AckAnswer \/ AckFails

Spec == Init /\ [][Next]_vars

(* The flusher thread keeps its cadence, the stream is started when the    *)
(* process configures capture, and CT keeps polling.  Nothing obliges      *)
(* producers to emit, or CT to acknowledge.                                *)
FairSpec ==
    /\ Spec
    /\ WF_vars(InitializeStream) /\ WF_vars(Flusher)
    /\ WF_vars(GetBegin) /\ WF_vars(GetFlush) /\ WF_vars(GetCollect) /\ WF_vars(CTCommit)

-----------------------------------------------------------------------------
(* Properties. *)

States == [stream : Nat, events : Seq(Output), acked : Nat, issues : BOOLEAN]

(* _insight's own consistency check: 0 <= acked_through <= next_seq. *)
Consistent(s) == s \in States /\ s.acked <= Len(s.events)

(* Every variable has its shape, and every insight state, in storage, in   *)
(* memory or still to be retained, passes the check that would hold        *)
(* capture for good if it failed.                                          *)
TypeOK ==
    /\ Consistent(retained) /\ Consistent(live)
    /\ \A k \in 1..Len(pending) : Consistent(pending[k].state)
    /\ behind \in BOOLEAN
    /\ ct \in [stream : Nat, at : Nat]
    /\ delivered \subseteq [stream : Nat, seq : Nat, output : Output, sure : BOOLEAN]
    /\ released \in [stream : Nat, through : Nat, sure : BOOLEAN]
    /\ accepted \subseteq attempted /\ attempted \subseteq Output

(* An event CT committed from below the barrier of its collection keeps    *)
(* its stream, its position and its content for ever, whatever crashes,    *)
(* rebases and unconfirmed creates follow: what write-behind would break   *)
(* if the flush were missing.                                              *)
FlushedStays ==
    \A d \in delivered : d.sure =>
        /\ d.stream = retained.stream
        /\ d.seq <= Len(retained.events)
        /\ retained.events[d.seq] = d.output

(* No event is released unread: each position below the acknowledged one   *)
(* was committed by CT with the content storage holds for it, or CT read   *)
(* that position past the barrier.                                         *)
ReleasedWasDelivered ==
    \A n \in 1..retained.acked :
        \E d \in delivered :
            /\ d.stream = retained.stream /\ d.seq = n
            /\ d.sure => d.output = retained.events[n]

(* The backlog never exceeds max_buffer, in memory or in storage, also     *)
(* when a rebase moves pending events on top of another process's.         *)
BacklogBounded == Unacked(live) <= MaxBuffer /\ Unacked(retained) <= MaxBuffer

(* An answered acknowledgement survives every crash and every rebase, when *)
(* CT had read below the barrier all that memory then acknowledged: the    *)
(* released prefix is never collected again, and CT's cursor is never      *)
(* ahead of what storage knows.  (Otherwise a rebase that refuses an event *)
(* may refuse the acknowledgement that follows it, and the answer does not *)
(* tell.)                                                                  *)
AnsweredAckStays ==
    released.sure =>
        /\ retained.stream = released.stream
        /\ retained.acked >= released.through

(* "CT may commit what it reads; retain it first so a crash can never      *)
(* reissue a delivered sequence with different content" (admin.py,         *)
(* collect_insight_events).                                                *)
NeverReissued ==
    \A d, e \in delivered :
        (d.stream = e.stream /\ d.seq = e.seq) => d.output = e.output

(* An empty page is CT's signal that it has everything: every output some  *)
(* producer emitted, or was refused, before CT asked, is committed.        *)
Delivered == {d.output : d \in delivered}

EmptyPageIsComplete ==
    (page # NoPage /\ page.entries = <<>>) => page.before \subseteq Delivered

(* While the process runs and CT polls, every accepted output reaches CT,  *)
(* through lost pages, failed requests and unconfirmed creates.            *)
AcceptedIsDelivered ==
    \A o \in Output : o \in accepted ~> o \in Delivered
=============================================================================
