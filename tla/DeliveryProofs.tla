--------------------------- MODULE DeliveryProofs ---------------------------
(***************************************************************************)
(* Proofs about event delivery: what was read below a barrier stays, what  *)
(* was released was read, the backlog is bounded, answered                 *)
(* acknowledgements survive and an empty page tells the truth.             *)
(*                                                                         *)
(* The argument: storage only ever extends, and memory extends or is       *)
(* loaded from storage.  So a prefix on which the two agree, which a       *)
(* passed barrier gives, stays what it is in both (Firm).                  *)
(***************************************************************************)
EXTENDS EventDelivery, SequenceTheorems, Induction

USE DeliveryAssumption

-----------------------------------------------------------------------------
(* The inductive invariant. *)

Op ==
    [kind : {"initialize"}, stream : Nat \ {NoStream}]
        \cup [kind : {"append"}, output : Output]
        \cup [kind : {"acknowledge"}, stream : Nat, through : Nat]
        \cup [kind : {"record"}]

Entry == [op : Op, state : States]

GetType == [stage : {"asked", "flushed"}, stream : Nat, after : Nat,
            before : SUBSET Output, sure : Nat]

PageType == [stream : Nat \ {NoStream}, floor : Nat, entries : Seq(Output), high : Nat,
             sure : Nat, before : SUBSET Output]

AckType == [stage : {"asked", "applied"}, stream : Nat, through : Nat \ {0}, sure : BOOLEAN]

DeliveredType ==
    [stream : Nat \ {NoStream}, seq : Nat \ {0}, output : Output, sure : BOOLEAN]

Typed ==
    /\ retained \in States /\ live \in States
    /\ pending \in Seq(Entry) /\ replay \in Seq(Op)
    /\ behind \in BOOLEAN /\ epochs \in Nat
    /\ get \in {NoGet} \cup GetType
    /\ page \in {NoPage} \cup PageType
    /\ ack \in {NoAck} \cup AckType
    /\ ct \in [stream : Nat, at : Nat]
    /\ delivered \subseteq DeliveredType
    /\ released \in [stream : Nat, through : Nat, sure : BOOLEAN]
    /\ accepted \subseteq attempted /\ attempted \subseteq Output

(* A state the program may hold: acknowledged up to what it has, within    *)
(* the backlog, and nothing acknowledged before the stream starts.         *)
Good(s) ==
    /\ s.acked <= Len(s.events)
    /\ Unacked(s) <= MaxBuffer
    /\ s.stream = NoStream => s.acked = 0

Extends(s, t) ==
    /\ s.stream = NoStream \/ s.stream = t.stream
    /\ Len(s.events) <= Len(t.events)
    /\ \A n \in 1..Len(s.events) : t.events[n] = s.events[n]
    /\ s.acked <= t.acked

Acks(op, e, n) == op.kind = "acknowledge" /\ op.stream = e /\ n <= op.through

(* What is pending grows from what is retained into what is live. *)
MemoryInv ==
    /\ Good(retained) /\ Good(live)
    /\ \A k \in 1..Len(pending) : Good(pending[k].state)
    /\ pending # <<>> => live = pending[Len(pending)].state
    /\ pending = <<>> => Extends(live, retained)
    /\ ~behind => /\ Extends(retained, live)
                  /\ \A k \in 1..Len(pending) : Extends(retained, pending[k].state)
    /\ \A j, k \in 1..Len(pending) : j <= k => Extends(pending[j].state, pending[k].state)
    /\ \A k \in 1..Len(pending) :
          pending[k].op.kind = "acknowledge" =>
             /\ pending[k].state.stream = pending[k].op.stream
             /\ pending[k].op.through <= pending[k].state.acked

(* Storage and memory have the first n events of stream e, the same ones. *)
Firm(e, n) ==
    /\ retained.stream = e /\ live.stream = e
    /\ n <= Len(retained.events) /\ n <= Len(live.events)
    /\ \A m \in 1..n : live.events[m] = retained.events[m]

ReadInv ==
    /\ get.stage = "flushed" => live.stream # NoStream /\ Firm(live.stream, get.sure)
    /\ page # NoPage =>
          /\ Firm(page.stream, page.sure)
          /\ \A n \in 1..Len(page.entries) :
                page.floor + n <= page.sure => retained.events[page.floor + n] = page.entries[n]
    /\ \A d \in delivered :
          d.sure => Firm(d.stream, d.seq) /\ retained.events[d.seq] = d.output

(* CT committed something at each of the first n positions of stream e. *)
CoveredBy(D, e, n) == \A m \in 1..n : \E d \in D : d.stream = e /\ d.seq = m

Covered(e, n) == CoveredBy(delivered, e, n)

CoverInv ==
    /\ Covered(retained.stream, retained.acked)
    /\ Covered(live.stream, live.acked)
    /\ \A k \in 1..Len(pending) :
          Covered(pending[k].state.stream, pending[k].state.acked)
    /\ \A k \in 1..Len(pending) :
          pending[k].op.kind = "acknowledge" =>
             Covered(pending[k].op.stream, pending[k].op.through)
    /\ \A k \in 1..Len(replay) :
          replay[k].kind = "acknowledge" => Covered(replay[k].stream, replay[k].through)
    /\ get # NoGet => Covered(get.stream, get.after)
    /\ page # NoPage =>
          /\ Covered(page.stream, page.floor)
          /\ page.high <= page.floor + Len(page.entries)
    /\ Covered(ct.stream, ct.at)
    /\ ack # NoAck => Covered(ack.stream, ack.through)

(* An acknowledgement of n is retained, pending or about to be replayed. *)
Owed(e, n) ==
    \/ n <= retained.acked
    \/ \E k \in 1..Len(pending) : Acks(pending[k].op, e, n)
    \/ \E k \in 1..Len(replay) : Acks(replay[k], e, n)

(* No replay will refuse an acknowledgement. *)
AcksFirm(e) ==
    /\ \A k \in 1..Len(pending) :
          pending[k].op.kind = "acknowledge" => Firm(e, pending[k].op.through)
    /\ \A k \in 1..Len(replay) :
          replay[k].kind = "acknowledge" => Firm(e, replay[k].through)

AckInv ==
    /\ \/ live.acked <= retained.acked
       \/ \E k \in 1..Len(pending) : Acks(pending[k].op, live.stream, live.acked)
    /\ ack.stage = "applied" /\ ack.sure =>
          /\ ack.stream # NoStream /\ Firm(ack.stream, ack.through)
          /\ AcksFirm(ack.stream)
          /\ Owed(ack.stream, ack.through)
    /\ released.sure =>
          /\ retained.stream = released.stream
          /\ released.through <= retained.acked
          /\ released.stream # NoStream

IInv == Typed /\ MemoryInv /\ ReadInv /\ CoverInv /\ AckInv

-----------------------------------------------------------------------------
(* States and mutators. *)

LEMMA BoundsPick ==
    ASSUME NEW m \in Int, NEW n \in Int
    PROVE  /\ Larger(m, n) \in {m, n} /\ m <= Larger(m, n) /\ n <= Larger(m, n)
           /\ Smaller(m, n) \in {m, n} /\ Smaller(m, n) <= m /\ Smaller(m, n) <= n
BY DEF Larger, Smaller

LEMMA ExtendsSelf == ASSUME NEW s \in States PROVE Extends(s, s)
BY DEF Extends, States

LEMMA ExtendsOn ==
    ASSUME NEW s \in States, NEW t \in States, NEW u \in States,
           Extends(s, t), Extends(t, u)
    PROVE  Extends(s, u)
BY DEF Extends, States, NoStream

LEMMA InitialState == NoState \in States /\ Good(NoState)
BY DEF NoState, States, Good, Unacked, NoStream

(* A mutator that does not raise extends a good state into a good one; it  *)
(* acknowledges no more than it says, on the stream it names.              *)
LEMMA ResultExtends ==
    ASSUME NEW s \in States, NEW op \in Op, Good(s), ~Raises(s, op)
    PROVE  /\ Result(s, op) \in States
           /\ Good(Result(s, op))
           /\ Extends(s, Result(s, op))
           /\ op.kind # "acknowledge" => Result(s, op).acked = s.acked
           /\ op.kind = "acknowledge" =>
                 /\ op.stream = s.stream
                 /\ Result(s, op).stream = s.stream
                 /\ op.through <= Result(s, op).acked
                 /\ Result(s, op).acked \in {s.acked, op.through}
<1>1. CASE op.kind = "initialize"
  <2>1. op.stream \in Nat \ {NoStream} BY <1>1 DEF Op
  <2>2. Result(s, op) = IF s.stream = NoStream THEN [s EXCEPT !.stream = op.stream] ELSE s
    BY <1>1 DEF Result
  <2> QED BY <1>1, <2>1, <2>2 DEF States, Good, Unacked, Extends
<1>2. CASE op.kind = "append"
  <2>1. op.output \in Output BY <1>2 DEF Op
  <2>2. Result(s, op) = IF SeqsOf(s, KeyOf[op.output]) = {}
                        THEN [s EXCEPT !.events = Append(@, op.output)] ELSE s
    BY <1>2 DEF Result
  <2>3. SeqsOf(s, KeyOf[op.output]) = {} => Len(s.events) - s.acked < MaxBuffer
    BY <1>2 DEF Raises, Full, Unacked, States
  <2>4. CASE SeqsOf(s, KeyOf[op.output]) = {}
    <3> DEFINE r == [s EXCEPT !.events = Append(s.events, op.output)]
    <3>1. s.events \in Seq(Output) /\ s.acked \in Nat BY DEF States
    <3>2. r.events = Append(s.events, op.output) /\ r.acked = s.acked /\ r.stream = s.stream
      BY DEF States
    <3>6. Append(s.events, op.output) \in Seq(Output) BY <2>1, <3>1
    <3>3. r \in States BY <3>6, Zenon DEF States
    <3>4. /\ Len(r.events) = Len(s.events) + 1
          /\ \A n \in 1..Len(s.events) : r.events[n] = s.events[n]
      BY <2>1, <3>1, <3>2
    <3>5. Good(r) /\ Extends(s, r)
      BY <2>3, <2>4, <3>1, <3>2, <3>4 DEF Good, Unacked, Extends
    <3> QED BY <1>2, <2>2, <2>4, <3>2, <3>3, <3>5
  <2>5. CASE SeqsOf(s, KeyOf[op.output]) # {}
    BY <1>2, <2>2, <2>5, ExtendsSelf
  <2> QED BY <2>4, <2>5
<1>3. CASE op.kind = "acknowledge"
  <2>1. op.through \in Nat BY <1>3 DEF Op
  <2>2. op.stream = s.stream /\ op.through <= Len(s.events) /\ s.stream # NoStream
    BY <1>3, <2>1 DEF Raises, Exceeds, States
  <2>3. Result(s, op) = [s EXCEPT !.acked = Larger(s.acked, op.through)]
    BY <1>3 DEF Result
  <2>4. s.acked \in Nat BY DEF States
  <2> QED BY <1>3, <2>1, <2>2, <2>3, <2>4, BoundsPick DEF States, Good, Unacked, Extends
<1>4. CASE op.kind = "record"
  <2>1. Result(s, op) = [s EXCEPT !.issues = TRUE] BY <1>4 DEF Result
  <2> DEFINE r == [s EXCEPT !.issues = TRUE]
  <2>2. r \in States BY DEF States
  <2>3. r.events = s.events /\ r.acked = s.acked /\ r.stream = s.stream BY DEF States
  <2>4. Good(r) /\ Extends(s, r)
    BY <2>3, ExtendsSelf DEF Good, Unacked, Extends
  <2> QED BY <1>4, <2>1, <2>2, <2>3, <2>4
<1> QED BY <1>1, <1>2, <1>3, <1>4 DEF Op

LEMMA OpsTyped ==
    /\ \A e \in Nat \ {NoStream} : Initialize(e) \in Op
    /\ \A o \in Output : Envelope(o) \in Op
    /\ \A e, n \in Nat : Acknowledge(e, n) \in Op
    /\ RecordIssue \in Op
BY DEF Initialize, Envelope, Acknowledge, RecordIssue, Op

-----------------------------------------------------------------------------
(* What one step can do to storage and memory. *)

Quiet == UNCHANGED <<retained, live, pending, behind>>

(* An acknowledgement is CT's or replayed. *)
Transacts ==
    /\ UNCHANGED <<retained, behind, delivered>>
    /\ \E op \in Op :
          /\ Transact(op)
          /\ op.kind = "acknowledge" =>
                \/ ack # NoAck /\ op.stream = ack.stream /\ op.through = ack.through
                \/ replay # <<>> /\ op = Head(replay)

Loads ==
    /\ Rebase \/ Crash
    /\ UNCHANGED retained
    /\ live' = retained /\ pending' = <<>> /\ behind' = FALSE

LEMMA JournalSteps ==
    ASSUME Typed, [Next]_vars
    PROVE  \/ Quiet \/ Transacts \/ Loads
           \/ Retain \/ RetainUnconfirmed \/ \E o \in Output : Foreign(o)
<1> USE DEF Typed, journalVars, ctVars
<1>1. CASE InitializeStream
  <2>1. Initialize(epochs + 1) \in Op /\ Initialize(epochs + 1).kind # "acknowledge"
    BY OpsTyped DEF NoStream, Initialize
  <2> QED BY <1>1, <2>1 DEF InitializeStream, Transacts
<1>2. ASSUME NEW o \in Output, Emit(o) PROVE Transacts
  <2>1. /\ Envelope(o) \in Op /\ Envelope(o).kind # "acknowledge"
        /\ RecordIssue \in Op /\ RecordIssue.kind # "acknowledge"
    BY OpsTyped DEF Envelope, RecordIssue
  <2>2. /\ UNCHANGED <<retained, behind, delivered>>
        /\ Transact(Envelope(o)) \/ Transact(RecordIssue)
    BY <1>2 DEF Emit
  <2> QED BY <2>1, <2>2 DEF Transacts
<1>3. CASE Rebase BY <1>3 DEF Rebase, Loads
<1>4. CASE Replay
  <2>1. Head(replay) \in Op BY <1>4 DEF Replay
  <2> QED BY <1>4, <2>1 DEF Replay, Transacts
<1>5. CASE Crash BY <1>5 DEF Crash, Loads
<1>6. CASE Collection \/ GetFails \/ PageLost \/ AckBegin \/ AckAnswer \/ AckFails
  BY <1>6 DEF Collection, GetBegin, GetFlush, GetCollect, CTCommit, GetFails, PageLost,
              AckBegin, AckAnswer, AckFails, Quiet
<1>7. CASE AckApply
  <2>1. ack.stream \in Nat /\ ack.through \in Nat BY <1>7 DEF AckApply, AckType, NoAck
  <2> DEFINE op == Acknowledge(ack.stream, ack.through)
  <2>2. op \in Op /\ op.stream = ack.stream /\ op.through = ack.through
    BY <2>1, OpsTyped DEF Acknowledge
  <2>3. /\ UNCHANGED <<retained, behind, delivered>> /\ ack # NoAck
        /\ Transact(op) \/ UNCHANGED <<live, pending>>
    BY <1>7 DEF AckApply, NoAck
  <2> HIDE DEF op
  <2> QED BY <2>2, <2>3 DEF Transacts, Quiet
<1>8. CASE UNCHANGED vars BY <1>8 DEF vars, Quiet
<1> QED BY <1>1, <1>2, <1>3, <1>4, <1>5, <1>6, <1>7, <1>8 DEF Next, Flusher

(* A transaction that is effective extends memory, and is pending last. *)
LEMMA TransactSteps ==
    ASSUME Typed, MemoryInv, NEW op \in Op, Transact(op)
    PROVE  /\ live' \in States /\ Good(live)' /\ Extends(live, live')
           /\ pending' \in Seq(Entry)
           /\ \/ live' = live /\ pending' = pending
              \/ /\ ~Raises(live, op) /\ live' = Result(live, op)
                 /\ Result(live, op) # live
                 /\ pending' = Append(pending, [op |-> op, state |-> live'])
<1> USE DEF Typed, MemoryInv
<1>1. CASE Effective(live, op)
  <2>1. /\ live' = Result(live, op) /\ ~Raises(live, op) /\ Result(live, op) # live
        /\ pending' = Append(pending, [op |-> op, state |-> live'])
    BY <1>1 DEF Transact, Effective
  <2>2. live' \in States /\ Good(live') /\ Extends(live, live') BY <2>1, ResultExtends
  <2>3. [op |-> op, state |-> live'] \in Entry BY <2>2 DEF Entry
  <2> QED BY <2>1, <2>2, <2>3 DEF Good, Unacked
<1>2. CASE ~Effective(live, op)
  <2>1. live' = live /\ pending' = pending BY <1>2 DEF Transact
  <2> QED BY <2>1, ExtendsSelf DEF Good, Unacked
<1> QED BY <1>1, <1>2

(* What is pending may be retained. *)
LEMMA PendingStates ==
    ASSUME Typed, NEW k \in 1..Len(pending)
    PROVE  /\ pending[k] \in Entry /\ pending[k].state \in States
           /\ pending[k].op \in Op
<1>1. pending[k] \in Entry BY DEF Typed
<1> QED BY <1>1 DEF Entry

(* The state another process starts from: ours, on a stream of its own if  *)
(* none was started.                                                       *)
ForeignBase ==
    IF retained.stream = NoStream THEN [retained EXCEPT !.stream = epochs + 1] ELSE retained

LEMMA ForeignSteps ==
    ASSUME Typed, MemoryInv, NEW o \in Output, Foreign(o)
    PROVE  /\ retained' \in States /\ Good(retained)' /\ Extends(retained, retained')
           /\ retained'.acked = retained.acked
           /\ retained'.stream # NoStream
           /\ epochs' \in Nat
           /\ UNCHANGED <<live, pending, replay>> /\ behind' = TRUE
<1> USE DEF Typed, MemoryInv
<1>1. /\ Effective(ForeignBase, Envelope(o))
      /\ retained' = Result(ForeignBase, Envelope(o))
      /\ UNCHANGED <<live, pending, replay>> /\ behind' = TRUE
      /\ epochs' \in {epochs, epochs + 1}
  BY DEF Foreign, ForeignBase
<1>2. /\ ForeignBase \in States /\ Good(ForeignBase) /\ Extends(retained, ForeignBase)
      /\ ForeignBase.acked = retained.acked
      /\ ForeignBase.stream # NoStream
  <2>1. CASE retained.stream = NoStream
    <3>1. epochs + 1 \in Nat \ {NoStream} BY DEF NoStream
    <3> DEFINE r == [retained EXCEPT !.stream = epochs + 1]
    <3>2. r \in States BY <3>1, Zenon DEF States
    <3>3. /\ r.stream = epochs + 1 /\ r.events = retained.events
          /\ r.acked = retained.acked
      BY DEF States
    <3>4. Good(r) /\ Extends(retained, r)
      BY <2>1, <3>1, <3>3, ExtendsSelf DEF Good, Unacked, Extends
    <3> QED BY <2>1, <3>1, <3>2, <3>3, <3>4 DEF ForeignBase
  <2>2. CASE retained.stream # NoStream BY <2>2, ExtendsSelf DEF ForeignBase
  <2> QED BY <2>1, <2>2
<1>3. Envelope(o) \in Op /\ Envelope(o).kind = "append" BY OpsTyped DEF Envelope
<1>4. /\ Result(ForeignBase, Envelope(o)) \in States
      /\ Good(Result(ForeignBase, Envelope(o)))
      /\ Extends(ForeignBase, Result(ForeignBase, Envelope(o)))
      /\ Result(ForeignBase, Envelope(o)).acked = ForeignBase.acked
  BY <1>1, <1>2, <1>3, ResultExtends DEF Effective
<1>5. retained'.stream # NoStream BY <1>1, <1>2, <1>4 DEF Extends
<1>6. Extends(retained, retained') BY <1>1, <1>2, <1>4, ExtendsOn
<1> QED BY <1>1, <1>2, <1>4, <1>5, <1>6 DEF Good, Unacked

-----------------------------------------------------------------------------
(* Which actions write what else. *)

LEMMA Writes ==
    ASSUME [Next]_vars
    PROVE  /\ UNCHANGED replay \/ Rebase \/ Replay \/ Crash
           /\ UNCHANGED epochs \/ InitializeStream \/ \E o \in Output : Foreign(o)
           /\ UNCHANGED get \/ GetBegin \/ GetFlush \/ GetFails \/ GetCollect \/ Crash
           /\ UNCHANGED page \/ GetCollect \/ PageLost \/ CTCommit
           /\ UNCHANGED ct \/ GetCollect \/ CTCommit
           /\ UNCHANGED delivered \/ CTCommit
           /\ UNCHANGED ack \/ AckBegin \/ AckApply \/ AckAnswer \/ AckFails \/ Crash
           /\ UNCHANGED released \/ AckAnswer
           /\ UNCHANGED <<accepted, attempted>> \/ \E o \in Output : Emit(o)
<1> USE DEF journalVars, ctVars, emitVars
<1>1. CASE InitializeStream BY <1>1 DEF InitializeStream
<1>2. ASSUME NEW o \in Output, Emit(o) \/ Foreign(o)
      PROVE  /\ UNCHANGED <<replay, get, page, ct, delivered, ack, released>>
             /\ Emit(o) => UNCHANGED epochs
             /\ Foreign(o) => UNCHANGED <<accepted, attempted>>
  BY <1>2 DEF Emit, Foreign
<1>3. CASE Flusher BY <1>3 DEF Flusher, Retain, Rebase, Replay
<1>4. CASE RetainUnconfirmed BY <1>4 DEF RetainUnconfirmed
<1>5. CASE Crash BY <1>5 DEF Crash
<1>6. CASE Collection BY <1>6 DEF Collection, GetBegin, GetFlush, GetCollect, CTCommit
<1>7. CASE GetFails \/ PageLost BY <1>7 DEF GetFails, PageLost
<1>8. CASE AckBegin \/ AckApply \/ AckAnswer \/ AckFails
  BY <1>8 DEF AckBegin, AckApply, AckAnswer, AckFails
<1>9. CASE UNCHANGED vars BY <1>9 DEF vars
<1> QED BY <1>1, <1>2, <1>3, <1>4, <1>5, <1>6, <1>7, <1>8, <1>9 DEF Next

(* What a collection answers. *)
LEMMA CollectSteps ==
    ASSUME Typed, GetCollect
    PROVE  /\ get \in GetType /\ get' = NoGet
           /\ live.stream # NoStream
           /\ After \in Nat /\ After \in {0, get.after}
           /\ After > 0 => get.stream = live.stream
           /\ Floor \in {After, live.acked} /\ After <= Floor /\ live.acked <= Floor
           /\ UNCHANGED page \/ page' =
                 [stream |-> live.stream, floor |-> Floor,
                  entries |-> SubSeq(live.events, Floor + 1, PageEnd),
                  high |-> IF SubSeq(live.events, Floor + 1, PageEnd) = <<>> THEN After
                           ELSE PageEnd,
                  sure |-> get.sure, before |-> get.before]
           /\ UNCHANGED ct \/ ct' = [ct EXCEPT !.at = 0]
<1> USE DEF Typed
<1>1. get \in GetType BY DEF GetCollect, NoGet
<1>2. get.after \in Nat /\ live.acked \in Nat BY <1>1 DEF GetType, States
<1>3. /\ After \in Nat /\ After \in {0, get.after}
      /\ After > 0 => get.stream = live.stream
  BY <1>2 DEF After
<1>4. Floor \in {After, live.acked} /\ After <= Floor /\ live.acked <= Floor
  BY <1>2, <1>3, BoundsPick DEF Floor
<1>5. UNCHANGED page \/ page' =
                 [stream |-> live.stream, floor |-> Floor,
                  entries |-> SubSeq(live.events, Floor + 1, PageEnd),
                  high |-> IF SubSeq(live.events, Floor + 1, PageEnd) = <<>> THEN After
                           ELSE PageEnd,
                  sure |-> get.sure, before |-> get.before]
  BY DEF GetCollect, Answered
<1>6. get' = NoGet /\ live.stream # NoStream /\ (UNCHANGED ct \/ ct' = [ct EXCEPT !.at = 0])
  BY DEF GetCollect, Ready
<1> QED BY <1>1, <1>3, <1>4, <1>5, <1>6

(* The page is what memory holds from its floor on. *)
LEMMA PageHolds ==
    ASSUME Typed, MemoryInv, GetCollect, page' # page
    PROVE  /\ page' \in PageType
           /\ page'.stream = live.stream /\ page'.sure = get.sure /\ page'.floor = Floor
           /\ page'.high <= Floor + Len(page'.entries)
           /\ Floor + Len(page'.entries) <= Len(live.events) \/ page'.entries = <<>>
           /\ \A n \in 1..Len(page'.entries) : page'.entries[n] = live.events[Floor + n]
<1> DEFINE entries == SubSeq(live.events, Floor + 1, PageEnd)
<1> USE DEF Typed
<1>1. /\ live.events \in Seq(Output) /\ live.acked \in Nat /\ live.stream \in Nat
  BY DEF States
<1>2. Floor \in Nat /\ After \in Nat /\ After <= Floor BY <1>1, CollectSteps
<1>3. PageEnd \in Nat /\ PageEnd <= Len(live.events)
  BY <1>1, <1>2 DEF PageEnd, Smaller
<1>4. /\ entries \in Seq(Output)
      /\ Len(entries) = IF Floor + 1 <= PageEnd THEN PageEnd - Floor ELSE 0
      /\ \A n \in 1..Len(entries) : entries[n] = live.events[Floor + n]
  <2>1. \A n \in (Floor + 1)..PageEnd : live.events[n] \in Output
    BY <1>1, <1>2, <1>3, ElementOfSeq
  <2>2. /\ entries \in Seq(Output)
        /\ Len(entries) = IF Floor + 1 <= PageEnd THEN PageEnd - (Floor + 1) + 1 ELSE 0
        /\ \A n \in 1..(PageEnd - (Floor + 1) + 1) : entries[n] = live.events[Floor + 1 + n - 1]
    BY <1>2, <1>3, <2>1, SubSeqProperties
  <2> HIDE DEF entries
  <2> QED BY <1>2, <1>3, <2>2
<1>5. entries # <<>> => PageEnd = Floor + Len(entries)
  <2> HIDE DEF entries
  <2> QED BY <1>2, <1>3, <1>4
<1>6. page' = [stream |-> live.stream, floor |-> Floor, entries |-> entries,
               high |-> IF entries = <<>> THEN After ELSE PageEnd,
               sure |-> get.sure, before |-> get.before]
  BY CollectSteps
<1>7. get.sure \in Nat /\ get.before \in SUBSET Output BY CollectSteps DEF GetType
<1>8. live.stream \in Nat \ {NoStream} BY <1>1, CollectSteps
<1>9. page' \in PageType BY <1>2, <1>3, <1>4, <1>6, <1>7, <1>8 DEF PageType
<1> QED
  <2> HIDE DEF entries
  <2>1. /\ page'.stream = live.stream /\ page'.sure = get.sure /\ page'.floor = Floor
        /\ page'.entries = entries
        /\ page'.high = IF entries = <<>> THEN After ELSE PageEnd
    BY <1>6
  <2>2. page'.high <= Floor + Len(entries) BY <1>2, <1>3, <1>4, <1>5, <2>1
  <2>3. Floor + Len(entries) <= Len(live.events) \/ entries = <<>>
    BY <1>3, <1>5
  <2> QED BY <1>4, <1>9, <2>1, <2>2, <2>3

(* A commit delivers the page and nothing else. *)
LEMMA CommitSteps ==
    ASSUME Typed, CTCommit
    PROVE  /\ page \in PageType /\ page' = NoPage
           /\ delivered \subseteq delivered' /\ delivered' \subseteq DeliveredType
           /\ \A d \in delivered' \ delivered : \E n \in 1..Len(page.entries) :
                 d = [stream |-> page.stream, seq |-> page.floor + n,
                      output |-> page.entries[n], sure |-> page.floor + n <= page.sure]
           /\ \A n \in 1..Len(page.entries) : \E d \in delivered' :
                 d.stream = page.stream /\ d.seq = page.floor + n
           /\ ct' \in [stream : Nat, at : Nat]
           /\ ct'.stream = page.stream
           /\ ct'.at = page.high \/ (ct.stream = page.stream /\ ct'.at \in {ct.at, page.high})
<1> DEFINE D(n) == [stream |-> page.stream, seq |-> page.floor + n,
                    output |-> page.entries[n], sure |-> page.floor + n <= page.sure]
<1>1. page \in PageType /\ page' = NoPage BY DEF CTCommit, Typed
<1>2. delivered' = delivered \cup {D(n) : n \in 1..Len(page.entries)} BY DEF CTCommit
<1>3. \A n \in 1..Len(page.entries) : D(n) \in DeliveredType
  <2> SUFFICES ASSUME NEW n \in 1..Len(page.entries) PROVE D(n) \in DeliveredType
    OBVIOUS
  <2>1. /\ page.stream \in Nat \ {NoStream} /\ page.floor \in Nat
        /\ page.entries \in Seq(Output)
    BY <1>1 DEF PageType
  <2>2. page.entries[n] \in Output /\ page.floor + n \in Nat \ {0} BY <2>1, ElementOfSeq
  <2>3. (page.floor + n <= page.sure) \in BOOLEAN BY <1>1, <2>2 DEF PageType
  <2> QED BY <2>1, <2>2, <2>3, Zenon DEF DeliveredType
<1>4. \A n \in 1..Len(page.entries) :
        D(n).stream = page.stream /\ D(n).seq = page.floor + n
  OBVIOUS
<1>5. ct' = [stream |-> page.stream,
             at |-> IF ct.stream = page.stream THEN Larger(ct.at, page.high) ELSE page.high]
  BY DEF CTCommit
<1>6. ct.at \in Nat /\ page.high \in Nat /\ page.stream \in Nat
  BY <1>1 DEF Typed, PageType
<1>7. Larger(ct.at, page.high) \in {ct.at, page.high} BY <1>6, BoundsPick
<1>8. /\ ct' \in [stream : Nat, at : Nat]
      /\ ct'.stream = page.stream
      /\ ct'.at = page.high \/ (ct.stream = page.stream /\ ct'.at \in {ct.at, page.high})
  BY <1>5, <1>6, <1>7
<1>9. delivered \subseteq DeliveredType BY DEF Typed
<1> HIDE DEF D
<1>10. delivered \subseteq delivered' /\ delivered' \subseteq DeliveredType
  BY <1>2, <1>3, <1>9
<1>11. \A d \in delivered' \ delivered : \E n \in 1..Len(page.entries) : d = D(n)
  BY <1>2
<1>12. \A n \in 1..Len(page.entries) : \E d \in delivered' :
          d.stream = page.stream /\ d.seq = page.floor + n
  BY <1>2, <1>4
<1> QED BY <1>1, <1>8, <1>10, <1>11, <1>12 DEF D

-----------------------------------------------------------------------------
(* Types. *)

LEMMA InitTyped == Init => Typed
<1> SUFFICES ASSUME Init PROVE Typed OBVIOUS
<1>1. retained \in States /\ live \in States BY InitialState DEF Init
<1>2. pending = <<>> /\ replay = <<>> /\ behind = FALSE /\ epochs = 0 BY DEF Init
<1>3. get = NoGet /\ page = NoPage /\ ack = NoAck /\ delivered = {} BY DEF Init
<1>4. accepted = {} /\ attempted = {} BY DEF Init
<1>5. /\ ct \in [stream : Nat, at : Nat]
      /\ released \in [stream : Nat, through : Nat, sure : BOOLEAN]
  BY DEF Init, NoStream
<1>6. <<>> \in Seq(Entry) /\ <<>> \in Seq(Op) OBVIOUS
<1> QED BY <1>1, <1>2, <1>3, <1>4, <1>5, <1>6 DEF Typed

LEMMA JournalTyped ==
    ASSUME Typed, MemoryInv, [Next]_vars
    PROVE  /\ retained' \in States /\ live' \in States
           /\ pending' \in Seq(Entry) /\ behind' \in BOOLEAN
<1> USE DEF Typed
<1>1. CASE Quiet BY <1>1 DEF Quiet
<1>2. CASE Transacts BY <1>2, TransactSteps DEF Transacts
<1>3. CASE Loads
  <2>1. <<>> \in Seq(Entry) OBVIOUS
  <2> QED BY <1>3, <2>1, Zenon DEF Loads
<1>4. CASE Retain
  <2>1. PICK k \in 1..Len(pending) : /\ retained' = pending[k].state
                                    /\ pending' = SubSeq(pending, k + 1, Len(pending))
    BY <1>4 DEF Retain
  <2>2. \A n \in (k + 1)..Len(pending) : pending[n] \in Entry BY ElementOfSeq
  <2>3. pending' \in Seq(Entry) BY <2>1, <2>2, SubSeqProperties
  <2> QED BY <1>4, <2>1, <2>3, PendingStates DEF Retain
<1>5. CASE RetainUnconfirmed BY <1>5, PendingStates DEF RetainUnconfirmed
<1>6. ASSUME NEW o \in Output, Foreign(o)
      PROVE  /\ retained' \in States /\ live' \in States
             /\ pending' \in Seq(Entry) /\ behind' \in BOOLEAN
  BY <1>6, ForeignSteps
<1> QED BY <1>1, <1>2, <1>3, <1>4, <1>5, <1>6, JournalSteps

LEMMA ReplayTyped ==
    ASSUME Typed, MemoryInv, [Next]_vars PROVE replay' \in Seq(Op) /\ epochs' \in Nat
<1> USE DEF Typed
<1>1. ASSUME Rebase PROVE replay' \in Seq(Op)
  <2>1. replay' = [k \in 1..Len(pending) |-> pending[k].op] BY <1>1 DEF Rebase
  <2>2. \A k \in 1..Len(pending) : pending[k].op \in Op BY PendingStates
  <2>3. Len(pending) \in Nat OBVIOUS
  <2> QED BY <2>1, <2>2, <2>3
<1>2. ASSUME Replay PROVE replay' \in Seq(Op) BY <1>2 DEF Replay
<1>3. ASSUME Crash PROVE replay' \in Seq(Op) BY <1>3 DEF Crash
<1>4. ASSUME InitializeStream PROVE epochs' \in Nat BY <1>4 DEF InitializeStream
<1>5. ASSUME NEW o \in Output, Foreign(o) PROVE epochs' \in Nat BY <1>5, ForeignSteps
<1> QED BY <1>1, <1>2, <1>3, <1>4, <1>5, Writes

LEMMA RequestsTyped ==
    ASSUME Typed, MemoryInv, [Next]_vars
    PROVE  /\ get' \in {NoGet} \cup GetType
           /\ page' \in {NoPage} \cup PageType
           /\ ack' \in {NoAck} \cup AckType
<1> USE DEF Typed
<1>1. ASSUME GetBegin PROVE get' \in GetType BY <1>1 DEF GetBegin, GetType
<1>2. ASSUME GetFlush PROVE get' \in GetType
  <2>1. get \in GetType BY <1>2 DEF GetFlush, NoGet
  <2>2. Len(live.events) \in Nat BY DEF States
  <2> QED BY <1>2, <2>1, <2>2 DEF GetFlush, GetType
<1>3. ASSUME GetFails \/ GetCollect \/ Crash PROVE get' = NoGet
  BY <1>3 DEF GetFails, GetCollect, Crash
<1>4. ASSUME GetCollect PROVE page' \in {NoPage} \cup PageType BY <1>4, PageHolds
<1>5. ASSUME PageLost \/ CTCommit PROVE page' = NoPage BY <1>5 DEF PageLost, CTCommit
<1>6. ASSUME AckBegin PROVE ack' \in AckType
  <2>1. PICK n \in 1..ct.at :
          ack' = [stage |-> "asked", stream |-> ct.stream, through |-> n, sure |-> FALSE]
    BY <1>6 DEF AckBegin
  <2>2. ct.stream \in Nat /\ n \in Nat \ {0} OBVIOUS
  <2> QED BY <2>1, <2>2, Zenon DEF AckType
<1>7. ASSUME AckApply PROVE ack' \in {NoAck} \cup AckType
  <2> DEFINE all == \A m \in 1..live'.acked : ReadBelowBarrier(ack.stream, m)
  <2>1. ack \in AckType BY <1>7 DEF AckApply, NoAck
  <2>2. ack' = [ack EXCEPT !.stage = "applied", !.sure = all] \/ ack' = NoAck
    BY <1>7 DEF AckApply
  <2>3. all \in BOOLEAN OBVIOUS
  <2> HIDE DEF all
  <2>4. [ack EXCEPT !.stage = "applied", !.sure = all] \in AckType
    BY <2>1, <2>3 DEF AckType
  <2> QED BY <2>2, <2>4
<1>8. ASSUME AckAnswer \/ AckFails \/ Crash PROVE ack' = NoAck
  BY <1>8 DEF AckAnswer, AckFails, Crash
<1> QED BY <1>1, <1>2, <1>3, <1>4, <1>5, <1>6, <1>7, <1>8, Writes

LEMMA TowerTyped ==
    ASSUME Typed, [Next]_vars
    PROVE  /\ ct' \in [stream : Nat, at : Nat]
           /\ delivered' \subseteq DeliveredType
           /\ released' \in [stream : Nat, through : Nat, sure : BOOLEAN]
           /\ accepted' \subseteq attempted' /\ attempted' \subseteq Output
<1> USE DEF Typed
<1>1. ASSUME GetCollect PROVE ct' \in [stream : Nat, at : Nat]
  <2>1. ct' = ct \/ ct' = [ct EXCEPT !.at = 0] BY <1>1, CollectSteps
  <2> QED BY <2>1
<1>2. ASSUME CTCommit
      PROVE  ct' \in [stream : Nat, at : Nat] /\ delivered' \subseteq DeliveredType
  BY <1>2, CommitSteps
<1>3. ASSUME AckAnswer PROVE released' \in [stream : Nat, through : Nat, sure : BOOLEAN]
  <2>1. ack \in AckType BY <1>3 DEF AckAnswer, NoAck
  <2>2. ack.stream \in Nat /\ ack.through \in Nat /\ ack.sure \in BOOLEAN BY <2>1 DEF AckType
  <2>3. released' = [stream |-> ack.stream, through |-> ack.through, sure |-> ack.sure]
    BY <1>3 DEF AckAnswer
  <2> QED BY <2>2, <2>3, Zenon
<1>4. ASSUME NEW o \in Output, Emit(o)
      PROVE  accepted' \subseteq attempted' /\ attempted' \subseteq Output
  BY <1>4 DEF Emit
<1> QED BY <1>1, <1>2, <1>3, <1>4, Writes

LEMMA StepTyped == ASSUME Typed, MemoryInv, [Next]_vars PROVE Typed'
BY JournalTyped, ReplayTyped, RequestsTyped, TowerTyped DEF Typed

-----------------------------------------------------------------------------
(* Memory grows from storage. *)

LEMMA InitMemory == Init => MemoryInv
<1> SUFFICES ASSUME Init PROVE MemoryInv OBVIOUS
<1>1. retained = NoState /\ live = NoState /\ pending = <<>> BY DEF Init
<1>2. Extends(NoState, NoState) BY InitialState, ExtendsSelf
<1> QED BY <1>1, <1>2, InitialState DEF MemoryInv

LEMMA LoadMemory ==
    ASSUME Typed, MemoryInv, Loads PROVE MemoryInv'
<1>1. Good(retained)' /\ Good(live)' BY DEF MemoryInv, Loads, Good, Unacked
<1>2. Extends(live, retained)' /\ Extends(retained, live)'
  <2>1. Extends(retained, retained) BY ExtendsSelf DEF Typed
  <2> QED BY <2>1 DEF Loads, Extends
<1>3. Len(pending') = 0 BY DEF Loads
<1> QED BY <1>1, <1>2, <1>3 DEF MemoryInv, Loads

LEMMA TransactMemory ==
    ASSUME Typed, MemoryInv, NEW op \in Op, Transact(op), UNCHANGED <<retained, behind>>
    PROVE  MemoryInv'
<1> DEFINE e == [op |-> op, state |-> live']
<1>1. CASE live' = live /\ pending' = pending
  BY <1>1 DEF MemoryInv, Good, Unacked, Extends
<1>2. CASE /\ ~Raises(live, op) /\ live' = Result(live, op)
           /\ pending' = Append(pending, e)
  <2>1. live' \in States /\ Good(live)' /\ Extends(live, live') BY TransactSteps
  <2>2. /\ live \in States /\ retained \in States /\ pending \in Seq(Entry)
        /\ Len(pending) \in Nat
    BY DEF Typed
  <2>3. /\ Len(pending') = Len(pending) + 1
        /\ \A k \in 1..Len(pending) : pending'[k] = pending[k]
        /\ pending'[Len(pending) + 1] = e
    BY <1>2, <2>2
  <2>4. \A k \in 1..Len(pending) : Extends(pending[k].state, live)
    <3> SUFFICES ASSUME NEW k \in 1..Len(pending) PROVE Extends(pending[k].state, live)
      OBVIOUS
    <3>1. pending # <<>> /\ Len(pending) \in 1..Len(pending) /\ k <= Len(pending)
      BY <2>2
    <3> QED BY <3>1 DEF MemoryInv
  <2>5. \A k \in 1..Len(pending) : Extends(pending[k].state, live')
    BY <2>1, <2>2, <2>4, ExtendsOn, PendingStates
  <2>6. \A k \in 1..Len(pending') : k \in 1..Len(pending) \/ (k = Len(pending) + 1)
    BY <2>2, <2>3
  <2>7. e.op = op /\ e.state = live' OBVIOUS
  <2> HIDE DEF e
  <2>8. Good(retained)' BY DEF MemoryInv, Good, Unacked
  <2>9. \A k \in 1..Len(pending') : Good(pending'[k].state)
    BY <2>1, <2>3, <2>6, <2>7 DEF MemoryInv, Good, Unacked
  <2>10. pending' # <<>> /\ live' = pending'[Len(pending')].state BY <2>2, <2>3, <2>7
  <2>11. ~behind' => /\ Extends(retained', live')
                     /\ \A k \in 1..Len(pending') : Extends(retained', pending'[k].state)
    <3> SUFFICES ASSUME ~behind PROVE /\ Extends(retained, live')
                     /\ \A k \in 1..Len(pending') : Extends(retained, pending'[k].state)
      BY Zenon
    <3>1. Extends(retained, live') BY <2>1, <2>2, ExtendsOn DEF MemoryInv
    <3> QED BY <2>3, <2>6, <2>7, <3>1 DEF MemoryInv
  <2>12. \A j, k \in 1..Len(pending') :
            j <= k => Extends(pending'[j].state, pending'[k].state)
    <3> SUFFICES ASSUME NEW j \in 1..Len(pending'), NEW k \in 1..Len(pending'), j <= k
                 PROVE  Extends(pending'[j].state, pending'[k].state)
      OBVIOUS
    <3>1. CASE k \in 1..Len(pending)
      <4>1. j \in 1..Len(pending) BY <3>1
      <4> QED BY <2>3, <3>1, <4>1 DEF MemoryInv
    <3>2. CASE k = Len(pending) + 1 /\ j \in 1..Len(pending) BY <2>3, <2>5, <2>7, <3>2
    <3>3. CASE k = Len(pending) + 1 /\ j = Len(pending) + 1
      BY <2>1, <2>3, <2>7, <3>3, ExtendsSelf
    <3> QED BY <2>6, <3>1, <3>2, <3>3
  <2>13. \A k \in 1..Len(pending') :
            pending'[k].op.kind = "acknowledge" =>
               /\ pending'[k].state.stream = pending'[k].op.stream
               /\ pending'[k].op.through <= pending'[k].state.acked
    <3>1. op.kind = "acknowledge" => live'.stream = op.stream /\ op.through <= live'.acked
      BY <1>2, <2>2, ResultExtends DEF MemoryInv
    <3> QED BY <2>3, <2>6, <2>7, <3>1 DEF MemoryInv
  <2> QED BY <2>1, <2>8, <2>9, <2>10, <2>11, <2>12, <2>13 DEF MemoryInv
<1> QED BY <1>1, <1>2, TransactSteps

(* The prefix that is retained, and the rest of what is pending. *)
LEMMA RetainSteps ==
    ASSUME Typed, MemoryInv, Retain \/ RetainUnconfirmed
    PROVE  \E k \in 1..Len(pending) :
              /\ retained' = pending[k].state
              /\ Extends(retained, retained')
              /\ UNCHANGED <<live, replay>>
              /\ \/ pending' = pending /\ behind' = TRUE
                 \/ /\ behind' = FALSE
                    /\ Len(pending') = Len(pending) - k
                    /\ \A n \in 1..Len(pending') : pending'[n] = pending[n + k]
                    /\ pending' = <<>> <=> k = Len(pending)
<1>1. PICK k \in 1..Len(pending) :
         /\ retained' = pending[k].state
         /\ pending' = pending \/ pending' = SubSeq(pending, k + 1, Len(pending))
         /\ Retain => pending' = SubSeq(pending, k + 1, Len(pending))
         /\ RetainUnconfirmed => pending' = pending
  BY DEF Retain, RetainUnconfirmed
<1>2. /\ ~behind /\ UNCHANGED <<live, replay>>
      /\ Retain => UNCHANGED behind
      /\ RetainUnconfirmed => behind' = TRUE
  BY DEF Retain, RetainUnconfirmed
<1>3. Extends(retained, retained') BY <1>1, <1>2 DEF MemoryInv
<1>4. CASE Retain
  <2>1. pending \in Seq(Entry) /\ Len(pending) \in Nat BY DEF Typed
  <2>2. \A n \in (k + 1)..Len(pending) : pending[n] \in Entry BY <2>1, ElementOfSeq
  <2>3. /\ pending' \in Seq(Entry)
        /\ Len(pending') = IF k + 1 <= Len(pending) THEN Len(pending) - (k + 1) + 1 ELSE 0
        /\ \A n \in 1..(Len(pending) - (k + 1) + 1) : pending'[n] = pending[k + 1 + n - 1]
    <3>1. pending' = SubSeq(pending, k + 1, Len(pending)) BY <1>1, <1>4
    <3>2. k + 1 \in Int /\ Len(pending) \in Int BY <2>1
    <3> QED BY <2>2, <3>1, <3>2, SubSeqProperties
  <2>4. Len(pending') = Len(pending) - k BY <2>1, <2>3
  <2>5. \A n \in 1..Len(pending') : pending'[n] = pending[n + k] BY <2>1, <2>3
  <2>6. pending' = <<>> <=> k = Len(pending) BY <2>1, <2>3, <2>4
  <2>7. behind' = FALSE BY <1>2, <1>4 DEF Typed
  <2> QED BY <1>1, <1>2, <1>3, <2>4, <2>5, <2>6, <2>7
<1>5. CASE RetainUnconfirmed BY <1>1, <1>2, <1>3, <1>5
<1> QED BY <1>4, <1>5

LEMMA RetainMemory ==
    ASSUME Typed, MemoryInv, Retain \/ RetainUnconfirmed PROVE MemoryInv'
<1>1. PICK k \in 1..Len(pending) :
         /\ retained' = pending[k].state
         /\ UNCHANGED live
         /\ \/ pending' = pending /\ behind' = TRUE
            \/ /\ behind' = FALSE
               /\ Len(pending') = Len(pending) - k
               /\ \A n \in 1..Len(pending') : pending'[n] = pending[n + k]
               /\ pending' = <<>> <=> k = Len(pending)
  BY RetainSteps
<1>2. /\ pending \in Seq(Entry) /\ Len(pending) \in Nat /\ pending # <<>>
      /\ live \in States
  BY DEF Typed
<1>3. Good(retained)' /\ Good(live)' BY <1>1 DEF MemoryInv, Good, Unacked
<1>4. live = pending[Len(pending)].state BY <1>2 DEF MemoryInv
<1>5. CASE pending' = pending /\ behind' = TRUE
  BY <1>1, <1>2, <1>3, <1>5 DEF MemoryInv, Good, Unacked
<1>6. CASE /\ Len(pending') = Len(pending) - k
           /\ \A n \in 1..Len(pending') : pending'[n] = pending[n + k]
           /\ pending' = <<>> <=> k = Len(pending)
  <2>1. \A n \in 1..Len(pending') : n + k \in 1..Len(pending) /\ k <= n + k
    BY <1>2, <1>6
  <2>2. pending' # <<>> => Len(pending') \in 1..Len(pending')
    BY <1>2, <1>6
  <2>3. \A n \in 1..Len(pending') : Good(pending'[n].state)
    BY <1>6, <2>1 DEF MemoryInv, Good, Unacked
  <2>4. pending' # <<>> => live' = pending'[Len(pending')].state
    <3> SUFFICES ASSUME pending' # <<>> PROVE live' = pending'[Len(pending')].state
      OBVIOUS
    <3>1. pending'[Len(pending')] = pending[Len(pending') + k] BY <1>6, <2>2
    <3>2. Len(pending') + k = Len(pending) BY <1>2, <1>6
    <3> QED BY <1>1, <1>4, <3>1, <3>2
  <2>5. pending' = <<>> => Extends(live', retained')
    BY <1>1, <1>2, <1>4, <1>6, ExtendsSelf
  <2>6. Extends(retained', live')
    <3>1. k <= Len(pending) /\ Len(pending) \in 1..Len(pending) BY <1>2
    <3> QED BY <1>1, <1>4, <3>1 DEF MemoryInv
  <2>7. \A n \in 1..Len(pending') : Extends(retained', pending'[n].state)
    BY <1>1, <1>6, <2>1 DEF MemoryInv
  <2>8. \A m, n \in 1..Len(pending') :
           m <= n => Extends(pending'[m].state, pending'[n].state)
    <3> SUFFICES ASSUME NEW m \in 1..Len(pending'), NEW n \in 1..Len(pending'), m <= n
                 PROVE  Extends(pending'[m].state, pending'[n].state)
      OBVIOUS
    <3>1. m + k \in 1..Len(pending) /\ n + k \in 1..Len(pending) BY <2>1
    <3>2. m + k <= n + k OBVIOUS
    <3>3. Extends(pending[m + k].state, pending[n + k].state) BY <3>1, <3>2 DEF MemoryInv
    <3> QED BY <1>6, <3>3
  <2>9. \A n \in 1..Len(pending') :
           pending'[n].op.kind = "acknowledge" =>
              /\ pending'[n].state.stream = pending'[n].op.stream
              /\ pending'[n].op.through <= pending'[n].state.acked
    BY <1>6, <2>1 DEF MemoryInv
  <2> QED BY <1>3, <2>3, <2>4, <2>5, <2>6, <2>7, <2>8, <2>9 DEF MemoryInv
<1> QED BY <1>1, <1>5, <1>6

LEMMA ForeignMemory ==
    ASSUME Typed, MemoryInv, NEW o \in Output, Foreign(o) PROVE MemoryInv'
<1>1. /\ retained' \in States /\ Good(retained)' /\ Extends(retained, retained')
      /\ UNCHANGED <<live, pending>> /\ behind' = TRUE
  BY ForeignSteps
<1>2. pending = <<>> => Extends(live, retained') BY <1>1, ExtendsOn DEF MemoryInv, Typed
<1> QED BY <1>1, <1>2 DEF MemoryInv, Good, Unacked

LEMMA StepMemory == ASSUME Typed, MemoryInv, [Next]_vars PROVE MemoryInv'
<1>1. CASE Quiet BY <1>1 DEF Quiet, MemoryInv, Good, Unacked, Extends
<1>2. CASE Transacts BY <1>2, TransactMemory DEF Transacts
<1> QED BY <1>1, <1>2, LoadMemory, RetainMemory, ForeignMemory, JournalSteps

(* Storage only extends; memory extends, or is loaded from storage.        *)
LEMMA StepExtends ==
    ASSUME Typed, MemoryInv, [Next]_vars
    PROVE  /\ Extends(retained, retained')
           /\ Extends(live, live') \/ (live' = retained /\ retained' = retained)
<1>1. Extends(retained, retained) /\ Extends(live, live) BY ExtendsSelf DEF Typed
<1>2. CASE Quiet BY <1>1, <1>2 DEF Quiet
<1>3. CASE Transacts BY <1>1, <1>3, TransactSteps DEF Transacts
<1>4. CASE Loads BY <1>1, <1>4 DEF Loads
<1>5. CASE Retain \/ RetainUnconfirmed BY <1>1, <1>5, RetainSteps
<1>6. ASSUME NEW o \in Output, Foreign(o)
      PROVE  Extends(retained, retained') /\ Extends(live, live')
  BY <1>1, <1>6, ForeignSteps
<1> QED BY <1>2, <1>3, <1>4, <1>5, <1>6, JournalSteps

(* What storage and memory agree on stays what it is. *)
LEMMA FirmStays ==
    ASSUME Typed, MemoryInv, [Next]_vars, NEW e \in Nat \ {NoStream}, NEW n \in Nat, Firm(e, n)
    PROVE  /\ Firm(e, n)'
           /\ \A m \in 1..n : retained'.events[m] = retained.events[m]
<1>1. /\ retained \in States /\ live \in States
      /\ retained' \in States /\ live' \in States
  BY StepTyped DEF Typed
<1>2. /\ Len(retained.events) \in Nat /\ Len(live.events) \in Nat
      /\ Len(retained'.events) \in Nat /\ Len(live'.events) \in Nat
  BY <1>1 DEF States
<1>3. /\ retained'.stream = e /\ n <= Len(retained'.events)
      /\ \A m \in 1..n : retained'.events[m] = retained.events[m]
  <2>1. Extends(retained, retained') BY StepExtends
  <2>2. retained.stream = e /\ n <= Len(retained.events) BY DEF Firm
  <2>3. retained'.stream = e BY <2>1, <2>2 DEF Extends
  <2>4. n <= Len(retained'.events) BY <1>2, <2>1, <2>2 DEF Extends
  <2>5. \A m \in 1..n : m \in 1..Len(retained.events) BY <1>2, <2>2
  <2>6. \A m \in 1..n : retained'.events[m] = retained.events[m]
    BY <2>1, <2>5 DEF Extends
  <2> QED BY <2>3, <2>4, <2>6
<1>4. CASE Extends(live, live')
  BY <1>2, <1>3, <1>4 DEF Firm, Extends
<1>5. CASE live' = retained /\ retained' = retained
  BY <1>3, <1>5 DEF Firm
<1> QED BY <1>3, <1>4, <1>5, StepExtends

-----------------------------------------------------------------------------
(* What is read below a barrier. *)

(* A barrier that is passed leaves memory and storage the same prefix. *)
LEMMA BarrierFirm ==
    ASSUME Typed, MemoryInv, Ready, Durable
    PROVE  live.stream \in Nat \ {NoStream} /\ Firm(live.stream, Len(live.events))
<1>1. pending = <<>> /\ live.stream # NoStream BY DEF Ready, Durable
<1>2. Extends(live, retained) BY <1>1 DEF MemoryInv
<1>3. live.stream \in Nat /\ Len(live.events) \in Nat BY DEF Typed, States
<1> QED BY <1>1, <1>2, <1>3 DEF Extends, Firm

LEMMA InitRead == Init => ReadInv
BY DEF Init, ReadInv, NoGet, NoPage

LEMMA GetRead ==
    ASSUME Typed, MemoryInv, ReadInv, [Next]_vars
    PROVE  get'.stage = "flushed" => live'.stream # NoStream /\ Firm(live.stream, get.sure)'
<1>1. ASSUME UNCHANGED get
      PROVE  get'.stage = "flushed" => live'.stream # NoStream /\ Firm(live.stream, get.sure)'
  <2> SUFFICES ASSUME get.stage = "flushed"
               PROVE  live'.stream # NoStream /\ Firm(live.stream, get.sure)'
    BY <1>1
  <2>1. get.sure \in Nat BY DEF Typed, NoGet, GetType
  <2>2. live.stream \in Nat \ {NoStream} /\ Firm(live.stream, get.sure)
    BY DEF ReadInv, Typed, States
  <2>3. PICK e \in Nat \ {NoStream}, n \in Nat : e = live.stream /\ n = get.sure
    BY <2>1, <2>2
  <2>4. Firm(e, n)' BY <2>2, <2>3, FirmStays
  <2> QED BY <1>1, <2>3, <2>4 DEF Firm
<1>2. ASSUME GetFlush
      PROVE  live'.stream # NoStream /\ Firm(live.stream, get.sure)'
  <2>1. /\ UNCHANGED <<retained, live>> /\ get'.sure = Len(live.events)
    BY <1>2 DEF GetFlush, journalVars, Typed, GetType, NoGet
  <2>2. live.stream # NoStream /\ Firm(live.stream, Len(live.events))
    BY <1>2, BarrierFirm DEF GetFlush
  <2> QED BY <2>1, <2>2 DEF Firm
<1>3. ASSUME GetBegin \/ GetFails \/ GetCollect \/ Crash PROVE get'.stage # "flushed"
  BY <1>3 DEF GetBegin, GetFails, GetCollect, Crash, NoGet
<1> QED BY <1>1, <1>2, <1>3, Writes

(* The page a collection answers agrees with storage up to the barrier. *)
LEMMA AnsweredRead ==
    ASSUME Typed, MemoryInv, ReadInv, GetCollect, page' # page
    PROVE  /\ Firm(page.stream, page.sure)'
           /\ \A n \in 1..Len(page'.entries) : page'.floor + n <= page'.sure =>
                 retained'.events[page'.floor + n] = page'.entries[n]
<1>1. /\ page' \in PageType
      /\ page'.stream = live.stream /\ page'.sure = get.sure /\ page'.floor = Floor
      /\ \A n \in 1..Len(page'.entries) : page'.entries[n] = live.events[Floor + n]
  BY PageHolds
<1>2. UNCHANGED <<retained, live>> /\ get.stage = "flushed"
  BY DEF GetCollect, journalVars
<1>3. Firm(live.stream, get.sure) BY <1>2 DEF ReadInv
<1>4. Firm(page.stream, page.sure)' BY <1>1, <1>2, <1>3 DEF Firm
<1>5. \A n \in 1..Len(page'.entries) : Floor + n <= get.sure => Floor + n \in 1..get.sure
  BY <1>1 DEF PageType
<1>6. \A n \in 1..Len(page'.entries) : page'.floor + n <= page'.sure =>
         retained'.events[page'.floor + n] = page'.entries[n]
  BY <1>1, <1>2, <1>3, <1>5 DEF Firm
<1> QED BY <1>4, <1>6

LEMMA PageRead ==
    ASSUME Typed, MemoryInv, ReadInv, [Next]_vars, page' # NoPage
    PROVE  /\ Firm(page.stream, page.sure)'
           /\ \A n \in 1..Len(page'.entries) : page'.floor + n <= page'.sure =>
                 retained'.events[page'.floor + n] = page'.entries[n]
<1>1. CASE page' = page
  <2>1. page \in PageType BY <1>1 DEF Typed
  <2>2. PICK e \in Nat \ {NoStream}, n \in Nat : e = page.stream /\ n = page.sure
    BY <2>1 DEF PageType
  <2>3. /\ Firm(e, n)
        /\ \A m \in 1..Len(page.entries) : page.floor + m <= n =>
              retained.events[page.floor + m] = page.entries[m]
    BY <1>1, <2>2 DEF ReadInv
  <2>4. Firm(e, n)' /\ \A m \in 1..n : retained'.events[m] = retained.events[m]
    BY <2>3, FirmStays
  <2>5. \A m \in 1..Len(page.entries) : page.floor + m <= n => page.floor + m \in 1..n
    BY <2>1 DEF PageType
  <2> QED BY <1>1, <2>2, <2>3, <2>4, <2>5 DEF Firm
<1>2. CASE GetCollect /\ page' # page BY <1>2, AnsweredRead
<1>3. ASSUME PageLost \/ CTCommit PROVE page' = NoPage BY <1>3 DEF PageLost, CTCommit
<1> QED BY <1>1, <1>2, <1>3, Writes

LEMMA DeliveredRead ==
    ASSUME Typed, MemoryInv, ReadInv, [Next]_vars, NEW d \in delivered', d.sure
    PROVE  Firm(d.stream, d.seq)' /\ retained'.events[d.seq] = d.output
<1>1. d \in DeliveredType BY StepTyped DEF Typed
<1>2. PICK e \in Nat \ {NoStream}, n \in Nat \ {0} : e = d.stream /\ n = d.seq
  BY <1>1 DEF DeliveredType
<1>3. Firm(e, n) /\ retained.events[n] = d.output
  <2>1. CASE d \in delivered BY <1>2, <2>1 DEF ReadInv
  <2>2. CASE d \notin delivered
    <3>1. CTCommit BY <2>2, Writes
    <3>2. PICK m \in 1..Len(page.entries) :
            d = [stream |-> page.stream, seq |-> page.floor + m,
                 output |-> page.entries[m], sure |-> page.floor + m <= page.sure]
      BY <2>2, <3>1, CommitSteps
    <3>3. page \in PageType /\ page # NoPage BY <3>1, CommitSteps DEF CTCommit
    <3>4. n = page.floor + m /\ e = page.stream /\ n <= page.sure /\ d.output = page.entries[m]
      BY <1>2, <3>2
    <3>5. /\ Firm(page.stream, page.sure)
          /\ page.floor + m <= page.sure => retained.events[page.floor + m] = page.entries[m]
      BY <3>3 DEF ReadInv
    <3>6. page.sure \in Nat BY <3>3 DEF PageType
    <3>7. Len(retained.events) \in Nat /\ Len(live.events) \in Nat BY DEF Typed, States
    <3> QED BY <3>4, <3>5, <3>6, <3>7 DEF Firm
  <2> QED BY <2>1, <2>2
<1>4. Firm(e, n)' /\ \A m \in 1..n : retained'.events[m] = retained.events[m]
  BY <1>3, FirmStays
<1> QED BY <1>2, <1>3, <1>4 DEF Firm

LEMMA StepRead == ASSUME Typed, MemoryInv, ReadInv, [Next]_vars PROVE ReadInv'
BY GetRead, PageRead, DeliveredRead DEF ReadInv

-----------------------------------------------------------------------------
(* What is acknowledged was committed. *)

LEMMA MoreCovered ==
    ASSUME NEW D, NEW E, D \subseteq E, NEW e, NEW n \in Nat, NEW m \in Nat, m <= n,
           CoveredBy(D, e, n)
    PROVE  CoveredBy(E, e, m)
BY DEF CoveredBy

LEMMA DeliveredGrows ==
    ASSUME Typed, [Next]_vars PROVE delivered \subseteq delivered'
BY CommitSteps, Writes

LEMMA InitCover == Init => CoverInv
<1> SUFFICES ASSUME Init PROVE CoverInv OBVIOUS
<1>1. /\ retained.acked = 0 /\ live.acked = 0 /\ ct.at = 0
      /\ Len(pending) = 0 /\ Len(replay) = 0
      /\ get = NoGet /\ page = NoPage /\ ack = NoAck
  BY DEF Init, NoState
<1> QED BY <1>1 DEF CoverInv, Covered, CoveredBy

(* Storage, memory and what is pending. *)
CoverMemory ==
    /\ Covered(retained.stream, retained.acked)
    /\ Covered(live.stream, live.acked)
    /\ \A k \in 1..Len(pending) :
          Covered(pending[k].state.stream, pending[k].state.acked)
    /\ \A k \in 1..Len(pending) :
          pending[k].op.kind = "acknowledge" =>
             Covered(pending[k].op.stream, pending[k].op.through)

(* An extension that acknowledges no more is covered where the state was.  *)
LEMMA SameCovered ==
    ASSUME NEW D, NEW s \in States, NEW t \in States, Good(s), Extends(s, t), t.acked = s.acked,
           CoveredBy(D, s.stream, s.acked)
    PROVE  CoveredBy(D, t.stream, t.acked)
<1>1. CASE s.stream = t.stream BY <1>1
<1>2. CASE s.stream = NoStream
  <2>1. t.acked = 0 BY <1>2 DEF Good
  <2> QED BY <2>1 DEF CoveredBy
<1> QED BY <1>1, <1>2 DEF Extends

LEMMA TransactCover ==
    ASSUME Typed, MemoryInv, CoverMemory, NEW op \in Op, Transact(op),
           UNCHANGED <<retained, delivered>>,
           op.kind = "acknowledge" => Covered(op.stream, op.through)
    PROVE  CoverMemory'
<1> DEFINE e == [op |-> op, state |-> live']
<1>1. CASE live' = live /\ pending' = pending
  BY <1>1 DEF CoverMemory, Covered
<1>2. CASE /\ ~Raises(live, op) /\ live' = Result(live, op)
           /\ pending' = Append(pending, e)
  <2>1. live \in States /\ Good(live) BY DEF Typed, MemoryInv
  <2>2. Covered(live'.stream, live'.acked)
    <3>1. CASE op.kind # "acknowledge"
      <4>1. /\ live' \in States /\ Extends(live, live') /\ live'.acked = live.acked
        BY <1>2, <2>1, <3>1, ResultExtends
      <4> QED BY <2>1, <4>1, SameCovered DEF CoverMemory, Covered
    <3>2. CASE op.kind = "acknowledge"
      <4>1. /\ op.stream = live.stream /\ live'.stream = live.stream
            /\ live'.acked \in {live.acked, op.through}
        BY <1>2, <2>1, <3>2, ResultExtends
      <4> QED BY <3>2, <4>1 DEF CoverMemory
    <3> QED BY <3>1, <3>2
  <2>3. /\ Len(pending') = Len(pending) + 1 /\ Len(pending) \in Nat
        /\ \A k \in 1..Len(pending) : pending'[k] = pending[k]
        /\ pending'[Len(pending) + 1] = e
    BY <1>2 DEF Typed
  <2>4. \A k \in 1..Len(pending') : k \in 1..Len(pending) \/ (k = Len(pending) + 1)
    BY <2>3
  <2>5. e.op = op /\ e.state = live' OBVIOUS
  <2> HIDE DEF e
  <2>6. \A k \in 1..Len(pending') :
           Covered(pending'[k].state.stream, pending'[k].state.acked)
    BY <2>2, <2>3, <2>4, <2>5 DEF CoverMemory
  <2>7. \A k \in 1..Len(pending') :
           pending'[k].op.kind = "acknowledge" =>
              Covered(pending'[k].op.stream, pending'[k].op.through)
    BY <2>3, <2>4, <2>5 DEF CoverMemory
  <2> QED BY <2>2, <2>6, <2>7 DEF CoverMemory, Covered
<1> QED BY <1>1, <1>2, TransactSteps

LEMMA RetainCover ==
    ASSUME Typed, MemoryInv, CoverMemory, Retain \/ RetainUnconfirmed PROVE CoverMemory'
<1>1. UNCHANGED delivered BY DEF Retain, RetainUnconfirmed, ctVars
<1>2. PICK k \in 1..Len(pending) :
         /\ retained' = pending[k].state
         /\ UNCHANGED live
         /\ \/ pending' = pending
            \/ /\ Len(pending') = Len(pending) - k
               /\ \A n \in 1..Len(pending') : pending'[n] = pending[n + k]
  BY RetainSteps
<1>3. CASE pending' = pending BY <1>1, <1>2, <1>3 DEF CoverMemory, Covered
<1>4. CASE /\ Len(pending') = Len(pending) - k
           /\ \A n \in 1..Len(pending') : pending'[n] = pending[n + k]
  <2>1. Len(pending) \in Nat BY DEF Typed
  <2>2. \A n \in 1..Len(pending') : n + k \in 1..Len(pending) BY <1>4, <2>1
  <2> QED BY <1>1, <1>2, <1>4, <2>2 DEF CoverMemory, Covered
<1> QED BY <1>2, <1>3, <1>4

LEMMA ForeignCover ==
    ASSUME Typed, MemoryInv, CoverMemory, NEW o \in Output, Foreign(o) PROVE CoverMemory'
<1>1. UNCHANGED delivered BY DEF Foreign, ctVars
<1>2. /\ retained' \in States /\ Extends(retained, retained')
      /\ retained'.acked = retained.acked
      /\ UNCHANGED <<live, pending>>
  BY ForeignSteps
<1>3. CoveredBy(delivered, retained'.stream, retained'.acked)
  BY <1>2, SameCovered DEF CoverMemory, Covered, Typed, MemoryInv
<1> QED BY <1>1, <1>2, <1>3 DEF CoverMemory, Covered

LEMMA StepCoverMemory ==
    ASSUME Typed, MemoryInv, CoverInv, [Next]_vars PROVE CoverMemory'
<1> USE DEF CoverMemory
<1>1. CoverMemory BY DEF CoverInv
<1>2. CASE Quiet
  <2>1. delivered \subseteq delivered' BY DeliveredGrows
  <2>2. \A e, n : CoveredBy(delivered, e, n) => CoveredBy(delivered', e, n)
    BY <2>1 DEF CoveredBy
  <2> QED BY <1>1, <1>2, <2>2 DEF Quiet, Covered
<1>3. CASE Transacts
  <2>1. PICK op \in Op :
          /\ Transact(op)
          /\ op.kind = "acknowledge" =>
                \/ ack # NoAck /\ op.stream = ack.stream /\ op.through = ack.through
                \/ replay # <<>> /\ op = Head(replay)
    BY <1>3 DEF Transacts
  <2>2. op.kind = "acknowledge" => Covered(op.stream, op.through)
    <3>1. replay # <<>> => Head(replay) = replay[1] /\ 1 \in 1..Len(replay)
      BY DEF Typed
    <3> QED BY <2>1, <3>1 DEF CoverInv
  <2> QED BY <1>1, <1>3, <2>1, <2>2, TransactCover DEF Transacts
<1>4. CASE Loads
  <2>1. delivered \subseteq delivered' BY DeliveredGrows
  <2>2. \A e, n : CoveredBy(delivered, e, n) => CoveredBy(delivered', e, n)
    BY <2>1 DEF CoveredBy
  <2>3. Len(pending') = 0 BY <1>4 DEF Loads
  <2> QED BY <1>1, <1>4, <2>2, <2>3 DEF Loads, Covered
<1>5. CASE Retain \/ RetainUnconfirmed BY <1>1, <1>5, RetainCover
<1>6. ASSUME NEW o \in Output, Foreign(o) PROVE CoverMemory'
  BY <1>1, <1>6, ForeignCover
<1> QED BY <1>2, <1>3, <1>4, <1>5, <1>6, JournalSteps

LEMMA ReplayCover ==
    ASSUME Typed, MemoryInv, CoverInv, [Next]_vars
    PROVE  \A k \in 1..Len(replay') :
              replay'[k].kind = "acknowledge" =>
                 CoveredBy(delivered', replay'[k].stream, replay'[k].through)
<1>1. \A e, n : CoveredBy(delivered, e, n) => CoveredBy(delivered', e, n)
  BY DeliveredGrows DEF CoveredBy
<1>2. CASE UNCHANGED replay BY <1>1, <1>2 DEF CoverInv, Covered
<1>3. CASE Rebase
  <2>1. replay' = [k \in 1..Len(pending) |-> pending[k].op] BY <1>3 DEF Rebase
  <2>2. Len(replay') = Len(pending) /\ \A k \in 1..Len(pending) : replay'[k] = pending[k].op
    BY <2>1 DEF Typed
  <2> QED BY <1>1, <2>2 DEF CoverInv, Covered
<1>4. CASE Replay
  <2>1. replay \in Seq(Op) /\ replay # <<>> /\ replay' = Tail(replay)
    BY <1>4 DEF Typed, Replay
  <2>2. Len(replay') = Len(replay) - 1 /\ \A k \in 1..Len(replay') : replay'[k] = replay[k + 1]
    BY <2>1, HeadTailProperties
  <2>3. \A k \in 1..Len(replay') : k + 1 \in 1..Len(replay) BY <2>1, <2>2
  <2> QED BY <1>1, <2>2, <2>3 DEF CoverInv, Covered
<1>5. CASE Crash BY <1>5 DEF Crash
<1> QED BY <1>2, <1>3, <1>4, <1>5, Writes

LEMMA RequestsCover ==
    ASSUME Typed, MemoryInv, CoverInv, [Next]_vars
    PROVE  /\ get' # NoGet => CoveredBy(delivered', get'.stream, get'.after)
           /\ ack' # NoAck => CoveredBy(delivered', ack'.stream, ack'.through)
<1>1. \A e, n : CoveredBy(delivered, e, n) => CoveredBy(delivered', e, n)
  BY DeliveredGrows DEF CoveredBy
<1>2. ASSUME UNCHANGED get, get # NoGet
      PROVE  CoveredBy(delivered', get'.stream, get'.after)
  BY <1>1, <1>2 DEF CoverInv, Covered
<1>3. ASSUME GetBegin PROVE CoveredBy(delivered', get'.stream, get'.after)
  <2>1. get'.stream = ct.stream /\ get'.after = ct.at BY <1>3 DEF GetBegin
  <2> QED BY <1>1, <2>1 DEF CoverInv, Covered
<1>4. ASSUME GetFlush PROVE CoveredBy(delivered', get'.stream, get'.after)
  <2>1. get \in GetType /\ get # NoGet BY <1>4 DEF GetFlush, Typed, NoGet
  <2>2. get'.stream = get.stream /\ get'.after = get.after
    BY <1>4, <2>1 DEF GetFlush, GetType
  <2> QED BY <1>1, <2>1, <2>2 DEF CoverInv, Covered
<1>5. ASSUME GetFails \/ GetCollect \/ Crash PROVE get' = NoGet
  BY <1>5 DEF GetFails, GetCollect, Crash
<1>6. ASSUME UNCHANGED ack, ack # NoAck
      PROVE  CoveredBy(delivered', ack'.stream, ack'.through)
  BY <1>1, <1>6 DEF CoverInv, Covered
<1>7. ASSUME AckBegin PROVE CoveredBy(delivered', ack'.stream, ack'.through)
  <2>1. PICK n \in 1..ct.at : ack'.stream = ct.stream /\ ack'.through = n
    BY <1>7 DEF AckBegin
  <2>2. ct.at \in Nat /\ n \in Nat /\ n <= ct.at BY DEF Typed
  <2>3. CoveredBy(delivered, ct.stream, ct.at) BY DEF CoverInv, Covered
  <2>4. CoveredBy(delivered, ct.stream, n) BY <2>2, <2>3, MoreCovered
  <2> QED BY <1>1, <2>1, <2>4
<1>8. ASSUME AckApply, ack' # NoAck PROVE CoveredBy(delivered', ack'.stream, ack'.through)
  <2>1. ack \in AckType /\ ack # NoAck BY <1>8 DEF AckApply, Typed, NoAck
  <2>2. ack'.stream = ack.stream /\ ack'.through = ack.through
    BY <1>8, <2>1 DEF AckApply, AckType
  <2> QED BY <1>1, <2>1, <2>2 DEF CoverInv, Covered
<1>9. ASSUME AckAnswer \/ AckFails \/ Crash PROVE ack' = NoAck
  BY <1>9 DEF AckAnswer, AckFails, Crash
<1> QED BY <1>2, <1>3, <1>4, <1>5, <1>6, <1>7, <1>8, <1>9, Writes

LEMMA PageCover ==
    ASSUME Typed, MemoryInv, CoverInv, [Next]_vars, page' # NoPage
    PROVE  /\ CoveredBy(delivered', page'.stream, page'.floor)
           /\ page'.high <= page'.floor + Len(page'.entries)
<1>1. \A e, n : CoveredBy(delivered, e, n) => CoveredBy(delivered', e, n)
  BY DeliveredGrows DEF CoveredBy
<1>2. CASE page' = page BY <1>1, <1>2 DEF CoverInv, Covered
<1>3. CASE GetCollect /\ page' # page
  <2>1. /\ page'.stream = live.stream /\ page'.floor = Floor
        /\ page'.high <= Floor + Len(page'.entries)
    BY <1>3, PageHolds
  <2>2. /\ get \in GetType /\ After \in {0, get.after}
        /\ After > 0 => get.stream = live.stream
        /\ Floor \in {After, live.acked}
    BY <1>3, CollectSteps
  <2>3. CoveredBy(delivered, get.stream, get.after)
    BY <2>2 DEF CoverInv, Covered, GetType, NoGet
  <2>4. CoveredBy(delivered, live.stream, live.acked) BY DEF CoverInv, Covered
  <2>5. get.after \in Nat BY <2>2 DEF GetType
  <2>6. CoveredBy(delivered, live.stream, After)
    <3>1. CASE After = 0 BY <3>1 DEF CoveredBy
    <3>2. CASE After > 0 BY <2>2, <2>3, <3>2
    <3> QED BY <2>2, <2>5, <3>1, <3>2
  <2> QED BY <1>1, <2>1, <2>2, <2>4, <2>6
<1>4. ASSUME PageLost \/ CTCommit PROVE page' = NoPage BY <1>4 DEF PageLost, CTCommit
<1> QED BY <1>2, <1>3, <1>4, Writes

LEMMA CursorCover ==
    ASSUME Typed, MemoryInv, CoverInv, [Next]_vars
    PROVE  CoveredBy(delivered', ct'.stream, ct'.at)
<1>1. \A e, n : CoveredBy(delivered, e, n) => CoveredBy(delivered', e, n)
  BY DeliveredGrows DEF CoveredBy
<1>2. CASE UNCHANGED ct BY <1>1, <1>2 DEF CoverInv, Covered
<1>3. CASE GetCollect /\ ct' = [ct EXCEPT !.at = 0] BY <1>3 DEF CoveredBy, Typed
<1>4. CASE CTCommit
  <2>1. /\ page \in PageType /\ page # NoPage
        /\ \A n \in 1..Len(page.entries) : \E d \in delivered' :
              d.stream = page.stream /\ d.seq = page.floor + n
        /\ ct'.stream = page.stream
        /\ ct'.at = page.high \/ (ct.stream = page.stream /\ ct'.at \in {ct.at, page.high})
    BY <1>4, CommitSteps DEF CTCommit
  <2>2. CoveredBy(delivered', page.stream, page.high)
    <3>1. CoveredBy(delivered', page.stream, page.floor) BY <1>1, <2>1 DEF CoverInv, Covered
    <3>2. page.high <= page.floor + Len(page.entries) BY <2>1 DEF CoverInv
    <3> SUFFICES ASSUME NEW m \in 1..page.high
                 PROVE  \E d \in delivered' : d.stream = page.stream /\ d.seq = m
      BY DEF CoveredBy
    <3>3. /\ page.floor \in Nat /\ page.high \in Nat /\ page.entries \in Seq(Output)
          /\ Len(page.entries) \in Nat
      BY <2>1 DEF PageType
    <3>4. CASE m <= page.floor BY <3>1, <3>3, <3>4 DEF CoveredBy
    <3>5. CASE m > page.floor
      <4>1. m - page.floor \in 1..Len(page.entries) /\ page.floor + (m - page.floor) = m
        BY <3>2, <3>3, <3>5
      <4> QED BY <2>1, <4>1
    <3> QED BY <3>3, <3>4, <3>5
  <2>3. CoveredBy(delivered', ct.stream, ct.at) BY <1>1 DEF CoverInv, Covered
  <2> QED BY <2>1, <2>2, <2>3
<1> QED BY <1>2, <1>3, <1>4, CollectSteps, Writes

LEMMA StepCover ==
    ASSUME Typed, MemoryInv, CoverInv, [Next]_vars PROVE CoverInv'
BY StepCoverMemory, ReplayCover, RequestsCover, PageCover, CursorCover
   DEF CoverInv, CoverMemory, Covered

-----------------------------------------------------------------------------
(* Acknowledgements are kept. *)

LEMMA InitAck == Init => AckInv
BY DEF Init, AckInv, NoAck, NoState

(* What is pending, one by one, after a transaction. *)
LEMMA TransactPending ==
    ASSUME Typed, MemoryInv, NEW op \in Op, Transact(op)
    PROVE  \A k \in 1..Len(pending) : k \in 1..Len(pending') /\ pending'[k] = pending[k]
<1>1. pending \in Seq(Entry) /\ Len(pending) \in Nat BY DEF Typed
<1>2. CASE pending' = pending BY <1>2
<1>3. CASE pending' = Append(pending, [op |-> op, state |-> live']) BY <1>1, <1>3
<1> QED BY <1>2, <1>3, TransactSteps

LEMMA LiveAcked ==
    ASSUME Typed, MemoryInv, AckInv, [Next]_vars
    PROVE  \/ live'.acked <= retained'.acked
           \/ \E k \in 1..Len(pending') : Acks(pending'[k].op, live'.stream, live'.acked)
<1>1. \/ live.acked <= retained.acked
      \/ \E k \in 1..Len(pending) : Acks(pending[k].op, live.stream, live.acked)
  BY DEF AckInv
<1>2. CASE Quiet BY <1>1, <1>2 DEF Quiet
<1>3. CASE Loads BY <1>3 DEF Loads, Typed, States
<1>4. ASSUME NEW o \in Output, Foreign(o)
      PROVE  \/ live'.acked <= retained'.acked
             \/ \E k \in 1..Len(pending') : Acks(pending'[k].op, live'.stream, live'.acked)
  BY <1>1, <1>4, ForeignSteps
<1>5. CASE Transacts
  <2>1. PICK op \in Op : Transact(op) BY <1>5 DEF Transacts
  <2>2. UNCHANGED retained BY <1>5 DEF Transacts
  <2>3. CASE live' = live /\ pending' = pending BY <1>1, <2>2, <2>3
  <2>4. CASE /\ ~Raises(live, op) /\ live' = Result(live, op)
             /\ pending' = Append(pending, [op |-> op, state |-> live'])
    <3>1. live \in States /\ Good(live) BY DEF Typed, MemoryInv
    <3>2. CASE op.kind = "acknowledge"
      <4>1. /\ op.stream = live.stream /\ live'.stream = live.stream
            /\ live'.acked \in {live.acked, op.through} /\ op.through <= live'.acked
        BY <2>4, <3>1, <3>2, ResultExtends
      <4>2. CASE live'.acked = live.acked BY <1>1, <2>1, <2>2, <4>1, <4>2, TransactPending
      <4>3. CASE live'.acked = op.through
        <5>1. op.through \in Nat BY <3>2 DEF Op
        <5>2. pending \in Seq(Entry) /\ Len(pending) \in Nat BY DEF Typed
        <5>3. /\ Len(pending) + 1 \in 1..Len(pending')
              /\ pending'[Len(pending) + 1].op = op
          BY <2>4, <5>2
        <5>4. Acks(op, live'.stream, live'.acked) BY <3>2, <4>1, <4>3, <5>1 DEF Acks
        <5> QED BY <5>3, <5>4
      <4> QED BY <4>1, <4>2, <4>3
    <3>3. CASE op.kind # "acknowledge"
      <4>1. Extends(live, live') /\ live'.acked = live.acked BY <2>4, <3>1, <3>3, ResultExtends
      <4>2. CASE live'.stream = live.stream
        BY <1>1, <2>1, <2>2, <4>1, <4>2, TransactPending
      <4>3. CASE live.stream = NoStream
        <5>1. live'.acked = 0 BY <3>1, <4>1, <4>3 DEF Good
        <5> QED BY <2>2, <5>1 DEF Typed, States
      <4> QED BY <4>1, <4>2, <4>3 DEF Extends
    <3> QED BY <3>2, <3>3
  <2> QED BY <2>1, <2>3, <2>4, TransactSteps
<1>6. CASE Retain \/ RetainUnconfirmed
  <2>1. PICK k \in 1..Len(pending) :
           /\ retained' = pending[k].state
           /\ Extends(retained, retained') /\ UNCHANGED live
           /\ \/ pending' = pending
              \/ /\ Len(pending') = Len(pending) - k
                 /\ \A n \in 1..Len(pending') : pending'[n] = pending[n + k]
    BY <1>6, RetainSteps
  <2>2. live.acked \in Nat /\ retained.acked \in Nat /\ retained'.acked \in Nat
    BY StepTyped DEF Typed, States
  <2>3. CASE live.acked <= retained.acked BY <2>1, <2>2, <2>3 DEF Extends
  <2>4. ASSUME NEW j \in 1..Len(pending), Acks(pending[j].op, live.stream, live.acked)
        PROVE  \/ live'.acked <= retained'.acked
               \/ \E n \in 1..Len(pending') : Acks(pending'[n].op, live'.stream, live'.acked)
    <3>1. CASE pending' = pending BY <2>1, <2>4, <3>1
    <3>2. CASE j <= k
      <4>1. /\ pending[j].op.through <= pending[j].state.acked
            /\ Extends(pending[j].state, pending[k].state)
        BY <2>4, <3>2 DEF MemoryInv, Acks
      <4>2. pending[j].op.through \in Nat /\ pending[j].state.acked \in Nat
        BY <2>4, PendingStates DEF Acks, Op, States
      <4> QED BY <2>1, <2>2, <2>4, <4>1, <4>2 DEF Extends, Acks
    <3>3. CASE /\ j > k /\ Len(pending') = Len(pending) - k
               /\ \A n \in 1..Len(pending') : pending'[n] = pending[n + k]
      <4>1. j - k \in 1..Len(pending') /\ (j - k) + k = j BY <3>3 DEF Typed
      <4>2. pending'[j - k] = pending[j] BY <3>3, <4>1
      <4> QED BY <2>1, <2>4, <4>1, <4>2
    <3> QED BY <2>1, <3>1, <3>2, <3>3
  <2> QED BY <1>1, <2>3, <2>4
<1> QED BY <1>2, <1>3, <1>4, <1>5, <1>6, JournalSteps

LEMMA RetainOwed ==
    ASSUME Typed, MemoryInv, [Next]_vars, NEW e, NEW n \in Nat,
           Retain \/ RetainUnconfirmed,
           NEW j \in 1..Len(pending), Acks(pending[j].op, e, n)
    PROVE  Owed(e, n)'
<1>1. PICK k \in 1..Len(pending) :
         /\ retained' = pending[k].state
         /\ \/ pending' = pending
            \/ /\ Len(pending') = Len(pending) - k
               /\ \A m \in 1..Len(pending') : pending'[m] = pending[m + k]
  BY RetainSteps
<1>2. pending[j].op \in Op BY PendingStates
<1>3. CASE pending' = pending BY <1>3 DEF Owed, Acks
<1>4. CASE j <= k
  <2>1. /\ pending[j].op.through <= pending[j].state.acked
        /\ Extends(pending[j].state, pending[k].state)
    BY <1>4 DEF MemoryInv, Acks
  <2>2. /\ pending[j].op.through \in Nat /\ pending[j].state.acked \in Nat
        /\ pending[k].state.acked \in Nat
    BY <1>2, PendingStates DEF Acks, Op, States
  <2>3. n <= retained'.acked BY <1>1, <2>1, <2>2 DEF Extends, Acks
  <2> QED BY <2>3 DEF Owed
<1>5. CASE /\ j > k /\ Len(pending') = Len(pending) - k
           /\ \A m \in 1..Len(pending') : pending'[m] = pending[m + k]
  <2>1. j - k \in 1..Len(pending') /\ (j - k) + k = j BY <1>5 DEF Typed
  <2>2. pending'[j - k] = pending[j] BY <1>5, <2>1
  <2> QED BY <2>1, <2>2 DEF Owed, Acks
<1> QED BY <1>1, <1>3, <1>4, <1>5

(* A replayed acknowledgement of what is firm is not refused. *)
LEMMA ReplayOwed ==
    ASSUME Typed, MemoryInv, AckInv, Replay, NEW e, NEW n \in Nat,
           Acks(Head(replay), e, n), Firm(e, Head(replay).through), e # NoStream
    PROVE  Owed(e, n)'
<1> DEFINE op == Head(replay)
<1>1. op \in Op /\ Transact(op) /\ UNCHANGED retained BY DEF Replay, Typed
<1>2. /\ op.kind = "acknowledge" /\ op.stream = e
      /\ n <= op.through /\ Firm(e, op.through)
  BY DEF Acks
<1> HIDE DEF op
<1>3. op.through \in Nat /\ live.acked \in Nat /\ retained.acked \in Nat
  BY <1>1, <1>2 DEF Op, Typed, States
<1>4. ~Raises(live, op) BY <1>2, <1>3 DEF Raises, Exceeds, Firm, Typed, States
<1>5. CASE pending' = Append(pending, [op |-> op, state |-> live'])
  <2>1. Len(pending) + 1 \in 1..Len(pending') /\ pending'[Len(pending) + 1].op = op
    BY <1>5 DEF Typed
  <2> QED BY <1>2, <2>1 DEF Owed, Acks
<1>6. CASE ~Effective(live, op)
  <2>1. Result(live, op) = live BY <1>4, <1>6 DEF Effective
  <2>2. op.through <= live.acked
    BY <1>1, <1>2, <1>4, <2>1, ResultExtends DEF Typed, MemoryInv
  <2>3. UNCHANGED <<live, retained, pending>> BY <1>1, <1>6 DEF Transact
  <2>4. CASE live.acked <= retained.acked
    <3>1. n <= retained'.acked BY <1>1, <1>2, <1>3, <2>2, <2>4
    <3> QED BY <3>1 DEF Owed
  <2>5. ASSUME NEW k \in 1..Len(pending), Acks(pending[k].op, live.stream, live.acked)
        PROVE  Owed(e, n)'
    <3>1. pending[k].op \in Op BY PendingStates
    <3>2. pending[k].op.through \in Nat BY <2>5, <3>1 DEF Acks, Op
    <3>3. live.stream = e BY <1>2 DEF Firm
    <3>4. Acks(pending[k].op, e, n) BY <1>2, <1>3, <2>2, <2>5, <3>2, <3>3 DEF Acks
    <3> QED BY <2>3, <3>4 DEF Owed, Acks
  <2> QED BY <2>4, <2>5 DEF AckInv
<1> QED BY <1>1, <1>5, <1>6, TransactSteps DEF Transact

(* While an acknowledgement waits for the barrier it stays owed. *)
LEMMA OwedStays ==
    ASSUME Typed, MemoryInv, AckInv, [Next]_vars, ~Crash, NEW e, NEW n \in Nat, e # NoStream,
           Owed(e, n), AcksFirm(e)
    PROVE  Owed(e, n)'
<1>1. CASE n <= retained.acked
  <2>1. Extends(retained, retained') BY StepExtends
  <2>2. retained.acked \in Nat /\ retained'.acked \in Nat BY StepTyped DEF Typed, States
  <2>3. n <= retained'.acked BY <1>1, <2>1, <2>2 DEF Extends
  <2> QED BY <2>3 DEF Owed
<1>2. ASSUME NEW j \in 1..Len(pending), Acks(pending[j].op, e, n) PROVE Owed(e, n)'
  <2>1. CASE Quiet BY <1>2, <2>1 DEF Quiet, Owed, Acks
  <2>2. CASE Transacts
    <3>1. j \in 1..Len(pending') /\ pending'[j] = pending[j]
      BY <2>2, TransactPending DEF Transacts
    <3> QED BY <1>2, <3>1 DEF Owed, Acks
  <2>3. CASE Rebase
    <3>1. replay' = [k \in 1..Len(pending) |-> pending[k].op] BY <2>3 DEF Rebase
    <3>2. Len(replay') = Len(pending) /\ replay'[j] = pending[j].op BY <3>1 DEF Typed
    <3> QED BY <1>2, <3>2 DEF Owed, Acks
  <2>4. ASSUME NEW o \in Output, Foreign(o) PROVE Owed(e, n)'
    <3>1. UNCHANGED pending BY <2>4, ForeignSteps
    <3> QED BY <1>2, <3>1 DEF Owed, Acks
  <2> QED BY <1>2, <2>1, <2>2, <2>3, <2>4, RetainOwed, JournalSteps DEF Loads
<1>3. ASSUME NEW j \in 1..Len(replay), Acks(replay[j], e, n) PROVE Owed(e, n)'
  <2>1. CASE UNCHANGED replay BY <1>3, <2>1 DEF Owed, Acks
  <2>2. CASE Rebase
    <3>1. Len(replay) = 0 BY <2>2 DEF Rebase, Unlocked
    <3> QED BY <1>3, <3>1
  <2>3. CASE Replay
    <3>1. replay \in Seq(Op) /\ replay # <<>> /\ replay' = Tail(replay)
      BY <2>3 DEF Typed, Replay
    <3>2. Len(replay') = Len(replay) - 1 /\ \A k \in 1..Len(replay') : replay'[k] = replay[k + 1]
      BY <3>1, HeadTailProperties
    <3>3. CASE j > 1
      <4>1. j - 1 \in 1..Len(replay') /\ (j - 1) + 1 = j BY <3>1, <3>2, <3>3
      <4>2. replay'[j - 1] = replay[j] BY <3>2, <4>1
      <4> QED BY <1>3, <4>1, <4>2 DEF Owed, Acks
    <3>4. CASE j = 1
      <4>1. Head(replay) = replay[j] BY <3>1, <3>4
      <4>2. Firm(e, Head(replay).through) BY <1>3, <4>1 DEF AcksFirm, Acks
      <4> QED BY <1>3, <2>3, <4>1, <4>2, ReplayOwed
    <3> QED BY <3>3, <3>4
  <2> QED BY <2>1, <2>2, <2>3, Writes
<1> QED BY <1>1, <1>2, <1>3 DEF Owed

(* What is pending or to be replayed after a step was so before it, or is  *)
(* the acknowledgement in the process.                                     *)
LEMMA AckSources ==
    ASSUME Typed, MemoryInv, [Next]_vars, NEW T,
           ack # NoAck => ack.through \in T,
           \A k \in 1..Len(pending) :
              pending[k].op.kind = "acknowledge" => pending[k].op.through \in T,
           \A k \in 1..Len(replay) : replay[k].kind = "acknowledge" => replay[k].through \in T
    PROVE  /\ \A k \in 1..Len(pending') :
                 pending'[k].op.kind = "acknowledge" => pending'[k].op.through \in T
           /\ \A k \in 1..Len(replay') :
                 replay'[k].kind = "acknowledge" => replay'[k].through \in T
<1> DEFINE InT(p) == \A k \in 1..Len(p) :
                        p[k].op.kind = "acknowledge" => p[k].op.through \in T
<1>1. InT(pending')
  <2>1. CASE Quiet BY <2>1 DEF Quiet
  <2>2. CASE Transacts
    <3>1. PICK op \in Op :
             /\ Transact(op)
             /\ op.kind = "acknowledge" =>
                   \/ ack # NoAck /\ op.stream = ack.stream /\ op.through = ack.through
                   \/ replay # <<>> /\ op = Head(replay)
      BY <2>2 DEF Transacts
    <3>2. replay # <<>> => Head(replay) = replay[1] /\ 1 \in 1..Len(replay) BY DEF Typed
    <3>3. op.kind = "acknowledge" => op.through \in T BY <3>1, <3>2
    <3>4. CASE pending' = pending BY <3>4
    <3>5. CASE pending' = Append(pending, [op |-> op, state |-> live'])
      <4>1. pending \in Seq(Entry) /\ Len(pending) \in Nat BY DEF Typed
      <4>2. \A k \in 1..Len(pending') :
               \/ k \in 1..Len(pending) /\ pending'[k] = pending[k]
               \/ pending'[k].op = op
        BY <3>5, <4>1
      <4> QED BY <3>3, <4>2
    <3> QED BY <3>1, <3>4, <3>5, TransactSteps
  <2>3. CASE Loads
    <3>1. Len(pending') = 0 BY <2>3 DEF Loads
    <3> QED BY <3>1
  <2>4. CASE Retain \/ RetainUnconfirmed
    <3>1. PICK k \in 1..Len(pending) :
             \/ pending' = pending
             \/ /\ Len(pending') = Len(pending) - k
                /\ \A m \in 1..Len(pending') : pending'[m] = pending[m + k]
      BY <2>4, RetainSteps
    <3>2. Len(pending) \in Nat BY DEF Typed
    <3>3. CASE /\ Len(pending') = Len(pending) - k
               /\ \A m \in 1..Len(pending') : pending'[m] = pending[m + k]
      <4>1. \A m \in 1..Len(pending') : m + k \in 1..Len(pending) BY <3>2, <3>3
      <4> QED BY <3>3, <4>1
    <3> QED BY <3>1, <3>3
  <2>5. ASSUME NEW o \in Output, Foreign(o) PROVE InT(pending')
    <3>1. pending' = pending BY <2>5, ForeignSteps
    <3> QED BY <3>1
  <2> QED BY <2>1, <2>2, <2>3, <2>4, <2>5, JournalSteps
<1>2. \A k \in 1..Len(replay') : replay'[k].kind = "acknowledge" => replay'[k].through \in T
  <2>1. CASE UNCHANGED replay BY <2>1
  <2>2. CASE Rebase
    <3>1. replay' = [k \in 1..Len(pending) |-> pending[k].op] BY <2>2 DEF Rebase
    <3>2. Len(replay') = Len(pending) /\ \A k \in 1..Len(pending) : replay'[k] = pending[k].op
      BY <3>1 DEF Typed
    <3> QED BY <3>2
  <2>3. CASE Replay
    <3>1. replay \in Seq(Op) /\ replay # <<>> /\ replay' = Tail(replay)
      BY <2>3 DEF Typed, Replay
    <3>2. Len(replay') = Len(replay) - 1 /\ \A k \in 1..Len(replay') : replay'[k] = replay[k + 1]
      BY <3>1, HeadTailProperties
    <3>3. \A k \in 1..Len(replay') : k + 1 \in 1..Len(replay) BY <3>1, <3>2
    <3> QED BY <3>2, <3>3
  <2>4. CASE Crash
    <3>1. Len(replay') = 0 BY <2>4 DEF Crash
    <3> QED BY <3>1
  <2> QED BY <2>1, <2>2, <2>3, <2>4, Writes
<1> QED BY <1>1, <1>2

LEMMA AcksFirmStays ==
    ASSUME Typed, MemoryInv, [Next]_vars, NEW e \in Nat \ {NoStream}, AcksFirm(e),
           ack # NoAck, Firm(e, ack.through)
    PROVE  AcksFirm(e)'
<1> DEFINE T == {t \in Nat : Firm(e, t)}
<1>1. ack.through \in T BY DEF Typed, AckType
<1>2. \A k \in 1..Len(pending) : pending[k].op.kind = "acknowledge" => pending[k].op.through \in T
  <2> SUFFICES ASSUME NEW k \in 1..Len(pending), pending[k].op.kind = "acknowledge"
               PROVE  pending[k].op.through \in T
    OBVIOUS
  <2>1. pending[k].op.through \in Nat BY PendingStates DEF Op
  <2> QED BY <2>1 DEF AcksFirm
<1>3. \A k \in 1..Len(replay) : replay[k].kind = "acknowledge" => replay[k].through \in T
  <2> SUFFICES ASSUME NEW k \in 1..Len(replay), replay[k].kind = "acknowledge"
               PROVE  replay[k].through \in T
    OBVIOUS
  <2>1. replay[k] \in Op BY DEF Typed
  <2>2. replay[k].through \in Nat BY <2>1 DEF Op
  <2> QED BY <2>2 DEF AcksFirm
<1>4. PICK U : U = T OBVIOUS
<1>5. /\ \A k \in 1..Len(pending') :
           pending'[k].op.kind = "acknowledge" => pending'[k].op.through \in U
      /\ \A k \in 1..Len(replay') : replay'[k].kind = "acknowledge" => replay'[k].through \in U
  <2> HIDE DEF T
  <2> QED BY <1>1, <1>2, <1>3, <1>4, AckSources
<1>6. \A t \in U : Firm(e, t)' BY <1>4, FirmStays
<1> QED BY <1>5, <1>6 DEF AcksFirm, Firm

LEMMA AppliedSure ==
    ASSUME Typed, MemoryInv, ReadInv, AckInv, [Next]_vars, AckApply, ack' # NoAck, ack'.sure
    PROVE  /\ ack'.stream # NoStream /\ Firm(ack.stream, ack.through)'
           /\ AcksFirm(ack.stream)'
           /\ Owed(ack.stream, ack.through)'
<1>1. ack \in AckType BY DEF AckApply, Typed, NoAck
<1>2. PICK e \in Nat, n \in Nat \ {0} : e = ack.stream /\ n = ack.through
  BY <1>1 DEF AckType
<1> DEFINE op == Acknowledge(ack.stream, ack.through)
<1>3. /\ ~Raises(live, op) /\ Transact(op) /\ UNCHANGED delivered
      /\ ack'.sure <=> \A m \in 1..live'.acked : ReadBelowBarrier(ack.stream, m)
      /\ ack'.stream = e /\ ack'.through = n
  BY <1>1, <1>2 DEF AckApply, AckType, ctVars
<1>4. op \in Op /\ op.kind = "acknowledge" /\ op.stream = e /\ op.through = n
  BY <1>1, <1>2, OpsTyped DEF Acknowledge, AckType
<1>5. live.stream = e /\ e # NoStream
  BY <1>3, <1>4 DEF Raises, AckApply, Ready
<1>6. replay' = <<>> /\ UNCHANGED retained BY DEF AckApply, Ready, Unlocked, journalVars
<1> HIDE DEF op
<1>7. live \in States /\ Good(live) BY DEF Typed, MemoryInv
<1>8. n <= live'.acked /\ live'.stream = e
  <2>1. CASE live' = live /\ pending' = pending
    <3>1. live' = Result(live, op)
      BY <1>3, <2>1 DEF Transact, Effective
    <3> QED BY <1>3, <1>4, <1>7, <3>1, ResultExtends
  <2>2. CASE live' = Result(live, op)
    BY <1>3, <1>4, <1>5, <1>7, <2>2, ResultExtends
  <2> QED BY <1>3, <1>4, <2>1, <2>2, TransactSteps
<1>9. Typed' /\ MemoryInv' /\ ReadInv' BY StepTyped, StepMemory, StepRead
<1>10. live'.acked \in Nat /\ live'.acked >= 1
  <2>1. live' \in States BY StepTyped DEF Typed
  <2> QED BY <1>8, <2>1 DEF States
<1>11. PICK a \in Nat : a = live'.acked BY <1>10
<1>12. Firm(e, a)'
  <2>1. ReadBelowBarrier(ack.stream, a) BY <1>3, <1>10, <1>11
  <2>2. PICK d \in delivered : d.stream = e /\ d.seq = a /\ d.sure
    BY <1>2, <2>1 DEF ReadBelowBarrier
  <2>3. d \in delivered' BY <1>3
  <2> QED BY <1>9, <2>2, <2>3 DEF ReadInv, Firm
<1>13. \A t \in Nat : t <= a => Firm(e, t)'
  <2>1. live' \in States /\ retained' \in States BY StepTyped DEF Typed
  <2>2. Len(retained'.events) \in Nat /\ Len(live'.events) \in Nat BY <2>1 DEF States
  <2> QED BY <1>12, <2>2 DEF Firm
<1>14. \A k \in 1..Len(pending') :
          pending'[k].op.kind = "acknowledge" =>
             pending'[k].op.through \in Nat /\ pending'[k].op.through <= a
  <2> SUFFICES ASSUME NEW k \in 1..Len(pending'), pending'[k].op.kind = "acknowledge"
               PROVE  pending'[k].op.through \in Nat /\ pending'[k].op.through <= a
    OBVIOUS
  <2>1. pending' \in Seq(Entry) /\ Len(pending') \in Nat BY <1>9 DEF Typed
  <2>2. pending'[k] \in Entry BY <2>1
  <2>3. pending'[k].op \in Op /\ pending'[k].state \in States BY <2>2 DEF Entry
  <2>4. pending'[k].op.through \in Nat BY <2>3 DEF Op
  <2>5. pending'[k].op.through <= pending'[k].state.acked BY <1>9 DEF MemoryInv
  <2>6. Len(pending') \in 1..Len(pending') /\ k <= Len(pending') /\ pending' # <<>>
    BY <2>1
  <2>7. Extends(pending'[k].state, pending'[Len(pending')].state)
    BY <1>9, <2>6 DEF MemoryInv, Extends
  <2>8. live' = pending'[Len(pending')].state BY <1>9, <2>6 DEF MemoryInv
  <2>9. pending'[k].state.acked <= live'.acked BY <2>7, <2>8 DEF Extends
  <2>10. pending'[k].state.acked \in Nat BY <2>3 DEF States
  <2> QED BY <1>11, <2>4, <2>5, <2>9, <2>10
<1>15. AcksFirm(e)'
  <2>1. Len(replay') = 0 BY <1>6
  <2>2. \A k \in 1..Len(pending') :
          pending'[k].op.kind = "acknowledge" => \E t \in Nat : t = pending'[k].op.through /\ t <= a
    BY <1>14
  <2> QED BY <1>13, <2>1, <2>2 DEF AcksFirm, Firm
<1>16. Owed(e, n)'
  <2>1. CASE live'.acked <= retained'.acked
    <3>1. retained'.acked \in Nat BY <1>9 DEF Typed, States
    <3>2. n <= retained'.acked BY <1>8, <1>10, <2>1, <3>1
    <3> QED BY <3>2 DEF Owed
  <2>2. ASSUME NEW k \in 1..Len(pending'), Acks(pending'[k].op, live'.stream, live'.acked)
        PROVE  Owed(e, n)'
    <3>1. pending'[k].op.through \in Nat BY <1>14, <2>2 DEF Acks
    <3>2. Acks(pending'[k].op, e, n) BY <1>8, <1>10, <2>2, <3>1 DEF Acks
    <3> QED BY <3>2 DEF Owed, Acks
  <2> QED BY <2>1, <2>2, LiveAcked
<1>17. n <= a BY <1>8, <1>11
<1> QED BY <1>3, <1>5, <1>13, <1>15, <1>16, <1>17 DEF Firm, AcksFirm, Owed, Acks

LEMMA AckKept ==
    ASSUME Typed, MemoryInv, ReadInv, AckInv, [Next]_vars, ack'.stage = "applied", ack'.sure
    PROVE  /\ ack'.stream # NoStream /\ Firm(ack.stream, ack.through)'
           /\ AcksFirm(ack.stream)'
           /\ Owed(ack.stream, ack.through)'
<1>1. CASE UNCHANGED ack /\ ~Crash
  <2>1. ack \in AckType /\ ack # NoAck BY <1>1 DEF Typed, NoAck
  <2>2. PICK e \in Nat, n \in Nat : e = ack.stream /\ n = ack.through
    BY <2>1 DEF AckType
  <2>3. e # NoStream /\ Firm(e, n) /\ AcksFirm(e) /\ Owed(e, n)
    BY <1>1, <2>2 DEF AckInv
  <2>4. Firm(e, n)' BY <2>2, <2>3, FirmStays
  <2>5. AcksFirm(e)' BY <2>1, <2>2, <2>3, AcksFirmStays
  <2>6. Owed(e, n)' BY <1>1, <2>2, <2>3, OwedStays
  <2> QED BY <1>1, <2>2, <2>3, <2>4, <2>5, <2>6 DEF Firm, AcksFirm, Owed, Acks
<1>2. CASE AckApply
  <2>1. ack' # NoAck BY DEF NoAck
  <2> QED BY <1>2, <2>1, AppliedSure
<1>3. ASSUME AckBegin \/ AckAnswer \/ AckFails \/ Crash PROVE ack'.stage # "applied"
  BY <1>3 DEF AckBegin, AckAnswer, AckFails, Crash, NoAck
<1> QED BY <1>1, <1>2, <1>3, Writes

LEMMA ReleasedKept ==
    ASSUME Typed, MemoryInv, ReadInv, AckInv, [Next]_vars, released'.sure
    PROVE  /\ retained'.stream = released'.stream
           /\ released'.through <= retained'.acked
           /\ released'.stream # NoStream
<1>1. CASE UNCHANGED released
  <2>1. /\ retained.stream = released.stream /\ released.stream # NoStream
        /\ released.through <= retained.acked
    BY <1>1 DEF AckInv
  <2>2. Extends(retained, retained') BY StepExtends
  <2>3. released.through \in Nat /\ retained.acked \in Nat /\ retained'.acked \in Nat
    BY StepTyped DEF Typed, States
  <2> QED BY <1>1, <2>1, <2>2, <2>3 DEF Extends
<1>2. CASE AckAnswer
  <2>1. /\ ack.stage = "applied" /\ Len(pending) = 0 /\ Len(replay) = 0
        /\ UNCHANGED retained
        /\ released' = [stream |-> ack.stream, through |-> ack.through, sure |-> ack.sure]
    BY <1>2 DEF AckAnswer, Durable, Unlocked, journalVars
  <2>2. /\ ack.sure /\ released'.stream = ack.stream /\ released'.through = ack.through
    BY <2>1
  <2>3. /\ ack.stream # NoStream /\ Firm(ack.stream, ack.through)
        /\ Owed(ack.stream, ack.through)
    BY <2>1, <2>2 DEF AckInv
  <2>4. ack.through <= retained.acked BY <2>1, <2>3 DEF Owed
  <2> QED BY <2>1, <2>2, <2>3, <2>4 DEF Firm
<1> QED BY <1>1, <1>2, Writes

LEMMA StepAck == ASSUME Typed, MemoryInv, ReadInv, AckInv, [Next]_vars PROVE AckInv'
<1>1. \/ live'.acked <= retained'.acked
      \/ \E k \in 1..Len(pending') : Acks(pending'[k].op, live'.stream, live'.acked)
  BY LiveAcked
<1> QED BY <1>1, AckKept, ReleasedKept DEF AckInv, Acks

-----------------------------------------------------------------------------
(* Theorems. *)

(* What was read, acknowledged and kept holds in every state. *)
THEOREM DeliveryInvariant == Spec => []IInv
<1>1. Init => IInv BY InitTyped, InitMemory, InitRead, InitCover, InitAck DEF IInv
<1>2. IInv /\ [Next]_vars => IInv'
  BY StepTyped, StepMemory, StepRead, StepCover, StepAck DEF IInv
<1> QED BY <1>1, <1>2, PTL DEF Spec

(* Every variable keeps its shape, and no step leaves an insight state that *)
(* the process itself would take for corrupt.                               *)
THEOREM DeliveryTypeCorrect == Spec => []TypeOK
<1>1. IInv => TypeOK
  <2> SUFFICES ASSUME IInv PROVE TypeOK OBVIOUS
  <2>1. Typed /\ MemoryInv BY DEF IInv
  <2>2. \A k \in 1..Len(pending) : Consistent(pending[k].state)
    BY <2>1, PendingStates DEF Consistent, MemoryInv, Good
  <2>3. delivered \subseteq [stream : Nat, seq : Nat, output : Output, sure : BOOLEAN]
    BY <2>1 DEF Typed, DeliveredType
  <2> QED BY <2>1, <2>2, <2>3 DEF TypeOK, Typed, MemoryInv, Good, Consistent
<1> QED BY <1>1, DeliveryInvariant, PTL

(* An event that was committed from below the barrier of its collection    *)
(* keeps its stream, its position and its content, whatever crashes,       *)
(* rebases and unconfirmed creates follow.                                 *)
THEOREM FlushedEventsStay == Spec => []FlushedStays
<1>1. IInv => FlushedStays
  <2> SUFFICES ASSUME IInv, NEW d \in delivered, d.sure
               PROVE  /\ d.stream = retained.stream
                      /\ d.seq <= Len(retained.events)
                      /\ retained.events[d.seq] = d.output
    BY DEF FlushedStays
  <2> QED BY DEF IInv, ReadInv, Firm
<1> QED BY <1>1, DeliveryInvariant, PTL

(* Nothing is released that Control Tower has not committed at that        *)
(* position, and what it read below the barrier is what is released.       *)
THEOREM NothingReleasedUnread == Spec => []ReleasedWasDelivered
<1>1. IInv => ReleasedWasDelivered
  <2> SUFFICES ASSUME IInv, NEW n \in 1..retained.acked
               PROVE  \E d \in delivered :
                         /\ d.stream = retained.stream /\ d.seq = n
                         /\ d.sure => d.output = retained.events[n]
    BY DEF ReleasedWasDelivered
  <2>1. PICK d \in delivered : d.stream = retained.stream /\ d.seq = n
    BY DEF IInv, CoverInv, Covered, CoveredBy
  <2>2. d.sure => retained.events[d.seq] = d.output BY DEF IInv, ReadInv
  <2> QED BY <2>1, <2>2
<1> QED BY <1>1, DeliveryInvariant, PTL

(* The backlog stays within max_buffer, in memory and in storage, also     *)
(* when pending events are replayed on top of another process's.           *)
THEOREM BacklogStaysBounded == Spec => []BacklogBounded
<1>1. IInv => BacklogBounded BY DEF IInv, MemoryInv, Good, BacklogBounded
<1> QED BY <1>1, DeliveryInvariant, PTL

(* An answered acknowledgement of what was read below the barrier is in    *)
(* storage from then on.                                                   *)
THEOREM AnsweredAcksStay == Spec => []AnsweredAckStays
<1>1. IInv => AnsweredAckStays
  <2> SUFFICES ASSUME IInv, released.sure
               PROVE  /\ retained.stream = released.stream
                      /\ retained.acked >= released.through
    BY DEF AnsweredAckStays
  <2>1. released.through <= retained.acked /\ retained.stream = released.stream
    BY DEF IInv, AckInv
  <2>2. released.through \in Nat /\ retained.acked \in Nat BY DEF IInv, Typed, States
  <2> QED BY <2>1, <2>2
<1> QED BY <1>1, DeliveryInvariant, PTL

-----------------------------------------------------------------------------
HIDE DeliveryAssumption

(* An empty page, when no other process of the unit writes and this one    *)
(* does not die.                                                           *)
(*                                                                         *)
(* Every output a producer tried to emit is in memory, or an issue is; but *)
(* for a rebase, which starts from storage and replays what was pending.   *)
(* What it will arrive at is the state that memory was in: each of the     *)
(* operations either repeats what storage has, and changes nothing, or is  *)
(* applied to the very state it was applied to before.                     *)

Grows(s, t) == Extends(s, t) /\ (s.issues => t.issues)

(* T holds the states that ops, each of them admitted, go through. *)
Run(T, ops, N) ==
    /\ T \in [0..N -> States] /\ \A i \in 0..N : Good(T[i])
    /\ \A i \in 1..N : /\ ops[i] \in Op /\ ~Raises(T[i - 1], ops[i])
                       /\ T[i] = Result(T[i - 1], ops[i])

LEMMA ResultGrows ==
    ASSUME NEW s \in States, NEW op \in Op, Good(s), ~Raises(s, op)
    PROVE  Grows(s, Result(s, op))
<1>1. Extends(s, Result(s, op)) BY ResultExtends
<1>2. s.issues => Result(s, op).issues
  <2>1. CASE op.kind = "initialize" BY <2>1 DEF Result, States
  <2>2. CASE op.kind = "append" BY <2>2 DEF Result, States
  <2>3. CASE op.kind = "acknowledge" BY <2>3 DEF Result, States
  <2>4. CASE op.kind = "record" BY <2>4 DEF Result, States
  <2> QED BY <2>1, <2>2, <2>3, <2>4 DEF Op
<1> QED BY <1>1, <1>2 DEF Grows

LEMMA RunGrows ==
    ASSUME NEW N \in Nat, NEW T, NEW ops, Run(T, ops, N)
    PROVE  \A j \in 0..N : \A i \in 0..j : Grows(T[i], T[j])
<1> DEFINE S == {j \in Nat : j <= N => \A i \in 0..j : Grows(T[i], T[j])}
<1>0. \A i \in 0..N : T[i] \in States /\ Grows(T[i], T[i])
  BY ExtendsSelf DEF Run, Grows
<1>1. 0 \in S BY <1>0
<1>2. ASSUME NEW j \in Nat, j \in S PROVE j + 1 \in S
  <2> SUFFICES ASSUME j + 1 <= N, NEW i \in 0..(j + 1) PROVE Grows(T[i], T[j + 1])
    OBVIOUS
  <2>1. j + 1 \in 1..N /\ (j + 1) - 1 = j /\ j \in 0..N OBVIOUS
  <2>2. Grows(T[j], T[j + 1]) BY <1>0, <2>1, ResultGrows DEF Run
  <2>3. CASE i = j + 1 BY <1>0, <2>1, <2>3
  <2>4. CASE i <= j
    <3>1. Grows(T[i], T[j]) /\ i \in 0..N BY <1>2, <2>1, <2>4
    <3> QED BY <1>0, <2>1, <2>2, <3>1, ExtendsOn DEF Grows
  <2> QED BY <2>3, <2>4
<1> HIDE DEF S
<1>3. Nat \subseteq S BY <1>1, <1>2, NatInduct
<1> QED BY <1>3 DEF S

(* What is there already is not done again. *)
LEMMA Absorbed ==
    ASSUME NEW s \in States, NEW op \in Op, Good(s), ~Raises(s, op),
           NEW t \in States, Grows(Result(s, op), t), ~Raises(t, op)
    PROVE  Result(t, op) = t
<1>0. Result(s, op) \in States BY ResultExtends
<1>1. CASE op.kind = "initialize"
  <2>1. op.stream \in Nat \ {NoStream} BY <1>1 DEF Op
  <2>2. Result(s, op).stream # NoStream BY <1>1, <2>1 DEF Result, States
  <2> QED BY <1>1, <2>2 DEF Result, Grows, Extends
<1>2. CASE op.kind = "append"
  <2> DEFINE r == Result(s, op)
             k == KeyOf[op.output]
  <2>1. op.output \in Output BY <1>2 DEF Op
  <2>2. r = IF SeqsOf(s, k) = {} THEN [s EXCEPT !.events = Append(@, op.output)] ELSE s
    BY <1>2 DEF Result
  <2>3. SeqsOf(r, k) # {}
    <3>1. CASE SeqsOf(s, k) # {} BY <2>2, <3>1
    <3>2. CASE SeqsOf(s, k) = {}
      <4>1. r.events = Append(s.events, op.output) BY <2>2, <3>2 DEF States
      <4>2. s.events \in Seq(Output) BY DEF States
      <4>3. Len(s.events) + 1 \in 1..Len(r.events) /\ r.events[Len(s.events) + 1] = op.output
        BY <2>1, <4>1, <4>2
      <4> QED BY <4>3 DEF SeqsOf
    <3> QED BY <3>1, <3>2
  <2>4. SeqsOf(t, k) # {}
    <3>1. PICK n \in 1..Len(r.events) : KeyOf[r.events[n]] = k BY <2>3 DEF SeqsOf
    <3>2. r \in States BY <1>0
    <3> HIDE DEF r
    <3>3. n \in 1..Len(t.events) /\ t.events[n] = r.events[n]
      BY <3>1, <3>2 DEF Grows, Extends, States, r
    <3> QED BY <3>1, <3>3 DEF SeqsOf
  <2> QED BY <1>2, <2>4 DEF Result
<1>3. CASE op.kind = "acknowledge"
  <2>1. op.through \in Nat BY <1>3 DEF Op
  <2>2. op.through <= Result(s, op).acked BY <1>3, ResultExtends
  <2>3. op.through <= t.acked /\ t.acked \in Nat
    BY <1>0, <2>1, <2>2 DEF Grows, Extends, States
  <2>4. Larger(t.acked, op.through) = t.acked BY <2>1, <2>3 DEF Larger
  <2>5. Result(t, op) = [t EXCEPT !.acked = t.acked] BY <1>3, <2>4 DEF Result
  <2> QED BY <2>5 DEF States
<1>4. CASE op.kind = "record"
  <2>1. Result(s, op).issues BY <1>4 DEF Result, States
  <2>2. t.issues = TRUE BY <2>1 DEF Grows, States
  <2>3. Result(t, op) = [t EXCEPT !.issues = TRUE] BY <1>4 DEF Result
  <2> QED BY <2>2, <2>3 DEF States
<1> QED BY <1>1, <1>2, <1>3, <1>4 DEF Op

-----------------------------------------------------------------------------
(* s has what producers tried (A), what CT committed (D) and the page P. *)

Knows(s, A) == s.issues \/ \A o \in A : \E n \in 1..Len(s.events) : s.events[n] = o

Gave(s, D) ==
    \A d \in D : d.stream = s.stream /\ d.seq \in 1..Len(s.events) /\ s.events[d.seq] = d.output

Shows(s, P) ==
    P # NoPage =>
        /\ P.stream = s.stream
        /\ \A n \in 1..Len(P.entries) :
              P.floor + n \in 1..Len(s.events) /\ s.events[P.floor + n] = P.entries[n]

Has(s, A, D, P) == Knows(s, A) /\ Gave(s, D) /\ Shows(s, P)

LEMMA HasGrows ==
    ASSUME NEW s \in States, NEW t \in States, Grows(s, t), NEW A,
           NEW D \in SUBSET DeliveredType, NEW P \in {NoPage} \cup PageType, Has(s, A, D, P)
    PROVE  Has(t, A, D, P)
<1>1. /\ s.stream = NoStream \/ s.stream = t.stream
      /\ \A n \in 1..Len(s.events) : n \in 1..Len(t.events) /\ t.events[n] = s.events[n]
      /\ s.issues => t.issues
  BY DEF Grows, Extends, States
<1>2. Knows(t, A) BY <1>1 DEF Has, Knows
<1>3. Gave(t, D) BY <1>1 DEF Has, Gave, DeliveredType
<1>4. Shows(t, P) BY <1>1 DEF Has, Shows, PageType
<1> QED BY <1>2, <1>3, <1>4 DEF Has

Replays(T) ==
    /\ Run(T, replay, Len(replay))
    /\ Has(T[Len(replay)], attempted, delivered, page)
    /\ \E k \in 0..Len(replay) : live = T[k]

OpsOf(P) == [k \in 1..Len(P) |-> P[k].op]
StatesOf(B, P) == [k \in 0..Len(P) |-> IF k = 0 THEN B ELSE P[k].state]

Pends(B) ==
    /\ Run(StatesOf(B, pending), OpsOf(pending), Len(pending))
    /\ live = StatesOf(B, pending)[Len(pending)]
    /\ IF behind THEN \E k \in 0..Len(pending) : retained = StatesOf(B, pending)[k]
       ELSE retained = B

SteadyInv ==
    /\ crashes \in Nat /\ foreigns \in Nat
    /\ IF replay = <<>> THEN Has(live, attempted, delivered, page) ELSE \E T : Replays(T)
    /\ \E B : Pends(B)
    /\ get # NoGet => get.before \subseteq attempted
    /\ EmptyPageIsComplete

Steady == MaxCrashes = 0 /\ MaxForeign = 0

LEMMA SteadySteps ==
    ASSUME Steady, SteadyInv
    PROVE  ~Crash /\ \A o \in Output : ~Foreign(o)
BY DEF Steady, SteadyInv, Crash, Foreign

-----------------------------------------------------------------------------
(* What is pending leads from what was retained to what is live. *)

LEMMA StatesOfIs ==
    ASSUME NEW B, NEW P \in Seq(Entry)
    PROVE  /\ StatesOf(B, P)[0] = B
           /\ \A k \in 1..Len(P) : StatesOf(B, P)[k] = P[k].state /\ OpsOf(P)[k] = P[k].op
BY DEF StatesOf, OpsOf

LEMMA RunIs ==
    ASSUME NEW B, NEW P \in Seq(Entry)
    PROVE  Run(StatesOf(B, P), OpsOf(P), Len(P)) <=>
             /\ B \in States /\ Good(B) /\ \A k \in 1..Len(P) : Good(P[k].state)
             /\ \A k \in 1..Len(P) :
                   LET s == IF k = 1 THEN B ELSE P[k - 1].state IN
                   ~Raises(s, P[k].op) /\ P[k].state = Result(s, P[k].op)
<1>1. Len(P) \in Nat /\ \A k \in 1..Len(P) : P[k].op \in Op /\ P[k].state \in States
  <2>1. \A k \in 1..Len(P) : P[k] \in Entry OBVIOUS
  <2> QED BY <2>1 DEF Entry
<1> DEFINE T == StatesOf(B, P)
           ops == OpsOf(P)
<1>2. T[0] = B /\ \A k \in 1..Len(P) : T[k] = P[k].state /\ ops[k] = P[k].op
  BY StatesOfIs
<1>3. T \in [0..Len(P) -> States] <=> B \in States
  <2>1. ASSUME B \in States PROVE T \in [0..Len(P) -> States] BY <1>1, <2>1 DEF StatesOf
  <2>2. ASSUME T \in [0..Len(P) -> States] PROVE B \in States BY <1>1, <1>2, <2>2
  <2> QED BY <2>1, <2>2
<1> DEFINE Before(k) == IF k = 1 THEN B ELSE P[k - 1].state
<1>4. ASSUME NEW k \in 1..Len(P) PROVE T[k - 1] = Before(k)
  <2>1. CASE k = 1 BY <1>2, <2>1
  <2>2. CASE k # 1
    <3>1. k - 1 \in 1..Len(P) BY <1>1, <2>2
    <3> QED BY <1>2, <2>2, <3>1
  <2> QED BY <2>1, <2>2
<1> HIDE DEF T, ops, Before
<1>5. (\A i \in 0..Len(P) : Good(T[i])) <=> Good(B) /\ \A k \in 1..Len(P) : Good(P[k].state)
  <2>1. \A i \in 0..Len(P) : i = 0 \/ i \in 1..Len(P) BY <1>1
  <2>2. 0 \in 0..Len(P) /\ \A k \in 1..Len(P) : k \in 0..Len(P) BY <1>1
  <2> QED BY <1>2, <2>1, <2>2
<1> DEFINE Step(k) == ~Raises(Before(k), P[k].op) /\ P[k].state = Result(Before(k), P[k].op)
           Admits(k) == /\ ops[k] \in Op /\ ~Raises(T[k - 1], ops[k])
                        /\ T[k] = Result(T[k - 1], ops[k])
           Steps == \A k \in 1..Len(P) : Step(k)
           Admitted == \A i \in 1..Len(P) : Admits(i)
<1>6. Admitted <=> Steps
  <2>1. ASSUME NEW k \in 1..Len(P) PROVE Admits(k) <=> Step(k)
    <3>1. ops[k] = P[k].op /\ T[k] = P[k].state /\ P[k].op \in Op /\ T[k - 1] = Before(k)
      BY <1>1, <1>2, <1>4
    <3> QED BY <3>1, Zenon
  <2> HIDE DEF Admits, Step
  <2> QED BY <2>1, Zenon
<1>7. Run(T, ops, Len(P)) <=>
        /\ T \in [0..Len(P) -> States] /\ \A i \in 0..Len(P) : Good(T[i])
        /\ Admitted
  BY Zenon DEF Run
<1> HIDE DEF Admitted
<1>8. Run(T, ops, Len(P)) <=>
        /\ B \in States /\ Good(B) /\ \A k \in 1..Len(P) : Good(P[k].state)
        /\ Steps
  BY <1>3, <1>5, <1>6, <1>7, Zenon
<1> QED BY <1>8, Zenon DEF T, ops, Before

(* The state that P leads to from B. *)
Last(B, P) == IF P = <<>> THEN B ELSE P[Len(P)].state

LEMMA LastIs ==
    ASSUME NEW B, NEW P \in Seq(Entry)
    PROVE  StatesOf(B, P)[Len(P)] = Last(B, P)
<1>1. P = <<>> <=> Len(P) = 0 OBVIOUS
<1>2. P # <<>> => Len(P) \in 1..Len(P) BY <1>1
<1> QED BY <1>1, <1>2, StatesOfIs DEF Last

LEMMA RunAppend ==
    ASSUME NEW B, NEW P \in Seq(Entry), Run(StatesOf(B, P), OpsOf(P), Len(P)),
           NEW e \in Entry, Good(e.state), ~Raises(Last(B, P), e.op),
           e.state = Result(Last(B, P), e.op),
           NEW Q \in Seq(Entry), Len(Q) = Len(P) + 1, Q[Len(Q)] = e,
           \A k \in 1..Len(P) : Q[k] = P[k]
    PROVE  /\ Run(StatesOf(B, Q), OpsOf(Q), Len(Q)) /\ Last(B, Q) = e.state
           /\ \A k \in 0..Len(P) : StatesOf(B, Q)[k] = StatesOf(B, P)[k]
<1>1. /\ Q \in Seq(Entry) /\ Len(Q) = Len(P) + 1 /\ Len(P) \in Nat /\ Q # <<>>
      /\ \A k \in 1..Len(P) : Q[k] = P[k]
      /\ Q[Len(Q)] = e
  OBVIOUS
<1>2. \A k \in 1..Len(Q) : k \in 1..Len(P) \/ k = Len(Q) BY <1>1
<1>3. ASSUME NEW k \in 1..Len(Q)
      PROVE  LET s == IF k = 1 THEN B ELSE Q[k - 1].state IN
             Good(Q[k].state) /\ ~Raises(s, Q[k].op) /\ Q[k].state = Result(s, Q[k].op)
  <2>1. CASE k \in 1..Len(P)
    <3>1. Q[k] = P[k] /\ (k # 1 => Q[k - 1] = P[k - 1]) BY <1>1, <2>1
    <3> QED BY <2>1, <3>1, RunIs
  <2>2. CASE k = Len(Q)
    <3>1. (IF k = 1 THEN B ELSE Q[k - 1].state) = Last(B, P)
      <4>1. P = <<>> <=> Len(P) = 0 OBVIOUS
      <4>2. k - 1 = Len(P) /\ (k # 1 => Q[k - 1] = P[k - 1]) BY <1>1, <2>2
      <4> QED BY <4>1, <4>2 DEF Last
    <3> QED BY <1>1, <2>2, <3>1
  <2> QED BY <1>2, <2>1, <2>2
<1>4. B \in States /\ Good(B) BY RunIs
<1>5. Run(StatesOf(B, Q), OpsOf(Q), Len(Q)) BY <1>1, <1>3, <1>4, RunIs
<1>6. \A k \in 0..Len(P) : StatesOf(B, Q)[k] = StatesOf(B, P)[k]
  <2> SUFFICES ASSUME NEW k \in 0..Len(P) PROVE StatesOf(B, Q)[k] = StatesOf(B, P)[k]
    OBVIOUS
  <2>0. Q \in Seq(Entry) BY <1>1
  <2>1. CASE k = 0
    <3>1. StatesOf(B, P)[0] = B BY StatesOfIs
    <3>2. StatesOf(B, Q)[0] = B BY <2>0, StatesOfIs
    <3> QED BY <2>1, <3>1, <3>2
  <2>2. CASE k \in 1..Len(P)
    <3>1. k \in 1..Len(Q) /\ Q[k] = P[k] BY <1>1, <2>2
    <3>2. StatesOf(B, P)[k] = P[k].state BY <2>2, StatesOfIs
    <3>3. StatesOf(B, Q)[k] = Q[k].state BY <2>0, <3>1, StatesOfIs
    <3> QED BY <3>1, <3>2, <3>3
  <2> QED BY <2>1, <2>2
<1> QED BY <1>1, <1>5, <1>6 DEF Last

LEMMA RunRest ==
    ASSUME NEW B, NEW P \in Seq(Entry), Run(StatesOf(B, P), OpsOf(P), Len(P)),
           NEW k \in 1..Len(P), NEW Q \in Seq(Entry), Len(Q) = Len(P) - k,
           \A n \in 1..Len(Q) : Q[n] = P[n + k]
    PROVE  /\ Run(StatesOf(P[k].state, Q), OpsOf(Q), Len(Q))
           /\ Last(P[k].state, Q) = Last(B, P)
<1>0. Len(P) \in Nat /\ Len(Q) \in Nat /\ (P = <<>> <=> Len(P) = 0) /\ (Q = <<>> <=> Len(Q) = 0)
  OBVIOUS
<1>1. P[k].state \in States /\ Good(P[k].state)
  <2>1. P[k] \in Entry OBVIOUS
  <2> QED BY <2>1, RunIs DEF Entry
<1>2. ASSUME NEW n \in 1..Len(Q)
      PROVE  LET s == IF n = 1 THEN P[k].state ELSE Q[n - 1].state IN
             Good(Q[n].state) /\ ~Raises(s, Q[n].op) /\ Q[n].state = Result(s, Q[n].op)
  <2>1. n + k \in 1..Len(P) /\ n + k # 1 /\ (n + k) - 1 = (n - 1) + k BY <1>0
  <2>2. Q[n] = P[n + k] OBVIOUS
  <2>3. (IF n = 1 THEN P[k].state ELSE Q[n - 1].state) = P[(n + k) - 1].state
    <3>1. CASE n = 1 BY <2>1, <3>1
    <3>2. CASE n # 1
      <4>1. n - 1 \in 1..Len(Q) BY <1>0, <3>2
      <4> QED BY <2>1, <3>2, <4>1
    <3> QED BY <3>1, <3>2
  <2>4. Good(P[n + k].state) BY <2>1, RunIs
  <2>5. LET s == P[(n + k) - 1].state IN
        ~Raises(s, P[n + k].op) /\ P[n + k].state = Result(s, P[n + k].op)
    BY <2>1, RunIs
  <2> QED BY <2>2, <2>3, <2>4, <2>5
<1>3. Run(StatesOf(P[k].state, Q), OpsOf(Q), Len(Q)) BY <1>1, <1>2, RunIs
<1>4. Last(P[k].state, Q) = Last(B, P)
  <2>1. CASE Len(Q) = 0 BY <1>0, <2>1 DEF Last
  <2>2. CASE Len(Q) # 0
    <3>1. Len(Q) \in 1..Len(Q) /\ Len(Q) + k = Len(P) BY <1>0, <2>2
    <3> QED BY <1>0, <2>2, <3>1 DEF Last
  <2> QED BY <2>1, <2>2
<1> QED BY <1>3, <1>4

LEMMA PendsStays ==
    ASSUME Typed, MemoryInv, Steady, SteadyInv, [Next]_vars
    PROVE  \E B : Pends(B)'
<1>p. pending \in Seq(Entry) /\ retained \in States /\ Good(retained)
  BY DEF Typed, MemoryInv
<1>0. PICK B : Pends(B) BY DEF SteadyInv
<1>r. Run(StatesOf(B, pending), OpsOf(pending), Len(pending)) BY <1>0 DEF Pends
<1>l. live = Last(B, pending) BY <1>0, <1>p, LastIs DEF Pends
<1>1. CASE Quiet BY <1>0, <1>1 DEF Quiet, Pends
<1>2. CASE Transacts
  <2>1. PICK op \in Op : Transact(op) BY <1>2 DEF Transacts
  <2>2. UNCHANGED <<retained, behind>> BY <1>2 DEF Transacts
  <2>3. CASE live' = live /\ pending' = pending BY <1>0, <2>2, <2>3 DEF Pends
  <2>4. CASE /\ ~Raises(live, op) /\ live' = Result(live, op)
             /\ pending' = Append(pending, [op |-> op, state |-> live'])
    <3> DEFINE e == [op |-> op, state |-> live']
    <3>1. e \in Entry /\ e.op = op /\ e.state = live' /\ Good(live')
      <4>1. live' \in States /\ Good(live)' BY <2>1, TransactSteps
      <4> QED BY <4>1 DEF Entry, Good, Unacked
    <3>2. pending' = Append(pending, e) BY <2>4
    <3> HIDE DEF e
    <3>3. PICK Q : Q = pending' OBVIOUS
    <3>a. Good(e.state) /\ ~Raises(Last(B, pending), e.op)
          /\ e.state = Result(Last(B, pending), e.op)
      BY <1>l, <2>4, <3>1
    <3>b. /\ Q \in Seq(Entry) /\ Len(Q) = Len(pending) + 1 /\ Q[Len(Q)] = e
          /\ \A k \in 1..Len(pending) : Q[k] = pending[k]
      BY <1>p, <3>1, <3>2, <3>3
    <3>c. /\ Run(StatesOf(B, Q), OpsOf(Q), Len(Q)) /\ Last(B, Q) = e.state
          /\ \A k \in 0..Len(pending) : StatesOf(B, Q)[k] = StatesOf(B, pending)[k]
      BY <1>p, <1>r, <3>1, <3>a, <3>b, RunAppend
    <3>4. /\ Run(StatesOf(B, Q), OpsOf(Q), Len(Q)) /\ Last(B, Q) = live'
          /\ Len(Q) = Len(pending) + 1
          /\ \A k \in 0..Len(pending) : StatesOf(B, Q)[k] = StatesOf(B, pending)[k]
      BY <3>1, <3>b, <3>c
    <3>5. Q \in Seq(Entry) BY <1>p, <3>1, <3>2, <3>3
    <3>6. live' = StatesOf(B, Q)[Len(Q)] BY <3>4, <3>5, LastIs
    <3>7. \A k \in 0..Len(pending) : k \in 0..Len(Q) BY <1>p, <3>4
    <3>8. IF behind' THEN \E k \in 0..Len(Q) : retained' = StatesOf(B, Q)[k] ELSE retained' = B
      BY <1>0, <2>2, <3>4, <3>7 DEF Pends
    <3> QED BY <3>3, <3>4, <3>6, <3>8 DEF Pends
  <2> QED BY <2>1, <2>3, <2>4, TransactSteps
<1>3. CASE Loads
  <2>1. pending' = <<>> /\ live' = retained /\ behind' = FALSE /\ UNCHANGED retained
    BY <1>3 DEF Loads
  <2>2. <<>> \in Seq(Entry) /\ Len(<<>>) = 0 OBVIOUS
  <2>3. PICK Q : Q = pending' OBVIOUS
  <2>4. PICK C : C = retained OBVIOUS
  <2>5. Q \in Seq(Entry) /\ Len(Q) = 0 BY <2>1, <2>2, <2>3
  <2>6. Run(StatesOf(C, Q), OpsOf(Q), Len(Q))
    <3>1. ~\E k \in 1..Len(Q) : TRUE BY <2>5
    <3>2. C \in States /\ Good(C) BY <1>p, <2>4
    <3> QED BY <2>5, <3>1, <3>2, RunIs, Zenon
  <2>7. StatesOf(C, Q)[Len(Q)] = C BY <2>5, StatesOfIs
  <2>8. Pends(C)' BY <2>1, <2>3, <2>4, <2>6, <2>7 DEF Pends
  <2> QED BY <2>8
<1>4. CASE Retain \/ RetainUnconfirmed
  <2>1. PICK k \in 1..Len(pending) :
           /\ retained' = pending[k].state
           /\ UNCHANGED live
           /\ \/ pending' = pending /\ behind' = TRUE
              \/ /\ behind' = FALSE
                 /\ Len(pending') = Len(pending) - k
                 /\ \A n \in 1..Len(pending') : pending'[n] = pending[n + k]
    BY <1>4, RetainSteps
  <2>2. CASE pending' = pending /\ behind' = TRUE
    <3>1. retained' = StatesOf(B, pending)[k] /\ k \in 0..Len(pending)
      BY <1>p, <2>1, StatesOfIs
    <3> QED BY <1>0, <2>1, <2>2, <3>1 DEF Pends
  <2>3. CASE /\ behind' = FALSE /\ Len(pending') = Len(pending) - k
             /\ \A n \in 1..Len(pending') : pending'[n] = pending[n + k]
    <3>1. pending' \in Seq(Entry) BY StepTyped DEF Typed
    <3>2. PICK Q \in Seq(Entry) : Q = pending' BY <3>1
    <3>3. PICK C : C = pending[k].state OBVIOUS
    <3>4. /\ Run(StatesOf(C, Q), OpsOf(Q), Len(Q)) /\ Last(C, Q) = Last(B, pending)
      BY <1>p, <1>r, <2>3, <3>2, <3>3, RunRest
    <3>5. live' = StatesOf(C, Q)[Len(Q)] BY <1>l, <2>1, <3>4, LastIs
    <3> QED BY <2>1, <2>3, <3>2, <3>3, <3>4, <3>5 DEF Pends
  <2> QED BY <2>1, <2>2, <2>3
<1>5. ~\E o \in Output : Foreign(o) BY SteadySteps
<1> QED BY <1>1, <1>2, <1>3, <1>4, <1>5, JournalSteps

-----------------------------------------------------------------------------
(* What memory has, or will have when the rebase is done, is all there is. *)

LEMMA RebaseHas ==
    ASSUME Typed, MemoryInv, SteadyInv, [Next]_vars, Rebase
    PROVE  replay' # <<>> /\ \E T : Replays(T)'
<1>0. pending \in Seq(Entry) /\ replay' \in Seq(Op) /\ Len(replay') \in Nat
  BY StepTyped DEF Typed
<1>1. /\ pending # <<>> /\ replay = <<>> /\ behind /\ live' = retained
      /\ UNCHANGED <<attempted, delivered, page>>
  BY DEF Rebase, Unlocked, emitVars, ctVars
<1>2. replay' = OpsOf(pending) BY DEF Rebase, OpsOf
<1>3. Len(replay') = Len(pending)
  <2>1. DOMAIN replay' = 1..Len(pending) /\ DOMAIN replay' = 1..Len(replay')
    BY <1>0, <1>2 DEF OpsOf
  <2> QED BY <1>0, <2>1
<1>4. PICK B : Pends(B) BY DEF SteadyInv
<1>5. PICK T : T = StatesOf(B, pending) OBVIOUS
<1>6. /\ Run(T, OpsOf(pending), Len(pending)) /\ live = T[Len(pending)]
      /\ \E k \in 0..Len(pending) : retained = T[k]
  BY <1>1, <1>4, <1>5 DEF Pends
<1>7. Has(live, attempted, delivered, page) BY <1>1 DEF SteadyInv
<1>8. Replays(T)' BY <1>1, <1>2, <1>3, <1>6, <1>7 DEF Replays
<1>9. replay' # <<>>
  <2>1. Len(pending) # 0 BY <1>0, <1>1
  <2> QED BY <1>0, <1>3, <2>1
<1> QED BY <1>8, <1>9

LEMMA ReplayHas ==
    ASSUME Typed, MemoryInv, SteadyInv, Replay
    PROVE  IF replay' = <<>> THEN Has(live, attempted, delivered, page)'
           ELSE \E T : Replays(T)'
<1>0. replay \in Seq(Op) /\ live \in States BY DEF Typed
<1> DEFINE N == Len(replay)
<1>1. /\ replay # <<>> /\ replay' = Tail(replay) /\ Transact(Head(replay))
      /\ UNCHANGED <<attempted, delivered, page>>
  BY DEF Replay, emitVars, ctVars
<1>2. /\ N \in Nat \ {0} /\ replay' \in Seq(Op) /\ Len(replay') = N - 1
      /\ Head(replay) = replay[1] /\ replay[1] \in Op
      /\ \A n \in 1..(N - 1) : replay'[n] = replay[n + 1]
  BY <1>0, <1>1
<1>3. PICK T : Replays(T) BY <1>1 DEF SteadyInv
<1>4. PICK k \in 0..N : live = T[k] BY <1>3 DEF Replays
<1>5. /\ Run(T, replay, N) /\ Has(T[N], attempted, delivered, page)
      /\ \A i \in 0..N : T[i] \in States /\ Good(T[i])
  BY <1>3 DEF Replays, Run
<1>6. ~Raises(T[0], replay[1]) /\ T[1] = Result(T[0], replay[1])
  <2>1. 1 \in 1..N /\ 1 - 1 = 0 BY <1>2
  <2> QED BY <1>5, <2>1 DEF Run
<1>7. \E j \in 1..N : live' = T[j]
  <2>1. CASE k = 0
    <3>1. live' = T[1] BY <1>1, <1>2, <1>4, <1>6, <2>1 DEF Transact, Effective
    <3> QED BY <1>2, <3>1
  <2>2. CASE k \in 1..N
    <3>1. Grows(T[1], T[k]) BY <1>2, <1>5, <2>2, RunGrows
    <3>2. ~Raises(T[k], replay[1]) => Result(T[k], replay[1]) = T[k]
      BY <1>2, <1>5, <1>6, <2>2, <3>1, Absorbed
    <3>3. live' = T[k] BY <1>1, <1>2, <1>4, <3>2 DEF Transact, Effective
    <3> QED BY <2>2, <3>3
  <2> QED BY <1>2, <2>1, <2>2
<1>8. PICK j \in 1..N : live' = T[j] BY <1>7
<1>9. CASE N = 1
  <2>1. replay' = <<>> BY <1>2, <1>9
  <2>2. live' = T[N] BY <1>8, <1>9
  <2> QED BY <1>1, <1>5, <2>1, <2>2
<1>10. CASE N # 1
  <2> DEFINE U == [i \in 0..(N - 1) |-> T[i + 1]]
  <2>1. PICK V : V = U OBVIOUS
  <2>2. PICK M \in Nat : M = N BY <1>2
  <2>3. V = [i \in 0..(M - 1) |-> T[i + 1]] BY <2>1, <2>2
  <2> HIDE DEF U
  <2>4. V \in [0..(M - 1) -> States] /\ \A i \in 0..(M - 1) : V[i] = T[i + 1] /\ Good(V[i])
    BY <1>5, <2>2, <2>3
  <2>5. ASSUME NEW i \in 1..(M - 1)
        PROVE  /\ replay'[i] \in Op /\ ~Raises(V[i - 1], replay'[i])
               /\ V[i] = Result(V[i - 1], replay'[i])
    <3>1. i + 1 \in 1..M /\ (i + 1) - 1 = i /\ (i - 1) + 1 = i /\ i - 1 \in 0..(M - 1)
      BY <2>2
    <3>2. V[i] = T[i + 1] /\ V[i - 1] = T[i] /\ replay'[i] = replay[i + 1]
      BY <1>2, <2>2, <2>4, <3>1
    <3> QED BY <1>5, <2>2, <3>1, <3>2 DEF Run
  <2>6. Run(V, replay', M - 1) BY <2>4, <2>5 DEF Run
  <2>7. V[M - 1] = T[M]
    <3>1. M - 1 \in 0..(M - 1) /\ (M - 1) + 1 = M BY <1>2, <2>2
    <3> QED BY <2>4, <3>1
  <2>8. j - 1 \in 0..(M - 1) /\ live' = V[j - 1]
    <3>1. j - 1 \in 0..(M - 1) /\ (j - 1) + 1 = j BY <1>2, <2>2
    <3> QED BY <1>8, <2>4, <3>1
  <2>9. Replays(V)' BY <1>1, <1>2, <1>5, <2>2, <2>6, <2>7, <2>8 DEF Replays
  <2>10. replay' # <<>> BY <1>2, <1>10
  <2> QED BY <2>9, <2>10
<1> QED BY <1>9, <1>10

LEMMA HasStep ==
    ASSUME Typed, MemoryInv, [Next]_vars, NEW s \in States,
           Has(s, attempted, delivered, page), GetCollect => s = live, UNCHANGED attempted
    PROVE  Has(s, attempted', delivered', page')
<1>1. Knows(s, attempted') BY DEF Has
<1>2. Gave(s, delivered')
  <2>1. CASE UNCHANGED delivered BY <2>1 DEF Has
  <2>2. CASE CTCommit
    <3>1. page # NoPage BY <2>2 DEF CTCommit
    <3>2. ASSUME NEW d \in delivered' \ delivered
          PROVE  d.stream = s.stream /\ d.seq \in 1..Len(s.events) /\ s.events[d.seq] = d.output
      <4>1. PICK n \in 1..Len(page.entries) :
               d = [stream |-> page.stream, seq |-> page.floor + n,
                    output |-> page.entries[n], sure |-> page.floor + n <= page.sure]
        BY <2>2, CommitSteps
      <4>2. d.stream = page.stream /\ d.seq = page.floor + n /\ d.output = page.entries[n]
        BY <4>1
      <4> QED BY <3>1, <4>2 DEF Has, Shows
    <3> QED BY <3>2 DEF Has, Gave
  <2> QED BY <2>1, <2>2, Writes
<1>3. Shows(s, page')
  <2>1. CASE UNCHANGED page BY <2>1 DEF Has
  <2>2. CASE PageLost \/ CTCommit BY <2>2 DEF PageLost, CTCommit, Shows
  <2>3. CASE GetCollect /\ page' # page
    <3>1. /\ page'.stream = live.stream /\ page'.floor = Floor
          /\ Floor + Len(page'.entries) <= Len(live.events) \/ page'.entries = <<>>
          /\ \A n \in 1..Len(page'.entries) : page'.entries[n] = live.events[Floor + n]
          /\ page'.entries \in Seq(Output)
      BY <2>3, PageHolds DEF PageType
    <3>2. Floor \in Nat
      <4>1. live.acked \in Nat BY DEF Typed, States
      <4> QED BY <2>3, <4>1, CollectSteps
    <3>3. Len(live.events) \in Nat BY DEF Typed, States
    <3>4. \A n \in 1..Len(page'.entries) : Floor + n \in 1..Len(live.events)
      BY <3>1, <3>2, <3>3
    <3> QED BY <2>3, <3>1, <3>4 DEF Shows
  <2> QED BY <2>1, <2>2, <2>3, Writes
<1> QED BY <1>1, <1>2, <1>3 DEF Has

LEMMA EmitHas ==
    ASSUME Typed, MemoryInv, NEW o \in Output, Emit(o), Has(live, attempted, delivered, page)
    PROVE  Has(live, attempted, delivered, page)'
<1>1. /\ attempted' = attempted \cup {o} /\ UNCHANGED <<delivered, page>>
      /\ live.stream # NoStream
      /\ \/ ~Raises(live, Envelope(o)) /\ Transact(Envelope(o))
         \/ Raises(live, Envelope(o)) /\ Transact(RecordIssue)
  BY DEF Emit, ctVars, Ready
<1>2. /\ live \in States /\ live.events \in Seq(Output) /\ Good(live)
      /\ Envelope(o) \in Op /\ Envelope(o).kind = "append" /\ Envelope(o).output = o
      /\ RecordIssue \in Op /\ RecordIssue.kind = "record"
  BY OpsTyped DEF Typed, MemoryInv, States, Envelope, RecordIssue
<1>3. PICK s : s = live OBVIOUS
<1>4. PICK t : t = live' OBVIOUS
<1>5. CASE ~Raises(live, Envelope(o)) /\ Transact(Envelope(o))
  <2>1. t = Result(s, Envelope(o)) BY <1>3, <1>4, <1>5 DEF Transact, Effective
  <2>2. t \in States /\ Grows(s, t) BY <1>2, <1>3, <1>5, <2>1, ResultExtends, ResultGrows
  <2>3. Has(t, attempted, delivered, page) BY <1>2, <1>3, <2>2, HasGrows DEF Typed
  <2>4. \E n \in 1..Len(t.events) : t.events[n] = o
    <3>1. t = IF SeqsOf(s, KeyOf[o]) = {} THEN [s EXCEPT !.events = Append(@, o)] ELSE s
      BY <1>2, <2>1 DEF Result
    <3>2. CASE SeqsOf(s, KeyOf[o]) = {}
      <4>1. t.events = Append(s.events, o) BY <1>2, <1>3, <3>1, <3>2 DEF States
      <4>2. /\ Len(s.events) + 1 \in 1..Len(t.events)
            /\ t.events[Len(s.events) + 1] = o
        BY <1>2, <1>3, <4>1
      <4> QED BY <4>2
    <3>3. CASE SeqsOf(s, KeyOf[o]) # {}
      <4>1. t = s BY <3>1, <3>3
      <4>2. ~Contradicts(s, o) BY <1>2, <1>3, <1>5 DEF Raises
      <4> QED BY <3>3, <4>1, <4>2 DEF Contradicts, SeqsOf
    <3> QED BY <3>2, <3>3
  <2>5. Knows(t, attempted') BY <1>1, <2>3, <2>4 DEF Has, Knows
  <2> QED BY <1>1, <1>4, <2>3, <2>5 DEF Has
<1>6. CASE Raises(live, Envelope(o)) /\ Transact(RecordIssue)
  <2>1. ~Raises(s, RecordIssue) BY <1>1, <1>2, <1>3 DEF Raises
  <2>2. t = Result(s, RecordIssue) BY <1>3, <1>4, <1>6, <2>1 DEF Transact, Effective
  <2>3. t \in States /\ Grows(s, t) BY <1>2, <1>3, <2>1, <2>2, ResultExtends, ResultGrows
  <2>4. Has(t, attempted, delivered, page) BY <1>2, <1>3, <2>3, HasGrows DEF Typed
  <2>5. t.issues BY <1>2, <1>3, <2>2 DEF Result, States
  <2>6. Knows(t, attempted') BY <2>5 DEF Knows
  <2> QED BY <1>1, <1>4, <2>4, <2>6 DEF Has
<1> QED BY <1>1, <1>5, <1>6

(* While a rebase replays, no other step touches memory. *)
LEMMA LockedSteps ==
    ASSUME Typed, [Next]_vars, replay # <<>>, ~Replay, ~Crash, \A o \in Output : ~Foreign(o)
    PROVE  UNCHANGED <<live, attempted, replay>> /\ ~GetCollect
<1> USE DEF journalVars, emitVars, Unlocked, Ready
<1>1. CASE InitializeStream BY <1>1 DEF InitializeStream
<1>2. ASSUME NEW o \in Output, Emit(o) PROVE FALSE BY <1>2 DEF Emit
<1>3. CASE Flusher BY <1>3 DEF Flusher, Retain, Rebase
<1>4. CASE RetainUnconfirmed BY <1>4 DEF RetainUnconfirmed
<1>5. ~GetCollect BY DEF GetCollect
<1>6. CASE Collection BY <1>5, <1>6 DEF Collection, GetBegin, GetFlush, CTCommit
<1>7. CASE GetFails \/ PageLost BY <1>5, <1>7 DEF GetFails, PageLost
<1>8. CASE AckBegin \/ AckApply \/ AckAnswer \/ AckFails
  BY <1>5, <1>8 DEF AckBegin, AckApply, AckAnswer, AckFails
<1>9. CASE UNCHANGED vars BY <1>5, <1>9 DEF vars
<1> QED BY <1>1, <1>2, <1>3, <1>4, <1>5, <1>6, <1>7, <1>8, <1>9 DEF Next

(* Memory only grows, but for a rebase. *)
LEMMA LiveGrows ==
    ASSUME Typed, MemoryInv, [Next]_vars, ~Rebase, ~Crash, \A o \in Output : ~Foreign(o)
    PROVE  live' \in States /\ Grows(live, live')
<1>0. live \in States /\ Good(live) BY DEF Typed, MemoryInv
<1>1. CASE live' = live BY <1>0, <1>1, ExtendsSelf DEF Grows
<1>2. CASE Transacts
  <2>1. PICK op \in Op : Transact(op) BY <1>2 DEF Transacts
  <2>2. /\ live' \in States
        /\ live' = live \/ (~Raises(live, op) /\ live' = Result(live, op))
    BY <2>1, TransactSteps
  <2> QED BY <1>0, <1>1, <2>2, ResultGrows
<1>3. CASE Quiet \/ Retain \/ RetainUnconfirmed
  BY <1>1, <1>3 DEF Quiet, Retain, RetainUnconfirmed
<1> QED BY <1>2, <1>3, JournalSteps DEF Loads

LEMMA HasStays ==
    ASSUME Typed, MemoryInv, Steady, SteadyInv, [Next]_vars
    PROVE  IF replay' = <<>> THEN Has(live, attempted, delivered, page)'
           ELSE \E T : Replays(T)'
<1>0. ~Crash /\ \A o \in Output : ~Foreign(o) BY SteadySteps
<1>1. CASE Rebase BY <1>1, RebaseHas
<1>2. CASE Replay BY <1>2, ReplayHas
<1>3. ASSUME NEW o \in Output, Emit(o)
      PROVE  replay' = <<>> /\ Has(live, attempted, delivered, page)'
  <2>1. replay = <<>> /\ replay' = replay BY <1>3 DEF Emit, Ready, Unlocked
  <2> QED BY <1>3, <2>1, EmitHas DEF SteadyInv
<1>4. CASE ~Rebase /\ ~Replay /\ replay = <<>> /\ \A o \in Output : ~Emit(o)
  <2>1. UNCHANGED <<replay, attempted>> BY <1>0, <1>4, Writes
  <2>2. PICK s : s = live OBVIOUS
  <2>3. PICK t : t = live' OBVIOUS
  <2>4. s \in States /\ t \in States /\ Grows(s, t)
    BY <1>0, <1>4, <2>2, <2>3, LiveGrows DEF Typed
  <2>5. Has(s, attempted', delivered', page')
    BY <1>4, <2>1, <2>2, <2>4, HasStep DEF SteadyInv
  <2>6. delivered' \in SUBSET DeliveredType /\ page' \in {NoPage} \cup PageType
    BY StepTyped DEF Typed
  <2>7. Has(t, attempted', delivered', page') BY <2>4, <2>5, <2>6, HasGrows
  <2> QED BY <1>4, <2>1, <2>3, <2>7
<1>5. CASE ~Rebase /\ ~Replay /\ replay # <<>>
  <2>1. UNCHANGED <<live, attempted, replay>> /\ ~GetCollect BY <1>0, <1>5, LockedSteps
  <2>2. PICK T : Replays(T) BY <1>5 DEF SteadyInv
  <2>3. PICK N \in Nat : N = Len(replay) BY DEF Typed
  <2>4. T[N] \in States /\ Has(T[N], attempted, delivered, page)
    BY <2>2, <2>3 DEF Replays, Run
  <2>5. Has(T[N], attempted', delivered', page') BY <2>1, <2>4, HasStep
  <2>6. Replays(T)' BY <2>1, <2>2, <2>3, <2>5 DEF Replays
  <2> QED BY <1>5, <2>1, <2>6
<1> QED BY <1>1, <1>2, <1>3, <1>4, <1>5

-----------------------------------------------------------------------------
(* The page. *)

LEMMA BeforeStays ==
    ASSUME Typed, MemoryInv, SteadyInv, [Next]_vars, get' # NoGet
    PROVE  get'.before \subseteq attempted'
<1>1. attempted \subseteq attempted'
  <2>1. ASSUME NEW o \in Output, Emit(o) PROVE attempted \subseteq attempted' BY <2>1 DEF Emit
  <2> QED BY <2>1, Writes
<1>2. CASE UNCHANGED get BY <1>1, <1>2 DEF SteadyInv
<1>3. CASE GetBegin BY <1>1, <1>3 DEF GetBegin
<1>4. CASE GetFlush
  <2>1. get # NoGet /\ get \in GetType BY <1>4 DEF GetFlush, NoGet, Typed
  <2>2. get'.before = get.before BY <1>4, <2>1 DEF GetFlush, GetType
  <2> QED BY <1>1, <2>1, <2>2 DEF SteadyInv
<1>5. CASE GetFails \/ GetCollect \/ Crash BY <1>5 DEF GetFails, GetCollect, Crash
<1> QED BY <1>2, <1>3, <1>4, <1>5, Writes

LEMMA AnsweredComplete ==
    ASSUME Typed, MemoryInv, CoverInv, SteadyInv, [Next]_vars, GetCollect, page' # page,
           page'.entries = <<>>
    PROVE  page'.before \subseteq Delivered'
<1> DEFINE entries == SubSeq(live.events, Floor + 1, PageEnd)
<1>0. /\ live \in States /\ live.events \in Seq(Output) /\ live.acked \in Nat
      /\ Len(live.events) \in Nat
  BY DEF Typed, States
<1>1. /\ get \in GetType /\ After \in Nat /\ Floor \in Nat /\ After <= Floor
      /\ replay = <<>> /\ UNCHANGED <<delivered, attempted>>
  BY <1>0, CollectSteps DEF GetCollect, Ready, Unlocked, emitVars
<1>2. /\ page' = [stream |-> live.stream, floor |-> Floor, entries |-> entries,
                  high |-> IF entries = <<>> THEN After ELSE PageEnd,
                  sure |-> get.sure, before |-> get.before]
      /\ ~Held(entries)
  BY DEF GetCollect, Answered
<1> HIDE DEF entries
<1>3. entries = <<>> /\ page'.before = get.before /\ ~live.issues BY <1>2 DEF Held
<1>4. Len(live.events) <= Floor
  <2>1. PageEnd \in Nat /\ (PageEnd = Len(live.events) \/ PageEnd = Floor + PageLimit)
    BY <1>0, <1>1, DeliveryAssumption DEF PageEnd, Smaller
  <2>2. PageEnd <= Len(live.events) BY <1>0, <1>1, DeliveryAssumption DEF PageEnd, Smaller
  <2>3. ASSUME Floor + 1 <= PageEnd PROVE FALSE
    <3>1. \A n \in (Floor + 1)..PageEnd : live.events[n] \in Output
      BY <1>0, <1>1, <2>1, <2>2, ElementOfSeq
    <3>2. Len(entries) = IF Floor + 1 <= PageEnd THEN PageEnd - (Floor + 1) + 1 ELSE 0
      BY <1>1, <2>1, <3>1, SubSeqProperties DEF entries
    <3> QED BY <1>1, <1>3, <2>1, <2>3, <3>2
  <2> QED BY <1>0, <1>1, <2>1, <2>3, DeliveryAssumption
<1>5. CoveredBy(delivered', live.stream, Floor)
  <2>1. page' \in PageType /\ page'.stream = live.stream /\ page'.floor = Floor
    BY PageHolds
  <2>2. page' # NoPage BY <2>1 DEF PageType, NoPage
  <2> QED BY <2>1, <2>2, PageCover
<1>6. Has(live, attempted, delivered, page) BY <1>1 DEF SteadyInv
<1>7. get # NoGet BY <1>1 DEF GetType, NoGet
<1> SUFFICES ASSUME NEW o \in get.before PROVE o \in Delivered'
  BY <1>3
<1>8. o \in attempted BY <1>7 DEF SteadyInv
<1>9. PICK n \in 1..Len(live.events) : live.events[n] = o BY <1>3, <1>6, <1>8 DEF Has, Knows
<1>10. n \in 1..Floor BY <1>0, <1>1, <1>4
<1>11. PICK d \in delivered : d.stream = live.stream /\ d.seq = n
  BY <1>1, <1>5, <1>10 DEF CoveredBy
<1>12. d.output = o BY <1>6, <1>9, <1>11 DEF Has, Gave
<1> QED BY <1>1, <1>11, <1>12 DEF Delivered

LEMMA SteadyStays ==
    ASSUME Typed, MemoryInv, CoverInv, Steady, SteadyInv, [Next]_vars
    PROVE  SteadyInv'
<1>0. ~Crash /\ \A o \in Output : ~Foreign(o) BY SteadySteps
<1>1. crashes' \in Nat /\ foreigns' \in Nat
  <2> USE DEF SteadyInv
  <2>1. CASE InitializeStream BY <2>1 DEF InitializeStream
  <2>2. ASSUME NEW o \in Output, Emit(o) PROVE crashes' \in Nat /\ foreigns' \in Nat
    BY <2>2 DEF Emit
  <2>3. CASE Flusher \/ RetainUnconfirmed
    BY <2>3 DEF Flusher, Retain, Rebase, Replay, RetainUnconfirmed
  <2>4. CASE Collection \/ GetFails \/ PageLost
    BY <2>4 DEF Collection, GetBegin, GetFlush, GetCollect, CTCommit, GetFails, PageLost
  <2>5. CASE AckBegin \/ AckApply \/ AckAnswer \/ AckFails
    BY <2>5 DEF AckBegin, AckApply, AckAnswer, AckFails
  <2>6. CASE UNCHANGED vars BY <2>6 DEF vars
  <2> QED BY <1>0, <2>1, <2>2, <2>3, <2>4, <2>5, <2>6 DEF Next
<1>2. EmptyPageIsComplete'
  <2>1. Delivered \subseteq Delivered' BY DeliveredGrows DEF Delivered
  <2>2. CASE UNCHANGED page BY <2>1, <2>2 DEF SteadyInv, EmptyPageIsComplete
  <2>3. CASE PageLost \/ CTCommit BY <2>3 DEF PageLost, CTCommit, EmptyPageIsComplete
  <2>4. CASE GetCollect /\ page' # page BY <2>4, AnsweredComplete DEF EmptyPageIsComplete
  <2> QED BY <2>2, <2>3, <2>4, Writes
<1> QED BY <1>1, <1>2, PendsStays, HasStays, BeforeStays DEF SteadyInv

LEMMA InitSteady == Init => SteadyInv
<1> SUFFICES ASSUME Init PROVE SteadyInv OBVIOUS
<1>1. /\ replay = <<>> /\ pending = <<>> /\ live = NoState /\ retained = NoState
      /\ page = NoPage /\ get = NoGet /\ attempted = {} /\ delivered = {}
      /\ crashes = 0 /\ foreigns = 0 /\ behind = FALSE
  BY DEF Init
<1>2. Has(NoState, {}, {}, NoPage) BY DEF Has, Knows, Gave, Shows
<1>3. PICK Q : Q = <<>> OBVIOUS
<1>4. Q \in Seq(Entry) /\ Len(Q) = 0 /\ ~\E k \in 1..Len(Q) : TRUE BY <1>3
<1>5. Run(StatesOf(NoState, Q), OpsOf(Q), Len(Q)) BY <1>4, InitialState, RunIs, Zenon
<1>6. StatesOf(NoState, Q)[Len(Q)] = NoState BY <1>4, StatesOfIs
<1>7. Pends(NoState) BY <1>1, <1>3, <1>5, <1>6 DEF Pends
<1> QED BY <1>1, <1>2, <1>7 DEF SteadyInv, EmptyPageIsComplete

(* While one process runs, which does not die, an empty page tells CT the  *)
(* truth: it has committed every output that a producer tried to emit      *)
(* before it asked, through lost pages, unconfirmed creates and the        *)
(* rebases that follow them; what was refused answers 503 instead.         *)
THEOREM EmptyPagesAreComplete ==
    ASSUME MaxCrashes = 0, MaxForeign = 0
    PROVE  Spec => []EmptyPageIsComplete
<1>1. Steady BY DEF Steady
<1>2. Init => SteadyInv BY InitSteady
<1>3. (IInv /\ SteadyInv) /\ [Next]_vars => SteadyInv'
  BY <1>1, SteadyStays DEF IInv
<1>4. SteadyInv => EmptyPageIsComplete BY DEF SteadyInv
<1> QED BY <1>2, <1>3, <1>4, DeliveryInvariant, PTL DEF Spec
=============================================================================
