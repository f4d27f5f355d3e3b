------------------------------ MODULE Closeout ------------------------------
(***************************************************************************)
(* Sealed closeout of a workshop's capture: the admission guard            *)
(* (server/closeout_guard.py), the manager that Control Tower drives by    *)
(* repeated requests against any container (server/closeout.py) and the    *)
(* final outputs it has emitted (server/closeout_outputs.py).              *)
(*                                                                         *)
(* The journal is taken at its interface (CaptureJournal models it).  What *)
(* writers and the finalizer do is accepted in memory and retained by a    *)
(* later flush, and every mutation is authorized against the state it is   *)
(* applied to, also when a flush replays it over what another container    *)
(* retained.  The manager's own steps are durable: each is one operation   *)
(* over the newest retained state, taken when nothing is pending.          *)
(*                                                                         *)
(* Content is the set of outputs.  One closeout request is modelled; a     *)
(* different one is refused.  Deadlines are timers, counted down together: *)
(* lease for the claim that is retained, drainLeft for the drain.          *)
(***************************************************************************)
EXTENDS Integers, Sequences, FiniteSets, SequencesExt

CONSTANTS
    Proc,           \* containers of the unit
    Writer,         \* admitted producers: requests, sessions, detached workers
    Emission,       \* the final outputs one closeout emits
    Observation,    \* what preparing them may observe
    Claim,          \* claim ids, drawn afresh for each claim
    NoProc, NoClaim, NoObservation, NoManifest,
    Lease,          \* _FINALIZER_LEASE_SECONDS
    DrainTimeout,   \* drain_timeout_seconds
    Prompt,         \* a live finalizer ends or renews within its lease
    MaxCrashes,     \* bound: containers that die
    MaxFailures     \* bound: storage calls that fail

ASSUME CloseoutAssumption ==
    /\ NoProc \notin Proc /\ NoClaim \notin Claim
    /\ NoObservation \notin Observation
    /\ Lease \in Nat \ {0} /\ DrainTimeout \in Nat \ {0}
    /\ Prompt \in BOOLEAN
    /\ MaxCrashes \in Nat /\ MaxFailures \in Nat

VARIABLES
    retained,       \* the state storage holds
    live,           \* live[p]: the state in p's memory
    pending,        \* pending[p]: mutations accepted but not retained
    behind,         \* behind[p]: storage holds operations p has not loaded
    adv,            \* adv[p]: where p's advance stands
    lease,          \* time left of the retained claim
    drainLeft,      \* time left to drain
    writer,         \* writer[w]: where w stands, and the container it runs in
    answered,       \* ghost: outputs whose producer was told they are accepted
    lost,           \* ghost: mutations pending in a container that died
    crashes, failures   \* uses of the bounds

journalVars == <<retained, live, pending, behind>>
timerVars   == <<lease, drainLeft>>
boundVars   == <<crashes, failures>>
vars == <<journalVars, adv, timerVars, writer, answered, lost, boundVars>>

-----------------------------------------------------------------------------
(* The retained state, and what may change it. *)

Initial ==
    [phase |-> "OPEN", writers |-> {}, failed |-> {}, claim |-> NoClaim,
     prepared |-> NoObservation, outputs |-> {}, complete |-> FALSE,
     manifest |-> NoManifest, acked |-> FALSE]

WriterOutput(w)   == <<"writer", w>>
FinalOutput(e, v) == <<"final", e, v>>

Reserve(w)     == [kind |-> "reserve", writer |-> w]
Output(w)      == [kind |-> "output", writer |-> w]
Finish(w, bad) == [kind |-> "finish", writer |-> w, failed |-> bad]
Prepare(c, v)  == [kind |-> "prepare", claim |-> c, observed |-> v]
Final(c, e, v) == [kind |-> "final", claim |-> c, emission |-> e, observed |-> v]
Acknowledge    == [kind |-> "acknowledge"]

Emitted(s, e) == \E v \in Observation : FinalOutput(e, v) \in s.outputs

Result(s, op) ==
    CASE op.kind = "reserve" -> [s EXCEPT !.writers = @ \cup {op.writer}]
      [] op.kind = "output"  -> [s EXCEPT !.outputs = @ \cup {WriterOutput(op.writer)}]
      [] op.kind = "finish"  ->
            [s EXCEPT !.writers = @ \ {op.writer},
                      !.failed = IF op.failed THEN @ \cup {op.writer} ELSE @]
      [] op.kind = "prepare" ->
            [s EXCEPT !.prepared = IF @ = NoObservation THEN op.observed ELSE @]
      [] op.kind = "final" ->
            [s EXCEPT !.outputs = IF Emitted(s, op.emission) THEN @
                                  ELSE @ \cup {FinalOutput(op.emission, op.observed)}]
      [] op.kind = "acknowledge" -> [s EXCEPT !.acked = TRUE]

Closed(s) == s.phase \in {"CLOSING", "INCOMPLETE"}

(* authorize_mutation.  In OPEN content is free; later it takes a reserved *)
(* writer or the holder of a live claim.                                   *)

MayProduce(s, w) == s.phase = "OPEN" \/ (Closed(s) /\ w \in s.writers)

(* Mutant of MayFinalize: any finalizer, also one whose claim is taken. *)
MayFinalizeUnclaimed(s, c) == s.phase # "SEALED"

MayFinalize(s, c) ==
    \/ s.phase = "OPEN"
    \/ Closed(s) /\ s.claim = c /\ retained.claim = c /\ lease > 0

(* With the mutators' own refusals.  What changes nothing always passes,   *)
(* and so do acknowledgements.                                             *)
Admits(s, op) ==
    CASE op.kind = "reserve" -> s.phase = "OPEN"
      [] op.kind = "finish"  -> s.phase # "SEALED" /\ op.writer \in s.writers
      [] op.kind = "output"  -> MayProduce(s, op.writer)
      [] op.kind \in {"prepare", "final"} ->
            /\ op.kind = "final" => s.prepared # NoObservation
            /\ Result(s, op) = s \/ MayFinalize(s, op.claim)
      [] op.kind = "acknowledge" -> TRUE

Effective(s, op) == Admits(s, op) /\ Result(s, op) # s

-----------------------------------------------------------------------------
(* The journal. *)

(* transaction(): accepted in memory, or refused. *)
Transact(p, op) ==
    IF Effective(live[p], op)
    THEN /\ live' = [live EXCEPT ![p] = Result(@, op)]
         /\ pending' = [pending EXCEPT ![p] = Append(@, op)]
    ELSE UNCHANGED <<live, pending>>

(* Mutant of Replayed: what was accepted once is not authorized again. *)
ReplayedUnchecked(s, ops) == FoldLeft(Result, s, ops)

(* A rebase replays what is pending and drops what is refused. *)
Applied(s, op) == IF Effective(s, op) THEN Result(s, op) ELSE s

Replayed(s, ops) ==
    LET after[n \in 0..Len(ops)] == IF n = 0 THEN s ELSE Applied(after[n - 1], ops[n])
    IN after[Len(ops)]

Retains(p, s) ==
    /\ retained' = s
    /\ live' = [live EXCEPT ![p] = s]
    /\ behind' = IF s = retained THEN [behind EXCEPT ![p] = FALSE]
                 ELSE [q \in Proc |-> q # p]

(* What p's flush retains. *)
Flushed(p) == IF behind[p] THEN Replayed(retained, pending[p]) ELSE live[p]

Flush(p) ==
    /\ pending[p] # <<>>
    /\ Retains(p, Flushed(p))
    /\ pending' = [pending EXCEPT ![p] = <<>>]
    /\ UNCHANGED <<adv, timerVars, writer, answered, lost, boundVars>>

Fails == failures < MaxFailures /\ failures' = failures + 1

(* The flush landed, but its process cannot know. *)
FlushUnconfirmed(p) ==
    /\ pending[p] # <<>>
    /\ Fails
    /\ retained' = Flushed(p)
    /\ behind' = [q \in Proc |-> TRUE]
    /\ UNCHANGED <<live, pending, adv, timerVars, writer, answered, lost, crashes>>

(* Mutant of Durably: what is pending is overwritten. *)
DurablyOverPending(p, s) ==
    /\ Retains(p, s)
    /\ pending' = [pending EXCEPT ![p] = <<>>]

(* A durable transaction of p, which turns the retained state into s. *)
Durably(p, s) ==
    /\ pending[p] = <<>>
    /\ Retains(p, s)
    /\ UNCHANGED pending

-----------------------------------------------------------------------------
(* Writers: a ticket, some output under it, and its end. *)

Reserved(p, w) ==
    /\ writer[w].at = "new"
    /\ Admits(live[p], Reserve(w))
    /\ Transact(p, Reserve(w))
    /\ writer' = [writer EXCEPT ![w] = [at |-> "working", host |-> p]]
    /\ UNCHANGED <<retained, behind, adv, timerVars, answered, lost, boundVars>>

Produce(p, w) ==
    /\ writer[w] = [at |-> "working", host |-> p]
    /\ Admits(live[p], Output(w))
    /\ Transact(p, Output(w))
    /\ answered' = answered \cup {WriterOutput(w)}
    /\ UNCHANGED <<retained, behind, adv, timerVars, writer, lost, boundVars>>

(* When its admission has disappeared the ticket cannot be finished. *)
FinishWriter(p, w) ==
    /\ writer[w] = [at |-> "working", host |-> p]
    /\ \E bad \in BOOLEAN :
          /\ Transact(p, Finish(w, bad))
          /\ writer' = [writer EXCEPT ![w].at =
                IF Admits(live[p], Finish(w, bad)) THEN "finished" ELSE "dropped"]
    /\ UNCHANGED <<retained, behind, adv, timerVars, answered, lost, boundVars>>

(* Control Tower releases delivered events, in any phase. *)
Ack(p) ==
    /\ live[p].outputs # {}
    /\ Effective(live[p], Acknowledge)
    /\ Transact(p, Acknowledge)
    /\ UNCHANGED <<retained, behind, adv, timerVars, writer, answered, lost, boundVars>>

-----------------------------------------------------------------------------
(* begin(): the durable barrier.  Repeating the request changes nothing.   *)

(* Mutant of Begun: a repeated request starts the closeout over. *)
BegunAgain(s) == [s EXCEPT !.phase = "CLOSING"]

Begun(s) == IF s.phase = "OPEN" THEN [s EXCEPT !.phase = "CLOSING"] ELSE s

Begin(p) ==
    /\ Durably(p, Begun(retained))
    /\ drainLeft' = IF retained.phase = "OPEN" THEN DrainTimeout ELSE drainLeft
    /\ UNCHANGED <<adv, lease, writer, answered, lost, boundVars>>

-----------------------------------------------------------------------------
(* advance(): one per container at a time (_lock). *)

Idle == [stage |-> "none", drained |-> FALSE, clear |-> FALSE, claim |-> NoClaim,
         result |-> FALSE, audited |-> Initial]

At(p, stage) == adv[p].stage = stage
To(p, stage) == adv' = [adv EXCEPT ![p].stage = stage]
End(p)       == adv' = [adv EXCEPT ![p] = Idle]
Quit(p)      == IF adv[p].claim = NoClaim THEN End(p) ELSE To(p, "release")

AdvanceBegin(p) ==
    /\ At(p, "none")
    /\ Closed(live[p])
    /\ To(p, IF live[p].phase = "INCOMPLETE" THEN "resume" ELSE "drain")
    /\ UNCHANGED <<journalVars, timerVars, writer, answered, lost, boundVars>>

Resumed(s) ==
    IF s.phase = "INCOMPLETE" THEN [s EXCEPT !.phase = "CLOSING", !.manifest = NoManifest]
    ELSE s

Resume(p) ==
    /\ At(p, "resume")
    /\ Durably(p, Resumed(retained))
    /\ To(p, "drain")
    /\ UNCHANGED <<timerVars, writer, answered, lost, boundVars>>

(* Local writers without a ticket stop, or cannot be verified in time; the *)
(* tickets are read from memory.                                           *)
Drain(p) ==
    /\ At(p, "drain")
    /\ \E drained \in BOOLEAN :
          adv' = [adv EXCEPT ![p] = [Idle EXCEPT !.stage = "record", !.drained = drained,
                                       !.clear = drained /\ live[p].writers = {}]]
    /\ UNCHANGED <<journalVars, timerVars, writer, answered, lost, boundVars>>

Recorded(s, drained) ==
    IF s.phase = "CLOSING" /\ (s.writers # {} \/ ~drained) /\ drainLeft = 0
    THEN [s EXCEPT !.phase = "INCOMPLETE"] ELSE s

(* The receipt is recorded.  A clear one is followed by a second drain,    *)
(* which a racing writer may turn into another receipt, and no more.       *)
RecordDrain(p) ==
    /\ At(p, "record")
    /\ Durably(p, Recorded(retained, adv[p].drained))
    /\ IF adv[p].clear
       THEN \/ To(p, "claim")
            \/ adv' = [adv EXCEPT ![p] = [Idle EXCEPT !.stage = "record"]]
       ELSE End(p)
    /\ UNCHANGED <<timerVars, writer, answered, lost, boundVars>>

(* Mutant of Claimable: an expired claim is respected for ever. *)
ClaimableOnce(s) == s.phase = "CLOSING" /\ s.writers = {} /\ s.claim = NoClaim

Claimable(s) ==
    s.phase = "CLOSING" /\ s.writers = {} /\ (s.claim = NoClaim \/ lease = 0)

Unused(c) ==
    /\ retained.claim # c
    /\ \A p \in Proc : /\ live[p].claim # c /\ adv[p].claim # c
                       /\ \A k \in 1..Len(pending[p]) :
                             pending[p][k].kind \in {"prepare", "final"} => pending[p][k].claim # c

TakeClaim(p) ==
    /\ At(p, "claim")
    /\ \/ /\ Claimable(retained)
          /\ \E c \in Claim :
                /\ Unused(c)
                /\ Durably(p, [retained EXCEPT !.claim = c])
                /\ adv' = [adv EXCEPT ![p] = [Idle EXCEPT !.stage = "finalize", !.claim = c]]
          /\ lease' = Lease
       \/ /\ ~Claimable(retained)
          /\ Durably(p, retained)
          /\ End(p)
          /\ UNCHANGED lease
    /\ UNCHANGED <<drainLeft, writer, answered, lost, boundVars>>

-----------------------------------------------------------------------------
(* finalize(): prepare once, then emit what was prepared.  A refused       *)
(* transaction raises.                                                     *)

(* What could not be observed leaves the result incomplete. *)
PrepareFails(p) ==
    /\ At(p, "finalize") /\ live[p].prepared = NoObservation
    /\ To(p, "audit")
    /\ UNCHANGED <<journalVars, timerVars, writer, answered, lost, boundVars>>

PrepareFinal(p) ==
    /\ At(p, "finalize") /\ live[p].prepared = NoObservation
    /\ \E v \in Observation :
          LET op == Prepare(adv[p].claim, v) IN
          /\ Transact(p, op)
          /\ IF Admits(live[p], op) THEN UNCHANGED adv ELSE Quit(p)
    /\ UNCHANGED <<retained, behind, timerVars, writer, answered, lost, boundVars>>

EmitFinal(p, e) ==
    LET op == Final(adv[p].claim, e, live[p].prepared) IN
    /\ At(p, "finalize") /\ live[p].prepared # NoObservation
    /\ ~Emitted(live[p], e)
    /\ Transact(p, op)
    /\ IF Admits(live[p], op)
       THEN answered' = answered \cup {FinalOutput(e, live[p].prepared)} /\ UNCHANGED adv
       ELSE UNCHANGED answered /\ Quit(p)
    /\ UNCHANGED <<retained, behind, timerVars, writer, lost, boundVars>>

FinalizeDone(p) ==
    /\ At(p, "finalize") /\ live[p].prepared # NoObservation
    /\ \A e \in Emission : Emitted(live[p], e)
    /\ adv' = [adv EXCEPT ![p].stage = "audit", ![p].result = TRUE]
    /\ UNCHANGED <<journalVars, timerVars, writer, answered, lost, boundVars>>

-----------------------------------------------------------------------------
(* Audit, seal and release. *)

Holds(p, s) == s.phase = "CLOSING" /\ s.writers = {} /\ s.claim = adv[p].claim

(* audit_snapshot: flush, then replay the whole history privately. *)
Audit(p) ==
    /\ At(p, "audit") /\ pending[p] = <<>>
    /\ IF Holds(p, retained)
       THEN adv' = [adv EXCEPT ![p].stage = "seal", ![p].audited = retained]
       ELSE Quit(p)
    /\ UNCHANGED <<journalVars, timerVars, writer, answered, lost, boundVars>>

(* renew(), between the reads of the audit and before the seal. *)
Renew(p) ==
    /\ adv[p].stage \in {"audit", "seal"} /\ lease < Lease
    /\ Durably(p, retained)
    /\ IF Holds(p, retained) /\ lease > 0
       THEN lease' = Lease /\ UNCHANGED adv
       ELSE UNCHANGED lease /\ Quit(p)
    /\ UNCHANGED <<drainLeft, writer, answered, lost, boundVars>>

(* The manifest certifies the source when nothing that was admitted failed *)
(* and the final outputs are there.                                        *)
Certified(p, s) == s.failed = {} /\ adv[p].result

OnlyAcknowledged(s, t) == t \in {s, [s EXCEPT !.acked = TRUE]}

Inventory(s) == [outputs |-> s.outputs, failed |-> s.failed]

(* An incomplete inventory is kept only when the drain's time is up. *)
SealedState(p, s) ==
    LET final == [s EXCEPT !.claim = NoClaim, !.complete = adv[p].result] IN
    IF ~Certified(p, s) /\ drainLeft > 0 THEN final
    ELSE [final EXCEPT !.manifest = Inventory(s),
                       !.phase = IF Certified(p, s) THEN "SEALED" ELSE "INCOMPLETE"]

(* Mutant of Sealable: the claim and its lease are not checked again. *)
SealableByAnyone(p, s) == s.phase \in {"CLOSING", "SEALED"}

Sealable(p, s) == Holds(p, s) /\ lease > 0 /\ OnlyAcknowledged(adv[p].audited, s)

Seal(p) ==
    /\ At(p, "seal")
    /\ Durably(p, IF Sealable(p, retained) THEN SealedState(p, retained) ELSE retained)
    /\ To(p, "release")
    /\ UNCHANGED <<timerVars, writer, answered, lost, boundVars>>

Released(p, s) ==
    IF s.phase = "CLOSING" /\ s.claim = adv[p].claim THEN [s EXCEPT !.claim = NoClaim] ELSE s

Release(p) ==
    /\ At(p, "release")
    /\ Durably(p, Released(p, retained))
    /\ End(p)
    /\ UNCHANGED <<timerVars, writer, answered, lost, boundVars>>

(* A durable step of p fails, and what it was to retain landed or not.     *)
(* Then the claim is released if p holds one, and if that works.           *)
DurableFails(p) ==
    /\ pending[p] = <<>>
    /\ Fails
    /\ \/ At(p, "resume") /\ retained' \in {retained, Resumed(retained)} /\ UNCHANGED lease
       \/ /\ At(p, "record")
          /\ retained' \in {retained, Recorded(retained, adv[p].drained)}
          /\ UNCHANGED lease
       \/ At(p, "claim") /\ UNCHANGED <<retained, lease>>
       \/ /\ At(p, "claim") /\ Claimable(retained)
          /\ \E c \in Claim : Unused(c) /\ retained' = [retained EXCEPT !.claim = c]
          /\ lease' = Lease
       \/ /\ At(p, "seal")
          /\ retained' \in {retained} \cup
                (IF Sealable(p, retained) THEN {SealedState(p, retained)} ELSE {})
          /\ UNCHANGED lease
       \/ At(p, "release") /\ retained' \in {retained, Released(p, retained)} /\ UNCHANGED lease
    /\ live' = [live EXCEPT ![p] = retained]
    /\ behind' = IF retained' = retained THEN [behind EXCEPT ![p] = FALSE]
                 ELSE [q \in Proc |-> TRUE]
    /\ IF At(p, "release") THEN End(p) ELSE Quit(p)
    /\ UNCHANGED <<pending, drainLeft, writer, answered, lost, crashes>>

-----------------------------------------------------------------------------
(* The container dies with everything in its memory, and a fresh one loads *)
(* what is retained.                                                       *)
Crash(p) ==
    /\ crashes < MaxCrashes
    /\ crashes' = crashes + 1
    /\ live' = [live EXCEPT ![p] = retained]
    /\ lost' = lost \cup {pending[p][k] : k \in 1..Len(pending[p])}
    /\ pending' = [pending EXCEPT ![p] = <<>>]
    /\ behind' = [behind EXCEPT ![p] = FALSE]
    /\ End(p)
    /\ writer' = [w \in Writer |->
                    IF writer[w] = [at |-> "working", host |-> p]
                    THEN [at |-> "orphaned", host |-> p] ELSE writer[w]]
    /\ UNCHANGED <<retained, timerVars, answered, failures>>

Down(n) == IF n = 0 THEN 0 ELSE n - 1

Holder(p) == retained.claim # NoClaim /\ adv[p].claim = retained.claim

Tick ==
    /\ lease > 0 \/ drainLeft > 0
    /\ Prompt => ~(lease = 1 /\ \E p \in Proc : Holder(p))
    /\ lease' = Down(lease) /\ drainLeft' = Down(drainLeft)
    /\ UNCHANGED <<journalVars, adv, writer, answered, lost, boundVars>>

-----------------------------------------------------------------------------
Init ==
    /\ retained = Initial
    /\ live = [p \in Proc |-> Initial]
    /\ pending = [p \in Proc |-> <<>>]
    /\ behind = [p \in Proc |-> FALSE]
    /\ adv = [p \in Proc |-> Idle]
    /\ lease = 0 /\ drainLeft = 0
    /\ writer = [w \in Writer |-> [at |-> "new", host |-> NoProc]]
    /\ answered = {} /\ lost = {} /\ crashes = 0 /\ failures = 0

Finalize(p) ==
    PrepareFails(p) \/ PrepareFinal(p) \/ (\E e \in Emission : EmitFinal(p, e)) \/ FinalizeDone(p)

Advance(p) ==
    \/ AdvanceBegin(p) \/ Resume(p) \/ Drain(p) \/ RecordDrain(p) \/ TakeClaim(p)
    \/ Finalize(p) \/ Audit(p) \/ Seal(p) \/ Release(p)

Next ==
    \/ \E p \in Proc :
          \/ Begin(p) \/ Advance(p) \/ Renew(p) \/ Ack(p)
          \/ Flush(p) \/ FlushUnconfirmed(p) \/ DurableFails(p) \/ Crash(p)
          \/ \E w \in Writer : Reserved(p, w) \/ Produce(p, w) \/ FinishWriter(p, w)
    \/ Tick

Spec == Init /\ [][Next]_vars

(* Control Tower polls, a started advance runs on, flushers keep their     *)
(* cadence and time passes.  Nothing obliges writers to finish.            *)
FairSpec ==
    /\ Spec
    /\ WF_vars(Tick)
    /\ \A p \in Proc : WF_vars(Advance(p)) /\ WF_vars(Flush(p))

-----------------------------------------------------------------------------
(* Properties. *)

OutputSet == {WriterOutput(w) : w \in Writer}
                 \cup {FinalOutput(e, v) : e \in Emission, v \in Observation}

States ==
    [phase : {"OPEN", "CLOSING", "INCOMPLETE", "SEALED"}, writers : SUBSET Writer,
     failed : SUBSET Writer, claim : Claim \cup {NoClaim},
     prepared : Observation \cup {NoObservation}, outputs : SUBSET OutputSet,
     complete : BOOLEAN, acked : BOOLEAN,
     manifest : [outputs : SUBSET OutputSet, failed : SUBSET Writer] \cup {NoManifest}]

(* Every variable has its shape. *)
TypeOK ==
    /\ retained \in States
    /\ \A p \in Proc : live[p] \in States /\ adv[p].audited \in States
    /\ behind \in [Proc -> BOOLEAN]
    /\ lease \in 0..Lease /\ drainLeft \in 0..DrainTimeout

(* What is sealed is what is retained: the inventory lists every output    *)
(* and no other, nobody is still admitted and nobody failed, whichever     *)
(* containers flush what they accepted before they knew of the seal.       *)
SealedMatchesContent ==
    retained.phase = "SEALED" =>
        /\ retained.manifest = Inventory(retained)
        /\ retained.writers = {} /\ retained.failed = {} /\ retained.complete
        /\ \A e \in Emission : Emitted(retained, e)

(* A seal is for ever: neither requests that are repeated or late, nor     *)
(* another container's finalizer, reopen it or change what it certifies.   *)
SealIsFinal ==
    [][retained.phase = "SEALED" =>
          retained' \in {retained, [retained EXCEPT !.acked = TRUE]}]_vars

(* However often finalizers lose their claim, die and start again, in      *)
(* whichever containers, the final outputs come from the one preparation   *)
(* that is retained.                                                       *)
FinalOutputsAgree ==
    \A e \in Emission, v \in Observation :
        FinalOutput(e, v) \in retained.outputs => retained.prepared = v

(* After the close, content enters storage only by a writer that storage   *)
(* knows as admitted, or while a claim is retained: no container gets past *)
(* the barrier with what it holds in memory.                               *)
ContentIsFenced ==
    [][retained.phase # "OPEN" =>
          \A o \in retained'.outputs \ retained.outputs :
              \/ o[1] = "writer" /\ o[2] \in retained.writers
              \/ o[1] = "final" /\ retained.claim # NoClaim]_vars

(* With one container: what a sealed inventory leaves out was never        *)
(* answered to its producer, or was in memory when the container died; and *)
(* no writer is still at work.                                             *)
SealedCoversAnswered ==
    retained.phase = "SEALED" =>
        /\ \A o \in answered \ retained.outputs :
              \E op \in lost : o \in Result(Initial, op).outputs
        /\ \A w \in Writer : writer[w].at # "working"

(* "An orphaned accepted writer or irrecoverable history gap remains held" *)
(* (docs/wt02-sealed-workshop-closeout.md, admin API).                     *)
OrphanHoldsSeal ==
    retained.phase = "SEALED" => \A w \in Writer : writer[w].at # "orphaned"

(* A closeout that began is decided: sealed, or incomplete with its issues *)
(* on record, also when its finalizer dies or a storage call fails.        *)
CloseoutDecides ==
    retained.phase = "CLOSING" ~> retained.phase \in {"SEALED", "INCOMPLETE"}
=============================================================================
