--------------------------- MODULE CloseoutProofs ---------------------------
(***************************************************************************)
(* Proofs about Closeout, for any number of containers, writers, claims    *)
(* and observations, any lease, and any crashes and failures; at the end,  *)
(* about one container whose finalizer renews its claim in time.           *)
(***************************************************************************)
EXTENDS Closeout, Induction

-----------------------------------------------------------------------------
(* Shapes. *)

Op ==
    {Reserve(w) : w \in Writer} \cup {Output(w) : w \in Writer}
        \cup {Finish(w, bad) : w \in Writer, bad \in BOOLEAN}
        \cup {Prepare(c, v) : c \in Claim, v \in Observation}
        \cup {Final(c, e, v) : c \in Claim, e \in Emission, v \in Observation}
        \cup {Acknowledge}

ClaimStage == {"finalize", "audit", "seal", "release"}

AdvState ==
    [stage : {"none", "resume", "drain", "record", "claim"} \cup ClaimStage,
     drained : BOOLEAN, clear : BOOLEAN, claim : Claim \cup {NoClaim}, result : BOOLEAN,
     audited : States]

Shapes ==
    /\ retained \in States /\ live \in [Proc -> States]
    /\ pending \in [Proc -> Seq(Op)] /\ adv \in [Proc -> AdvState]
    /\ behind \in [Proc -> BOOLEAN] /\ lease \in 0..Lease /\ drainLeft \in 0..DrainTimeout

(* An operation that only the holder of a claim may do. *)
ByClaim(op) == op.kind \in {"prepare", "final"}

HasClaimOp(p) == \E k \in 1..Len(pending[p]) : ByClaim(pending[p][k])

(* p is, or was when it accepted what it has pending, the finalizer of c. *)
Uses(p, c) ==
    \/ adv[p].claim = c
    \/ \E k \in 1..Len(pending[p]) : ByClaim(pending[p][k]) /\ pending[p][k].claim = c

-----------------------------------------------------------------------------
(* t is s after mutations: what they cannot do, above all after the close. *)
Beyond(s, t) ==
    /\ t.phase = s.phase /\ t.claim = s.claim
    /\ t.complete = s.complete /\ t.manifest = s.manifest
    /\ s.outputs \subseteq t.outputs
    /\ s.prepared # NoObservation => t.prepared = s.prepared
    /\ s.phase # "OPEN" =>
        /\ t.writers \subseteq s.writers
        /\ \A o \in t.outputs \ s.outputs :
              \/ o[1] = "writer" /\ o[2] \in s.writers
              \/ o[1] = "final" /\ s.claim # NoClaim
    /\ s.phase = "SEALED" => t \in {s, [s EXCEPT !.acked = TRUE]}

(* Who has a claim has seen the close, and the close is retained. *)
ClosedFirst ==
    /\ retained.claim # NoClaim => Closed(retained)
    /\ \A p \in Proc :
          /\ (adv[p].claim # NoClaim) <=> (adv[p].stage \in ClaimStage)
          /\ adv[p].claim # NoClaim \/ HasClaimOp(p) => live[p].phase # "OPEN"
          /\ live[p].phase # "OPEN" => retained.phase # "OPEN"
          /\ ~behind[p] => Beyond(retained, live[p])

-----------------------------------------------------------------------------
(* The final outputs and the preparation. *)
Agree(s) ==
    \A e \in Emission, v \in Observation : FinalOutput(e, v) \in s.outputs => s.prepared = v

OneUser == \A p, q \in Proc, c \in Claim : Uses(p, c) /\ Uses(q, c) => p = q

OnePreparation ==
    /\ Agree(retained)
    /\ \A p \in Proc :
          /\ Agree(live[p])
          /\ \A k \in 1..Len(pending[p]) :
                ByClaim(pending[p][k]) => pending[p][k].observed = live[p].prepared
          /\ retained.claim # NoClaim /\ Uses(p, retained.claim)
                => retained.prepared \in {NoObservation, live[p].prepared}
          /\ ~behind[p] =>
                /\ \A k \in 1..Len(pending[p]) :
                      ByClaim(pending[p][k]) => pending[p][k].claim = retained.claim
                /\ live[p].prepared # retained.prepared => HasClaimOp(p)

-----------------------------------------------------------------------------
(* The finalizer whose claim is live: what it has emitted is retained, or  *)
(* will be, whatever its flush replays it over.                            *)
Prepares(p, k) ==
    \/ retained.prepared # NoObservation
    \/ \E j \in 1..k : pending[p][j].kind = "prepare" /\ pending[p][j].claim = retained.claim

Delivers(p, e) ==
    \/ Emitted(retained, e)
    \/ \E k \in 1..Len(pending[p]) :
          /\ pending[p][k].kind = "final" /\ pending[p][k].emission = e
          /\ pending[p][k].claim = retained.claim /\ Prepares(p, k - 1)

Finalizing(p) == Holder(p) /\ lease > 0

FinalsDelivered ==
    \A p \in Proc : Finalizing(p) =>
        /\ live[p].prepared # NoObservation => Prepares(p, Len(pending[p]))
        /\ \A e \in Emission : Emitted(live[p], e) => Delivers(p, e)
        /\ adv[p].result => \A e \in Emission : Emitted(live[p], e)

Invariant == Shapes /\ ClosedFirst /\ OneUser /\ OnePreparation /\ FinalsDelivered

CloseoutIInv == Invariant /\ SealedMatchesContent
-----------------------------------------------------------------------------
(* What a mutation does to a state. *)

LEMMA OpShape ==
    ASSUME NEW op \in Op
    PROVE  /\ op.kind \in {"reserve", "output", "finish", "prepare", "final", "acknowledge"}
           /\ op.kind \in {"reserve", "output", "finish"} => op.writer \in Writer
           /\ op.kind = "finish" => op.failed \in BOOLEAN
           /\ ByClaim(op) => op.claim \in Claim /\ op.observed \in Observation
           /\ op.kind = "final" => op.emission \in Emission
BY DEF Op, ByClaim, Reserve, Output, Finish, Prepare, Final, Acknowledge

LEMMA ResultIs ==
    ASSUME NEW s \in States, NEW op \in Op
    PROVE  LET t == Result(s, op) IN
           /\ t \in States
           /\ t.phase = s.phase /\ t.claim = s.claim /\ t.complete = s.complete
           /\ t.manifest = s.manifest
           /\ s.outputs \subseteq t.outputs
           /\ op.kind # "reserve" => t.writers \subseteq s.writers
           /\ t.prepared = IF op.kind = "prepare" /\ s.prepared = NoObservation
                           THEN op.observed ELSE s.prepared
           /\ op.kind = "output" => t.outputs = s.outputs \cup {WriterOutput(op.writer)}
           /\ op.kind = "final" =>
                t.outputs = IF Emitted(s, op.emission) THEN s.outputs
                            ELSE s.outputs \cup {FinalOutput(op.emission, op.observed)}
           /\ op.kind \notin {"output", "final"} => t.outputs = s.outputs
           /\ op.kind = "acknowledge" => t = [s EXCEPT !.acked = TRUE]
<1> USE DEF States
<1>0. /\ s.writers \subseteq Writer /\ s.failed \subseteq Writer /\ s.outputs \subseteq OutputSet
  OBVIOUS
<1>1. CASE op.kind = "reserve"
  <2>1. op.writer \in Writer BY <1>1, OpShape
  <2>2. Result(s, op) = [s EXCEPT !.writers = @ \cup {op.writer}] BY <1>1 DEF Result
  <2> QED BY <1>1, <2>1, <2>2
<1>2. CASE op.kind = "output"
  <2>1. WriterOutput(op.writer) \in OutputSet BY <1>2, OpShape DEF OutputSet
  <2>2. Result(s, op) = [s EXCEPT !.outputs = @ \cup {WriterOutput(op.writer)}]
    BY <1>2 DEF Result
  <2> QED BY <1>2, <2>1, <2>2
<1>3. CASE op.kind = "finish"
  <2>1. op.writer \in Writer BY <1>3, OpShape
  <2>2. Result(s, op) = [s EXCEPT !.writers = @ \ {op.writer},
                                  !.failed = IF op.failed THEN @ \cup {op.writer} ELSE @]
    BY <1>3 DEF Result
  <2> DEFINE f == IF op.failed THEN s.failed \cup {op.writer} ELSE s.failed
             w == s.writers \ {op.writer}
  <2>3. f \in SUBSET Writer /\ w \in SUBSET Writer /\ w \subseteq s.writers BY <2>1
  <2>4. Result(s, op) = [s EXCEPT !.writers = w, !.failed = f] BY <2>2
  <2> HIDE DEF f, w
  <2> QED BY <1>3, <2>3, <2>4
<1>4. CASE op.kind = "prepare"
  <2>1. op.observed \in Observation BY <1>4, OpShape DEF ByClaim
  <2>2. Result(s, op) = [s EXCEPT !.prepared = IF @ = NoObservation THEN op.observed ELSE @]
    BY <1>4 DEF Result
  <2> QED BY <1>4, <2>1, <2>2
<1>5. CASE op.kind = "final"
  <2>1. FinalOutput(op.emission, op.observed) \in OutputSet
    BY <1>5, OpShape DEF OutputSet, ByClaim
  <2>2. Result(s, op) =
          [s EXCEPT !.outputs = IF Emitted(s, op.emission) THEN @
                                ELSE @ \cup {FinalOutput(op.emission, op.observed)}]
    BY <1>5 DEF Result
  <2> QED BY <1>5, <2>1, <2>2
<1>6. CASE op.kind = "acknowledge"
  <2>2. Result(s, op) = [s EXCEPT !.acked = TRUE] BY <1>6 DEF Result
  <2> QED BY <1>6, <2>2
<1> QED BY <1>1, <1>2, <1>3, <1>4, <1>5, <1>6, OpShape

(* What Applied lets pass. *)
LEMMA EffectiveIs ==
    ASSUME NEW s \in States, NEW op \in Op, Effective(s, op)
    PROVE  /\ s.phase = "SEALED" => op.kind = "acknowledge"
           /\ op.kind = "reserve" => s.phase = "OPEN"
           /\ op.kind = "output" /\ s.phase # "OPEN" => op.writer \in s.writers
           /\ ByClaim(op) /\ s.phase # "OPEN" =>
                 Closed(s) /\ s.claim = op.claim /\ retained.claim = op.claim /\ lease > 0
           /\ op.kind = "final" => s.prepared # NoObservation
<1>1. Admits(s, op) /\ Result(s, op) # s BY DEF Effective
<1>2. CASE op.kind = "reserve" BY <1>1, <1>2 DEF Admits, ByClaim
<1>3. CASE op.kind = "output" BY <1>1, <1>3 DEF Admits, ByClaim, MayProduce, Closed
<1>4. CASE op.kind = "finish" BY <1>1, <1>4 DEF Admits, ByClaim
<1>5. CASE op.kind = "prepare"
  BY <1>1, <1>5 DEF Admits, ByClaim, MayFinalize, Closed
<1>6. CASE op.kind = "final"
  BY <1>1, <1>6 DEF Admits, ByClaim, MayFinalize, Closed
<1>7. CASE op.kind = "acknowledge" BY <1>7 DEF ByClaim
<1> QED BY <1>2, <1>3, <1>4, <1>5, <1>6, <1>7, OpShape

LEMMA OutputKinds ==
    /\ \A w : WriterOutput(w)[1] = "writer" /\ WriterOutput(w)[2] = w
    /\ \A e, v : FinalOutput(e, v)[1] = "final" /\ FinalOutput(e, v)[2] = e
                 /\ FinalOutput(e, v)[3] = v
BY DEF WriterOutput, FinalOutput

LEMMA BeyondSelf == ASSUME NEW s \in States PROVE Beyond(s, s)
BY DEF Beyond

LEMMA ResultBeyond ==
    ASSUME NEW s \in States, NEW t \in States, Beyond(s, t), NEW op \in Op, Effective(t, op)
    PROVE  Beyond(s, Result(t, op))
<1> DEFINE r == Result(t, op)
<1>r. /\ r \in States
      /\ r.phase = t.phase /\ r.claim = t.claim /\ r.complete = t.complete
      /\ r.manifest = t.manifest
      /\ t.outputs \subseteq r.outputs
      /\ op.kind # "reserve" => r.writers \subseteq t.writers
      /\ t.prepared # NoObservation => r.prepared = t.prepared
      /\ op.kind = "output" => r.outputs = t.outputs \cup {WriterOutput(op.writer)}
      /\ op.kind = "final" =>
           r.outputs \subseteq t.outputs \cup {FinalOutput(op.emission, op.observed)}
      /\ op.kind \notin {"output", "final"} => r.outputs = t.outputs
      /\ op.kind = "acknowledge" => r = [t EXCEPT !.acked = TRUE]
  BY ResultIs
<1> HIDE DEF r
<1>b. /\ t.phase = s.phase /\ t.claim = s.claim
      /\ t.complete = s.complete /\ t.manifest = s.manifest
      /\ s.outputs \subseteq t.outputs
      /\ s.prepared # NoObservation => t.prepared = s.prepared
      /\ s.phase = "SEALED" => t \in {s, [s EXCEPT !.acked = TRUE]}
  BY DEF Beyond
<1>2. ASSUME s.phase # "OPEN"
      PROVE  /\ r.writers \subseteq s.writers
             /\ \A o \in r.outputs \ s.outputs :
                   \/ o[1] = "writer" /\ o[2] \in s.writers
                   \/ o[1] = "final" /\ s.claim # NoClaim
  <2>0. t.phase # "OPEN" /\ t.writers \subseteq s.writers BY <1>b, <1>2 DEF Beyond
  <2>1. r.writers \subseteq s.writers
    <3>1. op.kind # "reserve" BY <2>0, EffectiveIs
    <3> QED BY <1>r, <2>0, <3>1
  <2>2. ASSUME NEW o \in r.outputs \ t.outputs
        PROVE  \/ o[1] = "writer" /\ o[2] \in s.writers
               \/ o[1] = "final" /\ s.claim # NoClaim
    <3>1. op.kind \in {"output", "final"} BY <1>r, <2>2
    <3>2. CASE op.kind = "output"
      <4>1. o = WriterOutput(op.writer) BY <1>r, <2>2, <3>2
      <4>2. op.writer \in s.writers BY <2>0, <3>2, EffectiveIs
      <4> QED BY <4>1, <4>2, OutputKinds
    <3>3. CASE op.kind = "final"
      <4>1. o = FinalOutput(op.emission, op.observed) BY <1>r, <2>2, <3>3
      <4>2. t.claim = op.claim /\ op.claim \in Claim
        BY <2>0, <3>3, EffectiveIs, OpShape DEF ByClaim
      <4>3. s.claim # NoClaim BY <1>b, <4>2, CloseoutAssumption
      <4> QED BY <4>1, <4>3, OutputKinds
    <3> QED BY <3>1, <3>2, <3>3
  <2>3. ASSUME NEW o \in t.outputs \ s.outputs
        PROVE  \/ o[1] = "writer" /\ o[2] \in s.writers
               \/ o[1] = "final" /\ s.claim # NoClaim
    BY <1>2, <2>3 DEF Beyond
  <2> QED BY <2>1, <2>2, <2>3
<1>3. ASSUME s.phase = "SEALED" PROVE r \in {s, [s EXCEPT !.acked = TRUE]}
  <2>1. t \in {s, [s EXCEPT !.acked = TRUE]} /\ t.phase = "SEALED" BY <1>3, <1>b
  <2>2. r = [t EXCEPT !.acked = TRUE] BY <1>r, <2>1, EffectiveIs
  <2> QED BY <2>1, <2>2 DEF States
<1>4. s.prepared # NoObservation => r.prepared = s.prepared BY <1>r, <1>b
<1>5. /\ r.phase = s.phase /\ r.claim = s.claim
      /\ r.complete = s.complete /\ r.manifest = s.manifest
      /\ s.outputs \subseteq r.outputs
  BY <1>r, <1>b
<1> SUFFICES Beyond(s, r) BY DEF r
<1> QED BY <1>2, <1>3, <1>4, <1>5 DEF Beyond

-----------------------------------------------------------------------------
(* What a flush retains. *)

(* f holds the states that a replay of the first N of ops goes through. *)
IsReplay(f, s, ops, N) ==
    f = [n \in 0..N |-> IF n = 0 THEN s ELSE Applied(f[n - 1], ops[n])]

LEMMA ReplayExists == ASSUME NEW s, NEW ops PROVE \A N \in Nat : \E f : IsReplay(f, s, ops, N)
<1> DEFINE S == {N \in Nat : \E f : IsReplay(f, s, ops, N)}
<1>1. 0 \in S
  <2>1. IsReplay([n \in 0..0 |-> s], s, ops, 0) BY DEF IsReplay
  <2> QED BY <2>1
<1>2. ASSUME NEW N \in Nat, N \in S PROVE N + 1 \in S
  <2>1. PICK f : IsReplay(f, s, ops, N) BY <1>2
  <2> DEFINE g == [n \in 0..N+1 |-> IF n <= N THEN f[n] ELSE Applied(f[N], ops[N + 1])]
  <2>2. \A n \in 0..N+1 : g[n] = IF n = 0 THEN s ELSE Applied(g[n - 1], ops[n])
    <3> TAKE n \in 0..N+1
    <3>1. CASE n = 0 BY <2>1, <3>1 DEF IsReplay
    <3>2. CASE n # 0 /\ n <= N BY <2>1, <3>2 DEF IsReplay
    <3>3. CASE n = N + 1 BY <3>3
    <3> QED BY <3>1, <3>2, <3>3
  <2>3. IsReplay(g, s, ops, N + 1) BY <2>2 DEF IsReplay
  <2> QED BY <2>3
<1> HIDE DEF S
<1>3. Nat \subseteq S BY <1>1, <1>2, NatInduct
<1> QED BY <1>3 DEF S

(* What holds of s, and what each of ops keeps, holds of the replay. *)
LEMMA ReplayKeeps ==
    ASSUME NEW s, NEW ops, Len(ops) \in Nat, NEW G, s \in G[0],
           \A k \in 1..Len(ops) : \A t \in G[k - 1] : Applied(t, ops[k]) \in G[k]
    PROVE  Replayed(s, ops) \in G[Len(ops)]
<1> DEFINE N == Len(ops)
<1> DEFINE f == CHOOSE h : IsReplay(h, s, ops, N)
<1>0. Replayed(s, ops) = f[N] BY Zenon DEF Replayed, IsReplay
<1>1. IsReplay(f, s, ops, N)
  <2>1. \E h : IsReplay(h, s, ops, N) BY ReplayExists
  <2> QED BY <2>1, Zenon
<1> HIDE DEF f
<1> DEFINE S == {n \in Nat : n <= N => f[n] \in G[n]}
<1>2. 0 \in S BY <1>1 DEF IsReplay
<1>3. ASSUME NEW n \in Nat, n \in S PROVE n + 1 \in S
  <2> SUFFICES ASSUME n + 1 <= N PROVE f[n + 1] \in G[n + 1] OBVIOUS
  <2>1. f[n] \in G[n] BY <1>3
  <2>2. n + 1 \in 1..N /\ (n + 1) - 1 = n OBVIOUS
  <2>3. f[n + 1] = Applied(f[n], ops[n + 1]) BY <1>1, <2>2 DEF IsReplay
  <2> QED BY <2>1, <2>2, <2>3
<1> HIDE DEF S
<1>4. Nat \subseteq S BY <1>2, <1>3, NatInduct
<1>5. N \in S BY <1>4
<1> QED BY <1>0, <1>5 DEF S

LEMMA Shaped ==
    ASSUME Shapes, NEW p \in Proc
    PROVE  /\ retained \in States /\ live[p] \in States /\ adv[p] \in AdvState
           /\ pending[p] \in Seq(Op) /\ Len(pending[p]) \in Nat
           /\ \A k \in 1..Len(pending[p]) : pending[p][k] \in Op
BY DEF Shapes

(* The state that p's replay has reached after its first k operations. *)
Reached(p, k, t) ==
    /\ t \in States /\ Beyond(retained, t) /\ Agree(t)
    /\ \/ t.prepared = retained.prepared
       \/ Uses(p, retained.claim) /\ retained.claim # NoClaim /\ t.prepared = live[p].prepared
    /\ Finalizing(p) =>
        /\ Prepares(p, k) => t.prepared # NoObservation
        /\ \A e \in Emission :
              (\E j \in 1..k : /\ pending[p][j].kind = "final" /\ pending[p][j].emission = e
                               /\ pending[p][j].claim = retained.claim /\ Prepares(p, j - 1))
                 => Emitted(t, e)

(* What p has pending for its claim. *)
LEMMA ClaimOps ==
    ASSUME Invariant, NEW p \in Proc, NEW k \in 1..Len(pending[p]), ByClaim(pending[p][k])
    PROVE  /\ pending[p][k].claim \in Claim /\ pending[p][k].claim # NoClaim
           /\ Uses(p, pending[p][k].claim)
           /\ live[p].phase # "OPEN" /\ retained.phase # "OPEN"
           /\ pending[p][k].observed = live[p].prepared /\ live[p].prepared # NoObservation
<1>1. pending[p][k] \in Op BY Shaped DEF Invariant
<1>2. pending[p][k].claim \in Claim /\ pending[p][k].observed \in Observation BY <1>1, OpShape
<1>3. HasClaimOp(p) BY DEF HasClaimOp
<1> QED BY <1>2, <1>3, CloseoutAssumption DEF Invariant, ClosedFirst, OnePreparation, Uses

(* What the live claim's finalizer has pending is not refused by a replay. *)
LEMMA FinalizerAdmitted ==
    ASSUME Invariant, NEW p \in Proc, Finalizing(p), NEW t \in States, Beyond(retained, t),
           NEW op \in Op, ByClaim(op), op.claim = retained.claim,
           op.kind = "final" => t.prepared # NoObservation
    PROVE  Applied(t, op) = Result(t, op)
<1>1. Closed(retained) BY DEF Invariant, ClosedFirst, Finalizing, Holder
<1>2. Closed(t) /\ t.claim = retained.claim BY <1>1 DEF Beyond, Closed
<1>3. MayFinalize(t, op.claim) BY <1>2 DEF MayFinalize, Finalizing
<1>4. Admits(t, op) BY <1>3 DEF Admits, ByClaim
<1> QED BY <1>4 DEF Applied, Effective

LEMMA ReachedMore ==
    ASSUME Invariant, NEW p \in Proc, NEW k \in 1..Len(pending[p]), NEW t,
           Reached(p, k - 1, t)
    PROVE  Reached(p, k, Applied(t, pending[p][k]))
<1> DEFINE op == pending[p][k]
           r == Applied(t, op)
<1>op. op \in Op BY Shaped DEF Invariant
<1>t. t \in States /\ Beyond(retained, t) /\ Agree(t) BY DEF Reached
<1>p. \/ t.prepared = retained.prepared
      \/ Uses(p, retained.claim) /\ retained.claim # NoClaim /\ t.prepared = live[p].prepared
  BY DEF Reached
<1>l. live[p].prepared \in Observation \cup {NoObservation}
      /\ t.prepared \in Observation \cup {NoObservation}
  BY <1>t, Shaped DEF States, Invariant
<1> HIDE DEF op
<1>r. r = t \/ (Effective(t, op) /\ r = Result(t, op))
  <2>1. CASE Effective(t, op) BY <2>1 DEF Applied
  <2>2. ASSUME ~Effective(t, op) PROVE r = t BY <2>2 DEF Applied
  <2> QED BY <2>1, <2>2
<1>a. r = Applied(t, op) OBVIOUS
<1> HIDE DEF r
<1>c. ASSUME ByClaim(op), Effective(t, op)
      PROVE  /\ op.claim = retained.claim /\ Uses(p, retained.claim) /\ retained.claim # NoClaim
             /\ op.observed = live[p].prepared /\ live[p].prepared \in Observation
             /\ retained.prepared \in {NoObservation, live[p].prepared}
             /\ op.kind = "final" => t.prepared = op.observed
  <2>1. /\ op.claim \in Claim /\ op.claim # NoClaim /\ Uses(p, op.claim)
        /\ op.observed = live[p].prepared /\ live[p].prepared # NoObservation
        /\ retained.phase # "OPEN"
    BY <1>c, ClaimOps DEF op
  <2>2. t.phase # "OPEN" BY <1>t, <2>1 DEF Beyond
  <2>3. op.claim = retained.claim BY <1>c, <1>t, <1>op, <2>2, EffectiveIs
  <2>4. retained.prepared \in {NoObservation, live[p].prepared}
    BY <2>1, <2>3 DEF Invariant, OnePreparation
  <2>5. op.kind = "final" => t.prepared # NoObservation BY <1>c, <1>t, <1>op, EffectiveIs
  <2> QED BY <1>l, <1>p, <2>1, <2>3, <2>4, <2>5
<1>1. r \in States
  <2>1. Result(t, op) \in States BY <1>op, <1>t, ResultIs
  <2> QED BY <1>t, <1>r, <2>1
<1>2. Beyond(retained, r)
  <2>1. CASE r = t BY <1>t, <2>1
  <2>2. CASE Effective(t, op) /\ r = Result(t, op)
    <3>1. retained \in States BY Shaped DEF Invariant
    <3>2. Beyond(retained, Result(t, op)) BY <1>op, <1>t, <2>2, <3>1, ResultBeyond
    <3> QED BY <2>2, <3>2
  <2> QED BY <1>r, <2>1, <2>2
<1>3. Agree(r) /\ (\/ r.prepared = retained.prepared
                   \/ /\ Uses(p, retained.claim) /\ retained.claim # NoClaim
                      /\ r.prepared = live[p].prepared)
  <2>1. CASE r = t BY <1>t, <1>p, <2>1
  <2>2. CASE Effective(t, op) /\ r = Result(t, op)
    <3>0. r.prepared = IF op.kind = "prepare" /\ t.prepared = NoObservation
                       THEN op.observed ELSE t.prepared
      BY <1>op, <1>t, <2>2, ResultIs
    <3>1. CASE op.kind = "prepare"
      <4>1. ByClaim(op) BY <3>1 DEF ByClaim
      <4>2. r.outputs = t.outputs BY <1>op, <1>t, <2>2, <3>1, ResultIs
      <4>3. CASE t.prepared = NoObservation
        <5>1. \A e \in Emission, v \in Observation : FinalOutput(e, v) \notin t.outputs
          BY <1>t, <4>3, CloseoutAssumption DEF Agree
        <5> QED BY <1>c, <2>2, <3>0, <3>1, <4>1, <4>2, <4>3, <5>1 DEF Agree
      <4>4. CASE t.prepared # NoObservation BY <1>p, <1>t, <3>0, <4>2, <4>4 DEF Agree
      <4> QED BY <4>3, <4>4
    <3>2. CASE op.kind = "final"
      <4>1. ByClaim(op) BY <3>2 DEF ByClaim
      <4>2. r.outputs \subseteq t.outputs \cup {FinalOutput(op.emission, op.observed)}
        BY <1>op, <1>t, <2>2, <3>2, ResultIs
      <4>3. t.prepared = op.observed /\ r.prepared = t.prepared BY <1>c, <2>2, <3>0, <3>2, <4>1
      <4>4. ASSUME NEW e \in Emission, NEW v \in Observation, FinalOutput(e, v) \in r.outputs
            PROVE  r.prepared = v
        <5>1. CASE FinalOutput(e, v) \in t.outputs BY <1>t, <4>3, <5>1 DEF Agree
        <5>2. CASE FinalOutput(e, v) = FinalOutput(op.emission, op.observed)
          <6>1. v = op.observed BY <5>2, OutputKinds
          <6> QED BY <4>3, <6>1
        <5> QED BY <4>2, <4>4, <5>1, <5>2
      <4> QED BY <1>p, <4>3, <4>4 DEF Agree
    <3>3. CASE op.kind \notin {"prepare", "final"}
      <4>1. r.prepared = t.prepared BY <3>0, <3>3
      <4>2. r.outputs = t.outputs \/ r.outputs = t.outputs \cup {WriterOutput(op.writer)}
        BY <1>op, <1>t, <2>2, <3>3, ResultIs
      <4>3. \A e, v : FinalOutput(e, v) # WriterOutput(op.writer) BY OutputKinds
      <4> QED BY <1>p, <1>t, <4>1, <4>2, <4>3 DEF Agree
    <3> QED BY <3>1, <3>2, <3>3
  <2> QED BY <1>r, <2>1, <2>2
<1>4. ASSUME Finalizing(p)
      PROVE  /\ Prepares(p, k) => r.prepared # NoObservation
             /\ \A e \in Emission :
                   (\E j \in 1..k : /\ pending[p][j].kind = "final" /\ pending[p][j].emission = e
                                    /\ pending[p][j].claim = retained.claim /\ Prepares(p, j - 1))
                      => Emitted(r, e)
  <2>1. /\ Prepares(p, k - 1) => t.prepared # NoObservation
        /\ \A e \in Emission :
              (\E j \in 1..k-1 : /\ pending[p][j].kind = "final" /\ pending[p][j].emission = e
                                 /\ pending[p][j].claim = retained.claim /\ Prepares(p, j - 1))
                 => Emitted(t, e)
    BY <1>4 DEF Reached
  <2>2. (t.prepared # NoObservation => r.prepared # NoObservation) /\ t.outputs \subseteq r.outputs
    BY <1>op, <1>t, <1>r, ResultIs
  <2>3. ASSUME Prepares(p, k) PROVE r.prepared # NoObservation
    <3>1. CASE Prepares(p, k - 1) BY <2>1, <2>2, <3>1
    <3>2. CASE ~Prepares(p, k - 1)
      <4>1. op.kind = "prepare" /\ op.claim = retained.claim
        BY <2>3, <3>2 DEF Prepares, op
      <4>2. r = Result(t, op)
        BY <1>4, <1>a, <1>op, <1>t, <4>1, FinalizerAdmitted DEF ByClaim
      <4>3. op.observed # NoObservation BY <1>op, <4>1, OpShape, CloseoutAssumption DEF ByClaim
      <4>4. r.prepared = IF op.kind = "prepare" /\ t.prepared = NoObservation
                         THEN op.observed ELSE t.prepared
        BY <1>op, <1>t, <4>2, ResultIs
      <4> QED BY <4>1, <4>3, <4>4
    <3> QED BY <3>1, <3>2
  <2>4. ASSUME NEW e \in Emission, NEW j \in 1..k,
               pending[p][j].kind = "final", pending[p][j].emission = e,
               pending[p][j].claim = retained.claim, Prepares(p, j - 1)
        PROVE  Emitted(r, e)
    <3>1. CASE j # k
      <4>1. j \in 1..k-1 BY <3>1
      <4>2. Emitted(t, e) BY <2>1, <2>4, <4>1
      <4> QED BY <2>2, <4>2 DEF Emitted
    <3>2. CASE j = k
      <4>1. /\ op.kind = "final" /\ op.emission = e /\ op.claim = retained.claim
            /\ t.prepared # NoObservation
        BY <2>1, <2>4, <3>2 DEF op
      <4>2. r = Result(t, op) BY <1>4, <1>a, <1>op, <1>t, <4>1, FinalizerAdmitted DEF ByClaim
      <4>3. r.outputs = IF Emitted(t, e) THEN t.outputs
                        ELSE t.outputs \cup {FinalOutput(e, op.observed)}
        BY <1>op, <1>t, <4>1, <4>2, ResultIs
      <4>4. op.observed \in Observation BY <1>op, <4>1, OpShape DEF ByClaim
      <4> QED BY <4>3, <4>4 DEF Emitted
    <3> QED BY <3>1, <3>2
  <2> QED BY <2>3, <2>4
<1>5. Reached(p, k, r) BY <1>1, <1>2, <1>3, <1>4 DEF Reached
<1> QED BY <1>5 DEF r, op

(* What p's flush retains: more than what was, in line with one            *)
(* preparation, and with all that the live claim's finalizer has done.     *)
LEMMA FlushedIs ==
    ASSUME Invariant, NEW p \in Proc
    PROVE  /\ Flushed(p) \in States /\ Beyond(retained, Flushed(p)) /\ Agree(Flushed(p))
           /\ \/ Flushed(p).prepared = retained.prepared
              \/ /\ Uses(p, retained.claim) /\ retained.claim # NoClaim
                 /\ Flushed(p).prepared = live[p].prepared
           /\ Finalizing(p) =>
                /\ live[p].prepared # NoObservation => Flushed(p).prepared # NoObservation
                /\ \A e \in Emission : Emitted(live[p], e) => Emitted(Flushed(p), e)
<1>n. Len(pending[p]) \in Nat /\ retained \in States /\ live[p] \in States
  BY Shaped DEF Invariant
<1>1. CASE ~behind[p]
  <2>1. Flushed(p) = live[p] BY <1>1 DEF Flushed
  <2>2. Beyond(retained, live[p]) /\ Agree(live[p])
    BY <1>1 DEF Invariant, ClosedFirst, OnePreparation
  <2>3. ASSUME live[p].prepared # retained.prepared
        PROVE  Uses(p, retained.claim) /\ retained.claim # NoClaim
    <3>1. PICK k \in 1..Len(pending[p]) : ByClaim(pending[p][k])
      BY <1>1, <2>3 DEF Invariant, OnePreparation, HasClaimOp
    <3>2. pending[p][k].claim = retained.claim
      BY <1>1, <3>1 DEF Invariant, OnePreparation
    <3> QED BY <3>1, <3>2, ClaimOps
  <2> QED BY <1>n, <2>1, <2>2, <2>3
<1>2. CASE behind[p]
  <2> DEFINE N == Len(pending[p])
             G == [k \in 0..N |-> {t \in States : Reached(p, k, t)}]
  <2>1. Flushed(p) = Replayed(retained, pending[p]) BY <1>2 DEF Flushed
  <2>2. retained \in G[0]
    <3>1. Beyond(retained, retained) /\ Agree(retained)
      BY <1>n, BeyondSelf DEF Invariant, OnePreparation
    <3>2. Prepares(p, 0) => retained.prepared # NoObservation BY DEF Prepares
    <3>3. Reached(p, 0, retained) BY <1>n, <3>1, <3>2 DEF Reached
    <3> QED BY <1>n, <3>3
  <2>3. ASSUME NEW k \in 1..N, NEW t \in G[k - 1] PROVE Applied(t, pending[p][k]) \in G[k]
    <3>1. Reached(p, k - 1, t) BY <1>n, <2>3
    <3>2. Reached(p, k, Applied(t, pending[p][k])) BY <3>1, ReachedMore
    <3> QED BY <3>2 DEF Reached
  <2>4. Flushed(p) \in G[N]
    <3> HIDE DEF G
    <3> QED BY <1>n, <2>1, <2>2, <2>3, ReplayKeeps
  <2>5. Reached(p, N, Flushed(p)) BY <1>n, <2>4
  <2>6. ASSUME Finalizing(p)
        PROVE  /\ live[p].prepared # NoObservation => Flushed(p).prepared # NoObservation
               /\ \A e \in Emission : Emitted(live[p], e) => Emitted(Flushed(p), e)
    <3>1. /\ live[p].prepared # NoObservation => Prepares(p, N)
          /\ \A e \in Emission : Emitted(live[p], e) => Delivers(p, e)
      BY <2>6 DEF Invariant, FinalsDelivered
    <3>2. ASSUME NEW e \in Emission, Delivers(p, e) PROVE Emitted(Flushed(p), e)
      <4>1. CASE Emitted(retained, e) BY <2>5, <4>1 DEF Reached, Beyond, Emitted
      <4>2. CASE ~Emitted(retained, e) BY <2>5, <2>6, <3>2, <4>2 DEF Reached, Delivers
      <4> QED BY <4>1, <4>2
    <3> QED BY <2>5, <2>6, <3>1, <3>2 DEF Reached
  <2> QED BY <2>5, <2>6 DEF Reached
<1> QED BY <1>1, <1>2, Shaped DEF Shapes, Invariant

-----------------------------------------------------------------------------
(* Steps in one container's memory. *)

LEMMA SameFacts ==
    ASSUME Invariant, UNCHANGED <<retained, live, pending, behind>>
    PROVE  /\ \A p \in Proc : HasClaimOp(p)' <=> HasClaimOp(p)
           /\ \A p \in Proc : \A k : Prepares(p, k)' <=> Prepares(p, k)
           /\ \A p \in Proc : \A e : Delivers(p, e)' <=> Delivers(p, e)
           /\ \A p \in Proc, e \in Emission : Emitted(live[p], e)' <=> Emitted(live[p], e)
BY DEF HasClaimOp, Prepares, Delivers, Emitted

(* The advance of q goes on, loses or gives up its claim, or is done with  *)
(* its final outputs.                                                      *)
MovesOn(q) ==
    /\ adv'[q].claim # NoClaim <=> adv'[q].stage \in ClaimStage
    /\ \/ adv'[q].claim = NoClaim
       \/ /\ adv'[q].claim = adv[q].claim
          /\ adv'[q].result => adv[q].result \/ \A e \in Emission : Emitted(live[q], e)

LEMMA MemorySound ==
    ASSUME Invariant, Shapes', UNCHANGED <<retained, live, pending, behind>>,
           \A q \in Proc : MovesOn(q), lease' > 0 => lease > 0
    PROVE  Invariant'
<1>u. \A q \in Proc, c \in Claim : Uses(q, c)' => Uses(q, c)
  BY CloseoutAssumption DEF Uses, MovesOn
<1>1. ClosedFirst'
  <2>1. (retained.claim # NoClaim => Closed(retained))' BY DEF Invariant, ClosedFirst
  <2>2. ASSUME NEW q \in Proc
        PROVE  /\ adv'[q].claim # NoClaim <=> adv'[q].stage \in ClaimStage
               /\ adv'[q].claim # NoClaim \/ HasClaimOp(q)' => live'[q].phase # "OPEN"
               /\ live'[q].phase # "OPEN" => retained'.phase # "OPEN"
               /\ ~behind'[q] => Beyond(retained', live'[q])
    BY SameFacts DEF MovesOn, Invariant, ClosedFirst
  <2> QED BY <2>1, <2>2 DEF ClosedFirst
<1>2. OneUser' BY <1>u DEF Invariant, OneUser
<1>3. OnePreparation'
  <2>1. retained.claim # NoClaim => retained.claim \in Claim
    BY Shaped DEF Invariant, Shapes, States
  <2>2. ASSUME NEW q \in Proc, retained.claim # NoClaim, Uses(q, retained.claim)'
        PROVE  retained.prepared \in {NoObservation, live[q].prepared}
    <3>1. Uses(q, retained.claim) BY <1>u, <2>1, <2>2 DEF Uses
    <3> QED BY <2>2, <3>1 DEF Invariant, OnePreparation
  <2>3. \A q \in Proc : HasClaimOp(q)' <=> HasClaimOp(q) BY SameFacts
  <2> QED BY <2>2, <2>3 DEF Invariant, OnePreparation
<1>4. FinalsDelivered'
  <2> SUFFICES ASSUME NEW q \in Proc, Finalizing(q)'
               PROVE  /\ live[q].prepared # NoObservation => Prepares(q, Len(pending[q]))'
                      /\ \A e \in Emission : Emitted(live[q], e) => Delivers(q, e)'
                      /\ adv'[q].result => \A e \in Emission : Emitted(live[q], e)
    BY DEF FinalsDelivered
  <2>1. /\ retained.claim # NoClaim /\ adv'[q].claim = retained.claim /\ lease > 0
    BY DEF Finalizing, Holder
  <2>2. /\ adv'[q].claim = adv[q].claim
        /\ adv'[q].result => adv[q].result \/ \A e \in Emission : Emitted(live[q], e)
    BY <2>1 DEF MovesOn
  <2>3. Finalizing(q) BY <2>1, <2>2 DEF Finalizing, Holder
  <2> QED BY <2>2, <2>3, SameFacts DEF Invariant, FinalsDelivered
<1> QED BY <1>1, <1>2, <1>3, <1>4 DEF Invariant

(* Container p accepts op. *)
Accepts(p, op) ==
    /\ Effective(live[p], op)
    /\ live' = [live EXCEPT ![p] = Result(@, op)]
    /\ pending' = [pending EXCEPT ![p] = Append(@, op)]
    /\ UNCHANGED <<retained, behind, adv, lease, drainLeft>>
    /\ ByClaim(op) =>
        /\ op.claim = adv[p].claim /\ op.claim # NoClaim
        /\ op.kind = "prepare" => live[p].prepared = NoObservation
        /\ op.kind = "final" => op.observed = live[p].prepared

LEMMA AcceptedIs ==
    ASSUME Invariant, NEW p \in Proc, NEW op \in Op, Accepts(p, op)
    PROVE  /\ \A q \in Proc : live'[q] = IF q = p THEN Result(live[p], op) ELSE live[q]
           /\ \A q \in Proc \ {p} : pending'[q] = pending[q]
           /\ Len(pending'[p]) = Len(pending[p]) + 1
           /\ \A k \in 1..Len(pending[p]) : pending'[p][k] = pending[p][k]
           /\ pending'[p][Len(pending[p]) + 1] = op
           /\ Shapes'
<1>1. /\ live \in [Proc -> States] /\ pending \in [Proc -> Seq(Op)] /\ pending[p] \in Seq(Op)
      /\ live[p] \in States
  BY DEF Invariant, Shapes
<1>2. Result(live[p], op) \in States BY <1>1, ResultIs
<1>3. Append(pending[p], op) \in Seq(Op) BY <1>1
<1>4. live' \in [Proc -> States] /\ pending' \in [Proc -> Seq(Op)]
  BY <1>1, <1>2, <1>3 DEF Accepts
<1>5. Shapes' BY <1>4 DEF Accepts, Invariant, Shapes
<1>6. pending'[p] = Append(pending[p], op) BY <1>1 DEF Accepts
<1> QED BY <1>1, <1>5, <1>6 DEF Accepts

LEMMA AcceptSound ==
    ASSUME Invariant, NEW p \in Proc, NEW op \in Op, Accepts(p, op)
    PROVE  Invariant'
<1> DEFINE l == live[p]
           r == Result(live[p], op)
<1>n. PICK n \in Nat : n = Len(pending[p]) BY Shaped DEF Invariant
<1>s. l \in States /\ n \in Nat /\ retained \in States BY Shaped DEF Invariant
<1>l. \A q \in Proc : live'[q] = IF q = p THEN r ELSE live[q] BY AcceptedIs
<1>p. /\ \A q \in Proc \ {p} : pending'[q] = pending[q]
      /\ Len(pending'[p]) = n + 1
      /\ \A k \in 1..n : pending'[p][k] = pending[p][k]
      /\ pending'[p][n + 1] = op
  BY <1>n, AcceptedIs
<1>k. UNCHANGED <<retained, behind, adv, lease, drainLeft>> BY DEF Accepts
<1>c. ByClaim(op) => /\ op.claim = adv[p].claim /\ op.claim # NoClaim
                     /\ op.claim \in Claim /\ op.observed \in Observation
                     /\ op.kind = "prepare" => l.prepared = NoObservation
                     /\ op.kind = "final" => op.observed = l.prepared
  BY OpShape DEF Accepts
<1>r. /\ r.phase = l.phase /\ l.outputs \subseteq r.outputs
      /\ r.prepared = IF op.kind = "prepare" /\ l.prepared = NoObservation
                      THEN op.observed ELSE l.prepared
      /\ op.kind = "output" => r.outputs = l.outputs \cup {WriterOutput(op.writer)}
      /\ op.kind = "final" =>
           r.outputs = IF Emitted(l, op.emission) THEN l.outputs
                       ELSE l.outputs \cup {FinalOutput(op.emission, op.observed)}
      /\ op.kind \notin {"output", "final"} => r.outputs = l.outputs
  BY <1>s, ResultIs
<1>e. Effective(l, op) BY DEF Accepts
<1> HIDE DEF r, l
<1>x. \A k \in 1..n+1 : k \in 1..n \/ k = n + 1 BY <1>s
<1>h. HasClaimOp(p)' => HasClaimOp(p) \/ ByClaim(op)
  <2> SUFFICES ASSUME NEW k \in 1..Len(pending'[p]), ByClaim(pending'[p][k])
               PROVE  HasClaimOp(p) \/ ByClaim(op)
    BY DEF HasClaimOp
  <2>1. CASE k = n + 1 BY <1>p, <2>1
  <2>2. CASE k \in 1..n BY <1>p, <2>2, <1>n DEF HasClaimOp
  <2> QED BY <1>p, <1>x, <2>1, <2>2
<1>u. \A q \in Proc : \A c : Uses(q, c)' => Uses(q, c)
  <2> SUFFICES ASSUME NEW q \in Proc, NEW c, Uses(q, c)' PROVE Uses(q, c) OBVIOUS
  <2>1. CASE adv[q].claim = c BY <2>1 DEF Uses
  <2>2. CASE q # p BY <1>k, <1>p, <2>2 DEF Uses
  <2>3. CASE q = p /\ adv[q].claim # c
    <3>1. PICK k \in 1..n+1 : ByClaim(pending'[p][k]) /\ pending'[p][k].claim = c
      BY <1>k, <1>p, <2>3 DEF Uses
    <3>2. CASE k = n + 1 BY <1>p, <1>c, <2>3, <3>1, <3>2
    <3>3. CASE k \in 1..n BY <1>p, <2>3, <3>1, <3>3, <1>n DEF Uses
    <3> QED BY <1>x, <3>2, <3>3
  <2> QED BY <2>1, <2>2, <2>3
<1>o. l.phase # "OPEN" /\ ByClaim(op) => retained.claim = op.claim
  BY <1>s, <1>e, EffectiveIs
<1>1. ClosedFirst'
  <2>1. (retained.claim # NoClaim => Closed(retained))' BY <1>k DEF Invariant, ClosedFirst
  <2>2. ASSUME NEW q \in Proc
        PROVE  /\ adv'[q].claim # NoClaim <=> adv'[q].stage \in ClaimStage
               /\ adv'[q].claim # NoClaim \/ HasClaimOp(q)' => live'[q].phase # "OPEN"
               /\ live'[q].phase # "OPEN" => retained'.phase # "OPEN"
               /\ ~behind'[q] => Beyond(retained', live'[q])
    <3>1. CASE q # p
      <4>1. live'[q] = live[q] /\ (HasClaimOp(q)' <=> HasClaimOp(q))
        BY <1>l, <1>p, <3>1 DEF HasClaimOp
      <4> QED BY <1>k, <4>1 DEF Invariant, ClosedFirst
    <3>2. CASE q = p
      <4>1. live'[p] = r BY <1>l
      <4>2. ~behind[p] => Beyond(retained, r)
        <5>1. ASSUME ~behind[p] PROVE Beyond(retained, Result(l, op))
          <6>1. Beyond(retained, l) BY <5>1 DEF Invariant, ClosedFirst, l
          <6> QED BY <1>s, <1>e, <6>1, ResultBeyond
        <5> QED BY <5>1 DEF r, l
      <4>3. /\ adv[p].claim # NoClaim <=> adv[p].stage \in ClaimStage
            /\ adv[p].claim # NoClaim \/ HasClaimOp(p) => l.phase # "OPEN"
            /\ l.phase # "OPEN" => retained.phase # "OPEN"
        BY DEF Invariant, ClosedFirst, l
      <4>4. HasClaimOp(p)' => HasClaimOp(p) \/ adv[p].claim # NoClaim BY <1>h, <1>c
      <4> QED BY <1>k, <1>r, <3>2, <4>1, <4>2, <4>3, <4>4
    <3> QED BY <3>1, <3>2
  <2> QED BY <2>1, <2>2 DEF ClosedFirst
<1>2. OneUser' BY <1>u DEF Invariant, OneUser
<1>3. OnePreparation'
  <2>a. Agree(l) BY DEF Invariant, OnePreparation, l
  <2>b. \A k \in 1..n : ByClaim(pending[p][k]) => pending[p][k].observed = l.prepared
                                                  /\ l.prepared # NoObservation
    BY ClaimOps, <1>n DEF l
  <2>1. Agree(r)
    <3> SUFFICES ASSUME NEW e \in Emission, NEW v \in Observation, FinalOutput(e, v) \in r.outputs
                 PROVE  r.prepared = v
      BY DEF Agree
    <3>1. CASE FinalOutput(e, v) \in l.outputs
      <4>1. l.prepared = v BY <2>a, <3>1 DEF Agree
      <4>2. l.prepared # NoObservation BY <4>1, CloseoutAssumption
      <4> QED BY <1>r, <4>1, <4>2
    <3>2. CASE FinalOutput(e, v) \notin l.outputs
      <4>1. op.kind = "final" /\ FinalOutput(e, v) = FinalOutput(op.emission, op.observed)
        <5>1. FinalOutput(e, v) # WriterOutput(op.writer) BY OutputKinds
        <5> QED BY <1>r, <3>2, <5>1
      <4>2. v = op.observed BY <4>1, OutputKinds
      <4> QED BY <1>c, <1>r, <4>1, <4>2 DEF ByClaim
    <3> QED BY <3>1, <3>2
  <2>2. ASSUME NEW k \in 1..n+1, ByClaim(pending'[p][k])
        PROVE  pending'[p][k].observed = r.prepared
    <3>1. CASE k \in 1..n BY <1>p, <1>r, <2>b, <2>2, <3>1
    <3>2. CASE k = n + 1 BY <1>p, <1>c, <1>r, <2>2, <3>2 DEF ByClaim
    <3> QED BY <1>x, <3>1, <3>2
  <2>3. retained.claim # NoClaim /\ Uses(p, retained.claim)
          => retained.prepared \in {NoObservation, r.prepared}
    <3>1. retained.claim # NoClaim /\ Uses(p, retained.claim)
            => retained.prepared \in {NoObservation, l.prepared}
      BY DEF Invariant, OnePreparation, l
    <3> QED BY <1>r, <3>1
  <2>4. ASSUME ~behind[p]
        PROVE  /\ \A k \in 1..n+1 :
                     ByClaim(pending'[p][k]) => pending'[p][k].claim = retained.claim
               /\ r.prepared # retained.prepared => HasClaimOp(p)'
    <3>1. /\ \A k \in 1..n : ByClaim(pending[p][k]) => pending[p][k].claim = retained.claim
          /\ l.prepared # retained.prepared => HasClaimOp(p)
      BY <2>4, <1>n DEF Invariant, OnePreparation, l
    <3>2. ByClaim(op) => op.claim = retained.claim
      <4>1. adv[p].claim # NoClaim => l.phase # "OPEN" BY DEF Invariant, ClosedFirst, l
      <4> QED BY <1>c, <1>o, <4>1
    <3>3. HasClaimOp(p) => HasClaimOp(p)'
      <4> SUFFICES ASSUME NEW k \in 1..n, ByClaim(pending[p][k]) PROVE HasClaimOp(p)'
        BY <1>n DEF HasClaimOp
      <4>1. k \in 1..n+1 /\ pending'[p][k] = pending[p][k] BY <1>s, <1>p
      <4> QED BY <1>p, <4>1 DEF HasClaimOp
    <3>4. ByClaim(op) => HasClaimOp(p)'
      <4>1. n + 1 \in 1..n+1 BY <1>s
      <4> QED BY <1>p, <4>1 DEF HasClaimOp
    <3>5. r.prepared # l.prepared => ByClaim(op) BY <1>r DEF ByClaim
    <3> QED BY <1>p, <1>x, <3>1, <3>2, <3>3, <3>4, <3>5
  <2>5. ASSUME NEW q \in Proc
        PROVE  /\ Agree(live'[q])
               /\ \A k \in 1..Len(pending'[q]) :
                     ByClaim(pending'[q][k]) => pending'[q][k].observed = live'[q].prepared
               /\ retained.claim # NoClaim /\ Uses(q, retained.claim)'
                     => retained.prepared \in {NoObservation, live'[q].prepared}
               /\ ~behind[q] =>
                     /\ \A k \in 1..Len(pending'[q]) :
                           ByClaim(pending'[q][k]) => pending'[q][k].claim = retained.claim
                     /\ live'[q].prepared # retained.prepared => HasClaimOp(q)'
    <3>1. CASE q = p
      <4>1. live'[p] = r /\ Len(pending'[p]) = n + 1 BY <1>l, <1>p
      <4>2. Uses(p, retained.claim)' => Uses(p, retained.claim) BY <1>k, <1>u DEF Uses
      <4> QED BY <2>1, <2>2, <2>3, <2>4, <3>1, <4>1, <4>2
    <3>2. CASE q # p
      <4>1. /\ live'[q] = live[q] /\ pending'[q] = pending[q]
            /\ HasClaimOp(q) => HasClaimOp(q)'
        BY <1>l, <1>p, <3>2 DEF HasClaimOp
      <4>2. Uses(q, retained.claim)' => Uses(q, retained.claim) BY <1>k, <1>u DEF Uses
      <4> QED BY <4>1, <4>2 DEF Invariant, OnePreparation
    <3> QED BY <3>1, <3>2
  <2> HIDE DEF Agree
  <2>6. Agree(retained)' BY <1>k DEF Invariant, OnePreparation, Agree
  <2> QED BY <1>k, <2>5, <2>6 DEF OnePreparation
<1>4. FinalsDelivered'
  <2> SUFFICES ASSUME NEW q \in Proc, Finalizing(q)'
               PROVE  /\ live'[q].prepared # NoObservation => Prepares(q, Len(pending[q]))'
                      /\ \A e \in Emission : Emitted(live'[q], e) => Delivers(q, e)'
                      /\ adv'[q].result => \A e \in Emission : Emitted(live'[q], e)
    BY DEF FinalsDelivered, Emitted
  <2>1. Finalizing(q) /\ retained.claim = adv[q].claim BY <1>k DEF Finalizing, Holder
  <2>2. /\ live[q].prepared # NoObservation => Prepares(q, Len(pending[q]))
        /\ \A e \in Emission : Emitted(live[q], e) => Delivers(q, e)
        /\ adv[q].result => \A e \in Emission : Emitted(live[q], e)
    BY <2>1 DEF Invariant, FinalsDelivered
  <2>3. CASE q # p
    <3>1. live'[q] = live[q] /\ pending'[q] = pending[q] BY <1>l, <1>p, <2>3
    <3>2. Prepares(q, Len(pending[q])) => Prepares(q, Len(pending[q]))'
      BY <1>k, <3>1 DEF Prepares
    <3>3. \A e \in Emission : Delivers(q, e) => Delivers(q, e)'
      BY <1>k, <3>1 DEF Delivers, Prepares, Emitted
    <3> QED BY <1>k, <2>2, <3>1, <3>2, <3>3
  <2>4. CASE q = p
    <3>0. live'[p] = r BY <1>l
    <3>1. \A k \in 0..n : Prepares(p, k) => Prepares(p, k)'
      <4> SUFFICES ASSUME NEW k \in 0..n, Prepares(p, k) PROVE Prepares(p, k)' OBVIOUS
      <4>1. \A j \in 1..k : pending'[p][j] = pending[p][j] BY <1>s, <1>p
      <4> QED BY <1>k, <4>1 DEF Prepares
    <3>2. Prepares(p, n)' => Prepares(p, n + 1)'
      BY <1>s DEF Prepares
    <3>3. r.prepared # NoObservation => Prepares(p, n + 1)'
      <4>1. CASE l.prepared # NoObservation
        <5>1. Prepares(p, n) BY <2>2, <2>4, <4>1, <1>n DEF l
        <5> QED BY <1>s, <3>1, <3>2, <5>1
      <4>2. CASE op.kind = "prepare"
        <5>1. op.claim = retained.claim BY <1>c, <2>1, <2>4, <4>2 DEF ByClaim
        <5>2. n + 1 \in 1..n+1 BY <1>s
        <5> QED BY <1>k, <1>p, <4>2, <5>1, <5>2 DEF Prepares
      <4> QED BY <1>r, <4>1, <4>2
    <3>4. ASSUME NEW e \in Emission, Emitted(r, e) PROVE Delivers(p, e)'
      <4>1. CASE Emitted(l, e)
        <5>1. Delivers(p, e) BY <2>2, <2>4, <4>1 DEF l
        <5>2. CASE Emitted(retained, e) BY <1>k, <5>2 DEF Delivers, Emitted
        <5>3. CASE \E k \in 1..n : /\ pending[p][k].kind = "final" /\ pending[p][k].emission = e
                                   /\ pending[p][k].claim = retained.claim /\ Prepares(p, k - 1)
          <6>1. PICK k \in 1..n : /\ pending[p][k].kind = "final" /\ pending[p][k].emission = e
                                  /\ pending[p][k].claim = retained.claim /\ Prepares(p, k - 1)
            BY <5>3
          <6>2. k \in 1..n+1 /\ k - 1 \in 0..n /\ pending'[p][k] = pending[p][k] BY <1>s, <1>p
          <6>3. Prepares(p, k - 1)' BY <3>1, <6>1, <6>2
          <6> QED BY <1>k, <1>p, <6>1, <6>2, <6>3 DEF Delivers
        <5> QED BY <5>1, <5>2, <5>3, <1>n DEF Delivers
      <4>2. CASE ~Emitted(l, e)
        <5>1. PICK v \in Observation : FinalOutput(e, v) \in r.outputs /\ FinalOutput(e, v) \notin l.outputs
          BY <3>4, <4>2 DEF Emitted
        <5>2. op.kind = "final" /\ FinalOutput(e, v) = FinalOutput(op.emission, op.observed)
          <6>1. FinalOutput(e, v) # WriterOutput(op.writer) BY OutputKinds
          <6> QED BY <1>r, <5>1, <6>1
        <5>3. op.emission = e BY <5>2, OutputKinds
        <5>4. op.claim = retained.claim /\ l.prepared # NoObservation
          BY <1>c, <2>1, <2>4, <5>2, CloseoutAssumption DEF ByClaim
        <5>5. Prepares(p, n) BY <2>2, <2>4, <5>4, <1>n DEF l
        <5>6. n + 1 \in 1..n+1 /\ (n + 1) - 1 = n /\ Prepares(p, n)' BY <1>s, <3>1, <5>5
        <5> QED BY <1>k, <1>p, <5>2, <5>3, <5>4, <5>6 DEF Delivers
      <4> QED BY <4>1, <4>2
    <3>5. \A e \in Emission : Emitted(l, e) => Emitted(r, e) BY <1>r DEF Emitted
    <3> QED BY <1>k, <1>p, <2>2, <2>4, <3>0, <3>3, <3>4, <3>5 DEF l
  <2> QED BY <2>3, <2>4
<1>5. Shapes' BY AcceptedIs
<1> QED BY <1>1, <1>2, <1>3, <1>4, <1>5 DEF Invariant

-----------------------------------------------------------------------------
(* A durable step of p, one that fails, or p's crash: p has nothing        *)
(* pending, or gives up its claim; no output is retained by it; and a      *)
(* claim is p's own, or new.                                               *)
DurableStep(p) ==
    /\ Shapes'
    /\ pending'[p] = <<>> /\ (pending[p] = <<>> \/ adv'[p].claim = NoClaim)
    /\ \A q \in Proc \ {p} :
          live'[q] = live[q] /\ pending'[q] = pending[q] /\ adv'[q] = adv[q]
    /\ live'[p] \in {retained, retained'}
    /\ \A q \in Proc : ~behind'[q] =>
          IF q = p THEN live'[p] = retained' ELSE retained' = retained /\ ~behind[q]
    /\ retained'.outputs = retained.outputs /\ retained'.prepared = retained.prepared
    /\ retained.phase # "OPEN" => retained'.phase # "OPEN"
    /\ retained.phase = "SEALED" => retained' = retained
    /\ retained'.phase = "SEALED" => retained' = retained \/ SealedMatchesContent'
    /\ retained'.claim # NoClaim => Closed(retained')
    /\ retained'.claim \in {retained.claim, NoClaim}
          \/ (retained'.claim \in Claim /\ Unused(retained'.claim))
    /\ adv'[p].claim # NoClaim <=> adv'[p].stage \in ClaimStage
    /\ \/ adv'[p].claim = NoClaim
       \/ adv'[p].claim = adv[p].claim /\ (adv'[p].result => adv[p].result)
       \/ /\ adv'[p].claim = retained'.claim /\ live'[p] = retained' /\ ~adv'[p].result
          /\ retained'.claim \in Claim /\ Unused(retained'.claim)
    /\ lease' > 0 /\ retained'.claim = retained.claim => lease > 0

LEMMA UnusedIs ==
    ASSUME Invariant, NEW c, Unused(c)
    PROVE  retained.claim # c /\ \A q \in Proc : ~Uses(q, c) /\ adv[q].claim # c
BY DEF Unused, Uses, ByClaim

LEMMA DurableSound ==
    ASSUME Invariant, NEW p \in Proc, DurableStep(p)
    PROVE  Invariant'
<1> USE DEF DurableStep
<1>0. /\ retained \in States /\ live[p] \in States /\ Len(pending'[p]) = 0
      /\ retained' \in States /\ live'[p] \in States
  BY Shaped DEF Invariant, Shapes
<1>h. \A q \in Proc : IF q = p THEN ~HasClaimOp(q)' ELSE HasClaimOp(q)' <=> HasClaimOp(q)
  BY <1>0 DEF HasClaimOp
<1>u. \A q \in Proc : \A c : Uses(q, c)' =>
         \/ q # p /\ Uses(q, c)
         \/ q = p /\ adv'[p].claim = c
  BY <1>0 DEF Uses
<1>f. live'[p].outputs = retained.outputs /\ live'[p].prepared = retained.prepared OBVIOUS
<1>1. ClosedFirst'
  <2>1. retained.phase # "OPEN" => retained'.phase # "OPEN" OBVIOUS
  <2>2. ASSUME NEW q \in Proc
        PROVE  /\ adv'[q].claim # NoClaim <=> adv'[q].stage \in ClaimStage
               /\ adv'[q].claim # NoClaim \/ HasClaimOp(q)' => live'[q].phase # "OPEN"
               /\ live'[q].phase # "OPEN" => retained'.phase # "OPEN"
               /\ ~behind'[q] => Beyond(retained', live'[q])
    <3>1. CASE q # p
      <4>1. ~behind'[q] => retained' = retained /\ ~behind[q] BY <3>1
      <4> QED BY <1>h, <3>1, <4>1 DEF Invariant, ClosedFirst
    <3>2. CASE q = p
      <4>1. live'[p].phase # "OPEN" => retained'.phase # "OPEN" OBVIOUS
      <4>2. ASSUME adv'[p].claim # NoClaim PROVE live'[p].phase # "OPEN"
        <5>1. CASE adv'[p].claim = adv[p].claim
          <6>1. retained.phase # "OPEN" BY <4>2, <5>1 DEF Invariant, ClosedFirst
          <6> QED BY <6>1
        <5>2. CASE adv'[p].claim = retained'.claim /\ live'[p] = retained'
          BY <4>2, <5>2 DEF Closed
        <5> QED BY <4>2, <5>1, <5>2
      <4>3. ~behind'[p] => Beyond(retained', live'[p]) BY <1>0, BeyondSelf
      <4> QED BY <1>h, <3>2, <4>1, <4>2, <4>3
    <3> QED BY <3>1, <3>2
  <2> QED BY <2>2 DEF ClosedFirst, Closed
<1>2. OneUser'
  <2> SUFFICES ASSUME NEW q1 \in Proc, NEW q2 \in Proc, NEW c \in Claim,
                      Uses(q1, c)', Uses(q2, c)'
               PROVE  q1 = q2
    BY DEF OneUser
  <2>1. \A q, s \in Proc : Uses(q, c) /\ Uses(s, c) => q = s BY DEF Invariant, OneUser
  <2>2. CASE q1 # p /\ q2 # p BY <1>u, <2>1, <2>2
  <2>3. CASE adv'[p].claim = c
    <3>1. c # NoClaim BY CloseoutAssumption
    <3>2. CASE adv[p].claim = c
      <4>1. Uses(p, c) BY <3>2 DEF Uses
      <4> QED BY <1>u, <2>1, <4>1
    <3>3. CASE Unused(c) BY <1>u, <3>3, UnusedIs
    <3> QED BY <2>3, <3>1, <3>2, <3>3
  <2> QED BY <1>u, <2>2, <2>3
<1>3. OnePreparation'
  <2>1. Agree(retained') /\ Agree(live'[p])
    <3>1. Agree(retained) BY DEF Invariant, OnePreparation
    <3> QED BY <1>f, <3>1 DEF Agree
  <2>2. ASSUME NEW q \in Proc
        PROVE  /\ Agree(live'[q])
               /\ \A k \in 1..Len(pending'[q]) :
                     ByClaim(pending'[q][k]) => pending'[q][k].observed = live'[q].prepared
               /\ retained'.claim # NoClaim /\ Uses(q, retained.claim)'
                     => retained'.prepared \in {NoObservation, live'[q].prepared}
               /\ ~behind'[q] =>
                     /\ \A k \in 1..Len(pending'[q]) :
                           ByClaim(pending'[q][k]) => pending'[q][k].claim = retained'.claim
                     /\ live'[q].prepared # retained'.prepared => HasClaimOp(q)'
    <3>1. CASE q = p BY <1>0, <1>f, <2>1, <3>1
    <3>2. CASE q # p
      <4>1. live'[q] = live[q] /\ pending'[q] = pending[q] /\ HasClaimOp(q)' = HasClaimOp(q)
        BY <1>h, <3>2 DEF HasClaimOp
      <4>2. ASSUME retained'.claim # NoClaim, Uses(q, retained.claim)'
            PROVE  retained.prepared \in {NoObservation, live[q].prepared}
        <5>1. Uses(q, retained'.claim) BY <3>2, <4>2, <1>u DEF Uses
        <5>2. ~Unused(retained'.claim) BY <5>1, UnusedIs
        <5>3. retained'.claim = retained.claim BY <4>2, <5>2
        <5> QED BY <4>2, <5>1, <5>3 DEF Invariant, OnePreparation
      <4>3. ~behind'[q] => retained' = retained /\ ~behind[q] BY <3>2
      <4> QED BY <4>1, <4>2, <4>3 DEF Invariant, OnePreparation
    <3> QED BY <3>1, <3>2
  <2> QED BY <2>1, <2>2 DEF OnePreparation, Agree
<1>4. FinalsDelivered'
  <2> SUFFICES ASSUME NEW q \in Proc, Finalizing(q)'
               PROVE  /\ live'[q].prepared # NoObservation => Prepares(q, Len(pending[q]))'
                      /\ \A e \in Emission : Emitted(live'[q], e) => Delivers(q, e)'
                      /\ adv'[q].result => \A e \in Emission : Emitted(live'[q], e)
    BY DEF FinalsDelivered, Emitted
  <2>1. /\ retained'.claim # NoClaim /\ adv'[q].claim = retained'.claim /\ lease' > 0
    BY DEF Finalizing, Holder
  <2>2. CASE q # p
    <3>1. adv[q].claim = retained'.claim BY <2>1, <2>2
    <3>2. retained'.claim = retained.claim BY <2>1, <3>1, UnusedIs
    <3>3. Finalizing(q) BY <2>1, <3>1, <3>2 DEF Finalizing, Holder
    <3>4. live'[q] = live[q] /\ pending'[q] = pending[q] /\ adv'[q] = adv[q] BY <2>2
    <3>5. Prepares(q, Len(pending[q])) => Prepares(q, Len(pending[q]))'
      BY <3>2, <3>4 DEF Prepares
    <3>6. \A e \in Emission : Delivers(q, e) => Delivers(q, e)'
      BY <3>2, <3>4 DEF Delivers, Prepares, Emitted
    <3> QED BY <3>3, <3>4, <3>5, <3>6 DEF Invariant, FinalsDelivered
  <2>3. CASE q = p
    <3>1. live'[p].prepared # NoObservation => Prepares(p, Len(pending[p]))'
      BY <1>f DEF Prepares
    <3>2. \A e \in Emission : Emitted(live'[p], e) => Delivers(p, e)'
      BY <1>f DEF Delivers, Emitted
    <3>3. ASSUME adv'[p].result PROVE \A e \in Emission : Emitted(live'[p], e)
      <4>1. adv'[p].claim = adv[p].claim /\ adv[p].result BY <2>1, <2>3, <3>3
      <4>2. ~Unused(retained'.claim) BY <2>1, <2>3, <4>1, UnusedIs
      <4>3. retained'.claim = retained.claim BY <2>1, <4>2
      <4>4. Finalizing(p) BY <2>1, <2>3, <4>1, <4>3 DEF Finalizing, Holder
      <4>5. \A e \in Emission : Delivers(p, e)
        BY <4>1, <4>4 DEF Invariant, FinalsDelivered
      <4>6. Len(pending[p]) = 0 BY <2>1, <2>3
      <4>7. \A e \in Emission : Emitted(retained, e) BY <4>5, <4>6 DEF Delivers
      <4> QED BY <1>f, <4>7 DEF Emitted
    <3> QED BY <2>3, <3>1, <3>2, <3>3
  <2> QED BY <2>2, <2>3
<1> QED BY <1>1, <1>2, <1>3, <1>4 DEF Invariant

(* A flush of p, confirmed or not. *)
FlushStep(p) ==
    /\ Shapes'
    /\ retained' = Flushed(p)
    /\ UNCHANGED <<adv, lease>>
    /\ \A q \in Proc \ {p} : live'[q] = live[q] /\ pending'[q] = pending[q]
    /\ \/ live'[p] = retained' /\ pending'[p] = <<>>
       \/ live'[p] = live[p] /\ pending'[p] = pending[p] /\ behind'[p]
    /\ \A q \in Proc : ~behind'[q] => q = p \/ (retained' = retained /\ ~behind[q])

LEMMA FlushSound ==
    ASSUME Invariant, NEW p \in Proc, FlushStep(p)
    PROVE  Invariant'
<1> USE DEF FlushStep
<1> DEFINE s == Flushed(p)
<1>s. /\ s \in States /\ Beyond(retained, s) /\ Agree(s)
      /\ \/ s.prepared = retained.prepared
         \/ /\ Uses(p, retained.claim) /\ retained.claim # NoClaim
            /\ s.prepared = live[p].prepared
      /\ Finalizing(p) =>
           /\ live[p].prepared # NoObservation => s.prepared # NoObservation
           /\ \A e \in Emission : Emitted(live[p], e) => Emitted(s, e)
  BY FlushedIs
<1>k. retained' = s OBVIOUS
<1> HIDE DEF s
<1>b. /\ s.phase = retained.phase /\ s.claim = retained.claim
      /\ retained.outputs \subseteq s.outputs
      /\ retained.prepared # NoObservation => s.prepared = retained.prepared
  BY <1>s DEF Beyond
<1>h. \A q \in Proc : HasClaimOp(q)' => HasClaimOp(q) BY DEF HasClaimOp
<1>u. \A q \in Proc : \A c : Uses(q, c)' => Uses(q, c) BY DEF Uses
<1>1. ClosedFirst'
  <2>2. ASSUME NEW q \in Proc
        PROVE  /\ adv'[q].claim # NoClaim <=> adv'[q].stage \in ClaimStage
               /\ adv'[q].claim # NoClaim \/ HasClaimOp(q)' => live'[q].phase # "OPEN"
               /\ live'[q].phase # "OPEN" => retained'.phase # "OPEN"
               /\ ~behind'[q] => Beyond(retained', live'[q])
    <3>0. /\ adv[q].claim # NoClaim <=> adv[q].stage \in ClaimStage
          /\ adv[q].claim # NoClaim \/ HasClaimOp(q) => live[q].phase # "OPEN"
          /\ live[q].phase # "OPEN" => retained.phase # "OPEN"
          /\ ~behind[q] => Beyond(retained, live[q])
      BY DEF Invariant, ClosedFirst
    <3>1. CASE live'[q] = retained' /\ q = p
      <4>1. Beyond(retained', live'[q]) BY <1>k, <1>s, <3>1, BeyondSelf
      <4> QED BY <1>b, <1>h, <1>k, <3>0, <3>1, <4>1
    <3>2. CASE live'[q] = live[q] /\ (q # p \/ behind'[q])
      <4>1. ~behind'[q] => retained' = retained /\ ~behind[q] BY <3>2
      <4> QED BY <1>b, <1>h, <1>k, <3>0, <3>2, <4>1
    <3> QED BY <3>1, <3>2
  <2> QED BY <1>b, <1>k, <2>2 DEF ClosedFirst, Closed, Invariant
<1>2. OneUser' BY <1>u DEF Invariant, OneUser
<1>3. OnePreparation'
  <2>1. Agree(retained') BY <1>k, <1>s
  <2>2. ASSUME NEW q \in Proc
        PROVE  /\ Agree(live'[q])
               /\ \A k \in 1..Len(pending'[q]) :
                     ByClaim(pending'[q][k]) => pending'[q][k].observed = live'[q].prepared
               /\ retained'.claim # NoClaim /\ Uses(q, retained.claim)'
                     => retained'.prepared \in {NoObservation, live'[q].prepared}
               /\ ~behind'[q] =>
                     /\ \A k \in 1..Len(pending'[q]) :
                           ByClaim(pending'[q][k]) => pending'[q][k].claim = retained'.claim
                     /\ live'[q].prepared # retained'.prepared => HasClaimOp(q)'
    <3>1. CASE live'[q] = retained' /\ q = p /\ pending'[q] = <<>>
      <4>1. Agree(live'[q]) /\ Len(pending'[q]) = 0 BY <2>1, <3>1
      <4> QED BY <3>1, <4>1
    <3>2. CASE live'[q] = live[q] /\ pending'[q] = pending[q] /\ (q # p \/ behind'[q])
      <4>0. /\ Agree(live[q])
            /\ \A k \in 1..Len(pending[q]) :
                  ByClaim(pending[q][k]) => pending[q][k].observed = live[q].prepared
            /\ retained.claim # NoClaim /\ Uses(q, retained.claim)
                  => retained.prepared \in {NoObservation, live[q].prepared}
            /\ ~behind[q] =>
                  /\ \A k \in 1..Len(pending[q]) :
                        ByClaim(pending[q][k]) => pending[q][k].claim = retained.claim
                  /\ live[q].prepared # retained.prepared => HasClaimOp(q)
        BY DEF Invariant, OnePreparation
      <4>1. ASSUME retained.claim # NoClaim, Uses(q, retained.claim)
            PROVE  s.prepared \in {NoObservation, live[q].prepared}
        <5>1. CASE s.prepared = retained.prepared BY <4>0, <4>1, <5>1
        <5>2. CASE Uses(p, retained.claim) /\ s.prepared = live[p].prepared
          <6>1. retained.claim \in Claim BY <4>1, Shaped DEF Invariant, States
          <6>2. q = p BY <4>1, <5>2, <6>1 DEF Invariant, OneUser
          <6> QED BY <5>2, <6>2
        <5> QED BY <1>s, <5>1, <5>2
      <4>2. ~behind'[q] => retained' = retained /\ ~behind[q] BY <3>2
      <4>3. HasClaimOp(q)' <=> HasClaimOp(q) BY <3>2 DEF HasClaimOp
      <4>4. retained'.claim # NoClaim /\ Uses(q, retained.claim)'
              => retained.claim # NoClaim /\ Uses(q, retained.claim)
        BY <1>b, <1>k, <1>u DEF Uses
      <4> QED BY <1>k, <3>2, <4>0, <4>1, <4>2, <4>3, <4>4
    <3> QED BY <3>1, <3>2
  <2> QED BY <2>1, <2>2 DEF OnePreparation, Agree
<1>4. FinalsDelivered'
  <2> SUFFICES ASSUME NEW q \in Proc, Finalizing(q)'
               PROVE  /\ live'[q].prepared # NoObservation => Prepares(q, Len(pending[q]))'
                      /\ \A e \in Emission : Emitted(live'[q], e) => Delivers(q, e)'
                      /\ adv'[q].result => \A e \in Emission : Emitted(live'[q], e)
    BY DEF FinalsDelivered, Emitted
  <2>1. Finalizing(q) BY <1>b, <1>k DEF Finalizing, Holder
  <2>2. /\ live[q].prepared # NoObservation => Prepares(q, Len(pending[q]))
        /\ \A e \in Emission : Emitted(live[q], e) => Delivers(q, e)
        /\ adv[q].result => \A e \in Emission : Emitted(live[q], e)
    BY <2>1 DEF Invariant, FinalsDelivered
  <2>3. CASE live'[q] = live[q] /\ pending'[q] = pending[q]
    <3>1. Prepares(q, Len(pending[q])) => Prepares(q, Len(pending[q]))'
      BY <1>b, <1>k, <2>3 DEF Prepares
    <3>2. \A k : Prepares(q, k) => Prepares(q, k)' BY <1>b, <1>k, <2>3 DEF Prepares
    <3>3. \A e \in Emission : Delivers(q, e) => Delivers(q, e)'
      BY <1>b, <1>k, <2>3, <3>2 DEF Delivers, Emitted
    <3> QED BY <2>2, <2>3, <3>1, <3>3
  <2>4. CASE q = p /\ live'[q] = retained'
    <3>1. live'[q].prepared # NoObservation => Prepares(q, Len(pending[q]))'
      BY <2>4 DEF Prepares
    <3>2. \A e \in Emission : Emitted(live'[q], e) => Delivers(q, e)'
      BY <2>4 DEF Delivers, Emitted
    <3>3. adv'[q].result => \A e \in Emission : Emitted(live'[q], e)
      BY <1>k, <1>s, <2>1, <2>2, <2>4 DEF Emitted
    <3> QED BY <3>1, <3>2, <3>3
  <2> QED BY <2>3, <2>4
<1> QED BY <1>1, <1>2, <1>3, <1>4 DEF Invariant

-----------------------------------------------------------------------------
(* Which of these steps each action is. *)

LEMMA QuitIs ==
    ASSUME Invariant, NEW p \in Proc, Quit(p)
    PROVE  /\ adv' \in [Proc -> AdvState]
           /\ \A q \in Proc \ {p} : adv'[q] = adv[q]
           /\ adv'[p].claim # NoClaim <=> adv'[p].stage \in ClaimStage
           /\ adv'[p].claim = NoClaim
                \/ (adv'[p].claim = adv[p].claim /\ (adv'[p].result => adv[p].result))
<1>0. adv \in [Proc -> AdvState] /\ adv[p] \in AdvState BY DEF Invariant, Shapes
<1>1. CASE adv[p].claim = NoClaim
  <2>1. adv' = [adv EXCEPT ![p] = Idle] BY <1>1 DEF Quit, End
  <2>2. Idle \in AdvState /\ Idle.claim = NoClaim /\ Idle.stage \notin ClaimStage
    BY CloseoutAssumption DEF Idle, AdvState, States, Initial, ClaimStage
  <2> QED BY <1>0, <2>1, <2>2
<1>2. CASE adv[p].claim # NoClaim
  <2> DEFINE a == [adv[p] EXCEPT !.stage = "release"]
  <2>1. adv' = [adv EXCEPT ![p] = a] BY <1>2 DEF Quit, To
  <2>2. /\ a \in AdvState /\ a.claim = adv[p].claim /\ a.stage = "release"
        /\ a.result = adv[p].result
    BY <1>0 DEF AdvState, ClaimStage
  <2> HIDE DEF a
  <2> QED BY <1>0, <1>2, <2>1, <2>2 DEF ClaimStage
<1> QED BY <1>1, <1>2

LEMMA EndIs ==
    ASSUME Invariant, NEW p \in Proc, End(p)
    PROVE  /\ adv' \in [Proc -> AdvState]
           /\ \A q \in Proc \ {p} : adv'[q] = adv[q]
           /\ adv'[p].claim = NoClaim /\ adv'[p].stage \notin ClaimStage
<1>0. adv \in [Proc -> AdvState] BY DEF Invariant, Shapes
<1>1. Idle \in AdvState /\ Idle.claim = NoClaim /\ Idle.stage \notin ClaimStage
  BY CloseoutAssumption DEF Idle, AdvState, States, Initial, ClaimStage
<1> QED BY <1>0, <1>1 DEF End

LEMMA ToIs ==
    ASSUME Invariant, NEW p \in Proc,
           NEW stage \in {"none", "resume", "drain", "record", "claim"} \cup ClaimStage, To(p, stage)
    PROVE  /\ adv' \in [Proc -> AdvState]
           /\ \A q \in Proc \ {p} : adv'[q] = adv[q]
           /\ adv'[p].claim = adv[p].claim /\ adv'[p].result = adv[p].result
           /\ adv'[p].stage = stage
<1>0. adv \in [Proc -> AdvState] /\ adv[p] \in AdvState BY DEF Invariant, Shapes
<1> DEFINE a == [adv[p] EXCEPT !.stage = stage]
<1>1. adv' = [adv EXCEPT ![p] = a] BY DEF To
<1>2. a \in AdvState /\ a.claim = adv[p].claim /\ a.stage = stage /\ a.result = adv[p].result
  BY <1>0 DEF AdvState
<1> HIDE DEF a
<1> QED BY <1>0, <1>1, <1>2

(* Before a claim is taken there is none. *)
LEMMA ClaimAt ==
    ASSUME Invariant, NEW p \in Proc
    PROVE  adv[p].claim # NoClaim <=> adv[p].stage \in ClaimStage
BY DEF Invariant, ClosedFirst

(* p's own advance moves, and nothing else. *)
LEMMA OwnMove ==
    ASSUME Invariant, NEW p \in Proc, UNCHANGED <<journalVars, timerVars>>,
           adv' \in [Proc -> AdvState], \A q \in Proc \ {p} : adv'[q] = adv[q], MovesOn(p)
    PROVE  Invariant'
<1>1. UNCHANGED <<retained, live, pending, behind, lease, drainLeft>>
  BY DEF journalVars, timerVars
<1>2. Shapes' BY <1>1 DEF Invariant, Shapes
<1>3. \A q \in Proc : MovesOn(q)
  <2> SUFFICES ASSUME NEW q \in Proc, q # p PROVE MovesOn(q) OBVIOUS
  <2> QED BY ClaimAt DEF MovesOn
<1> QED BY <1>1, <1>2, <1>3, MemorySound

LEMMA AdvanceBeginSound ==
    ASSUME Invariant, NEW p \in Proc, AdvanceBegin(p) PROVE Invariant'
<1>1. PICK stage \in {"resume", "drain"} : To(p, stage) BY DEF AdvanceBegin
<1>2. adv[p].claim = NoClaim BY ClaimAt DEF AdvanceBegin, At, ClaimStage
<1>3. MovesOn(p) BY <1>1, <1>2, ToIs DEF MovesOn, ClaimStage
<1> QED BY <1>1, <1>3, ToIs, OwnMove DEF AdvanceBegin

LEMMA DrainSound == ASSUME Invariant, NEW p \in Proc, Drain(p) PROVE Invariant'
<1>0. adv \in [Proc -> AdvState] BY DEF Invariant, Shapes
<1>1. PICK drained \in BOOLEAN :
         adv' = [adv EXCEPT ![p] = [Idle EXCEPT !.stage = "record", !.drained = drained,
                                       !.clear = drained /\ live[p].writers = {}]]
  BY DEF Drain
<1> DEFINE c == drained /\ live[p].writers = {}
           a == [Idle EXCEPT !.stage = "record", !.drained = drained, !.clear = c]
<1>2. c \in BOOLEAN OBVIOUS
<1>3. adv' = [adv EXCEPT ![p] = a] BY <1>1
<1> HIDE DEF c
<1>4. a \in AdvState /\ a.claim = NoClaim /\ a.stage = "record"
  BY <1>2, CloseoutAssumption DEF Idle, AdvState, States, Initial
<1> HIDE DEF a
<1>5. /\ adv' \in [Proc -> AdvState] /\ \A q \in Proc \ {p} : adv'[q] = adv[q]
      /\ adv'[p] = a
  BY <1>0, <1>3, <1>4
<1>6. MovesOn(p) BY <1>4, <1>5 DEF MovesOn, ClaimStage
<1> QED BY <1>5, <1>6, OwnMove DEF Drain

LEMMA PrepareFailsSound ==
    ASSUME Invariant, NEW p \in Proc, PrepareFails(p) PROVE Invariant'
<1>1. To(p, "audit") /\ adv[p].stage = "finalize" BY DEF PrepareFails, At
<1>2. "audit" \in ClaimStage /\ "finalize" \in ClaimStage BY DEF ClaimStage
<1>3. MovesOn(p) BY <1>1, <1>2, ToIs, ClaimAt DEF MovesOn
<1> QED BY <1>1, <1>2, <1>3, ToIs, OwnMove DEF PrepareFails

LEMMA FinalizeDoneSound ==
    ASSUME Invariant, NEW p \in Proc, FinalizeDone(p) PROVE Invariant'
<1>0. adv \in [Proc -> AdvState] /\ adv[p] \in AdvState BY DEF Invariant, Shapes
<1> DEFINE a == [adv[p] EXCEPT !.stage = "audit", !.result = TRUE]
<1>1. adv' = [adv EXCEPT ![p] = a] BY DEF FinalizeDone
<1>2. a \in AdvState /\ a.claim = adv[p].claim /\ a.stage = "audit"
  BY <1>0 DEF AdvState, ClaimStage
<1> HIDE DEF a
<1>3. /\ adv' \in [Proc -> AdvState] /\ \A q \in Proc \ {p} : adv'[q] = adv[q]
      /\ adv'[p] = a
  BY <1>0, <1>1, <1>2
<1>4. adv[p].claim # NoClaim BY ClaimAt DEF FinalizeDone, At, ClaimStage
<1>5. \A e \in Emission : Emitted(live[p], e) BY DEF FinalizeDone
<1>6. MovesOn(p) BY <1>2, <1>3, <1>4, <1>5 DEF MovesOn, ClaimStage
<1> QED BY <1>3, <1>6, OwnMove DEF FinalizeDone

LEMMA AuditSound == ASSUME Invariant, NEW p \in Proc, Audit(p) PROVE Invariant'
<1>0. adv \in [Proc -> AdvState] /\ adv[p] \in AdvState /\ retained \in States
  BY DEF Invariant, Shapes
<1>1. CASE adv' = [adv EXCEPT ![p].stage = "seal", ![p].audited = retained]
  <2> DEFINE a == [adv[p] EXCEPT !.stage = "seal", !.audited = retained]
  <2>1. adv' = [adv EXCEPT ![p] = a] BY <1>1
  <2>2. /\ a \in AdvState /\ a.claim = adv[p].claim /\ a.stage = "seal"
        /\ a.result = adv[p].result
    BY <1>0 DEF AdvState, ClaimStage
  <2> HIDE DEF a
  <2>3. /\ adv' \in [Proc -> AdvState] /\ \A q \in Proc \ {p} : adv'[q] = adv[q]
        /\ adv'[p] = a
    BY <1>0, <2>1, <2>2
  <2>4. adv[p].claim # NoClaim BY ClaimAt DEF Audit, At, ClaimStage
  <2>5. MovesOn(p) BY <2>2, <2>3, <2>4 DEF MovesOn, ClaimStage
  <2> QED BY <2>3, <2>5, OwnMove DEF Audit
<1>2. CASE Quit(p)
  <2>1. MovesOn(p) BY <1>2, QuitIs DEF MovesOn
  <2> QED BY <1>2, <2>1, QuitIs, OwnMove DEF Audit
<1> QED BY <1>1, <1>2 DEF Audit

LEMMA TickSound == ASSUME Invariant, Tick PROVE Invariant'
<1>0. /\ lease \in Nat /\ drainLeft \in Nat /\ lease <= Lease /\ drainLeft <= DrainTimeout
      /\ Lease \in Nat /\ DrainTimeout \in Nat
  BY CloseoutAssumption DEF Invariant, Shapes
<1>1. UNCHANGED <<retained, live, pending, behind, adv>> BY DEF Tick, journalVars
<1>2. lease' \in 0..Lease /\ drainLeft' \in 0..DrainTimeout /\ (lease' > 0 => lease > 0)
  BY <1>0 DEF Tick, Down
<1>3. Shapes' BY <1>1, <1>2 DEF Invariant, Shapes
<1>4. \A q \in Proc : MovesOn(q) BY <1>1, ClaimAt DEF MovesOn
<1> QED BY <1>1, <1>2, <1>3, <1>4, MemorySound

(* p offers op to its journal, which changes nothing, or accepts it. *)
LEMMA TransactIs ==
    ASSUME Invariant, NEW p \in Proc, NEW op \in Op, Transact(p, op),
           UNCHANGED <<retained, behind, timerVars>>,
           Effective(live[p], op) => UNCHANGED adv,
           ByClaim(op) => /\ op.claim = adv[p].claim /\ op.claim # NoClaim
                          /\ op.kind = "prepare" => live[p].prepared = NoObservation
                          /\ op.kind = "final" => op.observed = live[p].prepared,
           adv' \in [Proc -> AdvState], \A q \in Proc \ {p} : adv'[q] = adv[q], MovesOn(p)
    PROVE  Invariant'
<1>1. CASE Effective(live[p], op)
  <2>1. Accepts(p, op) BY <1>1 DEF Transact, Accepts, timerVars
  <2> QED BY <2>1, AcceptSound
<1>2. CASE ~Effective(live[p], op)
  <2>1. UNCHANGED <<journalVars, timerVars>> BY <1>2 DEF Transact, journalVars
  <2> QED BY <2>1, OwnMove
<1> QED BY <1>1, <1>2

LEMMA PlainTransact ==
    ASSUME Invariant, NEW p \in Proc, NEW op \in Op, ~ByClaim(op), Transact(p, op),
           UNCHANGED <<retained, behind, timerVars, adv>>
    PROVE  Invariant'
<1>1. adv' \in [Proc -> AdvState] /\ \A q \in Proc \ {p} : adv'[q] = adv[q]
  BY DEF Invariant, Shapes
<1>2. MovesOn(p) BY ClaimAt DEF MovesOn
<1> QED BY <1>1, <1>2, TransactIs

LEMMA WritersSound ==
    ASSUME Invariant, NEW p \in Proc, NEW w \in Writer,
           Reserved(p, w) \/ Produce(p, w) \/ FinishWriter(p, w)
    PROVE  Invariant'
<1>1. CASE Reserved(p, w)
  <2>1. Reserve(w) \in Op /\ ~ByClaim(Reserve(w)) BY DEF Op, Reserve, ByClaim
  <2> QED BY <1>1, <2>1, PlainTransact DEF Reserved
<1>2. CASE Produce(p, w)
  <2>1. Output(w) \in Op /\ ~ByClaim(Output(w)) BY DEF Op, Output, ByClaim
  <2> QED BY <1>2, <2>1, PlainTransact DEF Produce
<1>3. CASE FinishWriter(p, w)
  <2>1. \A bad \in BOOLEAN : Finish(w, bad) \in Op /\ ~ByClaim(Finish(w, bad))
    BY DEF Op, Finish, ByClaim
  <2>2. PICK bad \in BOOLEAN : Transact(p, Finish(w, bad)) BY <1>3 DEF FinishWriter
  <2> QED BY <1>3, <2>1, <2>2, PlainTransact DEF FinishWriter
<1> QED BY <1>1, <1>2, <1>3

LEMMA AckSound == ASSUME Invariant, NEW p \in Proc, Ack(p) PROVE Invariant'
<1>1. Acknowledge \in Op /\ ~ByClaim(Acknowledge) BY DEF Op, Acknowledge, ByClaim
<1> QED BY <1>1, PlainTransact DEF Ack

LEMMA OfferSound ==
    ASSUME Invariant, NEW p \in Proc, NEW op \in Op, Transact(p, op), At(p, "finalize"),
           UNCHANGED <<retained, behind, timerVars>>,
           op.claim = adv[p].claim,
           op.kind = "prepare" => live[p].prepared = NoObservation,
           op.kind = "final" => op.observed = live[p].prepared,
           IF Admits(live[p], op) THEN UNCHANGED adv ELSE Quit(p)
    PROVE  Invariant'
<1>1. adv[p].claim # NoClaim BY ClaimAt DEF At, ClaimStage
<1>2. Effective(live[p], op) => UNCHANGED adv BY DEF Effective
<1>3. /\ adv' \in [Proc -> AdvState] /\ \A q \in Proc \ {p} : adv'[q] = adv[q]
      /\ MovesOn(p)
  <2>1. CASE UNCHANGED adv BY <2>1, ClaimAt DEF Invariant, Shapes, MovesOn
  <2>2. CASE Quit(p) BY <2>2, QuitIs DEF MovesOn
  <2> QED BY <2>1, <2>2
<1> QED BY <1>1, <1>2, <1>3, TransactIs

LEMMA PrepareFinalSound ==
    ASSUME Invariant, NEW p \in Proc, PrepareFinal(p) PROVE Invariant'
<1>1. adv[p].claim \in Claim
  BY ClaimAt, Shaped DEF PrepareFinal, At, ClaimStage, Invariant, AdvState
<1>2. PICK v \in Observation :
         /\ Transact(p, Prepare(adv[p].claim, v))
         /\ IF Admits(live[p], Prepare(adv[p].claim, v)) THEN UNCHANGED adv ELSE Quit(p)
  BY DEF PrepareFinal
<1> DEFINE op == Prepare(adv[p].claim, v)
<1>3. op \in Op /\ op.claim = adv[p].claim /\ op.kind = "prepare" BY <1>1 DEF Op, Prepare
<1> HIDE DEF op
<1>4. At(p, "finalize") /\ live[p].prepared = NoObservation
      /\ UNCHANGED <<retained, behind, timerVars>>
  BY DEF PrepareFinal
<1>5. Transact(p, op) /\ IF Admits(live[p], op) THEN UNCHANGED adv ELSE Quit(p)
  BY <1>2 DEF op
<1> QED BY <1>3, <1>4, <1>5, OfferSound

LEMMA EmitFinalSound ==
    ASSUME Invariant, NEW p \in Proc, NEW e \in Emission, EmitFinal(p, e) PROVE Invariant'
<1>1. adv[p].claim \in Claim /\ live[p].prepared \in Observation
  BY ClaimAt, Shaped DEF EmitFinal, At, ClaimStage, Invariant, AdvState, States
<1> DEFINE op == Final(adv[p].claim, e, live[p].prepared)
<1>3. /\ op \in Op /\ op.claim = adv[p].claim /\ op.kind = "final"
      /\ op.observed = live[p].prepared
  BY <1>1 DEF Op, Final
<1>4. /\ At(p, "finalize") /\ UNCHANGED <<retained, behind, timerVars>> /\ Transact(p, op)
      /\ IF Admits(live[p], op) THEN UNCHANGED adv ELSE Quit(p)
  BY DEF EmitFinal
<1> HIDE DEF op
<1> QED BY <1>3, <1>4, OfferSound

-----------------------------------------------------------------------------
(* The durable steps.  Each makes of the retained state s one like this.   *)
StateTurn(s, t) ==
    /\ t \in States /\ t.outputs = s.outputs /\ t.prepared = s.prepared
    /\ s.phase # "OPEN" => t.phase # "OPEN"
    /\ s.phase = "SEALED" => t = s
    /\ t.claim # NoClaim => Closed(t)

KeepsClaim(s, t) == t.claim \in {s.claim, NoClaim} /\ (t.phase = "SEALED" => t = s)

LEMMA StatesTurn ==
    ASSUME Invariant, NEW p \in Proc
    PROVE  /\ StateTurn(retained, retained) /\ KeepsClaim(retained, retained)
           /\ StateTurn(retained, Begun(retained)) /\ KeepsClaim(retained, Begun(retained))
           /\ StateTurn(retained, Resumed(retained)) /\ KeepsClaim(retained, Resumed(retained))
           /\ \A drained : /\ StateTurn(retained, Recorded(retained, drained))
                           /\ KeepsClaim(retained, Recorded(retained, drained))
           /\ /\ StateTurn(retained, Released(p, retained))
              /\ KeepsClaim(retained, Released(p, retained))
           /\ Claimable(retained) =>
                \A c \in Claim : /\ StateTurn(retained, [retained EXCEPT !.claim = c])
                                 /\ [retained EXCEPT !.claim = c].claim = c
                                 /\ [retained EXCEPT !.claim = c].phase = "CLOSING"
<1>0. retained \in States /\ (retained.claim # NoClaim => Closed(retained))
  BY Shaped DEF Invariant, ClosedFirst
<1> DEFINE s == retained
<1> HIDE DEF s
<1>1. s \in States /\ (s.claim # NoClaim => Closed(s)) BY <1>0 DEF s
<1>2. StateTurn(s, s) /\ KeepsClaim(s, s) BY <1>1 DEF StateTurn, KeepsClaim
<1>3. StateTurn(s, Begun(s)) /\ KeepsClaim(s, Begun(s))
  <2>1. CASE s.phase = "OPEN"
    <3>1. Begun(s) = [s EXCEPT !.phase = "CLOSING"] BY <2>1 DEF Begun
    <3> QED BY <1>1, <2>1, <3>1 DEF StateTurn, KeepsClaim, States, Closed
  <2>2. CASE s.phase # "OPEN"
    <3>1. Begun(s) = s BY <2>2 DEF Begun
    <3> QED BY <1>2, <3>1
  <2> QED BY <2>1, <2>2
<1>4. StateTurn(s, Resumed(s)) /\ KeepsClaim(s, Resumed(s))
  <2>1. CASE s.phase = "INCOMPLETE"
    <3>1. Resumed(s) = [s EXCEPT !.phase = "CLOSING", !.manifest = NoManifest]
      BY <2>1 DEF Resumed
    <3> QED BY <1>1, <2>1, <3>1 DEF StateTurn, KeepsClaim, States, Closed
  <2>2. CASE s.phase # "INCOMPLETE"
    <3>1. Resumed(s) = s BY <2>2 DEF Resumed
    <3> QED BY <1>2, <3>1
  <2> QED BY <2>1, <2>2
<1>5. ASSUME NEW drained
      PROVE  StateTurn(s, Recorded(s, drained)) /\ KeepsClaim(s, Recorded(s, drained))
  <2> DEFINE late == s.phase = "CLOSING" /\ (s.writers # {} \/ ~drained) /\ drainLeft = 0
  <2>1. CASE late
    <3>1. Recorded(s, drained) = [s EXCEPT !.phase = "INCOMPLETE"] BY <2>1 DEF Recorded
    <3> QED BY <1>1, <2>1, <3>1 DEF StateTurn, KeepsClaim, States, Closed
  <2>2. CASE ~late
    <3>1. Recorded(s, drained) = s BY <2>2 DEF Recorded
    <3> QED BY <1>2, <3>1
  <2> QED BY <2>1, <2>2
<1>6. StateTurn(s, Released(p, s)) /\ KeepsClaim(s, Released(p, s))
  <2>1. CASE s.phase = "CLOSING" /\ s.claim = adv[p].claim
    <3>1. Released(p, s) = [s EXCEPT !.claim = NoClaim] BY <2>1 DEF Released
    <3> QED BY <1>1, <2>1, <3>1 DEF StateTurn, KeepsClaim, States, Closed
  <2>2. CASE ~(s.phase = "CLOSING" /\ s.claim = adv[p].claim)
    <3>1. Released(p, s) = s BY <2>2 DEF Released
    <3> QED BY <1>2, <3>1
  <2> QED BY <2>1, <2>2
<1>7. ASSUME s.phase = "CLOSING", NEW c \in Claim
      PROVE  /\ StateTurn(s, [s EXCEPT !.claim = c])
             /\ [s EXCEPT !.claim = c].claim = c /\ [s EXCEPT !.claim = c].phase = "CLOSING"
  BY <1>1, <1>7 DEF StateTurn, States, Closed
<1> QED BY <1>2, <1>3, <1>4, <1>5, <1>6, <1>7 DEF s, Claimable

(* p durably retains t. *)
LEMMA DurablyIs ==
    ASSUME Invariant, NEW p \in Proc, NEW t, Durably(p, t), StateTurn(retained, t),
           KeepsClaim(retained, t) \/ (t.claim \in Claim /\ Unused(t.claim) /\ t.phase # "SEALED"),
           lease' \in 0..Lease, drainLeft' \in 0..DrainTimeout,
           lease' > 0 /\ t.claim = retained.claim => lease > 0,
           adv' \in [Proc -> AdvState], \A q \in Proc \ {p} : adv'[q] = adv[q],
           adv'[p].claim # NoClaim <=> adv'[p].stage \in ClaimStage,
           \/ adv'[p].claim = NoClaim
           \/ adv'[p].claim = adv[p].claim /\ (adv'[p].result => adv[p].result)
           \/ adv'[p].claim = t.claim /\ ~adv'[p].result /\ t.claim \in Claim /\ Unused(t.claim)
    PROVE  DurableStep(p)
<1>0. /\ live \in [Proc -> States] /\ pending \in [Proc -> Seq(Op)]
      /\ behind \in [Proc -> BOOLEAN]
  BY DEF Invariant, Shapes
<1>1. /\ retained' = t /\ live' = [live EXCEPT ![p] = t] /\ pending[p] = <<>>
      /\ UNCHANGED pending
  BY DEF Durably, Retains
<1>2. /\ behind' \in [Proc -> BOOLEAN]
      /\ \A q \in Proc : ~behind'[q] => q = p \/ (t = retained /\ ~behind[q])
  BY <1>0 DEF Durably, Retains
<1>3. /\ t \in States /\ t.outputs = retained.outputs /\ t.prepared = retained.prepared
      /\ retained.phase # "OPEN" => t.phase # "OPEN"
      /\ retained.phase = "SEALED" => t = retained
      /\ t.claim # NoClaim => Closed(t)
  BY DEF StateTurn
<1>4. t.phase = "SEALED" => t = retained BY DEF KeepsClaim
<1>5. t.claim \in {retained.claim, NoClaim} \/ (t.claim \in Claim /\ Unused(t.claim))
  BY DEF KeepsClaim
<1>6. Shapes' BY <1>0, <1>1, <1>2, <1>3 DEF Shapes
<1>7. live'[p] = t /\ \A q \in Proc \ {p} : live'[q] = live[q] BY <1>0, <1>1
<1> QED BY <1>1, <1>2, <1>3, <1>4, <1>5, <1>6, <1>7 DEF DurableStep, Closed

(* An advance that keeps its claim, or gives it up. *)
KeepsAdvance(p) ==
    /\ adv' \in [Proc -> AdvState] /\ \A q \in Proc \ {p} : adv'[q] = adv[q]
    /\ adv'[p].claim # NoClaim <=> adv'[p].stage \in ClaimStage
    /\ \/ adv'[p].claim = NoClaim
       \/ adv'[p].claim = adv[p].claim /\ (adv'[p].result => adv[p].result)

LEMMA Advances ==
    ASSUME Invariant, NEW p \in Proc
    PROVE  /\ UNCHANGED adv => KeepsAdvance(p)
           /\ Quit(p) => KeepsAdvance(p)
           /\ End(p) => KeepsAdvance(p)
           /\ At(p, "resume") /\ To(p, "drain") => KeepsAdvance(p)
           /\ At(p, "record") /\ To(p, "claim") => KeepsAdvance(p)
           /\ At(p, "seal") /\ To(p, "release") => KeepsAdvance(p)
           /\ adv' = [adv EXCEPT ![p] = [Idle EXCEPT !.stage = "record"]] => KeepsAdvance(p)
<1>0. adv \in [Proc -> AdvState] BY DEF Invariant, Shapes
<1>1. UNCHANGED adv => KeepsAdvance(p) BY <1>0, ClaimAt DEF KeepsAdvance
<1>2. Quit(p) => KeepsAdvance(p) BY QuitIs DEF KeepsAdvance
<1>3. End(p) => KeepsAdvance(p) BY EndIs DEF KeepsAdvance
<1>4. At(p, "resume") /\ To(p, "drain") => KeepsAdvance(p)
  BY ToIs, ClaimAt DEF KeepsAdvance, At, ClaimStage
<1>5. At(p, "record") /\ To(p, "claim") => KeepsAdvance(p)
  BY ToIs, ClaimAt DEF KeepsAdvance, At, ClaimStage
<1>6. At(p, "seal") /\ To(p, "release") => KeepsAdvance(p)
  <2>1. "release" \in ClaimStage /\ "seal" \in ClaimStage BY DEF ClaimStage
  <2> QED BY <2>1, ToIs, ClaimAt DEF KeepsAdvance, At
<1>7. ASSUME adv' = [adv EXCEPT ![p] = [Idle EXCEPT !.stage = "record"]] PROVE KeepsAdvance(p)
  <2> DEFINE a == [Idle EXCEPT !.stage = "record"]
  <2>1. a \in AdvState /\ a.claim = NoClaim /\ a.stage = "record"
    BY CloseoutAssumption DEF Idle, AdvState, States, Initial
  <2>2. adv' = [adv EXCEPT ![p] = a] BY <1>7
  <2> HIDE DEF a
  <2> QED BY <1>0, <2>1, <2>2 DEF KeepsAdvance, ClaimStage
<1> QED BY <1>1, <1>2, <1>3, <1>4, <1>5, <1>6, <1>7

LEMMA Timers ==
    ASSUME Invariant
    PROVE  /\ lease \in 0..Lease /\ drainLeft \in 0..DrainTimeout
           /\ Lease \in 0..Lease /\ DrainTimeout \in 0..DrainTimeout
BY CloseoutAssumption DEF Invariant, Shapes

(* A durable step that keeps the claim, and the timers or lets them run.   *)
LEMMA PlainDurable ==
    ASSUME Invariant, NEW p \in Proc, NEW t, Durably(p, t), StateTurn(retained, t),
           KeepsClaim(retained, t), KeepsAdvance(p),
           lease' \in 0..Lease, drainLeft' \in 0..DrainTimeout, lease' > 0 => lease > 0
    PROVE  DurableStep(p)
BY DurablyIs DEF KeepsAdvance

LEMMA BeginIs == ASSUME Invariant, NEW p \in Proc, Begin(p) PROVE DurableStep(p)
<1>1. drainLeft' \in 0..DrainTimeout BY Timers DEF Begin
<1>2. UNCHANGED <<adv, lease>> BY DEF Begin
<1>3. KeepsAdvance(p) BY <1>2, Advances
<1> QED BY <1>1, <1>2, <1>3, Timers, StatesTurn, PlainDurable DEF Begin

LEMMA ResumeIs == ASSUME Invariant, NEW p \in Proc, Resume(p) PROVE DurableStep(p)
<1>1. UNCHANGED <<lease, drainLeft>> BY DEF Resume, timerVars
<1>2. KeepsAdvance(p) BY Advances DEF Resume
<1> QED BY <1>1, <1>2, Timers, StatesTurn, PlainDurable DEF Resume

LEMMA RecordDrainIs == ASSUME Invariant, NEW p \in Proc, RecordDrain(p) PROVE DurableStep(p)
<1>1. UNCHANGED <<lease, drainLeft>> BY DEF RecordDrain, timerVars
<1>2. KeepsAdvance(p) BY Advances DEF RecordDrain
<1> QED BY <1>1, <1>2, Timers, StatesTurn, PlainDurable DEF RecordDrain

LEMMA ReleaseIs == ASSUME Invariant, NEW p \in Proc, Release(p) PROVE DurableStep(p)
<1>1. UNCHANGED <<lease, drainLeft>> BY DEF Release, timerVars
<1>2. KeepsAdvance(p) BY Advances DEF Release
<1> QED BY <1>1, <1>2, Timers, StatesTurn, PlainDurable DEF Release

LEMMA RenewIs == ASSUME Invariant, NEW p \in Proc, Renew(p) PROVE DurableStep(p)
<1>1. UNCHANGED drainLeft /\ Durably(p, retained) BY DEF Renew
<1>2. KeepsAdvance(p) BY Advances DEF Renew
<1>3. lease' \in 0..Lease /\ (lease' > 0 => lease > 0) BY Timers DEF Renew
<1> QED BY <1>1, <1>2, <1>3, Timers, StatesTurn, PlainDurable

LEMMA TakeClaimIs == ASSUME Invariant, NEW p \in Proc, TakeClaim(p) PROVE DurableStep(p)
<1>0. UNCHANGED drainLeft /\ adv \in [Proc -> AdvState] BY DEF TakeClaim, Invariant, Shapes
<1>1. ASSUME Claimable(retained), NEW c \in Claim, Unused(c),
             Durably(p, [retained EXCEPT !.claim = c]),
             adv' = [adv EXCEPT ![p] = [Idle EXCEPT !.stage = "finalize", !.claim = c]],
             lease' = Lease
      PROVE  DurableStep(p)
  <2> DEFINE a == [Idle EXCEPT !.stage = "finalize", !.claim = c]
             t == [retained EXCEPT !.claim = c]
  <2>1. a \in AdvState /\ a.claim = c /\ a.stage = "finalize" /\ a.result = FALSE
    BY CloseoutAssumption DEF Idle, AdvState, States, Initial, ClaimStage
  <2>2. adv' = [adv EXCEPT ![p] = a] BY <1>1
  <2>3. StateTurn(retained, t) /\ t.claim = c /\ t.phase = "CLOSING" BY <1>1, StatesTurn
  <2>4. Durably(p, t) BY <1>1
  <2> HIDE DEF a, t
  <2>5. /\ adv' \in [Proc -> AdvState] /\ \A q \in Proc \ {p} : adv'[q] = adv[q]
        /\ adv'[p] = a
    BY <1>0, <2>1, <2>2
  <2>6. c # NoClaim /\ retained.claim # c BY <1>1, CloseoutAssumption, UnusedIs
  <2>7. adv'[p].claim # NoClaim <=> adv'[p].stage \in ClaimStage
    BY <2>1, <2>5, <2>6 DEF ClaimStage
  <2>8. lease' \in 0..Lease /\ drainLeft' \in 0..DrainTimeout BY <1>0, <1>1, Timers
  <2> QED BY <1>1, <2>1, <2>3, <2>4, <2>5, <2>6, <2>7, <2>8, DurablyIs
<1>2. CASE Durably(p, retained) /\ End(p) /\ UNCHANGED lease
  <2>1. KeepsAdvance(p) BY <1>2, Advances
  <2> QED BY <1>0, <1>2, <2>1, Timers, StatesTurn, PlainDurable
<1> QED BY <1>1, <1>2 DEF TakeClaim

(* What a seal may retain: a state whose inventory is complete, or one     *)
(* that stays open to another try.                                         *)
LEMMA SealTurns ==
    ASSUME Invariant, NEW p \in Proc, At(p, "seal"), pending[p] = <<>>, Sealable(p, retained)
    PROVE  LET t == SealedState(p, retained) IN
           /\ StateTurn(retained, t) /\ t.claim = NoClaim /\ t.writers = {}
           /\ t.phase = "SEALED" =>
                /\ t.manifest = Inventory(t) /\ t.failed = {} /\ t.complete
                /\ \A e \in Emission : Emitted(t, e)
<1> DEFINE s == retained
           t == SealedState(p, s)
           final == [s EXCEPT !.claim = NoClaim, !.complete = adv[p].result]
           phase == IF Certified(p, s) THEN "SEALED" ELSE "INCOMPLETE"
           inventory == Inventory(s)
<1>0. s \in States /\ adv[p].result \in BOOLEAN BY Shaped DEF Invariant, AdvState
<1>1. s.phase = "CLOSING" /\ s.writers = {} /\ s.claim = adv[p].claim /\ lease > 0
  BY DEF Sealable, Holds
<1>2. ASSUME adv[p].result, NEW e \in Emission PROVE Emitted(s, e)
  <2>1. adv[p].claim # NoClaim BY ClaimAt DEF At, ClaimStage
  <2>2. Finalizing(p) BY <1>1, <2>1 DEF Finalizing, Holder
  <2>3. Delivers(p, e) BY <1>2, <2>2 DEF Invariant, FinalsDelivered
  <2>4. Len(pending[p]) = 0 OBVIOUS
  <2> QED BY <2>3, <2>4 DEF Delivers
<1>3. /\ inventory \in [outputs : SUBSET OutputSet, failed : SUBSET Writer]
      /\ phase \in {"SEALED", "INCOMPLETE"} /\ (phase = "SEALED" => Certified(p, s))
  BY <1>0 DEF States, Inventory
<1>4. t = IF ~Certified(p, s) /\ drainLeft > 0 THEN final
          ELSE [final EXCEPT !.manifest = inventory, !.phase = phase]
  BY DEF SealedState
<1> HIDE DEF s, t, inventory, phase
<1>5. /\ final \in States /\ final.phase = "CLOSING" /\ final.claim = NoClaim
      /\ final.writers = {} /\ final.outputs = s.outputs /\ final.prepared = s.prepared
      /\ final.failed = s.failed /\ final.complete = adv[p].result
  BY <1>0, <1>1 DEF States
<1> HIDE DEF final
<1>6. CASE t = final BY <1>1, <1>5, <1>6 DEF StateTurn, s, t
<1>7. CASE t = [final EXCEPT !.manifest = inventory, !.phase = phase]
  <2>1. /\ t \in States /\ t.phase = phase /\ t.claim = NoClaim /\ t.manifest = inventory
        /\ t.writers = {} /\ t.outputs = s.outputs /\ t.prepared = s.prepared
        /\ t.failed = s.failed /\ t.complete = adv[p].result
    BY <1>3, <1>5, <1>7 DEF States
  <2>2. StateTurn(s, t) BY <1>1, <1>3, <2>1 DEF StateTurn
  <2>3. ASSUME phase = "SEALED"
        PROVE  /\ t.manifest = Inventory(t) /\ t.failed = {} /\ t.complete
               /\ \A e \in Emission : Emitted(t, e)
    <3>1. s.failed = {} /\ adv[p].result BY <1>3, <2>3 DEF Certified
    <3>2. t.manifest = Inventory(t) BY <2>1 DEF inventory, Inventory
    <3>3. \A e \in Emission : Emitted(t, e) BY <1>2, <2>1, <3>1 DEF Emitted
    <3> QED BY <2>1, <3>1, <3>2, <3>3
  <2> QED BY <2>1, <2>2, <2>3 DEF s, t
<1> QED BY <1>4, <1>6, <1>7

LEMMA SealIs == ASSUME Invariant, NEW p \in Proc, Seal(p) PROVE DurableStep(p)
<1> DEFINE t == IF Sealable(p, retained) THEN SealedState(p, retained) ELSE retained
<1>1. Durably(p, t) /\ At(p, "seal") BY DEF Seal
<1>2. UNCHANGED <<lease, drainLeft>> BY DEF Seal, timerVars
<1>3. KeepsAdvance(p) BY Advances DEF Seal
<1>4. pending[p] = <<>> BY <1>1 DEF Durably
<1>5. CASE ~Sealable(p, retained)
  <2>1. t = retained BY <1>5
  <2> QED BY <1>1, <1>2, <1>3, <2>1, Timers, StatesTurn, PlainDurable
<1>6. CASE Sealable(p, retained)
  <2>1. t = SealedState(p, retained) BY <1>6
  <2> HIDE DEF t
  <2>2. /\ StateTurn(retained, t) /\ t.claim = NoClaim /\ t.writers = {}
        /\ t.phase = "SEALED" =>
             /\ t.manifest = Inventory(t) /\ t.failed = {} /\ t.complete
             /\ \A e \in Emission : Emitted(t, e)
    BY <1>1, <1>4, <1>6, <2>1, SealTurns
  <2>3. retained' = t /\ live' = [live EXCEPT ![p] = t] /\ UNCHANGED pending
    BY <1>1 DEF Durably, Retains
  <2>4. /\ live \in [Proc -> States] /\ pending \in [Proc -> Seq(Op)]
        /\ behind \in [Proc -> BOOLEAN]
    BY DEF Invariant, Shapes
  <2>5. /\ behind' \in [Proc -> BOOLEAN]
        /\ \A q \in Proc : ~behind'[q] => q = p \/ (t = retained /\ ~behind[q])
    BY <1>1, <2>4 DEF Durably, Retains
  <2>6. SealedMatchesContent' <=> (t.phase = "SEALED" =>
          /\ t.manifest = Inventory(t)
          /\ t.writers = {} /\ t.failed = {} /\ t.complete
          /\ \A e \in Emission : Emitted(t, e))
    BY <2>3 DEF SealedMatchesContent
  <2>7. t.phase = "SEALED" => SealedMatchesContent' BY <2>2, <2>6
  <2>8. /\ t \in States /\ t.outputs = retained.outputs /\ t.prepared = retained.prepared
        /\ retained.phase # "OPEN" => t.phase # "OPEN"
        /\ retained.phase = "SEALED" => t = retained
    BY <2>2 DEF StateTurn
  <2>9. Shapes' BY <1>2, <1>3, <2>3, <2>4, <2>5, <2>8, Timers DEF Shapes, KeepsAdvance
  <2>10. live'[p] = t /\ \A q \in Proc \ {p} : live'[q] = live[q] BY <2>3, <2>4
  <2> QED BY <1>2, <1>3, <1>4, <2>2, <2>3, <2>5, <2>7, <2>8, <2>9, <2>10
       DEF DurableStep, KeepsAdvance
<1> QED BY <1>5, <1>6

(* A durable step that fails retains t, or what was; its process cannot    *)
(* know.                                                                   *)
LEMMA FailedIs ==
    ASSUME Invariant, NEW p \in Proc, NEW t, pending[p] = <<>>, retained' = t,
           StateTurn(retained, t),
           KeepsClaim(retained, t) \/ (t.claim \in Claim /\ Unused(t.claim) /\ t.phase # "SEALED")
              \/ (t.claim = NoClaim /\ (t.phase = "SEALED" => SealedMatchesContent')),
           UNCHANGED <<pending, drainLeft>>, lease' \in 0..Lease,
           lease' > 0 /\ t.claim = retained.claim => lease > 0,
           live' = [live EXCEPT ![p] = retained],
           behind' = IF retained' = retained THEN [behind EXCEPT ![p] = FALSE]
                     ELSE [q \in Proc |-> TRUE],
           KeepsAdvance(p)
    PROVE  DurableStep(p)
<1>0. /\ live \in [Proc -> States] /\ pending \in [Proc -> Seq(Op)]
      /\ behind \in [Proc -> BOOLEAN] /\ retained \in States
  BY DEF Invariant, Shapes
<1>1. /\ behind' \in [Proc -> BOOLEAN]
      /\ \A q \in Proc : ~behind'[q] => t = retained /\ (q = p \/ ~behind[q])
  BY <1>0
<1>2. /\ t \in States /\ t.outputs = retained.outputs /\ t.prepared = retained.prepared
      /\ retained.phase # "OPEN" => t.phase # "OPEN"
      /\ retained.phase = "SEALED" => t = retained
      /\ t.claim # NoClaim => Closed(t)
  BY DEF StateTurn
<1>3. t.phase = "SEALED" => t = retained \/ SealedMatchesContent' BY DEF KeepsClaim
<1>4. t.claim \in {retained.claim, NoClaim} \/ (t.claim \in Claim /\ Unused(t.claim))
  BY DEF KeepsClaim
<1>5. Shapes' BY <1>0, <1>1, <1>2, Timers DEF Shapes, KeepsAdvance
<1>6. live'[p] = retained /\ \A q \in Proc \ {p} : live'[q] = live[q] BY <1>0
<1> QED BY <1>1, <1>2, <1>3, <1>4, <1>5, <1>6 DEF DurableStep, KeepsAdvance

LEMMA DurableFailsIs == ASSUME Invariant, NEW p \in Proc, DurableFails(p) PROVE DurableStep(p)
<1>0. /\ pending[p] = <<>> /\ UNCHANGED <<pending, drainLeft>>
      /\ live' = [live EXCEPT ![p] = retained]
      /\ behind' = IF retained' = retained THEN [behind EXCEPT ![p] = FALSE]
                   ELSE [q \in Proc |-> TRUE]
  BY DEF DurableFails
<1>1. KeepsAdvance(p)
  <2>1. End(p) \/ Quit(p) BY DEF DurableFails
  <2> QED BY <2>1, Advances
<1>2. CASE /\ UNCHANGED lease
           /\ \/ retained' \in {retained, Resumed(retained)}
              \/ retained' \in {retained, Recorded(retained, adv[p].drained)}
              \/ retained' = retained
              \/ retained' \in {retained, Released(p, retained)}
  <2>1. StateTurn(retained, retained') /\ KeepsClaim(retained, retained')
    BY <1>2, StatesTurn
  <2> QED BY <1>0, <1>1, <1>2, <2>1, Timers, FailedIs
<1>3. CASE /\ Claimable(retained) /\ lease' = Lease
           /\ \E c \in Claim : Unused(c) /\ retained' = [retained EXCEPT !.claim = c]
  <2>1. PICK c \in Claim : Unused(c) /\ retained' = [retained EXCEPT !.claim = c] BY <1>3
  <2>2. StateTurn(retained, retained') /\ retained'.claim = c /\ retained'.phase = "CLOSING"
    BY <1>3, <2>1, StatesTurn
  <2>3. retained.claim # c BY <2>1, UnusedIs
  <2> QED BY <1>0, <1>1, <1>3, <2>1, <2>2, <2>3, Timers, FailedIs
<1>4. CASE /\ At(p, "seal") /\ UNCHANGED lease /\ Sealable(p, retained)
           /\ retained' = SealedState(p, retained)
  <2> DEFINE t == SealedState(p, retained)
  <2>1. /\ StateTurn(retained, t) /\ t.claim = NoClaim /\ t.writers = {}
        /\ t.phase = "SEALED" =>
             /\ t.manifest = Inventory(t) /\ t.failed = {} /\ t.complete
             /\ \A e \in Emission : Emitted(t, e)
    BY <1>0, <1>4, SealTurns
  <2>2. retained' = t BY <1>4
  <2> HIDE DEF t
  <2>3. SealedMatchesContent' <=> (t.phase = "SEALED" =>
          /\ t.manifest = Inventory(t)
          /\ t.writers = {} /\ t.failed = {} /\ t.complete
          /\ \A e \in Emission : Emitted(t, e))
    BY <2>2 DEF SealedMatchesContent
  <2>4. t.phase = "SEALED" => SealedMatchesContent' BY <2>1, <2>3
  <2> QED BY <1>0, <1>1, <1>4, <2>1, <2>2, <2>4, Timers, FailedIs
<1>5. \/ /\ UNCHANGED lease
         /\ \/ retained' \in {retained, Resumed(retained)}
            \/ retained' \in {retained, Recorded(retained, adv[p].drained)}
            \/ retained' = retained
            \/ retained' \in {retained, Released(p, retained)}
      \/ /\ Claimable(retained) /\ lease' = Lease
         /\ \E c \in Claim : Unused(c) /\ retained' = [retained EXCEPT !.claim = c]
      \/ /\ At(p, "seal") /\ UNCHANGED lease
         /\ retained' \in {retained} \cup
               (IF Sealable(p, retained) THEN {SealedState(p, retained)} ELSE {})
  BY Zenon DEF DurableFails
<1> QED BY <1>2, <1>3, <1>4, <1>5

LEMMA CrashIs == ASSUME Invariant, NEW p \in Proc, Crash(p) PROVE DurableStep(p)
<1>0. /\ live \in [Proc -> States] /\ pending \in [Proc -> Seq(Op)]
      /\ behind \in [Proc -> BOOLEAN] /\ retained \in States
  BY DEF Invariant, Shapes
<1>1. /\ UNCHANGED <<retained, lease, drainLeft>> /\ live' = [live EXCEPT ![p] = retained]
      /\ pending' = [pending EXCEPT ![p] = <<>>] /\ behind' = [behind EXCEPT ![p] = FALSE]
      /\ End(p)
  BY DEF Crash, timerVars
<1>2. /\ adv' \in [Proc -> AdvState] /\ \A q \in Proc \ {p} : adv'[q] = adv[q]
      /\ adv'[p].claim = NoClaim /\ adv'[p].stage \notin ClaimStage
  BY <1>1, EndIs
<1>3. <<>> \in Seq(Op) OBVIOUS
<1>4. Shapes' BY <1>0, <1>1, <1>2, <1>3, Timers DEF Shapes
<1>5. retained.claim # NoClaim => Closed(retained) BY DEF Invariant, ClosedFirst
<1> QED BY <1>0, <1>1, <1>2, <1>4, <1>5 DEF DurableStep, Closed

LEMMA FlushIs ==
    ASSUME Invariant, NEW p \in Proc, Flush(p) \/ FlushUnconfirmed(p)
    PROVE  FlushStep(p)
<1>0. /\ live \in [Proc -> States] /\ pending \in [Proc -> Seq(Op)]
      /\ behind \in [Proc -> BOOLEAN] /\ adv \in [Proc -> AdvState]
  BY DEF Invariant, Shapes
<1> DEFINE s == Flushed(p)
<1>1. s \in States BY FlushedIs
<1> HIDE DEF s
<1>2. <<>> \in Seq(Op) OBVIOUS
<1>3. CASE Flush(p)
  <2>1. /\ retained' = s /\ live' = [live EXCEPT ![p] = s]
        /\ pending' = [pending EXCEPT ![p] = <<>>] /\ UNCHANGED <<adv, lease, drainLeft>>
        /\ behind' = IF s = retained THEN [behind EXCEPT ![p] = FALSE]
                     ELSE [q \in Proc |-> q # p]
    BY <1>3 DEF Flush, Retains, timerVars, s
  <2>2. behind' \in [Proc -> BOOLEAN] BY <1>0, <2>1
  <2>3. Shapes' BY <1>0, <1>1, <1>2, <2>1, <2>2, Timers DEF Shapes
  <2> QED BY <1>0, <2>1, <2>3 DEF FlushStep, s
<1>4. CASE FlushUnconfirmed(p)
  <2>1. /\ retained' = s /\ UNCHANGED <<live, pending, adv, lease, drainLeft>>
        /\ behind' = [q \in Proc |-> TRUE]
    BY <1>4 DEF FlushUnconfirmed, timerVars, s
  <2>2. Shapes' BY <1>0, <1>1, <2>1, Timers DEF Shapes
  <2> QED BY <1>0, <2>1, <2>2 DEF FlushStep, s
<1> QED BY <1>3, <1>4

-----------------------------------------------------------------------------
(* The invariant, and what a step does to the retained state. *)

LEMMA InitSound == ASSUME Init PROVE CloseoutIInv
<1> USE CloseoutAssumption DEF Init
<1>1. Initial \in States BY DEF Initial, States
<1>2. Idle \in AdvState /\ Idle.claim = NoClaim /\ Idle.stage \notin ClaimStage /\ ~Idle.result
  BY <1>1 DEF Idle, AdvState, ClaimStage
<1>3. <<>> \in Seq(Op) /\ Len(<<>>) = 0 OBVIOUS
<1>4. Shapes BY <1>1, <1>2, <1>3 DEF Shapes
<1>5. \A p \in Proc : /\ retained = Initial /\ live[p] = Initial /\ pending[p] = <<>>
                      /\ adv[p] = Idle /\ ~behind[p]
  OBVIOUS
<1>6. \A p \in Proc : ~HasClaimOp(p) /\ \A c \in Claim : ~Uses(p, c)
  BY <1>2, <1>3, <1>5 DEF HasClaimOp, Uses
<1>7. Beyond(Initial, Initial) BY <1>1, BeyondSelf
<1>8. Initial.claim = NoClaim /\ Initial.phase = "OPEN" /\ Agree(Initial)
  BY DEF Initial, Agree
<1>9. ClosedFirst BY <1>2, <1>5, <1>6, <1>7, <1>8 DEF ClosedFirst
<1>10. OneUser BY <1>6 DEF OneUser
<1>11. OnePreparation BY <1>3, <1>5, <1>8 DEF OnePreparation
<1>12. FinalsDelivered BY DEF FinalsDelivered, Finalizing
<1>13. SealedMatchesContent BY <1>8 DEF SealedMatchesContent
<1> QED BY <1>4, <1>9, <1>10, <1>11, <1>12, <1>13 DEF CloseoutIInv, Invariant

(* The retained state changes by durable steps and by flushes only. *)
Turns ==
    \/ UNCHANGED retained
    \/ \E p \in Proc : DurableStep(p)
    \/ \E p \in Proc : retained' = Flushed(p)

LEMMA FinalizeSound ==
    ASSUME Invariant, NEW p \in Proc, Finalize(p) PROVE Invariant' /\ Turns
<1>1. CASE PrepareFails(p) BY <1>1, PrepareFailsSound DEF PrepareFails, journalVars, Turns
<1>2. CASE PrepareFinal(p) BY <1>2, PrepareFinalSound DEF PrepareFinal, Turns
<1>3. ASSUME NEW e \in Emission, EmitFinal(p, e) PROVE Invariant' /\ Turns
  BY <1>3, EmitFinalSound DEF EmitFinal, Turns
<1>4. CASE FinalizeDone(p) BY <1>4, FinalizeDoneSound DEF FinalizeDone, journalVars, Turns
<1> QED BY <1>1, <1>2, <1>3, <1>4 DEF Finalize

LEMMA NextSound == ASSUME Invariant, Next PROVE Invariant' /\ Turns
<1>1. ASSUME NEW p \in Proc, DurableStep(p) PROVE Invariant' /\ Turns
  BY <1>1, DurableSound DEF Turns
<1>2. ASSUME NEW p \in Proc, FlushStep(p) PROVE Invariant' /\ Turns
  BY <1>2, FlushSound DEF Turns, FlushStep
<1>3. ASSUME NEW p \in Proc, Advance(p) PROVE Invariant' /\ Turns
  <2>1. CASE AdvanceBegin(p) BY <2>1, AdvanceBeginSound DEF AdvanceBegin, journalVars, Turns
  <2>2. CASE Resume(p) BY <1>1, <2>2, ResumeIs
  <2>3. CASE Drain(p) BY <2>3, DrainSound DEF Drain, journalVars, Turns
  <2>4. CASE RecordDrain(p) BY <1>1, <2>4, RecordDrainIs
  <2>5. CASE TakeClaim(p) BY <1>1, <2>5, TakeClaimIs
  <2>6. CASE Finalize(p) BY <2>6, FinalizeSound
  <2>7. CASE Audit(p) BY <2>7, AuditSound DEF Audit, journalVars, Turns
  <2>8. CASE Seal(p) BY <1>1, <2>8, SealIs
  <2>9. CASE Release(p) BY <1>1, <2>9, ReleaseIs
  <2> QED BY <1>3, <2>1, <2>2, <2>3, <2>4, <2>5, <2>6, <2>7, <2>8, <2>9 DEF Advance
<1>4. ASSUME NEW p \in Proc, NEW w \in Writer,
             Reserved(p, w) \/ Produce(p, w) \/ FinishWriter(p, w)
      PROVE  Invariant' /\ Turns
  BY <1>4, WritersSound DEF Reserved, Produce, FinishWriter, Turns
<1>5. ASSUME NEW p \in Proc PROVE
        /\ Begin(p) => Invariant' /\ Turns
        /\ Renew(p) => Invariant' /\ Turns
        /\ Ack(p) => Invariant' /\ Turns
        /\ Flush(p) \/ FlushUnconfirmed(p) => Invariant' /\ Turns
        /\ DurableFails(p) => Invariant' /\ Turns
        /\ Crash(p) => Invariant' /\ Turns
  <2>1. Begin(p) => Invariant' /\ Turns BY <1>1, BeginIs
  <2>2. Renew(p) => Invariant' /\ Turns BY <1>1, RenewIs
  <2>3. Ack(p) => Invariant' /\ Turns BY AckSound DEF Ack, Turns
  <2>4. Flush(p) \/ FlushUnconfirmed(p) => Invariant' /\ Turns BY <1>2, FlushIs
  <2>5. DurableFails(p) => Invariant' /\ Turns BY <1>1, DurableFailsIs
  <2>6. Crash(p) => Invariant' /\ Turns BY <1>1, CrashIs
  <2> QED BY <2>1, <2>2, <2>3, <2>4, <2>5, <2>6
<1>6. CASE Tick BY <1>6, TickSound DEF Tick, journalVars, Turns
<1> QED BY <1>3, <1>4, <1>5, <1>6 DEF Next

LEMMA StutterSound == ASSUME Invariant, UNCHANGED vars PROVE Invariant' /\ Turns
<1>1. UNCHANGED <<retained, live, pending, behind, adv, lease, drainLeft>>
  BY DEF vars, journalVars, timerVars
<1>2. Turns BY <1>1 DEF Turns
<1>3. Shapes' BY <1>1 DEF Invariant, Shapes
<1>4. \A q \in Proc : MovesOn(q) BY <1>1, ClaimAt DEF MovesOn
<1> QED BY <1>1, <1>2, <1>3, <1>4, MemorySound

(* What a step that changes the retained state keeps, step by step. *)
LEMMA TurnsKeep ==
    ASSUME CloseoutIInv, Turns
    PROVE  /\ SealedMatchesContent'
           /\ retained.phase = "SEALED" =>
                retained' \in {retained, [retained EXCEPT !.acked = TRUE]}
           /\ retained.phase # "OPEN" =>
                \A o \in retained'.outputs \ retained.outputs :
                   \/ o[1] = "writer" /\ o[2] \in retained.writers
                   \/ o[1] = "final" /\ retained.claim # NoClaim
<1>0. Invariant /\ SealedMatchesContent /\ retained \in States
  BY DEF CloseoutIInv, Invariant, Shapes
<1>1. CASE UNCHANGED retained BY <1>0, <1>1 DEF SealedMatchesContent
<1>2. ASSUME NEW p \in Proc, DurableStep(p)
      PROVE  /\ retained'.phase = "SEALED" => retained' = retained \/ SealedMatchesContent'
             /\ retained.phase = "SEALED" => retained' = retained
             /\ retained'.outputs = retained.outputs
  BY <1>2 DEF DurableStep
<1>3. ASSUME NEW p \in Proc, DurableStep(p) PROVE SealedMatchesContent'
  <2>1. CASE retained' = retained BY <1>0, <2>1 DEF SealedMatchesContent
  <2>2. CASE retained'.phase # "SEALED" BY <2>2 DEF SealedMatchesContent
  <2> QED BY <1>2, <1>3, <2>1, <2>2
<1>4. ASSUME NEW p \in Proc, retained' = Flushed(p)
      PROVE  Beyond(retained, retained') /\ SealedMatchesContent'
  <2>1. Beyond(retained, retained') BY <1>0, <1>4, FlushedIs
  <2>2. CASE retained.phase = "SEALED"
    <3> DEFINE t == [retained EXCEPT !.acked = TRUE]
    <3>1. CASE retained' = retained BY <1>0, <2>1, <3>1 DEF SealedMatchesContent
    <3>2. CASE retained' = t
      <4>1. /\ t.outputs = retained.outputs /\ t.failed = retained.failed
            /\ t.manifest = retained.manifest /\ t.writers = retained.writers
            /\ t.complete = retained.complete
        BY <1>0 DEF States
      <4> HIDE DEF t
      <4> QED BY <1>0, <2>1, <2>2, <3>2, <4>1 DEF SealedMatchesContent, Inventory, Emitted
    <3> QED BY <2>1, <2>2, <3>1, <3>2 DEF Beyond
  <2>3. CASE retained.phase # "SEALED"
    <3>1. retained'.phase # "SEALED" BY <2>1, <2>3 DEF Beyond
    <3> QED BY <2>1, <3>1 DEF SealedMatchesContent
  <2> QED BY <2>1, <2>2, <2>3
<1>5. CASE \E p \in Proc : DurableStep(p) BY <1>2, <1>3, <1>5
<1>6. CASE \E p \in Proc : retained' = Flushed(p) BY <1>4, <1>6 DEF Beyond
<1> QED BY <1>1, <1>5, <1>6 DEF Turns

LEMMA Inductive ==
    ASSUME CloseoutIInv, [Next]_vars PROVE CloseoutIInv' /\ Turns
<1>1. Invariant' /\ Turns BY NextSound, StutterSound DEF CloseoutIInv
<1> QED BY <1>1, TurnsKeep DEF CloseoutIInv

THEOREM CloseoutInvariant == Spec => []CloseoutIInv
<1>1. Init => CloseoutIInv BY InitSound
<1>2. CloseoutIInv /\ [Next]_vars => CloseoutIInv' BY Inductive
<1> QED BY <1>1, <1>2, PTL DEF Spec

(* Every variable of a closeout has its shape. *)
THEOREM CloseoutTypes == Spec => []TypeOK
<1>1. CloseoutIInv => TypeOK
  BY Shaped DEF CloseoutIInv, Invariant, Shapes, TypeOK, AdvState
<1> QED BY <1>1, CloseoutInvariant, PTL

(* Whichever containers flush what they accepted before they knew of the   *)
(* seal, and whoever's claim ran out while it was being sealed: what is    *)
(* sealed is what is retained, by nobody's failure and with nobody still   *)
(* admitted.                                                               *)
THEOREM SealCertifiesContent == Spec => []SealedMatchesContent
<1>1. CloseoutIInv => SealedMatchesContent BY DEF CloseoutIInv
<1> QED BY <1>1, CloseoutInvariant, PTL

(* The final outputs come from one preparation, however many finalizers    *)
(* were at it.                                                             *)
THEOREM FinalOutputsFromOnePreparation == Spec => []FinalOutputsAgree
<1>1. CloseoutIInv => FinalOutputsAgree
  BY DEF CloseoutIInv, Invariant, OnePreparation, Agree, FinalOutputsAgree
<1> QED BY <1>1, CloseoutInvariant, PTL

(* Nothing reopens a seal or changes what it certifies. *)
THEOREM SealForever == Spec => SealIsFinal
<1>1. CloseoutIInv /\ [Next]_vars =>
        [retained.phase = "SEALED" =>
            retained' \in {retained, [retained EXCEPT !.acked = TRUE]}]_vars
  BY Inductive, TurnsKeep
<1> QED BY <1>1, CloseoutInvariant, PTL DEF Spec, SealIsFinal

(* After the close content enters storage by admitted writers, and while a *)
(* claim is retained, only.                                                *)
THEOREM ClosedContentIsFenced == Spec => ContentIsFenced
<1>1. CloseoutIInv /\ [Next]_vars =>
        [retained.phase # "OPEN" =>
            \A o \in retained'.outputs \ retained.outputs :
                \/ o[1] = "writer" /\ o[2] \in retained.writers
                \/ o[1] = "final" /\ retained.claim # NoClaim]_vars
  BY Inductive, TurnsKeep
<1> QED BY <1>1, CloseoutInvariant, PTL DEF Spec, ContentIsFenced

-----------------------------------------------------------------------------
(* One container whose finalizer is prompt: whatever its memory has over   *)
(* the retained state, and however often a flush of it is replayed, what   *)
(* it has accepted will be retained, or dies with it.                      *)

(* Among its first k operations p has one of this kind by w. *)
Holding(p, k, kind, w) ==
    \E j \in 1..k : pending[p][j].kind = kind /\ pending[p][j].writer = w

(* A replay of what p has pending does not refuse the k-th, an output. *)
Enters(p, k) ==
    /\ pending[p][k].kind = "output"
    /\ \/ retained.phase = "OPEN"
       \/ /\ pending[p][k].writer \in retained.writers
          /\ ~Holding(p, k - 1, "finish", pending[p][k].writer)

AdmissionsKept(p) ==
    /\ \A w \in live[p].writers :
          w \in retained.writers \/ Holding(p, Len(pending[p]), "reserve", w)
    /\ \A k \in 1..Len(pending[p]) :
          /\ pending[p][k].kind = "reserve" => retained.phase = "OPEN"
          /\ pending[p][k].kind = "finish" =>
                /\ pending[p][k].writer \notin live[p].writers
                /\ writer[pending[p][k].writer].at # "new"
    /\ \A w \in Writer : writer[w].at = "working" => writer[w].host = p /\ w \in live[p].writers

OutputsKept(p) ==
    /\ \A w \in Writer : WriterOutput(w) \in live[p].outputs \ retained.outputs =>
          \E k \in 1..Len(pending[p]) : Enters(p, k) /\ pending[p][k].writer = w
    /\ \A e \in Emission, v \in Observation :
          FinalOutput(e, v) \in live[p].outputs \ retained.outputs => Holder(p)

(* What a producer was told is accepted is still there, or died. *)
Survives(p, o) == o \in live[p].outputs \/ \E op \in lost : o \in Result(Initial, op).outputs

AnswersKept(p) == \A o \in answered : Survives(p, o)

WriterShapes ==
    writer \in [Writer -> [at : {"new", "working", "finished", "dropped", "orphaned"},
                           host : Proc \cup {NoProc}]]

Covers(p) ==
    /\ WriterShapes
    /\ Holder(p) => lease > 0
    /\ retained.phase # "OPEN" => live[p].phase # "OPEN"
    /\ At(p, "finalize") => retained.claim = adv[p].claim
    /\ AdmissionsKept(p) /\ OutputsKept(p) /\ AnswersKept(p)

(* Which outputs and writers an operation adds or takes away. *)
LEMMA ResultDoes ==
    ASSUME NEW s \in States, NEW op \in Op
    PROVE  LET t == Result(s, op) IN
           /\ op.kind = "reserve" => t.writers = s.writers \cup {op.writer}
           /\ op.kind = "finish" => t.writers = s.writers \ {op.writer}
           /\ op.kind \notin {"reserve", "finish"} => t.writers = s.writers
<1>1. CASE op.kind = "reserve" BY <1>1 DEF Result, States
<1>2. CASE op.kind = "finish"
  <2> DEFINE f == IF op.failed THEN s.failed \cup {op.writer} ELSE s.failed
  <2>1. Result(s, op) = [s EXCEPT !.writers = @ \ {op.writer}, !.failed = f]
    BY <1>2 DEF Result
  <2> HIDE DEF f
  <2> QED BY <1>2, <2>1 DEF States
<1>3. CASE op.kind = "output" BY <1>3 DEF Result, States
<1>4. CASE op.kind = "prepare"
  <2> DEFINE o == IF s.prepared = NoObservation THEN op.observed ELSE s.prepared
  <2>1. Result(s, op) = [s EXCEPT !.prepared = o] BY <1>4 DEF Result
  <2> HIDE DEF o
  <2> QED BY <1>4, <2>1 DEF States
<1>5. CASE op.kind = "final"
  <2> DEFINE o == IF Emitted(s, op.emission) THEN s.outputs
                  ELSE s.outputs \cup {FinalOutput(op.emission, op.observed)}
  <2>1. Result(s, op) = [s EXCEPT !.outputs = o] BY <1>5 DEF Result
  <2> HIDE DEF o
  <2> QED BY <1>5, <2>1 DEF States
<1>6. CASE op.kind = "acknowledge" BY <1>6 DEF Result, States
<1> QED BY <1>1, <1>2, <1>3, <1>4, <1>5, <1>6, OpShape

(* What an operation brings into an empty journal. *)
LEMMA ResultAlone ==
    ASSUME NEW op \in Op
    PROVE  /\ op.kind = "output" => WriterOutput(op.writer) \in Result(Initial, op).outputs
           /\ op.kind = "final" =>
                FinalOutput(op.emission, op.observed) \in Result(Initial, op).outputs
<1>1. Initial \in States BY CloseoutAssumption DEF Initial, States
<1> DEFINE r == Result(Initial, op)
<1>2. /\ op.kind = "output" => r.outputs = Initial.outputs \cup {WriterOutput(op.writer)}
      /\ op.kind = "final" =>
           r.outputs = IF Emitted(Initial, op.emission) THEN Initial.outputs
                       ELSE Initial.outputs \cup {FinalOutput(op.emission, op.observed)}
  BY <1>1, ResultIs
<1>3. ~Emitted(Initial, op.emission) BY DEF Initial, Emitted
<1> HIDE DEF r
<1>4. /\ op.kind = "output" => WriterOutput(op.writer) \in r.outputs
      /\ op.kind = "final" => FinalOutput(op.emission, op.observed) \in r.outputs
  BY <1>2, <1>3
<1> QED BY <1>4 DEF r

LEMMA AdmittedApplies ==
    ASSUME NEW s, NEW op, Admits(s, op) PROVE Applied(s, op) = Result(s, op)
BY DEF Applied, Effective

(* The state that a replay of p's first k operations has reached. *)
Carried(p, k, t) ==
    /\ t \in States /\ t.phase = retained.phase /\ retained.outputs \subseteq t.outputs
    /\ \A w : /\ w \in retained.writers \/ Holding(p, k, "reserve", w)
              /\ ~Holding(p, k, "finish", w)
           => w \in t.writers
    /\ \A j \in 1..k : Enters(p, j) => WriterOutput(pending[p][j].writer) \in t.outputs

LEMMA CarriedMore ==
    ASSUME CloseoutIInv, NEW p \in Proc, AdmissionsKept(p), NEW k \in 1..Len(pending[p]), NEW t,
           Carried(p, k - 1, t)
    PROVE  Carried(p, k, Applied(t, pending[p][k]))
<1> DEFINE op == pending[p][k]
           r == Applied(t, op)
<1>op. op \in Op /\ Len(pending[p]) \in Nat /\ k \in Nat /\ retained \in States
  BY Shaped DEF CloseoutIInv, Invariant
<1>k. 1..k = (1..k-1) \cup {k} BY <1>op
<1>t. /\ t \in States /\ t.phase = retained.phase /\ retained.outputs \subseteq t.outputs
      /\ \A w : /\ w \in retained.writers \/ Holding(p, k - 1, "reserve", w)
                /\ ~Holding(p, k - 1, "finish", w)
             => w \in t.writers
      /\ \A j \in 1..k-1 : Enters(p, j) => WriterOutput(pending[p][j].writer) \in t.outputs
  BY DEF Carried
<1>r. /\ r \in {t, Result(t, op)}
      /\ Admits(t, op) => r = Result(t, op)
  BY AdmittedApplies DEF Applied
<1>o. op = pending[p][k] OBVIOUS
<1> HIDE DEF op, r
<1>1. r \in States /\ r.phase = retained.phase /\ t.outputs \subseteq r.outputs
  <2> DEFINE a == Result(t, op)
  <2>1. a \in States /\ a.phase = t.phase /\ t.outputs \subseteq a.outputs
    BY <1>op, <1>t, ResultIs
  <2>2. r \in {t, a} BY <1>r
  <2> HIDE DEF a
  <2> QED BY <1>t, <2>1, <2>2
<1>2. ASSUME NEW w, w \in retained.writers \/ Holding(p, k, "reserve", w),
             ~Holding(p, k, "finish", w)
      PROVE  w \in r.writers
  <2>1. ~Holding(p, k - 1, "finish", w) /\ ~(op.kind = "finish" /\ op.writer = w)
    BY <1>k, <1>o, <1>2 DEF Holding
  <2>2. CASE op.kind = "reserve" /\ op.writer = w
    <3>1. t.phase = "OPEN" BY <1>o, <1>t, <2>2 DEF AdmissionsKept
    <3>2. Admits(t, op) BY <2>2, <3>1 DEF Admits
    <3> QED BY <1>op, <1>r, <1>t, <2>2, <3>2, ResultDoes
  <2>3. CASE ~(op.kind = "reserve" /\ op.writer = w)
    <3>1. w \in retained.writers \/ Holding(p, k - 1, "reserve", w)
      BY <1>k, <1>o, <1>2, <2>3 DEF Holding
    <3>2. w \in t.writers BY <1>t, <2>1, <3>1
    <3> QED BY <1>op, <1>r, <1>t, <2>1, <3>2, ResultDoes
  <2> QED BY <2>2, <2>3
<1>3. ASSUME NEW j \in 1..k, Enters(p, j)
      PROVE  WriterOutput(pending[p][j].writer) \in r.outputs
  <2>1. CASE j \in 1..k-1 BY <1>1, <1>3, <1>t, <2>1
  <2>2. CASE j = k
    <3>1. op.kind = "output" BY <1>3, <1>o, <2>2 DEF Enters
    <3>2. MayProduce(t, op.writer)
      <4>1. CASE retained.phase = "OPEN" BY <1>t, <4>1 DEF MayProduce
      <4>2. CASE retained.phase # "OPEN"
        <5>1. op.writer \in retained.writers /\ ~Holding(p, k - 1, "finish", op.writer)
          BY <1>3, <1>o, <2>2, <4>2 DEF Enters
        <5>2. op.writer \in t.writers BY <1>t, <5>1
        <5>3. retained.phase # "SEALED" BY <5>1 DEF CloseoutIInv, SealedMatchesContent
        <5>4. Closed(t) BY <1>op, <1>t, <4>2, <5>3 DEF States, Closed
        <5> QED BY <5>2, <5>4 DEF MayProduce
      <4> QED BY <4>1, <4>2
    <3>3. Admits(t, op) BY <3>1, <3>2 DEF Admits
    <3>4. r = Result(t, op) BY <1>r, <3>3
    <3>5. r.outputs = t.outputs \cup {WriterOutput(op.writer)}
      BY <1>op, <1>t, <3>1, <3>4, ResultIs
    <3> QED BY <1>o, <2>2, <3>5
  <2> QED BY <1>k, <2>1, <2>2
<1>4. retained.outputs \subseteq r.outputs BY <1>1, <1>t
<1>5. Carried(p, k, r) BY <1>1, <1>2, <1>3, <1>4 DEF Carried
<1> QED BY <1>5 DEF r, op

(* Final outputs that are in memory only have a finalizer with a claim. *)
LEMMA FinalsHeld ==
    ASSUME CloseoutIInv, NEW p \in Proc, Covers(p), NEW e \in Emission, NEW v \in Observation,
           FinalOutput(e, v) \in live[p].outputs \ retained.outputs
    PROVE  /\ Finalizing(p) /\ live[p].prepared = v /\ retained.prepared \in {NoObservation, v}
           /\ \E k \in 1..Len(pending[p]) :
                 pending[p][k].kind = "final" /\ FinalOutput(e, v) =
                     FinalOutput(pending[p][k].emission, pending[p][k].observed)
<1>1. Finalizing(p) BY DEF Covers, OutputsKept, Finalizing
<1>2. Uses(p, retained.claim) /\ retained.claim # NoClaim
  BY <1>1 DEF Finalizing, Holder, Uses
<1>3. live[p].prepared = v BY DEF CloseoutIInv, Invariant, OnePreparation, Agree
<1>4. retained.prepared \in {NoObservation, v}
  BY <1>2, <1>3 DEF CloseoutIInv, Invariant, OnePreparation
<1>5. Emitted(live[p], e) BY DEF Emitted
<1>6. Delivers(p, e) BY <1>1, <1>5 DEF CloseoutIInv, Invariant, FinalsDelivered
<1>7. ~Emitted(retained, e)
  <2> SUFFICES ASSUME NEW u \in Observation, FinalOutput(e, u) \in retained.outputs
               PROVE  FALSE
    BY DEF Emitted
  <2>1. retained.prepared = u BY DEF CloseoutIInv, Invariant, OnePreparation, Agree
  <2>2. u = v BY <1>4, <2>1, CloseoutAssumption
  <2> QED BY <2>2
<1>8. PICK k \in 1..Len(pending[p]) :
         pending[p][k].kind = "final" /\ pending[p][k].emission = e
  BY <1>6, <1>7 DEF Delivers
<1>9. pending[p][k].observed = v
  BY <1>3, <1>8 DEF CloseoutIInv, Invariant, OnePreparation, ByClaim
<1> QED BY <1>1, <1>3, <1>4, <1>8, <1>9

(* An output is a writer's or a final one. *)
LEMMA OutputIs ==
    ASSUME Invariant, NEW p \in Proc, NEW o \in live[p].outputs
    PROVE  \/ \E w \in Writer : o = WriterOutput(w)
           \/ \E e \in Emission, v \in Observation : o = FinalOutput(e, v)
<1>1. live[p].outputs \subseteq OutputSet BY Shaped DEF Invariant, States
<1> QED BY <1>1 DEF OutputSet

(* A flush retains every output and every admission of p's memory. *)
LEMMA FlushCarries ==
    ASSUME CloseoutIInv, NEW p \in Proc, Covers(p)
    PROVE  /\ live[p].outputs \subseteq Flushed(p).outputs
           /\ live[p].writers \subseteq Flushed(p).writers
           /\ Flushed(p).phase = retained.phase /\ Flushed(p).claim = retained.claim
<1>0. Invariant BY DEF CloseoutIInv
<1>1. Flushed(p).phase = retained.phase /\ Flushed(p).claim = retained.claim
  BY <1>0, FlushedIs DEF Beyond
<1>2. CASE ~behind[p]
  <2>1. Flushed(p) = live[p] BY <1>2 DEF Flushed
  <2> QED BY <1>1, <2>1
<1>3. CASE behind[p]
  <2> DEFINE N == Len(pending[p])
             G == [k \in 0..N |-> {t \in States : Carried(p, k, t)}]
             s == Flushed(p)
  <2>n. N \in Nat /\ retained \in States BY <1>0, Shaped DEF Invariant
  <2>1. s = Replayed(retained, pending[p]) BY <1>3 DEF Flushed
  <2>2. retained \in G[0]
    <3>1. Carried(p, 0, retained) BY <2>n DEF Carried, Holding
    <3> QED BY <2>n, <3>1
  <2>3. ASSUME NEW k \in 1..N, NEW t \in G[k - 1] PROVE Applied(t, pending[p][k]) \in G[k]
    <3>1. Carried(p, k - 1, t) BY <2>n, <2>3
    <3>2. Carried(p, k, Applied(t, pending[p][k])) BY <3>1, CarriedMore DEF Covers
    <3> QED BY <3>2 DEF Carried
  <2> HIDE DEF s
  <2>4. s \in G[N]
    <3> HIDE DEF G
    <3> QED BY <2>n, <2>1, <2>2, <2>3, ReplayKeeps
  <2>5. Carried(p, N, s) BY <2>n, <2>4
  <2>6. ASSUME NEW w \in live[p].writers PROVE w \in s.writers
    <3>1. w \in retained.writers \/ Holding(p, N, "reserve", w)
      BY DEF Covers, AdmissionsKept
    <3>2. ~Holding(p, N, "finish", w) BY DEF Covers, AdmissionsKept, Holding
    <3> QED BY <2>5, <3>1, <3>2 DEF Carried
  <2>7. ASSUME NEW o \in live[p].outputs, o \notin retained.outputs PROVE o \in s.outputs
    <3>1. ASSUME NEW w \in Writer, o = WriterOutput(w) PROVE o \in s.outputs
      <4>1. PICK k \in 1..N : Enters(p, k) /\ pending[p][k].writer = w
        BY <2>7, <3>1 DEF Covers, OutputsKept
      <4> QED BY <2>5, <3>1, <4>1 DEF Carried
    <3>2. ASSUME NEW e \in Emission, NEW v \in Observation, o = FinalOutput(e, v)
          PROVE  o \in s.outputs
      <4>1. /\ Finalizing(p) /\ live[p].prepared = v
            /\ retained.prepared \in {NoObservation, v}
        BY <2>7, <3>2, FinalsHeld
      <4>2. /\ Agree(s) /\ s.prepared \in {retained.prepared, live[p].prepared}
            /\ Emitted(live[p], e) => Emitted(s, e)
        BY <1>0, <4>1, FlushedIs DEF s
      <4>3. Emitted(live[p], e) BY <2>7, <3>2 DEF Emitted
      <4>4. PICK u \in Observation : FinalOutput(e, u) \in s.outputs
        BY <4>2, <4>3 DEF Emitted
      <4>5. s.prepared = u BY <4>2, <4>4 DEF Agree
      <4>6. u = v BY <4>1, <4>2, <4>5, CloseoutAssumption
      <4> QED BY <3>2, <4>4, <4>6
    <3> QED BY <1>0, <2>7, <3>1, <3>2, OutputIs
  <2>8. retained.outputs \subseteq s.outputs BY <2>5 DEF Carried
  <2> QED BY <1>1, <2>6, <2>7, <2>8 DEF s
<1> QED BY <1>2, <1>3

(* With nothing pending, memory has nothing that is not retained. *)
LEMMA NothingPending ==
    ASSUME CloseoutIInv, NEW p \in Proc, Covers(p), pending[p] = <<>>
    PROVE  live[p].outputs \subseteq retained.outputs /\ live[p].writers \subseteq retained.writers
<1>1. Len(pending[p]) = 0 OBVIOUS
<1>2. live[p].writers \subseteq retained.writers
  BY <1>1 DEF Covers, AdmissionsKept, Holding
<1>3. ASSUME NEW o \in live[p].outputs, o \notin retained.outputs PROVE FALSE
  <2>1. \A w \in Writer : o # WriterOutput(w) BY <1>1, <1>3 DEF Covers, OutputsKept
  <2>2. \A e \in Emission, v \in Observation : o # FinalOutput(e, v) BY <1>1, <1>3, FinalsHeld
  <2> QED BY <1>3, <2>1, <2>2, OutputIs DEF CloseoutIInv
<1> QED BY <1>2, <1>3

(* What is accepted and not retained is pending. *)
LEMMA UnretainedIsPending ==
    ASSUME CloseoutIInv, NEW p \in Proc, Covers(p),
           NEW o \in live[p].outputs, o \notin retained.outputs
    PROVE  \E k \in 1..Len(pending[p]) : o \in Result(Initial, pending[p][k]).outputs
<1>0. Invariant BY DEF CloseoutIInv
<1>1. ASSUME NEW w \in Writer, o = WriterOutput(w)
      PROVE  \E k \in 1..Len(pending[p]) : o \in Result(Initial, pending[p][k]).outputs
  <2>1. PICK k \in 1..Len(pending[p]) : Enters(p, k) /\ pending[p][k].writer = w
    BY <1>1 DEF Covers, OutputsKept
  <2>2. pending[p][k] \in Op BY <1>0, Shaped DEF Invariant
  <2> QED BY <1>1, <2>1, <2>2, ResultAlone DEF Enters
<1>2. ASSUME NEW e \in Emission, NEW v \in Observation, o = FinalOutput(e, v)
      PROVE  \E k \in 1..Len(pending[p]) : o \in Result(Initial, pending[p][k]).outputs
  <2>1. PICK k \in 1..Len(pending[p]) :
           pending[p][k].kind = "final"
             /\ o = FinalOutput(pending[p][k].emission, pending[p][k].observed)
    BY <1>2, FinalsHeld
  <2>2. pending[p][k] \in Op BY <1>0, Shaped DEF Invariant
  <2> QED BY <2>1, <2>2, ResultAlone
<1> QED BY <1>0, <1>1, <1>2, OutputIs

-----------------------------------------------------------------------------
(* How steps keep it. *)

producerVars == <<writer, answered, lost>>

(* p's advance moves and time passes; claims stay whose they are. *)
LEMMA MoveCovers ==
    ASSUME NEW p \in Proc, Covers(p), UNCHANGED <<journalVars, producerVars>>,
           adv'[p].claim = adv[p].claim,
           adv'[p].stage = "finalize" => adv[p].stage = "finalize",
           Holder(p) => lease' > 0
    PROVE  Covers(p)'
<1>1. UNCHANGED <<retained, live, pending, behind, writer, answered, lost>>
  BY DEF journalVars, producerVars
<1>2. Holder(p)' <=> Holder(p) BY <1>1 DEF Holder
<1>3. At(p, "finalize")' => retained'.claim = adv'[p].claim BY <1>1 DEF Covers, At
<1>4. AdmissionsKept(p)' BY <1>1 DEF Covers, AdmissionsKept, Holding
<1>5. OutputsKept(p)' BY <1>1, <1>2 DEF Covers, OutputsKept, Enters, Holding
<1>6. AnswersKept(p)' BY <1>1 DEF Covers, AnswersKept, Survives
<1>7. (retained.phase # "OPEN" => live[p].phase # "OPEN")' BY <1>1 DEF Covers
<1>8. WriterShapes' BY <1>1 DEF Covers, WriterShapes
<1> QED BY <1>2, <1>3, <1>4, <1>5, <1>6, <1>7, <1>8 DEF Covers

(* A durable step of p: what it turns is neither outputs nor admissions. *)
Lands(p) ==
    /\ pending[p] = <<>> /\ UNCHANGED <<pending, producerVars>>
    /\ retained'.outputs = retained.outputs /\ retained'.writers = retained.writers
    /\ live'[p].outputs = retained.outputs /\ live'[p].writers = retained.writers
    /\ retained'.phase # "OPEN" => live'[p].phase # "OPEN"
    /\ \/ adv'[p].claim = NoClaim
       \/ lease' > 0
       \/ /\ adv'[p].claim = adv[p].claim /\ retained'.claim \in {retained.claim, NoClaim}
          /\ lease' = lease
    /\ adv'[p].stage = "finalize" => retained'.claim = adv'[p].claim

LEMMA LandsCovers ==
    ASSUME CloseoutIInv, NEW p \in Proc, Covers(p), Lands(p)
    PROVE  Covers(p)'
<1>0. /\ UNCHANGED <<writer, answered, lost>> /\ Len(pending'[p]) = 0
      /\ retained'.outputs = retained.outputs /\ retained'.writers = retained.writers
      /\ live'[p].outputs = retained.outputs /\ live'[p].writers = retained.writers
  BY DEF Lands, producerVars
<1>1. live[p].outputs \subseteq retained.outputs /\ live[p].writers \subseteq retained.writers
  BY NothingPending DEF Lands
<1>2. Holder(p)' => lease' > 0
  <2> SUFFICES ASSUME Holder(p)', ~(lease' > 0) PROVE FALSE OBVIOUS
  <2>1. retained'.claim # NoClaim /\ adv'[p].claim = retained'.claim BY DEF Holder
  <2>2. Holder(p) /\ lease' = lease BY <2>1 DEF Lands, Holder
  <2> QED BY <2>2 DEF Covers
<1>3. AdmissionsKept(p)' BY <1>0, <1>1 DEF Covers, AdmissionsKept
<1>4. OutputsKept(p)' BY <1>0 DEF OutputsKept
<1>5. AnswersKept(p)' BY <1>0, <1>1 DEF Covers, AnswersKept, Survives
<1>6. WriterShapes' BY <1>0 DEF Covers, WriterShapes
<1>7. At(p, "finalize")' => retained'.claim = adv'[p].claim BY DEF Lands, At
<1>8. (retained.phase # "OPEN" => live[p].phase # "OPEN")' BY DEF Lands
<1> QED BY <1>2, <1>3, <1>4, <1>5, <1>6, <1>7, <1>8 DEF Covers

(* A flush of p, confirmed or not. *)
LEMMA FlushCovers ==
    ASSUME CloseoutIInv, NEW p \in Proc, Covers(p), FlushStep(p), UNCHANGED producerVars
    PROVE  Covers(p)'
<1> DEFINE s == Flushed(p)
<1>s. /\ live[p].outputs \subseteq s.outputs /\ live[p].writers \subseteq s.writers
      /\ s.phase = retained.phase /\ s.claim = retained.claim
  BY FlushCarries
<1>k. retained' = s /\ UNCHANGED <<adv, lease, writer, answered, lost>>
  BY DEF FlushStep, producerVars
<1> HIDE DEF s
<1>1. Holder(p)' <=> Holder(p) BY <1>s, <1>k DEF Holder
<1>2. CASE live'[p] = retained' /\ pending'[p] = <<>>
  <2>0. Len(pending'[p]) = 0 BY <1>2
  <2>1. AdmissionsKept(p)' BY <1>2, <1>s, <1>k, <2>0 DEF Covers, AdmissionsKept
  <2>2. OutputsKept(p)' BY <1>2 DEF OutputsKept
  <2>3. AnswersKept(p)' BY <1>2, <1>s, <1>k DEF Covers, AnswersKept, Survives
  <2>4. (retained.phase # "OPEN" => live[p].phase # "OPEN")' BY <1>2
  <2> QED BY <1>1, <1>s, <1>k, <2>1, <2>2, <2>3, <2>4 DEF Covers, WriterShapes, At
<1>3. CASE live'[p] = live[p] /\ pending'[p] = pending[p]
  <2>1. AdmissionsKept(p)' BY <1>3, <1>s, <1>k DEF Covers, AdmissionsKept
  <2>2. OutputsKept(p)' BY <1>3, <1>s, <1>k DEF OutputsKept
  <2>3. AnswersKept(p)' BY <1>3, <1>k DEF Covers, AnswersKept, Survives
  <2>4. (retained.phase # "OPEN" => live[p].phase # "OPEN")' BY <1>3, <1>s, <1>k DEF Covers
  <2> QED BY <1>1, <1>s, <1>k, <2>1, <2>2, <2>3, <2>4 DEF Covers, WriterShapes, At
<1> QED BY <1>2, <1>3 DEF FlushStep

(* The container dies: what it had pending is lost, and its writers are    *)
(* nobody's.                                                               *)
LEMMA CrashCovers ==
    ASSUME CloseoutIInv, NEW p \in Proc, Covers(p), Crash(p)
    PROVE  Covers(p)'
<1>0. Invariant BY DEF CloseoutIInv
<1>1. /\ UNCHANGED <<retained, answered>> /\ live'[p] = retained /\ pending'[p] = <<>>
      /\ lost' = lost \cup {pending[p][k] : k \in 1..Len(pending[p])}
  BY <1>0 DEF Crash, Invariant, Shapes
<1>2. adv'[p].claim = NoClaim /\ adv'[p].stage \notin ClaimStage BY <1>0, EndIs DEF Crash
<1>3. \A w \in Writer : writer'[w] = IF writer[w] = [at |-> "working", host |-> p]
                                     THEN [at |-> "orphaned", host |-> p] ELSE writer[w]
  BY DEF Crash
<1>4. WriterShapes'
  <2>1. writer' \in [Writer -> [at : {"new", "working", "finished", "dropped", "orphaned"},
                                host : Proc \cup {NoProc}]]
    BY DEF Crash, Covers, WriterShapes
  <2> QED BY <2>1 DEF WriterShapes
<1>5. \A w \in Writer : writer'[w].at # "working"
  <2> SUFFICES ASSUME NEW w \in Writer, writer'[w].at = "working" PROVE FALSE OBVIOUS
  <2>1. writer[w] \in [at : {"new", "working", "finished", "dropped", "orphaned"},
                       host : Proc \cup {NoProc}]
    BY DEF Covers, WriterShapes
  <2>2. writer[w].at = "working" /\ writer'[w] = writer[w] BY <1>3
  <2>3. writer[w].host = p BY <2>2 DEF Covers, AdmissionsKept
  <2> QED BY <1>3, <2>1, <2>2, <2>3
<1>6. AdmissionsKept(p)' BY <1>1, <1>5 DEF AdmissionsKept
<1>7. OutputsKept(p)' BY <1>1 DEF OutputsKept
<1>8. AnswersKept(p)'
  <2> SUFFICES ASSUME NEW o \in answered PROVE Survives(p, o)'
    BY <1>1 DEF AnswersKept
  <2>1. CASE o \in retained.outputs BY <1>1, <2>1 DEF Survives
  <2>2. CASE o \in live[p].outputs /\ o \notin retained.outputs
    <3>1. PICK k \in 1..Len(pending[p]) : o \in Result(Initial, pending[p][k]).outputs
      BY <2>2, UnretainedIsPending
    <3> QED BY <1>1, <3>1 DEF Survives
  <2>3. CASE \E op \in lost : o \in Result(Initial, op).outputs
    BY <1>1, <2>3 DEF Survives
  <2> QED BY <2>1, <2>2, <2>3 DEF Covers, AnswersKept, Survives
<1>9. ~Holder(p)' /\ ~At(p, "finalize")' BY <1>2 DEF Holder, At, ClaimStage
<1> QED BY <1>1, <1>4, <1>6, <1>7, <1>8, <1>9 DEF Covers

(* What becomes of writers while p accepts or refuses something, and whom  *)
(* it answers.                                                             *)
ProducersMove(p) ==
    /\ WriterShapes'
    /\ \A w \in Writer :
          /\ writer'[w].at = "working" => writer'[w].host = p /\ w \in live'[p].writers
          /\ writer'[w].at = "new" => writer[w].at = "new"
    /\ lost' = lost /\ answered' \subseteq answered \cup live'[p].outputs

LEMMA RefusalCovers ==
    ASSUME NEW p \in Proc, Invariant, Covers(p),
           UNCHANGED <<retained, live, pending, behind, lease>>, ProducersMove(p),
           adv'[p].claim = adv[p].claim,
           adv'[p].stage = "finalize" => adv[p].stage = "finalize"
    PROVE  Covers(p)'
<1>1. Holder(p)' <=> Holder(p) BY DEF Holder
<1>2. At(p, "finalize")' => retained'.claim = adv'[p].claim BY DEF Covers, At
<1>3. AdmissionsKept(p)'
  <2>1. ASSUME NEW k \in 1..Len(pending[p]), pending[p][k].kind = "finish"
        PROVE  writer'[pending[p][k].writer].at # "new"
    <3>1. pending[p][k].writer \in Writer BY <2>1, Shaped, OpShape DEF Invariant
    <3> QED BY <2>1, <3>1 DEF Covers, AdmissionsKept, ProducersMove
  <2> QED BY <2>1 DEF Covers, AdmissionsKept, Holding, ProducersMove
<1>4. OutputsKept(p)' BY <1>1 DEF Covers, OutputsKept, Enters, Holding
<1>5. AnswersKept(p)' BY DEF Covers, AnswersKept, Survives, ProducersMove
<1>6. (retained.phase # "OPEN" => live[p].phase # "OPEN")' BY DEF Covers
<1> QED BY <1>1, <1>2, <1>3, <1>4, <1>5, <1>6 DEF Covers, ProducersMove

LEMMA AcceptCovers ==
    ASSUME CloseoutIInv, NEW p \in Proc, Covers(p), NEW op \in Op, Accepts(p, op),
           ProducersMove(p),
           op.kind = "reserve" => writer[op.writer].at = "new",
           op.kind = "finish" => writer'[op.writer].at # "new",
           op.kind = "final" => Holder(p)
    PROVE  Covers(p)'
<1> DEFINE l == live[p]
           r == Result(live[p], op)
<1>0. Invariant BY DEF CloseoutIInv
<1>n. PICK n \in Nat : n = Len(pending[p]) BY <1>0, Shaped DEF Invariant
<1>s. l \in States /\ retained \in States BY <1>0, Shaped DEF Invariant
<1>p. /\ live'[p] = r /\ Len(pending'[p]) = n + 1
      /\ \A k \in 1..n : pending'[p][k] = pending[p][k]
      /\ pending'[p][n + 1] = op
  BY <1>0, <1>n, AcceptedIs
<1>k. UNCHANGED <<retained, behind, adv, lease>> BY DEF Accepts
<1>x. /\ 1..n+1 = (1..n) \cup {n + 1} /\ (n + 1) - 1 = n OBVIOUS
<1>r. /\ r \in States /\ r.phase = l.phase /\ l.outputs \subseteq r.outputs
      /\ op.kind = "output" => r.outputs = l.outputs \cup {WriterOutput(op.writer)}
      /\ op.kind = "final" =>
           r.outputs \subseteq l.outputs \cup {FinalOutput(op.emission, op.observed)}
      /\ op.kind \notin {"output", "final"} => r.outputs = l.outputs
  BY <1>s, ResultIs
<1>w. /\ op.kind = "reserve" => r.writers = l.writers \cup {op.writer}
      /\ op.kind = "finish" => r.writers = l.writers \ {op.writer}
      /\ op.kind \notin {"reserve", "finish"} => r.writers = l.writers
  BY <1>s, ResultDoes
<1>e. Effective(l, op) BY DEF Accepts
<1>o. \A k \in 1..n : pending[p][k] \in Op BY <1>0, <1>n, Shaped DEF Invariant
<1>b. /\ \A w \in l.writers : w \in retained.writers \/ Holding(p, n, "reserve", w)
      /\ \A k \in 1..n :
            /\ pending[p][k].kind = "reserve" => retained.phase = "OPEN"
            /\ pending[p][k].kind = "finish" =>
                  /\ pending[p][k].writer \notin l.writers
                  /\ writer[pending[p][k].writer].at # "new"
  BY <1>n DEF Covers, AdmissionsKept
<1> HIDE DEF l, r
<1>h. \A k \in 0..n : \A kind, w : Holding(p, k, kind, w)' <=> Holding(p, k, kind, w)
  <2> TAKE k \in 0..n
  <2>1. \A j \in 1..k : pending'[p][j] = pending[p][j]
    <3>1. \A j \in 1..k : j \in 1..n OBVIOUS
    <3> QED BY <1>p, <3>1
  <2> QED BY <2>1 DEF Holding
<1>1. AdmissionsKept(p)'
  <2>1. ASSUME NEW w \in r.writers
        PROVE  w \in retained.writers \/ Holding(p, n + 1, "reserve", w)'
    <3>1. CASE w \in l.writers BY <1>b, <1>p, <1>x, <3>1 DEF Holding
    <3>2. CASE op.kind = "reserve" /\ w = op.writer BY <1>p, <1>x, <3>2 DEF Holding
    <3> QED BY <1>w, <2>1, <3>1, <3>2
  <2>2. ASSUME NEW k \in 1..n+1
        PROVE  /\ pending'[p][k].kind = "reserve" => retained.phase = "OPEN"
               /\ pending'[p][k].kind = "finish" =>
                     /\ pending'[p][k].writer \notin r.writers
                     /\ writer'[pending'[p][k].writer].at # "new"
    <3>1. CASE k \in 1..n
      <4>1. pending'[p][k] = pending[p][k] BY <1>p, <3>1
      <4>2. ASSUME pending[p][k].kind = "finish"
            PROVE  /\ pending[p][k].writer \notin r.writers
                   /\ writer'[pending[p][k].writer].at # "new"
        <5>1. pending[p][k].writer \in Writer BY <1>o, <3>1, <4>2, OpShape
        <5>2. pending[p][k].writer \notin l.writers /\ writer[pending[p][k].writer].at # "new"
          BY <1>b, <3>1, <4>2
        <5>3. writer'[pending[p][k].writer].at # "new" BY <5>1, <5>2 DEF ProducersMove
        <5> QED BY <1>w, <5>2, <5>3
      <4> QED BY <1>b, <3>1, <4>1, <4>2
    <3>2. CASE k = n + 1
      <4>1. op.kind = "reserve" => retained.phase = "OPEN"
        BY <1>e, <1>s, EffectiveIs DEF Covers, l
      <4>2. op.kind = "finish" => op.writer \notin r.writers BY <1>w
      <4> QED BY <1>p, <3>2, <4>1, <4>2
    <3> QED BY <1>x, <3>1, <3>2
  <2>3. \A w \in Writer : writer'[w].at = "working" =>
           writer'[w].host = p /\ w \in live'[p].writers
    BY DEF ProducersMove
  <2> QED BY <1>k, <1>p, <2>1, <2>2, <2>3 DEF AdmissionsKept
<1>2. OutputsKept(p)'
  <2>1. ASSUME NEW w \in Writer,
               WriterOutput(w) \in r.outputs, WriterOutput(w) \notin retained.outputs
        PROVE  \E k \in 1..n+1 : Enters(p, k)' /\ pending'[p][k].writer = w
    <3>1. CASE WriterOutput(w) \in l.outputs
      <4>1. PICK k \in 1..n : Enters(p, k) /\ pending[p][k].writer = w
        BY <1>n, <2>1, <3>1 DEF Covers, OutputsKept, l
      <4>2. k - 1 \in 0..n /\ k \in 1..n+1 OBVIOUS
      <4>3. Enters(p, k)' BY <1>h, <1>k, <1>p, <4>1, <4>2 DEF Enters
      <4> QED BY <1>p, <4>1, <4>2, <4>3
    <3>2. CASE WriterOutput(w) \notin l.outputs
      <4>1. op.kind = "output"
        <5>1. \A e, v : WriterOutput(w) # FinalOutput(e, v) BY OutputKinds
        <5> QED BY <1>r, <2>1, <3>2, <5>1
      <4>2. op.writer = w
        <5>1. WriterOutput(w) = WriterOutput(op.writer) BY <1>r, <2>1, <3>2, <4>1
        <5> QED BY <5>1, OutputKinds
      <4>3. retained.phase = "OPEN" \/ (w \in retained.writers /\ ~Holding(p, n, "finish", w))
        <5>1. ASSUME retained.phase # "OPEN" PROVE w \in l.writers
          BY <1>e, <1>s, <4>1, <4>2, <5>1, EffectiveIs DEF Covers, l
        <5>2. ASSUME w \in l.writers PROVE ~Holding(p, n, "finish", w)
          BY <1>b, <5>2 DEF Holding
        <5>3. Holding(p, n, "reserve", w) => retained.phase = "OPEN" BY <1>b DEF Holding
        <5> QED BY <1>b, <5>1, <5>2, <5>3
      <4>4. n \in 0..n /\ n + 1 \in 1..n+1 OBVIOUS
      <4>5. Enters(p, n + 1)'
        BY <1>h, <1>k, <1>p, <1>x, <4>1, <4>2, <4>3, <4>4 DEF Enters
      <4> QED BY <1>p, <4>2, <4>4, <4>5
    <3> QED BY <3>1, <3>2
  <2>2. ASSUME NEW e \in Emission, NEW v \in Observation,
               FinalOutput(e, v) \in r.outputs \ retained.outputs
        PROVE  Holder(p)
    <3>1. CASE FinalOutput(e, v) \in l.outputs BY <2>2, <3>1 DEF Covers, OutputsKept, l
    <3>2. CASE FinalOutput(e, v) \notin l.outputs
      <4>1. FinalOutput(e, v) # WriterOutput(op.writer) BY OutputKinds
      <4>2. op.kind = "final" BY <1>r, <2>2, <3>2, <4>1
      <4> QED BY <4>2
    <3> QED BY <3>1, <3>2
  <2>3. Holder(p)' <=> Holder(p) BY <1>k DEF Holder
  <2> QED BY <1>k, <1>p, <2>1, <2>2, <2>3 DEF OutputsKept
<1>3. AnswersKept(p)'
  <2> SUFFICES ASSUME NEW o \in answered' PROVE Survives(p, o)' BY DEF AnswersKept
  <2>1. o \in answered \/ o \in live'[p].outputs BY DEF ProducersMove
  <2> QED BY <1>p, <1>r, <2>1 DEF Covers, AnswersKept, Survives, ProducersMove, l
<1>4. (retained.phase # "OPEN" => live[p].phase # "OPEN")'
  BY <1>k, <1>p, <1>r DEF Covers, l
<1>5. Holder(p)' => lease' > 0 BY <1>k DEF Covers, Holder
<1>6. At(p, "finalize")' => retained'.claim = adv'[p].claim BY <1>k DEF Covers, At
<1> QED BY <1>1, <1>2, <1>3, <1>4, <1>5, <1>6 DEF Covers, ProducersMove

-----------------------------------------------------------------------------
(* Which of these each action is. *)

LEMMA Quits ==
    ASSUME Invariant, NEW p \in Proc, Quit(p)
    PROVE  /\ adv'[p].stage # "finalize" /\ adv'[p].claim = adv[p].claim
           /\ adv[p].claim = NoClaim => adv'[p].stage = "none"
<1>0. adv \in [Proc -> AdvState] BY DEF Invariant, Shapes
<1>1. CASE adv[p].claim = NoClaim
  <2>1. adv'[p] = Idle BY <1>0, <1>1 DEF Quit, End
  <2> QED BY <1>1, <2>1 DEF Idle
<1>2. CASE adv[p].claim # NoClaim
  <2>1. To(p, "release") BY <1>2 DEF Quit
  <2>2. adv'[p].stage = "release" /\ adv'[p].claim = adv[p].claim
    BY <2>1, ToIs DEF ClaimStage
  <2> QED BY <1>2, <2>2
<1> QED BY <1>1, <1>2

(* Durable steps turn phases and claims, and admissions stay. *)
LEMMA TurnsAdmissions ==
    ASSUME NEW s \in States, NEW p
    PROVE  /\ Begun(s).writers = s.writers
           /\ Resumed(s).writers = s.writers /\ (s.phase = "OPEN" => Resumed(s) = s)
           /\ \A drained : /\ Recorded(s, drained).writers = s.writers
                           /\ s.phase = "OPEN" => Recorded(s, drained) = s
           /\ Released(p, s).writers = s.writers /\ (s.phase = "OPEN" => Released(p, s) = s)
           /\ \A c : [s EXCEPT !.claim = c].writers = s.writers
<1>1. Begun(s).writers = s.writers BY DEF Begun, States
<1>2. Resumed(s).writers = s.writers /\ (s.phase = "OPEN" => Resumed(s) = s)
  BY DEF Resumed, States
<1>3. ASSUME NEW drained
      PROVE  Recorded(s, drained).writers = s.writers
             /\ (s.phase = "OPEN" => Recorded(s, drained) = s)
  <2> DEFINE late == s.phase = "CLOSING" /\ (s.writers # {} \/ ~drained) /\ drainLeft = 0
  <2>1. Recorded(s, drained) = IF late THEN [s EXCEPT !.phase = "INCOMPLETE"] ELSE s
    BY DEF Recorded
  <2>2. late => s.phase = "CLOSING" OBVIOUS
  <2> HIDE DEF late
  <2> QED BY <2>1, <2>2 DEF States
<1>4. Released(p, s).writers = s.writers /\ (s.phase = "OPEN" => Released(p, s) = s)
  BY DEF Released, States
<1>5. \A c : [s EXCEPT !.claim = c].writers = s.writers BY DEF States
<1> QED BY <1>1, <1>2, <1>3, <1>4, <1>5

(* p durably retains t, in which only phase, claim and manifest are new.   *)
LEMMA DurablyLands ==
    ASSUME Invariant, NEW p \in Proc, NEW t, Durably(p, t), StateTurn(retained, t),
           t.writers = retained.writers, UNCHANGED producerVars,
           \/ adv'[p].claim = NoClaim
           \/ lease' > 0
           \/ /\ adv'[p].claim = adv[p].claim /\ t.claim \in {retained.claim, NoClaim}
              /\ lease' = lease,
           adv'[p].stage = "finalize" => t.claim = adv'[p].claim
    PROVE  Lands(p)
<1>1. live'[p] = t /\ retained' = t /\ pending[p] = <<>> /\ UNCHANGED pending
  BY DEF Durably, Retains, Invariant, Shapes
<1> QED BY <1>1 DEF Lands, StateTurn

LEMMA BeginLands == ASSUME CloseoutIInv, NEW p \in Proc, Covers(p), Begin(p) PROVE Lands(p)
<1> DEFINE t == Begun(retained)
<1>0. Invariant /\ retained \in States BY Shaped DEF CloseoutIInv, Invariant
<1>1. Durably(p, t) /\ UNCHANGED <<adv, lease, producerVars>> BY DEF Begin, producerVars
<1>2. StateTurn(retained, t) /\ t.writers = retained.writers
  BY <1>0, StatesTurn, TurnsAdmissions
<1>3. t.claim = retained.claim BY <1>0 DEF Begun, States
<1>4. adv'[p].stage = "finalize" => t.claim = adv'[p].claim BY <1>1, <1>3 DEF Covers, At
<1> HIDE DEF t
<1> QED BY <1>0, <1>1, <1>2, <1>3, <1>4, DurablyLands

LEMMA ResumeLands == ASSUME Invariant, NEW p \in Proc, Resume(p) PROVE Lands(p)
<1> DEFINE t == Resumed(retained)
<1>0. retained \in States BY Shaped DEF Invariant
<1>1. Durably(p, t) /\ UNCHANGED producerVars /\ At(p, "resume") /\ To(p, "drain")
  BY DEF Resume, producerVars
<1>2. StateTurn(retained, t) /\ t.writers = retained.writers
  BY <1>0, StatesTurn, TurnsAdmissions
<1>3. adv[p].claim = NoClaim BY <1>1, ClaimAt DEF At, ClaimStage
<1>4. adv'[p].claim = NoClaim /\ adv'[p].stage # "finalize" BY <1>1, <1>3, ToIs
<1> HIDE DEF t
<1> QED BY <1>1, <1>2, <1>4, DurablyLands

LEMMA RecordDrainLands == ASSUME Invariant, NEW p \in Proc, RecordDrain(p) PROVE Lands(p)
<1> DEFINE t == Recorded(retained, adv[p].drained)
<1>0. retained \in States BY Shaped DEF Invariant
<1>1. Durably(p, t) /\ UNCHANGED producerVars /\ At(p, "record")
  BY DEF RecordDrain, producerVars
<1>2. StateTurn(retained, t) /\ t.writers = retained.writers
  BY <1>0, StatesTurn, TurnsAdmissions
<1>3. adv[p].claim = NoClaim BY <1>1, ClaimAt DEF At, ClaimStage
<1>4. KeepsAdvance(p) BY Advances DEF RecordDrain
<1>5. adv'[p].claim = NoClaim BY <1>3, <1>4 DEF KeepsAdvance
<1>6. adv'[p].stage # "finalize" BY <1>4, <1>5 DEF KeepsAdvance, ClaimStage
<1> HIDE DEF t
<1> QED BY <1>1, <1>2, <1>5, <1>6, DurablyLands

LEMMA ReleaseLands == ASSUME Invariant, NEW p \in Proc, Release(p) PROVE Lands(p)
<1> DEFINE t == Released(p, retained)
<1>0. retained \in States BY Shaped DEF Invariant
<1>1. Durably(p, t) /\ UNCHANGED producerVars /\ End(p) BY DEF Release, producerVars
<1>2. StateTurn(retained, t) /\ t.writers = retained.writers
  BY <1>0, StatesTurn, TurnsAdmissions
<1>3. adv'[p].claim = NoClaim /\ adv'[p].stage # "finalize" BY <1>1, EndIs DEF ClaimStage
<1> HIDE DEF t
<1> QED BY <1>1, <1>2, <1>3, DurablyLands

LEMMA RenewLands == ASSUME Invariant, NEW p \in Proc, Renew(p) PROVE Lands(p)
<1>1. /\ Durably(p, retained) /\ UNCHANGED producerVars
      /\ adv[p].stage \in {"audit", "seal"}
      /\ (lease' = Lease /\ UNCHANGED adv) \/ (UNCHANGED lease /\ Quit(p))
  BY DEF Renew, producerVars
<1>2. StateTurn(retained, retained) BY StatesTurn
<1>3. adv'[p].claim = adv[p].claim /\ adv'[p].stage # "finalize" BY <1>1, Quits
<1>4. lease' > 0 \/ lease' = lease BY <1>1, CloseoutAssumption
<1> QED BY <1>1, <1>2, <1>3, <1>4, DurablyLands

LEMMA TakeClaimLands == ASSUME Invariant, NEW p \in Proc, TakeClaim(p) PROVE Lands(p)
<1>0. /\ UNCHANGED producerVars /\ adv \in [Proc -> AdvState] /\ retained \in States
  BY DEF TakeClaim, producerVars, Invariant, Shapes
<1>1. ASSUME Claimable(retained), NEW c \in Claim, Durably(p, [retained EXCEPT !.claim = c]),
             adv' = [adv EXCEPT ![p] = [Idle EXCEPT !.stage = "finalize", !.claim = c]],
             lease' = Lease
      PROVE  Lands(p)
  <2> DEFINE t == [retained EXCEPT !.claim = c]
  <2>1. StateTurn(retained, t) /\ t.claim = c /\ t.writers = retained.writers
    BY <1>0, <1>1, StatesTurn, TurnsAdmissions
  <2>2. adv'[p].claim = c BY <1>0, <1>1 DEF Idle
  <2>3. lease' > 0 BY <1>1, CloseoutAssumption
  <2> HIDE DEF t
  <2>4. Durably(p, t) BY <1>1 DEF t
  <2> QED BY <1>0, <2>1, <2>2, <2>3, <2>4, DurablyLands
<1>2. CASE Durably(p, retained) /\ End(p)
  <2>1. adv'[p].claim = NoClaim /\ adv'[p].stage # "finalize" BY <1>2, EndIs DEF ClaimStage
  <2>2. StateTurn(retained, retained) BY StatesTurn
  <2> QED BY <1>0, <1>2, <2>1, <2>2, DurablyLands
<1> QED BY <1>1, <1>2 DEF TakeClaim

LEMMA SealLands == ASSUME Invariant, NEW p \in Proc, Seal(p) PROVE Lands(p)
<1> DEFINE t == IF Sealable(p, retained) THEN SealedState(p, retained) ELSE retained
<1>1. Durably(p, t) /\ At(p, "seal") /\ To(p, "release") /\ UNCHANGED <<lease, producerVars>>
  BY DEF Seal, timerVars, producerVars
<1>2. pending[p] = <<>> BY <1>1 DEF Durably
<1>3. /\ StateTurn(retained, t) /\ t.writers = retained.writers
      /\ t.claim \in {retained.claim, NoClaim}
  <2>1. CASE Sealable(p, retained)
    <3>1. t = SealedState(p, retained) BY <2>1
    <3>2. retained.writers = {} BY <2>1 DEF Sealable, Holds
    <3> HIDE DEF t
    <3> QED BY <1>1, <1>2, <2>1, <3>1, <3>2, SealTurns
  <2>2. CASE ~Sealable(p, retained)
    <3>1. t = retained BY <2>2
    <3> QED BY <3>1, StatesTurn
  <2> QED BY <2>1, <2>2
<1> HIDE DEF t
<1>4. adv'[p].claim = adv[p].claim /\ adv'[p].stage # "finalize"
  BY <1>1, ToIs DEF ClaimStage
<1> QED BY <1>1, <1>3, <1>4, DurablyLands

LEMMA DurableFailsLands ==
    ASSUME Invariant, NEW p \in Proc, DurableFails(p) PROVE Lands(p)
<1>0. retained \in States /\ live \in [Proc -> States] BY DEF Invariant, Shapes
<1>1. /\ pending[p] = <<>> /\ UNCHANGED <<pending, producerVars>> /\ live'[p] = retained
  BY <1>0 DEF DurableFails, producerVars
<1>2. /\ adv'[p].stage # "finalize"
      /\ adv'[p].claim = NoClaim \/ adv'[p].claim = adv[p].claim
      /\ adv[p].claim = NoClaim => adv'[p].claim = NoClaim
  <2>1. CASE End(p) BY <2>1, EndIs DEF ClaimStage
  <2>2. CASE Quit(p) BY <2>2, Quits
  <2> QED BY <2>1, <2>2 DEF DurableFails
<1>3. ASSUME StateTurn(retained, retained'), retained'.writers = retained.writers,
             retained.phase = "OPEN" => retained' = retained,
             \/ adv[p].claim = NoClaim
             \/ lease' = lease /\ retained'.claim \in {retained.claim, NoClaim}
      PROVE  Lands(p)
  BY <1>1, <1>2, <1>3 DEF Lands, StateTurn
<1>4. CASE /\ UNCHANGED lease
           /\ \/ retained' \in {retained, Resumed(retained)}
              \/ retained' \in {retained, Recorded(retained, adv[p].drained)}
              \/ retained' = retained
              \/ retained' \in {retained, Released(p, retained)}
  <2>1. StateTurn(retained, retained') /\ KeepsClaim(retained, retained')
    BY <1>4, StatesTurn
  <2>2. /\ retained'.writers = retained.writers
        /\ retained.phase = "OPEN" => retained' = retained
    BY <1>0, <1>4, TurnsAdmissions
  <2> QED BY <1>3, <1>4, <2>1, <2>2 DEF KeepsClaim
<1>5. CASE /\ At(p, "claim") /\ Claimable(retained)
           /\ \E c \in Claim : retained' = [retained EXCEPT !.claim = c]
  <2>1. PICK c \in Claim : retained' = [retained EXCEPT !.claim = c] BY <1>5
  <2>2. StateTurn(retained, retained') BY <1>5, <2>1, StatesTurn
  <2>3. retained'.writers = retained.writers BY <1>0, <2>1, TurnsAdmissions
  <2>4. retained.phase = "CLOSING" BY <1>5 DEF Claimable
  <2>5. adv[p].claim = NoClaim BY <1>5, ClaimAt DEF At, ClaimStage
  <2> QED BY <1>3, <2>2, <2>3, <2>4, <2>5
<1>6. CASE /\ At(p, "seal") /\ UNCHANGED lease /\ Sealable(p, retained)
           /\ retained' = SealedState(p, retained)
  <2>1. /\ StateTurn(retained, retained') /\ retained'.claim = NoClaim
        /\ retained'.writers = {}
    BY <1>1, <1>6, SealTurns
  <2>2. retained.writers = {} /\ retained.phase = "CLOSING" BY <1>6 DEF Sealable, Holds
  <2> QED BY <1>3, <1>6, <2>1, <2>2
<1>7. \/ /\ UNCHANGED lease
         /\ \/ retained' \in {retained, Resumed(retained)}
            \/ retained' \in {retained, Recorded(retained, adv[p].drained)}
            \/ retained' = retained
            \/ retained' \in {retained, Released(p, retained)}
      \/ /\ At(p, "claim") /\ Claimable(retained)
         /\ \E c \in Claim : retained' = [retained EXCEPT !.claim = c]
      \/ /\ At(p, "seal") /\ UNCHANGED lease
         /\ retained' \in {retained} \cup
               (IF Sealable(p, retained) THEN {SealedState(p, retained)} ELSE {})
  BY Zenon DEF DurableFails
<1> QED BY <1>4, <1>5, <1>6, <1>7

LEMMA ProducersStay ==
    ASSUME NEW p \in Proc, Covers(p), UNCHANGED producerVars,
           live[p].writers \subseteq live'[p].writers
    PROVE  ProducersMove(p)
BY DEF ProducersMove, producerVars, Covers, AdmissionsKept, WriterShapes

LEMMA TransactDoes ==
    ASSUME Invariant, NEW p \in Proc, NEW op \in Op, Transact(p, op)
    PROVE  live'[p] = IF Admits(live[p], op) THEN Result(live[p], op) ELSE live[p]
<1>1. live \in [Proc -> States] BY DEF Invariant, Shapes
<1>2. CASE Effective(live[p], op) BY <1>1, <1>2 DEF Transact, Effective
<1>3. CASE ~Effective(live[p], op) BY <1>3 DEF Transact, Effective
<1> QED BY <1>2, <1>3

(* p offers op to its journal. *)
LEMMA OfferCovers ==
    ASSUME CloseoutIInv, NEW p \in Proc, Covers(p), NEW op \in Op, Transact(p, op),
           UNCHANGED <<retained, behind, timerVars>>, ProducersMove(p),
           IF Admits(live[p], op) THEN UNCHANGED adv
           ELSE /\ adv'[p].claim = adv[p].claim
                /\ adv'[p].stage = "finalize" => adv[p].stage = "finalize",
           ByClaim(op) => /\ op.claim = adv[p].claim /\ At(p, "finalize")
                          /\ op.kind = "prepare" => live[p].prepared = NoObservation
                          /\ op.kind = "final" => op.observed = live[p].prepared,
           op.kind = "reserve" => writer[op.writer].at = "new",
           op.kind = "finish" => writer'[op.writer].at # "new"
    PROVE  Covers(p)'
<1>0. Invariant BY DEF CloseoutIInv
<1>1. ByClaim(op) => adv[p].claim # NoClaim /\ Holder(p)
  BY <1>0, ClaimAt DEF At, ClaimStage, Covers, Holder
<1>2. CASE Effective(live[p], op)
  <2>1. Accepts(p, op) BY <1>1, <1>2 DEF Transact, Accepts, timerVars, Effective
  <2> QED BY <1>1, <2>1, AcceptCovers DEF ByClaim
<1>3. CASE ~Effective(live[p], op)
  <2>1. UNCHANGED <<retained, live, pending, behind, lease>>
    BY <1>3 DEF Transact, timerVars
  <2>2. /\ adv'[p].claim = adv[p].claim
        /\ adv'[p].stage = "finalize" => adv[p].stage = "finalize"
    OBVIOUS
  <2> QED BY <1>0, <2>1, <2>2, RefusalCovers
<1> QED BY <1>2, <1>3

LEMMA ReservedCovers ==
    ASSUME CloseoutIInv, NEW p \in Proc, Covers(p), NEW w \in Writer, Reserved(p, w)
    PROVE  Covers(p)'
<1> DEFINE op == Reserve(w)
<1>0. Invariant /\ live[p] \in States BY Shaped DEF CloseoutIInv, Invariant
<1>1. op \in Op /\ ~ByClaim(op) /\ op.kind = "reserve" /\ op.writer = w
  BY DEF Op, Reserve, ByClaim
<1>2. /\ Transact(p, op) /\ Admits(live[p], op) /\ writer[w].at = "new"
      /\ UNCHANGED <<retained, behind, adv, timerVars, answered, lost>>
      /\ writer' = [writer EXCEPT ![w] = [at |-> "working", host |-> p]]
  BY DEF Reserved
<1> HIDE DEF op
<1>3. live'[p].writers = live[p].writers \cup {w}
  BY <1>0, <1>1, <1>2, TransactDoes, ResultDoes
<1>4. ProducersMove(p)
  <2>1. WriterShapes' BY <1>2 DEF Covers, WriterShapes
  <2>2. \A x \in Writer :
           writer'[x] = IF x = w THEN [at |-> "working", host |-> p] ELSE writer[x]
    BY <1>2 DEF Covers, WriterShapes
  <2>3. ASSUME NEW x \in Writer
        PROVE  /\ writer'[x].at = "working" => writer'[x].host = p /\ x \in live'[p].writers
               /\ writer'[x].at = "new" => writer[x].at = "new"
    BY <1>3, <2>2 DEF Covers, AdmissionsKept
  <2> QED BY <1>2, <2>1, <2>3 DEF ProducersMove
<1> QED BY <1>1, <1>2, <1>4, OfferCovers

LEMMA ProduceCovers ==
    ASSUME CloseoutIInv, NEW p \in Proc, Covers(p), NEW w \in Writer, Produce(p, w)
    PROVE  Covers(p)'
<1> DEFINE op == Output(w)
<1>0. Invariant /\ live[p] \in States BY Shaped DEF CloseoutIInv, Invariant
<1>1. op \in Op /\ ~ByClaim(op) /\ op.kind = "output" /\ op.writer = w
  BY DEF Op, Output, ByClaim
<1>2. /\ Transact(p, op) /\ Admits(live[p], op)
      /\ UNCHANGED <<retained, behind, adv, timerVars, writer, lost>>
      /\ answered' = answered \cup {WriterOutput(w)}
  BY DEF Produce
<1> HIDE DEF op
<1>3. live'[p].writers = live[p].writers /\ WriterOutput(w) \in live'[p].outputs
  <2> DEFINE r == Result(live[p], op)
  <2>1. live'[p] = r BY <1>0, <1>1, <1>2, TransactDoes
  <2>2. r.outputs = live[p].outputs \cup {WriterOutput(op.writer)} BY <1>0, <1>1, ResultIs
  <2>3. r.writers = live[p].writers BY <1>0, <1>1, ResultDoes
  <2> HIDE DEF r
  <2> QED BY <1>1, <2>1, <2>2, <2>3
<1>4. ProducersMove(p) BY <1>2, <1>3 DEF ProducersMove, Covers, AdmissionsKept, WriterShapes
<1> QED BY <1>1, <1>2, <1>4, OfferCovers

LEMMA FinishWriterCovers ==
    ASSUME CloseoutIInv, NEW p \in Proc, Covers(p), NEW w \in Writer, FinishWriter(p, w)
    PROVE  Covers(p)'
<1>0. Invariant /\ live[p] \in States BY Shaped DEF CloseoutIInv, Invariant
<1>1. PICK bad \in BOOLEAN :
         /\ Transact(p, Finish(w, bad))
         /\ writer' = [writer EXCEPT ![w].at =
                IF Admits(live[p], Finish(w, bad)) THEN "finished" ELSE "dropped"]
  BY DEF FinishWriter
<1> DEFINE op == Finish(w, bad)
           end == IF Admits(live[p], op) THEN "finished" ELSE "dropped"
<1>2. op \in Op /\ ~ByClaim(op) /\ op.kind = "finish" /\ op.writer = w
  BY DEF Op, Finish, ByClaim
<1>3. /\ Transact(p, op) /\ writer' = [writer EXCEPT ![w].at = end]
      /\ UNCHANGED <<retained, behind, adv, timerVars, answered, lost>>
  BY <1>1 DEF FinishWriter
<1>4. end \in {"finished", "dropped"} OBVIOUS
<1> HIDE DEF op, end
<1>5. live[p].writers \ {w} \subseteq live'[p].writers
  BY <1>0, <1>2, <1>3, TransactDoes, ResultDoes
<1>6. /\ WriterShapes' /\ writer'[w].at = end
      /\ \A x \in Writer \ {w} : writer'[x] = writer[x]
  <2>1. writer \in [Writer -> [at : {"new", "working", "finished", "dropped", "orphaned"},
                               host : Proc \cup {NoProc}]]
    BY DEF Covers, WriterShapes
  <2>2. [writer[w] EXCEPT !.at = end] \in
            [at : {"new", "working", "finished", "dropped", "orphaned"},
             host : Proc \cup {NoProc}]
    BY <1>4, <2>1
  <2>3. writer' = [writer EXCEPT ![w] = [writer[w] EXCEPT !.at = end]] BY <1>3, <2>1
  <2>4. [writer[w] EXCEPT !.at = end].at = end BY <2>1
  <2> QED BY <2>1, <2>2, <2>3, <2>4 DEF WriterShapes
<1>7. ASSUME NEW x \in Writer
      PROVE  /\ writer'[x].at = "working" => writer'[x].host = p /\ x \in live'[p].writers
             /\ writer'[x].at = "new" => writer[x].at = "new"
  <2>1. CASE x = w BY <1>4, <1>6, <2>1
  <2>2. CASE x # w BY <1>5, <1>6, <2>2 DEF Covers, AdmissionsKept
  <2> QED BY <2>1, <2>2
<1>8. ProducersMove(p) BY <1>3, <1>6, <1>7 DEF ProducersMove
<1>9. writer'[w].at # "new" BY <1>4, <1>6
<1> QED BY <1>2, <1>3, <1>8, <1>9, OfferCovers

LEMMA AckCovers ==
    ASSUME CloseoutIInv, NEW p \in Proc, Covers(p), Ack(p) PROVE Covers(p)'
<1>0. Invariant /\ live[p] \in States BY Shaped DEF CloseoutIInv, Invariant
<1>1. /\ Acknowledge \in Op /\ ~ByClaim(Acknowledge) /\ Acknowledge.kind = "acknowledge"
      /\ Admits(live[p], Acknowledge)
  BY DEF Op, Acknowledge, ByClaim, Admits
<1>2. /\ Transact(p, Acknowledge)
      /\ UNCHANGED <<retained, behind, adv, timerVars, producerVars>>
  BY DEF Ack, producerVars
<1>3. live'[p].writers = live[p].writers BY <1>0, <1>1, <1>2, TransactDoes, ResultDoes
<1>4. ProducersMove(p) BY <1>2, <1>3, ProducersStay
<1> QED BY <1>1, <1>2, <1>4, OfferCovers

(* The finalizer goes on with what was accepted, and gives up on a refusal. *)
LEMMA Offers ==
    ASSUME Invariant, NEW p \in Proc, NEW op,
           IF Admits(live[p], op) THEN UNCHANGED adv ELSE Quit(p)
    PROVE  IF Admits(live[p], op) THEN UNCHANGED adv
           ELSE /\ adv'[p].claim = adv[p].claim
                /\ adv'[p].stage = "finalize" => adv[p].stage = "finalize"
BY Quits

LEMMA PrepareFinalCovers ==
    ASSUME CloseoutIInv, NEW p \in Proc, Covers(p), PrepareFinal(p) PROVE Covers(p)'
<1>0. Invariant /\ live[p] \in States BY Shaped DEF CloseoutIInv, Invariant
<1>1. adv[p].claim \in Claim
  BY <1>0, ClaimAt, Shaped DEF PrepareFinal, At, ClaimStage, Invariant, AdvState
<1>2. PICK v \in Observation :
         /\ Transact(p, Prepare(adv[p].claim, v))
         /\ IF Admits(live[p], Prepare(adv[p].claim, v)) THEN UNCHANGED adv ELSE Quit(p)
  BY DEF PrepareFinal
<1> DEFINE op == Prepare(adv[p].claim, v)
<1>3. op \in Op /\ op.claim = adv[p].claim /\ op.kind = "prepare" BY <1>1 DEF Op, Prepare
<1>4. Transact(p, op) /\ IF Admits(live[p], op) THEN UNCHANGED adv ELSE Quit(p)
  BY <1>2
<1> HIDE DEF op
<1>5. /\ At(p, "finalize") /\ live[p].prepared = NoObservation
      /\ UNCHANGED <<retained, behind, timerVars, producerVars>>
  BY DEF PrepareFinal, producerVars
<1>6. live'[p].writers = live[p].writers BY <1>0, <1>3, <1>4, TransactDoes, ResultDoes
<1>7. ProducersMove(p) BY <1>5, <1>6, ProducersStay
<1>8. IF Admits(live[p], op) THEN UNCHANGED adv
      ELSE /\ adv'[p].claim = adv[p].claim
           /\ adv'[p].stage = "finalize" => adv[p].stage = "finalize"
  BY <1>0, <1>4, Offers
<1> QED BY <1>3, <1>4, <1>5, <1>7, <1>8, OfferCovers

LEMMA EmitFinalCovers ==
    ASSUME CloseoutIInv, NEW p \in Proc, Covers(p), NEW e \in Emission, EmitFinal(p, e)
    PROVE  Covers(p)'
<1>0. Invariant /\ live[p] \in States BY Shaped DEF CloseoutIInv, Invariant
<1>1. adv[p].claim \in Claim /\ live[p].prepared \in Observation
  BY <1>0, ClaimAt, Shaped DEF EmitFinal, At, ClaimStage, Invariant, AdvState, States
<1> DEFINE op == Final(adv[p].claim, e, live[p].prepared)
<1>2. /\ op \in Op /\ op.claim = adv[p].claim /\ op.kind = "final"
      /\ op.observed = live[p].prepared /\ op.emission = e
  BY <1>1 DEF Op, Final
<1>3. /\ At(p, "finalize") /\ UNCHANGED <<retained, behind, timerVars, writer, lost>>
      /\ Transact(p, op) /\ ~Emitted(live[p], e)
      /\ IF Admits(live[p], op)
         THEN answered' = answered \cup {FinalOutput(e, live[p].prepared)} /\ UNCHANGED adv
         ELSE UNCHANGED answered /\ Quit(p)
  BY DEF EmitFinal
<1> HIDE DEF op
<1>4. live'[p].writers = live[p].writers BY <1>0, <1>2, <1>3, TransactDoes, ResultDoes
<1>5. Admits(live[p], op) => FinalOutput(e, live[p].prepared) \in live'[p].outputs
  <2> SUFFICES ASSUME Admits(live[p], op)
               PROVE  FinalOutput(e, live[p].prepared) \in live'[p].outputs
    OBVIOUS
  <2> DEFINE r == Result(live[p], op)
  <2>1. live'[p] = r BY <1>0, <1>2, <1>3, TransactDoes
  <2>2. r.outputs = IF Emitted(live[p], op.emission) THEN live[p].outputs
                    ELSE live[p].outputs \cup {FinalOutput(op.emission, op.observed)}
    BY <1>0, <1>2, ResultIs
  <2> HIDE DEF r
  <2>3. r.outputs = live[p].outputs \cup {FinalOutput(e, live[p].prepared)}
    BY <1>2, <1>3, <2>2
  <2> QED BY <2>1, <2>3
<1>6. answered' \subseteq answered \cup live'[p].outputs BY <1>3, <1>5
<1>7. ProducersMove(p)
  BY <1>3, <1>4, <1>6 DEF ProducersMove, Covers, AdmissionsKept, WriterShapes
<1>8. IF Admits(live[p], op) THEN UNCHANGED adv
      ELSE /\ adv'[p].claim = adv[p].claim
           /\ adv'[p].stage = "finalize" => adv[p].stage = "finalize"
  BY <1>0, <1>3, Offers
<1> QED BY <1>2, <1>3, <1>7, <1>8, OfferCovers

(* The steps of an advance that only it sees. *)
LEMMA OwnStepCovers ==
    ASSUME CloseoutIInv, NEW p \in Proc, Covers(p),
           \/ AdvanceBegin(p) \/ Drain(p) \/ PrepareFails(p) \/ FinalizeDone(p) \/ Audit(p)
    PROVE  Covers(p)'
<1>0. /\ Invariant /\ adv \in [Proc -> AdvState] /\ adv[p] \in AdvState
  BY DEF CloseoutIInv, Invariant, Shapes
<1>1. UNCHANGED <<journalVars, timerVars, producerVars>>
  BY DEF AdvanceBegin, Drain, PrepareFails, FinalizeDone, Audit, producerVars
<1>2. Holder(p) => lease' > 0 BY <1>1 DEF Covers, timerVars
<1>3. /\ adv'[p].claim = adv[p].claim
      /\ adv'[p].stage = "finalize" => adv[p].stage = "finalize"
  <2>1. CASE AdvanceBegin(p)
    <3>1. PICK stage \in {"resume", "drain"} : To(p, stage) BY <2>1 DEF AdvanceBegin
    <3> QED BY <1>0, <3>1, ToIs
  <2>2. CASE Drain(p)
    <3>1. adv[p].claim = NoClaim BY <1>0, <2>2, ClaimAt DEF Drain, At, ClaimStage
    <3>2. adv'[p].claim = NoClaim /\ adv'[p].stage = "record" BY <1>0, <2>2 DEF Drain, Idle
    <3> QED BY <3>1, <3>2
  <2>3. CASE PrepareFails(p) BY <1>0, <2>3, ToIs DEF PrepareFails, ClaimStage
  <2>4. CASE FinalizeDone(p) BY <1>0, <2>4 DEF FinalizeDone, AdvState
  <2>5. CASE Audit(p)
    <3>1. CASE Quit(p) BY <1>0, <3>1, Quits
    <3>2. CASE adv' = [adv EXCEPT ![p].stage = "seal", ![p].audited = retained]
      BY <1>0, <3>2 DEF AdvState
    <3> QED BY <2>5, <3>1, <3>2 DEF Audit
  <2> QED BY <2>1, <2>2, <2>3, <2>4, <2>5
<1> QED BY <1>1, <1>2, <1>3, MoveCovers

(* A prompt finalizer renews before its lease is over. *)
LEMMA TickCovers ==
    ASSUME Prompt, CloseoutIInv, NEW p \in Proc, Covers(p), Tick PROVE Covers(p)'
<1>1. UNCHANGED <<journalVars, producerVars, adv>> BY DEF Tick, producerVars
<1>2. lease \in Nat BY CloseoutAssumption DEF CloseoutIInv, Invariant, Shapes
<1>3. Holder(p) => lease > 0 /\ lease # 1 BY DEF Tick, Covers
<1>4. Holder(p) => lease' > 0 BY <1>2, <1>3 DEF Tick, Down
<1> QED BY <1>1, <1>4, MoveCovers

LEMMA InitCovers == ASSUME Init, NEW p \in Proc PROVE Covers(p)
<1>1. /\ retained = Initial /\ live[p] = Initial /\ Len(pending[p]) = 0 /\ adv[p] = Idle
      /\ answered = {}
  BY DEF Init
<1>2. WriterShapes /\ \A w \in Writer : writer[w].at = "new" BY DEF Init, WriterShapes
<1>3. AdmissionsKept(p) BY <1>1, <1>2 DEF AdmissionsKept, Initial
<1>4. OutputsKept(p) BY <1>1 DEF OutputsKept
<1>5. AnswersKept(p) BY <1>1 DEF AnswersKept
<1>6. ~Holder(p) /\ ~At(p, "finalize") BY <1>1 DEF Holder, At, Initial, Idle
<1> QED BY <1>1, <1>2, <1>3, <1>4, <1>5, <1>6 DEF Covers

LEMMA NextCovers ==
    ASSUME Prompt, CloseoutIInv, NEW p \in Proc, Proc = {p}, Covers(p), [Next]_vars
    PROVE  Covers(p)'
<1>0. Invariant BY DEF CloseoutIInv
<1>1. Lands(p) => Covers(p)' BY LandsCovers
<1>2. CASE Advance(p)
  <2>1. CASE Resume(p) \/ RecordDrain(p) \/ TakeClaim(p) \/ Seal(p) \/ Release(p)
    BY <1>0, <1>1, <2>1, ResumeLands, RecordDrainLands, TakeClaimLands, SealLands, ReleaseLands
  <2>2. CASE PrepareFinal(p) BY <2>2, PrepareFinalCovers
  <2>3. ASSUME NEW e \in Emission, EmitFinal(p, e) PROVE Covers(p)'
    BY <2>3, EmitFinalCovers
  <2>4. CASE AdvanceBegin(p) \/ Drain(p) \/ PrepareFails(p) \/ FinalizeDone(p) \/ Audit(p)
    BY <2>4, OwnStepCovers
  <2> QED BY <1>2, <2>1, <2>2, <2>3, <2>4 DEF Advance, Finalize
<1>3. CASE Begin(p) \/ Renew(p) \/ DurableFails(p)
  BY <1>0, <1>1, <1>3, BeginLands, RenewLands, DurableFailsLands
<1>4. CASE Flush(p) \/ FlushUnconfirmed(p)
  <2>1. FlushStep(p) BY <1>0, <1>4, FlushIs
  <2>2. UNCHANGED producerVars BY <1>4 DEF Flush, FlushUnconfirmed, producerVars
  <2> QED BY <2>1, <2>2, FlushCovers
<1>5. CASE Ack(p) BY <1>5, AckCovers
<1>6. CASE Crash(p) BY <1>6, CrashCovers
<1>7. ASSUME NEW w \in Writer, Reserved(p, w) \/ Produce(p, w) \/ FinishWriter(p, w)
      PROVE  Covers(p)'
  BY <1>7, ReservedCovers, ProduceCovers, FinishWriterCovers
<1>8. CASE Tick BY <1>8, TickCovers
<1>9. CASE UNCHANGED vars
  <2>1. UNCHANGED <<journalVars, producerVars, adv, lease>>
    BY <1>9 DEF vars, producerVars, timerVars
  <2>2. Holder(p) => lease' > 0 BY <2>1 DEF Covers
  <2> QED BY <2>1, <2>2, MoveCovers
<1> QED BY <1>2, <1>3, <1>4, <1>5, <1>6, <1>7, <1>8, <1>9 DEF Next

(* In a sealed state nothing is pending that could still bring content.    *)
LEMMA CoversSealed ==
    ASSUME CloseoutIInv, NEW p \in Proc, Covers(p) PROVE SealedCoversAnswered
<1> SUFFICES ASSUME retained.phase = "SEALED"
             PROVE  /\ \A o \in answered \ retained.outputs :
                          \E op \in lost : o \in Result(Initial, op).outputs
                    /\ \A w \in Writer : writer[w].at # "working"
  BY DEF SealedCoversAnswered
<1>0. /\ Invariant /\ retained.writers = {}
      /\ \A k \in 1..Len(pending[p]) : pending[p][k].kind # "reserve"
  BY DEF CloseoutIInv, SealedMatchesContent, Covers, AdmissionsKept
<1>1. live[p].writers = {} BY <1>0 DEF Covers, AdmissionsKept, Holding
<1>2. ~Holder(p) BY DEF Holder, CloseoutIInv, Invariant, ClosedFirst, Closed
<1>3. ASSUME NEW o \in live[p].outputs, o \notin retained.outputs PROVE FALSE
  <2>1. \A w \in Writer : o # WriterOutput(w)
    BY <1>0, <1>3 DEF Covers, OutputsKept, Enters
  <2>2. \A e \in Emission, v \in Observation : o # FinalOutput(e, v)
    BY <1>2, <1>3 DEF Covers, OutputsKept
  <2> QED BY <1>0, <1>3, <2>1, <2>2, OutputIs
<1>4. \A o \in answered \ retained.outputs :
         \E op \in lost : o \in Result(Initial, op).outputs
  BY <1>3 DEF Covers, AnswersKept, Survives
<1>5. \A w \in Writer : writer[w].at # "working" BY <1>1 DEF Covers, AdmissionsKept
<1> QED BY <1>4, <1>5

(* With one container whose finalizer is prompt, whatever fails and        *)
(* whenever it dies: what a sealed inventory leaves out was never answered *)
(* to its producer or was in memory at a death, and no writer is at work.  *)
THEOREM SealLeavesNothingOut ==
    ASSUME Prompt, NEW p, Proc = {p}
    PROVE  Spec => []SealedCoversAnswered
<1>0. p \in Proc OBVIOUS
<1>1. Init => CloseoutIInv /\ Covers(p) BY <1>0, InitSound, InitCovers
<1>2. CloseoutIInv /\ Covers(p) /\ [Next]_vars => CloseoutIInv' /\ Covers(p)'
  BY <1>0, Inductive, NextCovers
<1>3. CloseoutIInv /\ Covers(p) => SealedCoversAnswered BY <1>0, CoversSealed
<1> QED BY <1>1, <1>2, <1>3, PTL DEF Spec
=============================================================================
