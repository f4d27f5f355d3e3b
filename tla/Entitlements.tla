---------------------------- MODULE Entitlements ----------------------------
(***************************************************************************)
(* The entitlement reconciler (server/entitlements.py, EntitlementManager):*)
(* it hands what the app's service principal made during the run over to   *)
(* the attendee.  A loop sweeps all adapters (jobs, apps, ...), requests   *)
(* reconcile on demand, one pass at a time.  A pass lists each adapter's   *)
(* resources, from a cache where it may, and grants what is eligible.      *)
(* Session starts and notifications invalidate caches at any time.  When   *)
(* the platform limits the rate, everybody holds back for a while.         *)
(*                                                                         *)
(* Deadlines are times left, in ticks, and a tick may come at any time.    *)
(* One attendee, as one instance has.  The catalog's grants are one step;  *)
(* the grants to apps' own principals are left out.                        *)
(***************************************************************************)
EXTENDS Integers, FiniteSets

CONSTANTS
    Adapter,            \* _RESOURCE_SPECS
    Baselined,          \* those that cannot tell when a resource was made
    Resource, AdapterOf,
    Old,                \* resources from before the run
    Loop, Caller,       \* the reconciler's thread, and request threads
    NoAdapter,
    Interval,           \* entitlement_reconcile_interval
    IdleInterval,       \* entitlement_idle_interval
    Lifetimes,          \* _cache_lifetime, with its jitter
    Delays,             \* backoff delays, with their jitter
    Bounds              \* bounds: the environments that are checked

ASSUME EntitlementAssumption ==
    /\ Baselined \subseteq Adapter /\ NoAdapter \notin Adapter
    /\ AdapterOf \in [Resource -> Adapter] /\ Old \subseteq Resource
    /\ Loop \notin Caller
    /\ Interval \in Nat \ {0} /\ IdleInterval \in Nat \ {0}
    /\ Lifetimes \subseteq Nat \ {0} /\ Delays \subseteq Nat \ {0}
    /\ Bounds \subseteq [enabled : BOOLEAN, made : SUBSET (Resource \ Old), calls : Nat,
                         wakes : Nat, limits : Nat, failures : Nat, drifts : Nat]

VARIABLES
    made,           \* external: resources that exist
    granted,        \* external: resources the attendee can manage
    nextIn,         \* _next_attempt_at
    deferred,       \* _deferred_reason
    idle,           \* _idle
    ok,             \* _ok: pending, healthy or unhealthy
    cache, cacheLeft, \* _enumeration_cache: the lists, and their time left
    retryIn,        \* _cache_retry_at
    invalid,        \* adapters in _cache_invalidations
    ready,          \* _baseline_ready
    baseline,       \* _baseline
    ledger,         \* _ledger: the state of each resource
    errors,         \* adapters in _adapter_errors
    caller,         \* caller[c]: what it waits to reconcile
    pass,           \* the holder of _reconcile_lock
    noted,          \* ghost: resources that existed at a wake of their adapter
    floorIn,        \* ghost: time left of the last backoff
    raised,         \* ghost: the last pass ended in an exception
    bounds, used    \* the bounds, constant in a behaviour, and their use

worldVars == <<made, granted>>
scheduleVars == <<nextIn, deferred, idle, ok, floorIn, raised>>
cacheVars == <<cache, cacheLeft, retryIn, invalid>>
proofVars == <<ready, baseline, ledger, errors>>
entitlementVars == <<worldVars, scheduleVars, cacheVars, proofVars, caller, pass,
                     noted, bounds, used>>

NoTimer == -1
Away    == [at |-> "away", only |-> {}]

(* A pass: its place, the adapters it must list afresh (or no particular   *)
(* ones) and those it still has to visit, the list request in flight (dirty: its     *)
(* adapter was invalidated meanwhile), and what finish() compares.         *)
NoPass == [at |-> "none", forced |-> {}, todo |-> {},
           listing |-> NoAdapter, seen |-> {}, dirty |-> FALSE, age |-> 0,
           items |-> {}, woken |-> FALSE, fails |-> FALSE, limited |-> FALSE,
           prior |-> "pending", ledger |-> [r \in Resource |-> "none"], errors |-> {}]

Starting == [NoPass EXCEPT !.at = "starting", !.todo = Baselined]

EntitlementInit ==
    /\ made = Old /\ granted = {}
    /\ nextIn = 0 /\ deferred = FALSE /\ idle = FALSE /\ ok = "pending"
    /\ cache = [a \in Adapter |-> {}] /\ cacheLeft = [a \in Adapter |-> NoTimer]
    /\ retryIn = [a \in Adapter |-> NoTimer] /\ invalid = {}
    /\ ready = {} /\ baseline = {}
    /\ ledger = [r \in Resource |-> "none"] /\ errors = {}
    /\ caller = [c \in Caller \cup {Loop} |-> Away]
    /\ pass = Starting
    /\ noted = {} /\ floorIn = 0 /\ raised = FALSE
    /\ bounds \in Bounds
    /\ used = [calls |-> 0, wakes |-> 0, limits |-> 0, failures |-> 0, drifts |-> 0]

Uses(what) ==
    /\ used[what] < bounds[what]
    /\ used' = [used EXCEPT ![what] = @ + 1]

Of(a) == {r \in Resource : AdapterOf[r] = a}

-----------------------------------------------------------------------------
(* The workspace. *)

(* The attendee's agent makes a resource, as the service principal. *)
Make(r) ==
    /\ r \in bounds.made /\ r \notin made /\ made' = made \cup {r}
    /\ UNCHANGED <<granted, scheduleVars, cacheVars, proofVars, caller, pass, noted,
                   bounds, used>>

(* Somebody takes the permission away again. *)
Drift(r) ==
    /\ Uses("drifts") /\ r \in granted /\ granted' = granted \ {r}
    /\ UNCHANGED <<made, scheduleVars, cacheVars, proofVars, caller, pass, noted, bounds>>

(* It is deleted. *)
Remove(r) ==
    /\ Uses("drifts") /\ r \in made
    /\ made' = made \ {r} /\ granted' = granted \ {r} /\ noted' = noted \ {r}
    /\ UNCHANGED <<scheduleVars, cacheVars, proofVars, caller, pass, bounds>>

Less(timer) == IF timer > 0 THEN timer - 1 ELSE timer

(* A list request's age matters until its entry would have expired. *)
Aged(p) ==
    IF p.listing # NoAdapter /\ \E t \in Lifetimes \cup {Interval} : p.age < t
    THEN [p EXCEPT !.age = @ + 1] ELSE p

TimePasses ==
    /\ nextIn' = Less(nextIn) /\ floorIn' = Less(floorIn)
    /\ cacheLeft' = [a \in Adapter |-> Less(cacheLeft[a])]
    /\ retryIn' = [a \in Adapter |-> Less(retryIn[a])]
    /\ pass' = Aged(pass)
    /\ UNCHANGED <<worldVars, deferred, idle, ok, raised, cache, invalid, proofVars,
                   caller, noted, bounds, used>>

-----------------------------------------------------------------------------
(* wake(): a session start for all adapters, a notification for one.  In   *)
(* the server only session starts wake it; notify_resource_created is the  *)
(* manager's own operation.                                                *)

(* Entries that leave the cache. *)
Pops(labels) ==
    /\ cache' = [a \in Adapter |-> IF a \in labels THEN {} ELSE cache[a]]
    /\ cacheLeft' = [a \in Adapter |-> IF a \in labels THEN NoTimer ELSE cacheLeft[a]]

InBackoff == deferred /\ nextIn > 0

Running == pass.at \notin {"none", "starting"}

Wake(labels) ==
    /\ pass.at # "starting" /\ Uses("wakes")
    /\ Pops(labels)
    /\ retryIn' = [a \in Adapter |-> IF a \in labels THEN NoTimer ELSE retryIn[a]]
    /\ invalid' = invalid \cup labels
    /\ pass' = IF ~Running THEN pass
               ELSE [pass EXCEPT !.woken = TRUE, !.dirty = pass.dirty \/ pass.listing \in labels]
    /\ noted' = noted \cup {r \in made : AdapterOf[r] \in labels}
    /\ idle' = FALSE /\ nextIn' = IF InBackoff THEN nextIn ELSE 0
    /\ UNCHANGED <<worldVars, deferred, ok, floorIn, raised, proofVars, caller, bounds>>

-----------------------------------------------------------------------------
(* reconcile(), up to its lock. *)

Calls(c, only) ==
    /\ caller[c] = Away
    /\ caller' = [caller EXCEPT ![c] = [at |-> "queued", only |-> only]]

(* _loop: an attempt is due. *)
LoopAttempt ==
    /\ pass.at # "starting" /\ nextIn = 0 /\ Calls(Loop, {})
    /\ UNCHANGED <<worldVars, scheduleVars, cacheVars, proofVars, pass, noted, bounds, used>>

(* On demand, for one adapter or for all; in a backoff it is answered at   *)
(* once.                                                                   *)
Request(c, only) ==
    /\ pass.at # "starting" /\ ~InBackoff /\ Uses("calls") /\ Calls(c, only)
    /\ UNCHANGED <<worldVars, scheduleVars, cacheVars, proofVars, pass, noted, bounds>>

Begun(c) ==
    [NoPass EXCEPT !.at = "baselines", !.forced = caller[c].only,
         !.todo = Baselined \ ready, !.prior = ok, !.ledger = ledger, !.errors = errors]

(* Mutant of Enter: a caller that was queued does not look again. *)
EnterAnyway(c) ==
    /\ pass.at = "none" /\ caller[c].at = "queued"
    /\ caller' = [caller EXCEPT ![c] = Away]
    /\ pass' = Begun(c)
    /\ UNCHANGED <<worldVars, scheduleVars, cacheVars, proofVars, noted, bounds, used>>

(* With the lock, the backoff is looked at again: the pass before may have *)
(* been told to hold back.                                                 *)
Enter(c) ==
    /\ pass.at = "none" /\ caller[c].at = "queued"
    /\ caller' = [caller EXCEPT ![c] = Away]
    /\ pass' = IF InBackoff THEN pass ELSE Begun(c)
    /\ UNCHANGED <<worldVars, scheduleVars, cacheVars, proofVars, noted, bounds, used>>

-----------------------------------------------------------------------------
(* A pass. *)

PassOnly ==
    UNCHANGED <<worldVars, scheduleVars, proofVars, caller, noted, bounds>>

Visits == IF pass.forced = {} THEN Adapter ELSE pass.forced

(* No attendee, or no bearer: nothing is visited. *)
EnterFails(c) ==
    /\ pass.at = "none" /\ caller[c].at = "queued" /\ ~InBackoff /\ Uses("failures")
    /\ caller' = [caller EXCEPT ![c] = Away]
    /\ pass' = [Begun(c) EXCEPT !.at = "finishing", !.fails = TRUE]
    /\ UNCHANGED <<worldVars, scheduleVars, cacheVars, proofVars, noted, bounds>>

(* The same when the server starts: no baseline is taken. *)
StartFails ==
    /\ pass = Starting /\ Uses("failures") /\ pass' = [pass EXCEPT !.todo = {}]
    /\ PassOnly /\ UNCHANGED cacheVars

(* The catalog's grants and their verification, after the baselines.  The  *)
(* sweep is left out where the service principal cannot be told.           *)
Catalog ==
    /\ pass.at = "baselines" /\ pass.listing = NoAdapter /\ pass.todo = {}
    /\ pass' = [pass EXCEPT !.at = "sweeping", !.todo = Visits]
    /\ PassOnly /\ UNCHANGED <<cacheVars, used>>

CatalogFails ==
    /\ pass.at = "baselines" /\ pass.listing = NoAdapter /\ pass.todo = {}
    /\ \E at \in {"sweeping", "finishing"} :
        \/ /\ Uses("failures")
           /\ pass' = [pass EXCEPT !.at = at, !.todo = Visits, !.fails = TRUE]
        \/ /\ Uses("limits")
           /\ pass' = [pass EXCEPT !.at = at, !.todo = Visits, !.limited = TRUE]
    /\ PassOnly /\ UNCHANGED cacheVars

Forced(a) == pass.at # "sweeping" \/ a \in pass.forced

(* Mutant of Hit: a cached list does not expire. *)
HitForever(a) ==
    ~Forced(a) /\ retryIn[a] <= 0 /\ a \notin invalid /\ cacheLeft[a] # NoTimer

Hit(a) ==
    ~Forced(a) /\ retryIn[a] <= 0 /\ a \notin invalid /\ cacheLeft[a] > 0

Held(a) == ~Forced(a) /\ retryIn[a] > 0

Sweeping == pass.at = "sweeping" /\ pass.listing = NoAdapter

(* _enumerate_resources: the adapter's list, from the cache ... *)
ListCached(a) ==
    /\ Sweeping /\ ~pass.limited /\ a \in pass.todo /\ Hit(a)
    /\ pass' = [pass EXCEPT !.at = "granting", !.listing = a, !.items = cache[a]]
    /\ PassOnly /\ UNCHANGED <<cacheVars, used>>

(* ... or not yet, after a failure ... *)
ListHeld(a) ==
    /\ Sweeping /\ ~pass.limited /\ a \in pass.todo /\ Held(a)
    /\ pass' = [pass EXCEPT !.todo = pass.todo \ {a}, !.fails = TRUE]
    /\ errors' = errors \cup {a}
    /\ UNCHANGED <<worldVars, scheduleVars, cacheVars, ready, baseline, ledger, caller,
                   noted, bounds, used>>

(* ... or by a request. *)
ListBegin(a) ==
    /\ pass.at \in {"starting", "baselines", "sweeping"} /\ pass.listing = NoAdapter
    /\ ~pass.limited /\ a \in pass.todo /\ ~Hit(a) /\ ~Held(a)
    /\ pass' = [pass EXCEPT !.listing = a, !.seen = made \cap Of(a),
                            !.dirty = FALSE, !.age = 0]
    /\ PassOnly /\ UNCHANGED <<cacheVars, used>>

InFlight == pass.listing # NoAdapter /\ pass.at # "granting"

(* What is left of a time that is counted from when the request began. *)
Left(time) == IF time > pass.age THEN time - pass.age ELSE 0

Listed == [pass EXCEPT !.listing = NoAdapter, !.todo = pass.todo \ {pass.listing},
                       !.seen = {}, !.dirty = FALSE, !.age = 0]

(* A baseline is all that is listed. *)
TakeBaseline(items) ==
    /\ pass.at \in {"starting", "baselines"}
    /\ pass' = Listed
    /\ ready' = ready \cup {pass.listing} /\ baseline' = baseline \cup items

TakeItems(items) ==
    /\ pass.at = "sweeping"
    /\ pass' = [pass EXCEPT !.at = "granting", !.items = items, !.seen = {},
                            !.dirty = FALSE, !.age = 0]
    /\ UNCHANGED <<ready, baseline>>

(* Mutant of Refill: whatever came meanwhile, the list is kept. *)
RefillAnyway(a, items, time) ==
    /\ cache' = [cache EXCEPT ![a] = items]
    /\ cacheLeft' = [cacheLeft EXCEPT ![a] = Left(time)]
    /\ invalid' = invalid \ {a}

(* A list that may predate a notification is not kept, and leaves the      *)
(* invalidation in place.                                                  *)
Refill(a, items, time) ==
    IF pass.dirty THEN UNCHANGED <<cache, cacheLeft, invalid>>
    ELSE /\ cache' = [cache EXCEPT ![a] = items]
         /\ cacheLeft' = [cacheLeft EXCEPT ![a] = Left(time)]
         /\ invalid' = invalid \ {a}

(* The response says what there was at some time of the request. *)
ListEnd(items, time) ==
    /\ pass.seen \cap made \subseteq items
    /\ items \subseteq pass.seen \cup (made \cap Of(pass.listing))
    /\ Refill(pass.listing, items, time)
    /\ retryIn' = [retryIn EXCEPT ![pass.listing] = NoTimer]
    /\ TakeBaseline(items) \/ TakeItems(items)
    /\ UNCHANGED <<worldVars, scheduleVars, ledger, errors, caller, noted, bounds, used>>

(* It fails: the older list is no proof any more, and the adapter waits. *)
ListFails ==
    /\ InFlight /\ Uses("failures")
    /\ Pops({pass.listing})
    /\ retryIn' = [retryIn EXCEPT ![pass.listing] = Left(Interval)]
    /\ pass' = [Listed EXCEPT !.fails = TRUE]
    /\ errors' = IF pass.at = "sweeping" THEN errors \cup {pass.listing} ELSE errors
    /\ UNCHANGED <<worldVars, scheduleVars, invalid, ready, baseline, ledger, caller,
                   noted, bounds>>

(* The platform limits the rate: no request is made any more in this pass, *)
(* which comes to its end, or, from a baseline, to its sweep.              *)
ListLimited ==
    /\ InFlight /\ Uses("limits")
    /\ Pops({pass.listing})
    /\ retryIn' = [retryIn EXCEPT ![pass.listing] = NoTimer]
    /\ \/ pass' = [Listed EXCEPT !.limited = TRUE, !.at = "finishing"]
       \/ /\ pass.at = "baselines"
          /\ pass' = [Listed EXCEPT !.limited = TRUE, !.at = "sweeping", !.todo = Visits]
    /\ PassOnly /\ UNCHANGED invalid

-----------------------------------------------------------------------------
(* _handoff_resources, for one adapter's list. *)

(* _verify_resource: it was made in this run, as far as can be told. *)
Unverifiable(r) == AdapterOf[r] \in Baselined /\ AdapterOf[r] \notin ready

Eligible(r) ==
    IF AdapterOf[r] \in Baselined THEN r \notin baseline /\ ~Unverifiable(r)
                                  ELSE r \notin Old

Durable(r) == ledger[r] = "handed_off" /\ r \in granted

(* What was deleted since it was listed can be neither read nor granted. *)
Gone == {r \in pass.items \ made : ledger[r] = "handed_off" \/ Eligible(r)}

(* A resource: still granted, granted now, or left alone; failed is those  *)
(* whose reads or grants fail.  A failure of what is not listed any more   *)
(* is dropped.                                                             *)
Outcome(r, failed) ==
    CASE r \notin pass.items -> IF ledger[r] = "failed" /\ AdapterOf[r] = pass.listing
                                THEN "none" ELSE ledger[r]
      [] r \in failed \cup Gone -> "failed"
      [] Durable(r)    -> "handed_off"
      [] Unverifiable(r) -> "failed"
      [] Eligible(r)   -> "handed_off"
      [] OTHER         -> "discovered"

Granted(failed) ==
    {r \in (pass.items \cap made) \ failed : Durable(r) \/ Eligible(r)}

Unverified(failed) == {r \in pass.items \ failed : ~Durable(r) /\ Unverifiable(r)}

HandOff(failed) ==
    LET a == pass.listing
        fails == failed \cup Gone \cup Unverified(failed) # {} IN
    /\ pass.at = "granting" /\ failed \subseteq pass.items
    /\ IF failed = {} THEN UNCHANGED used ELSE Uses("failures")
    /\ granted' = granted \cup Granted(failed)
    /\ ledger' = [r \in Resource |-> Outcome(r, failed)]
    /\ errors' = IF fails THEN errors \cup {a} ELSE errors \ {a}
    /\ pass' = [pass EXCEPT !.at = "sweeping", !.listing = NoAdapter, !.items = {},
                            !.todo = pass.todo \ {a}, !.fails = pass.fails \/ fails]
    /\ UNCHANGED <<made, scheduleVars, cacheVars, ready, baseline, caller, noted, bounds>>

(* The rate is limited on the way: what was granted before is granted, and *)
(* what the ledger would say of it is going to be dropped.                 *)
HandOffLimited(done) ==
    /\ pass.at = "granting" /\ done \subseteq pass.items /\ Uses("limits")
    /\ granted' = granted \cup Granted(pass.items \ done)
    /\ pass' = [pass EXCEPT !.at = "sweeping", !.listing = NoAdapter, !.items = {},
                            !.todo = pass.todo \ {pass.listing}, !.limited = TRUE]
    /\ UNCHANGED <<made, scheduleVars, cacheVars, proofVars, caller, noted, bounds>>

(* A pass that is limited still asks for lists, and is refused by its own  *)
(* record of the limit: the first adapter that needs one loses its entry.  *)
SweepLimited ==
    /\ Sweeping /\ pass.limited
    /\ pass' = [pass EXCEPT !.at = "finishing"]
    /\ LET refused == {a \in pass.todo : ~Hit(a) /\ ~Held(a)} IN
       IF refused = {} THEN UNCHANGED cacheVars
       ELSE \E a \in refused :
            /\ Pops({a})
            /\ retryIn' = [retryIn EXCEPT ![a] = NoTimer]
            /\ UNCHANGED invalid
    /\ PassOnly /\ UNCHANGED used

(* Failures of adapters that were not visited count as well. *)
SweepEnds ==
    /\ Sweeping /\ ~pass.limited /\ pass.todo = {}
    /\ pass' = [pass EXCEPT !.at = "finishing", !.fails = pass.fails \/ errors # {}]
    /\ PassOnly /\ UNCHANGED <<cacheVars, used>>

-----------------------------------------------------------------------------
(* finish(). *)

(* _defer_backoff: the pass has proved nothing, and nobody asks for delay. *)
Defer(delay) ==
    /\ pass.at = "finishing" /\ pass.limited
    /\ ledger' = pass.ledger /\ errors' = pass.errors
    /\ deferred' = TRUE /\ nextIn' = delay /\ floorIn' = delay
    /\ idle' = FALSE /\ raised' = FALSE /\ pass' = NoPass
    /\ UNCHANGED <<worldVars, ok, cacheVars, ready, baseline, caller, noted, bounds, used>>

(* _next_cache_expiry *)
Expiries ==
    {cacheLeft[a] : a \in {b \in Adapter : cacheLeft[b] # NoTimer}}
        \cup {retryIn[a] : a \in {b \in Adapter : cacheLeft[b] = NoTimer /\ retryIn[b] # NoTimer}}

Earliest(times, t) == t \in times /\ \A u \in times : t <= u

(* _record *)
Record ==
    /\ pass.at = "finishing" /\ ~pass.limited
    /\ pass' = [pass EXCEPT !.at = "recorded"]
    /\ deferred' = FALSE /\ raised' = FALSE
    /\ \/ /\ pass.fails
          /\ ok' = "unhealthy" /\ idle' = FALSE /\ nextIn' = Interval
       \/ /\ ~pass.fails
          /\ ok' = "healthy" /\ idle' = (pass.prior = "healthy" /\ ledger = pass.ledger)
          /\ Earliest(Expiries \cup {IF idle' THEN IdleInterval ELSE Interval}, nextIn')
    /\ UNCHANGED <<worldVars, floorIn, cacheVars, proofVars, caller, noted, bounds, used>>

Smaller(t, u) == IF t <= u THEN t ELSE u

Pending == {IF retryIn[a] > 0 THEN retryIn[a] ELSE 0 : a \in invalid}

(* Mutant of Schedule: the cadence that was chosen stands. *)
ScheduleNothing ==
    /\ pass.at = "recorded" /\ pass' = NoPass
    /\ UNCHANGED <<worldVars, scheduleVars, cacheVars, proofVars, caller, noted, bounds, used>>

(* _schedule_pending_wake: a wake that came meanwhile, or that could not   *)
(* be served, wins over the cadence.                                       *)
Schedule ==
    /\ pass.at = "recorded" /\ pass' = NoPass
    /\ \/ /\ invalid # {} /\ \E t \in Pending : Earliest(Pending, t) /\ nextIn' = Smaller(t, nextIn)
          /\ idle' = FALSE
       \/ /\ invalid = {} /\ pass.woken /\ nextIn' = 0 /\ idle' = FALSE
       \/ /\ invalid = {} /\ ~pass.woken /\ UNCHANGED <<nextIn, idle>>
    /\ UNCHANGED <<worldVars, deferred, ok, floorIn, raised, cacheVars, proofVars,
                   caller, noted, bounds, used>>

(* Something raises that no adapter catches, maybe among the grants: a     *)
(* failure is recorded, and nothing else.                                  *)
PassRaises(done) ==
    /\ Running /\ pass.at \notin {"recorded", "finishing"} /\ ~InFlight /\ Uses("failures")
    /\ done \subseteq pass.items
    /\ granted' = granted \cup Granted(pass.items \ done)
    /\ ledger' = [r \in Resource |-> IF r \in pass.items \ done THEN ledger[r]
                                                              ELSE Outcome(r, {})]
    /\ pass' = NoPass /\ raised' = TRUE
    /\ ok' = "unhealthy" /\ idle' = FALSE /\ deferred' = FALSE /\ nextIn' = Interval
    /\ UNCHANGED <<made, floorIn, cacheVars, ready, baseline, errors, caller, noted, bounds>>

(* start(): the baselines were captured, as far as that went, and the      *)
(* first sweep is spread over the cadence, so that a fleet does not sweep  *)
(* at once.  A start that was limited waits for the backoff instead.       *)
Started ==
    /\ pass.at = "starting" /\ pass.listing = NoAdapter /\ pass.todo = {}
    /\ pass' = NoPass /\ nextIn' \in 1..Interval
    /\ UNCHANGED <<worldVars, deferred, idle, ok, floorIn, raised, cacheVars, proofVars,
                   caller, noted, bounds, used>>

-----------------------------------------------------------------------------
Workspace ==
    \/ \E r \in Resource : Make(r) \/ Drift(r) \/ Remove(r)
    \/ \E labels \in {Adapter} \cup {{a} : a \in Adapter} :
        \/ Wake(labels)
        \/ \E c \in Caller : Request(c, labels)

PassSteps ==
    \/ Catalog
    \/ \E a \in Adapter : ListCached(a) \/ ListHeld(a) \/ ListBegin(a)
    \/ InFlight /\ \E items \in SUBSET Of(pass.listing), time \in Lifetimes :
                        ListEnd(items, time)
    \/ HandOff({}) \/ SweepLimited \/ SweepEnds
    \/ \E delay \in Delays : Defer(delay)
    \/ Record \/ Schedule \/ Started

PassFaults ==
    \/ \E c \in Caller \cup {Loop} : EnterFails(c)
    \/ StartFails \/ CatalogFails \/ ListFails \/ ListLimited
    \/ \E done \in SUBSET pass.items : PassRaises(done)
    \/ \E failed \in (SUBSET pass.items) \ {{}} : HandOff(failed)
    \/ \E done \in SUBSET pass.items : HandOffLimited(done)

Reconcile ==
    \/ LoopAttempt
    \/ \E c \in Caller \cup {Loop} : Enter(c)
    \/ PassSteps

EntitlementNext ==
    /\ bounds.enabled
    /\ Workspace \/ TimePasses \/ Reconcile \/ PassFaults

EntitlementSpec == EntitlementInit /\ [][EntitlementNext]_entitlementVars

-----------------------------------------------------------------------------
(* Properties. *)

Health == {"pending", "healthy", "unhealthy"}

Ledger == [Resource -> {"none", "discovered", "failed", "handed_off"}]

UseType == [calls : Nat, wakes : Nat, limits : Nat, failures : Nat, drifts : Nat]

PassType ==
    [at : {"none", "starting", "baselines", "sweeping", "granting", "finishing", "recorded"},
     forced : SUBSET Adapter, todo : SUBSET Adapter,
     listing : Adapter \cup {NoAdapter}, seen : SUBSET Resource, dirty : BOOLEAN,
     age : Nat, items : SUBSET Resource, woken : BOOLEAN, fails : BOOLEAN,
     limited : BOOLEAN, prior : Health, ledger : Ledger, errors : SUBSET Adapter]

EntitlementTypeOK ==
    /\ bounds \in Bounds
    /\ used \in UseType
    /\ made \subseteq Resource /\ granted \subseteq made
    /\ nextIn \in Nat /\ floorIn \in Nat
    /\ deferred \in BOOLEAN /\ idle \in BOOLEAN /\ raised \in BOOLEAN
    /\ ok \in Health
    /\ cache \in [Adapter -> SUBSET Resource]
    /\ cacheLeft \in [Adapter -> Nat \cup {NoTimer}]
    /\ retryIn \in [Adapter -> Nat \cup {NoTimer}] /\ invalid \subseteq Adapter
    /\ ready \subseteq Adapter /\ baseline \subseteq Resource
    /\ ledger \in Ledger
    /\ errors \subseteq Adapter /\ noted \subseteq made
    /\ caller \in [Caller \cup {Loop} -> [at : {"away", "queued"}, only : SUBSET Adapter]]
    /\ pass \in PassType

(* A wake "cannot be satisfied from a cache populated before": a list that *)
(* a sweep may take from the cache has everything that existed when its    *)
(* adapter was last woken, also when the list was in flight at that time.  *)
CacheIsCurrent ==
    \A a \in Adapter : cacheLeft[a] # NoTimer => noted \cap Of(a) \subseteq cache[a]

(* "Backoff remains a hard floor": no request is made during the delay     *)
(* chosen after a rate limit (what the platform asked for, cut at the      *)
(* cap), by whoever was queued behind the pass that was limited, and       *)
(* whatever wakes come.                                                    *)
BackoffIsAFloor == floorIn > 0 => pass.at = "none"

(* A wake that comes during a pass, before, between or after its last      *)
(* steps, is not forgotten for the cadence: the next attempt is due when   *)
(* the first invalidated adapter may be asked again, and not later; except *)
(* in a backoff, or after a pass that ended in an exception.               *)
WakeIsNotLost ==
    pass.at = "none" /\ ~InBackoff /\ ~raised =>
        \A a \in invalid : nextIn = 0 \/ nextIn <= retryIn[a]

(* "A failed snapshot never widens access": what was there before the run  *)
(* is not granted, however late its adapter's baseline is taken.           *)
OldStaysUngranted == granted \cap Old = {}

(* Whatever the run made comes to be manageable, and so again after        *)
(* somebody took the permission away; a late baseline may have taken it    *)
(* for old.  And the failures of a pass do not outlive what caused them:   *)
(* the reconciler reports healthy again.                                   *)
Converges ==
    []<>(bounds.enabled => made \ Old \subseteq granted \cup baseline /\ ok = "healthy")
=============================================================================
