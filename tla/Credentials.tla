----------------------------- MODULE Credentials -----------------------------
(***************************************************************************)
(* The app's own bearer and how it reaches the attendee's agents           *)
(* (server/credentials.py, with the writers in server/cli_config.py).      *)
(*                                                                         *)
(* The SDK hands out short-lived bearers, minted in its own time.  A       *)
(* thread looks at the clock once per heartbeat, and probes: it takes the  *)
(* SDK's bearer, has a new one minted if that one is about to lapse,       *)
(* validates it with the workspace, adopts it and, when it changed, fans   *)
(* it out to the attendee's token file, which the agents read.  Requests   *)
(* probe when what is held is not fresh, one probe at a time, and may fall *)
(* back on a static token (the emergency PAT).  What a request got it      *)
(* writes into the file too: at once when the attendee's agents are        *)
(* configured, else after configuring them, unless a later write came      *)
(* first.                                                                  *)
(*                                                                         *)
(* A tick is the time within which a heartbeat comes round and its probe   *)
(* ends.  The SDK, the workspace and the clock are external.               *)
(***************************************************************************)
EXTENDS Integers, Sequences

CONSTANTS
    Client,             \* request threads that configure the attendee's agents
    BearerLife,         \* the life of a bearer the SDK mints
    ProbeInterval,      \* PROBE_INTERVAL
    ProbeWindow,        \* EXPIRY_PROBE_WINDOW
    ForceWindow,        \* EXPIRY_FORCE_WINDOW
    Cooldown,           \* FORCE_REFRESH_COOLDOWN
    Margin,             \* OAUTH_EXPIRY_MARGIN
    MaxAge,             \* OAUTH_VALIDATION_MAX_AGE
    Rotation, Nobody,   \* the maintenance thread; no holder of the lock
    CredentialScopes    \* environments: bounds, and whether there is a PAT

CredentialScopeType ==
    [enabled : BOOLEAN, pat : BOOLEAN, clients : SUBSET Client,
     ticks : Nat, asks : Nat, mints : Nat, outages : Nat]

ASSUME CredentialAssumption ==
    /\ {BearerLife, ProbeInterval, ProbeWindow, ForceWindow, Cooldown, Margin, MaxAge} \subseteq Nat
    /\ ForceWindow < BearerLife
    /\ Rotation \notin Client /\ Nobody \notin Client \cup {Rotation}
    /\ CredentialScopes \subseteq CredentialScopeType

(* The windows as the code has them, 600 and 300 seconds before a bearer   *)
(* of an hour lapses, with probes every 300, bearers good for 600, a       *)
(* margin of 60 and a cooldown of 60, while a heartbeat of 30 and its      *)
(* probe take no more than 100.                                            *)
ASSUME WindowsFit ==
    /\ ProbeInterval \in 1..MaxAge
    /\ 3 <= ForceWindow /\ ForceWindow <= ProbeWindow
    /\ Margin + 1 < ForceWindow
    /\ ForceWindow + Cooldown <= BearerLife

VARIABLES
    clock,
    expires,        \* external: expires[b] of each bearer minted; the SDK has the last
    held,           \* _token, _last_successful_at, _health
    forcedAt,       \* _last_forced_refresh
    probedAt,       \* _last_probe
    rotation,       \* the maintenance thread
    probe,          \* the holder of _refresh_lock, and what it probes
    client,         \* client[c]: where a request stands, what token() gave it, its revision
    attendee,       \* known, ready (cli_ready), _credential_revision, the token in the file
    patience,       \* ticks until the thread must have come round
    excused,        \* ghost: what went wrong since the file was last in order
    credit          \* the environment: what of it there is, and is left of its bounds

credentialVars ==
    <<clock, expires, held, forcedAt, probedAt, rotation, probe, client, attendee, patience,
      excused, credit>>

NoBearer == 0
Pat == -1

NoProbe == [by |-> Nobody, at |-> "done", bearer |-> NoBearer, stalled |-> FALSE]

Cleared(health) == [bearer |-> NoBearer, validatedAt |-> 0, health |-> health]

(* The process starts with the probe of start(), and without attendees.    *)
CredentialInit ==
    /\ clock = 0 /\ expires = <<>> /\ held = Cleared("unknown")
    /\ forcedAt = -Cooldown /\ probedAt = -ProbeInterval
    /\ rotation = "starting"
    /\ probe = [NoProbe EXCEPT !.by = Rotation, !.at = "authenticating"]
    /\ client = [c \in Client |-> [at |-> "idle", got |-> NoBearer, revision |-> 0]]
    /\ attendee = [known |-> FALSE, ready |-> FALSE, revision |-> 0, file |-> NoBearer]
    /\ patience = 1 /\ excused = {}
    /\ credit \in CredentialScopes

Draw(bound) == credit[bound] > 0 /\ credit' = [credit EXCEPT ![bound] = @ - 1]

Free == UNCHANGED credit

Outage == Draw("outages") /\ excused' = excused \cup {"outage"}

TimeLeft(b) == expires[b] - clock

(* _oauth_fresh_locked *)
HeldFresh ==
    /\ held.bearer # NoBearer /\ held.health = "rotating"
    /\ clock - held.validatedAt <= MaxAge /\ TimeLeft(held.bearer) > Margin

-----------------------------------------------------------------------------
(* The maintenance thread. *)

Due ==
    \/ clock - probedAt >= ProbeInterval
    \/ held.bearer # NoBearer /\ TimeLeft(held.bearer) <= ProbeWindow

(* _tick: a probe on the slow cadence, or each time once expiry is near. *)
Heartbeat ==
    /\ rotation = "sleeping" /\ patience' = 1
    /\ IF Due THEN rotation' = "waiting" /\ probedAt' = clock
       ELSE patience = 0 /\ UNCHANGED <<rotation, probedAt>>
    /\ Free
    /\ UNCHANGED <<clock, expires, held, forcedAt, probe, client, attendee, excused>>

StartProbe(who) ==
    probe.by = Nobody /\ probe' = [NoProbe EXCEPT !.by = who, !.at = "authenticating"]

RotationEnters ==
    /\ rotation = "waiting" /\ rotation' = "probing" /\ StartProbe(Rotation)
    /\ Free
    /\ UNCHANGED <<clock, expires, held, forcedAt, probedAt, client, attendee, patience, excused>>

-----------------------------------------------------------------------------
(* A probe, by the thread or a request: _probe_unlocked. *)

ProbeEnds ==
    /\ probe' = NoProbe
    /\ rotation' = IF probe.by = Rotation THEN "sleeping" ELSE rotation
    /\ client' = [c \in Client |->
          IF probe.by = c THEN [client[c] EXCEPT !.at = "looking"] ELSE client[c]]

ProbeGoesOn(at, b, stalled) ==
    /\ probe' = [probe EXCEPT !.at = at, !.bearer = b, !.stalled = stalled]
    /\ UNCHANGED <<rotation, client>>

(* The bearer that the SDK has, or mints because it has none that is good. *)
SdkBearers ==
    IF expires # <<>> /\ TimeLeft(Len(expires)) > 0 THEN expires
    ELSE Append(expires, clock + BearerLife)

(* _refresh_if_near_expiry: the SDK still has the bearer that is held, and *)
(* it is about to lapse.                                                   *)
MustForce(b, remaining) ==
    /\ remaining <= ForceWindow /\ held.bearer \in {b, NoBearer}
    /\ clock - forcedAt >= Cooldown

Authenticate ==
    /\ probe.at = "authenticating"
    /\ LET had == SdkBearers
           b == Len(had)
           remaining == had[b] - clock
       IN IF MustForce(b, remaining)
          THEN /\ forcedAt' = clock
               /\ \/ expires' = Append(had, clock + BearerLife)
                     /\ Free /\ UNCHANGED excused /\ ProbeGoesOn("validating", b + 1, FALSE)
                  \/ expires' = had /\ Outage /\ ProbeGoesOn("validating", b, FALSE)
          ELSE /\ expires' = had /\ Free /\ ProbeGoesOn("validating", b, FALSE)
               /\ UNCHANGED <<forcedAt, excused>>
    /\ UNCHANGED <<clock, held, probedAt, attendee, patience>>

(* The app's identity cannot authenticate: the PAT, or nothing. *)
AuthenticateFails ==
    /\ probe.at = "authenticating" /\ Outage
    /\ IF credit.pat THEN held' = held /\ ProbeGoesOn("emergency", NoBearer, FALSE)
       ELSE held' = Cleared("unhealthy") /\ ProbeEnds
    /\ UNCHANGED <<clock, expires, forcedAt, probedAt, attendee, patience>>

Adopted == [bearer |-> probe.bearer, validatedAt |-> clock, health |-> "rotating"]

Lapsing == TimeLeft(probe.bearer) <= Margin

(* An outage is over when a bearer is held that need not be replaced at     *)
(* once.                                                                   *)
OutageOver ==
    IF held.bearer = probe.bearer /\ TimeLeft(probe.bearer) > ForceWindow
    THEN excused \ {"outage"} ELSE excused

(* Validated: a bearer about to lapse never replaces one that is held; any *)
(* other is adopted, and written to the file if it changed.                *)
Validated ==
    /\ probe.at = "validating" /\ TimeLeft(probe.bearer) > 0 /\ Free
    /\ IF Lapsing /\ held.bearer # NoBearer
       THEN /\ held' = [held EXCEPT !.health = "unhealthy"] /\ ProbeEnds
            /\ UNCHANGED excused
       ELSE /\ held' = Adopted
            /\ IF probe.bearer # held.bearer
               THEN ProbeGoesOn("fanning", probe.bearer, Lapsing) /\ UNCHANGED excused
               ELSE ProbeEnds /\ excused' = OutageOver
    /\ UNCHANGED <<clock, expires, forcedAt, probedAt, attendee, patience>>

(* The file gets a token, under the attendee's lock: a later revision. *)
Written(b) == [attendee EXCEPT !.revision = @ + 1, !.file = b]

FanoutEnds ==
    /\ held' = IF probe.stalled THEN [held EXCEPT !.health = "unhealthy"] ELSE held
    /\ ProbeEnds
    /\ UNCHANGED <<clock, expires, forcedAt, probedAt, patience>>

(* _fanout, with what follows it for a bearer about to lapse. *)
Fanout ==
    /\ probe.at = "fanning" /\ Free /\ FanoutEnds
    /\ attendee' = IF attendee.known THEN Written(probe.bearer) ELSE attendee
    /\ excused' = OutageOver \ {"behind"}

(* The write fails, which is logged: nobody writes this bearer again. *)
FanoutFails ==
    /\ probe.at = "fanning" /\ attendee.known /\ Draw("outages") /\ FanoutEnds
    /\ attendee' = [attendee EXCEPT !.revision = @ + 1]
    /\ excused' = excused \cup {"behind"}

(* A bearer that lapsed, or one that a workspace at fault refuses. *)
Rejected ==
    /\ probe.at = "validating"
    /\ \/ TimeLeft(probe.bearer) <= 0 /\ Free /\ UNCHANGED excused
       \/ Outage
    /\ held' = Cleared("unhealthy") /\ ProbeEnds
    /\ UNCHANGED <<clock, expires, forcedAt, probedAt, attendee, patience>>

(* No attempt got an answer about the bearer: _keep_last_good. *)
NoAnswer ==
    /\ probe.at = "validating" /\ Outage
    /\ held' = IF held.bearer = NoBearer \/ TimeLeft(held.bearer) <= 0 THEN Cleared("unhealthy")
               ELSE IF clock - held.validatedAt > MaxAge THEN [held EXCEPT !.health = "unhealthy"]
               ELSE held
    /\ ProbeEnds
    /\ UNCHANGED <<clock, expires, forcedAt, probedAt, attendee, patience>>

(* _validate_emergency_pat clears what is held, whatever came of it. *)
EmergencyProbe ==
    /\ probe.at = "emergency"
    /\ \/ held' = Cleared("degraded") /\ Free /\ UNCHANGED excused
       \/ held' = Cleared("unhealthy") /\ Outage
    /\ ProbeEnds
    /\ UNCHANGED <<clock, expires, forcedAt, probedAt, attendee, patience>>

Probing ==
    \/ Authenticate \/ AuthenticateFails \/ Validated \/ Fanout \/ FanoutFails
    \/ Rejected \/ NoAnswer \/ EmergencyProbe

-----------------------------------------------------------------------------
(* A request: token(), and the write of what it returned. *)

ClientGoes(c, at, got) ==
    client' = [client EXCEPT ![c] = [at |-> at, got |-> got, revision |-> 0]]

ClientOnly ==
    UNCHANGED <<clock, expires, forcedAt, probedAt, rotation, patience>>

(* The attendee is known by then.  Nobody is served before start() ended. *)
Ask(c) ==
    /\ client[c].at = "idle" /\ rotation # "starting"
    /\ c \in credit.clients /\ Draw("asks")
    /\ attendee' = [attendee EXCEPT !.known = TRUE]
    /\ IF HeldFresh THEN ClientGoes(c, "serving", held.bearer)
       ELSE ClientGoes(c, "rotating", NoBearer)
    /\ UNCHANGED <<held, probe, excused>> /\ ClientOnly

(* _rotate_once: another probe may have come first. *)
Rotates(c) ==
    /\ client[c].at = "rotating" /\ probe.by = Nobody
    /\ IF HeldFresh THEN ClientGoes(c, "looking", NoBearer) /\ UNCHANGED probe
       ELSE ClientGoes(c, "probing", NoBearer) /\ StartProbe(c)
    /\ Free /\ UNCHANGED <<held, attendee, excused>> /\ ClientOnly

(* What is held is served unless it is about to lapse, or the PAT. *)
Looks(c) ==
    /\ client[c].at = "looking"
    /\ IF held.bearer # NoBearer /\ TimeLeft(held.bearer) > Margin
       THEN ClientGoes(c, "serving", held.bearer)
       ELSE ClientGoes(c, IF credit.pat THEN "emergency" ELSE "idle", NoBearer)
    /\ Free /\ UNCHANGED <<held, probe, attendee, excused>> /\ ClientOnly

(* The PAT is validated without the lock: it may clear a bearer adopted    *)
(* meanwhile, which then is missed until the next slow probe.              *)
Emergency(c) ==
    /\ client[c].at = "emergency"
    /\ \/ /\ held' = Cleared("degraded") /\ ClientGoes(c, "serving", Pat)
          /\ Free /\ excused' = excused \cup {"outage"}
       \/ held' = Cleared("unhealthy") /\ ClientGoes(c, "idle", NoBearer) /\ Outage
    /\ UNCHANGED <<probe, attendee>> /\ ClientOnly

(* A request writes what is held, or takes its place among the writes with *)
(* another token.                                                          *)
InOrder(b) == IF b = held.bearer THEN excused \ {"behind"} ELSE excused
Behind(b)  == IF b = held.bearer THEN excused ELSE excused \cup {"behind"}

(* update_tokens: what the request got, whatever is held by now. *)
Updates(c) ==
    /\ client[c].at = "serving" /\ attendee.ready
    /\ attendee' = Written(client[c].got)
    /\ excused' = IF client[c].got = held.bearer THEN excused \ {"behind"}
                  ELSE excused \cup {"behind"}
    /\ ClientGoes(c, "idle", NoBearer) /\ Free
    /\ UNCHANGED <<held, probe>> /\ ClientOnly

(* configure_all takes its place in the order of writes, then configures   *)
(* the agents.                                                             *)
Configures(c) ==
    /\ client[c].at = "serving" /\ ~attendee.ready
    /\ attendee' = [attendee EXCEPT !.revision = @ + 1]
    /\ client' = [client EXCEPT ![c] =
          [at |-> "configuring", got |-> client[c].got, revision |-> attendee.revision + 1]]
    /\ excused' = Behind(client[c].got)
    /\ Free /\ UNCHANGED <<held, probe>> /\ ClientOnly

AgentsReady(c) ==
    /\ client[c].at = "configuring" /\ ~attendee.ready
    /\ attendee' = [attendee EXCEPT !.ready = TRUE]
    /\ Free /\ UNCHANGED <<held, probe, client, excused>> /\ ClientOnly

(* Mutant of Commits: what the agents are configured with is written       *)
(* whatever was written meanwhile.                                         *)
CommitsAnyway(c) ==
    /\ client[c].at = "configuring" /\ attendee.ready
    /\ attendee' = [attendee EXCEPT !.file = client[c].got]
    /\ excused' = InOrder(client[c].got)
    /\ ClientGoes(c, "idle", NoBearer) /\ Free
    /\ UNCHANGED <<held, probe>> /\ ClientOnly

(* _commit_core_credentials_locked: no later write came first. *)
Commits(c) ==
    /\ client[c].at = "configuring" /\ attendee.ready
    /\ IF client[c].revision = attendee.revision
       THEN /\ attendee' = [attendee EXCEPT !.file = client[c].got]
            /\ excused' = InOrder(client[c].got)
       ELSE UNCHANGED <<attendee, excused>>
    /\ ClientGoes(c, "idle", NoBearer) /\ Free
    /\ UNCHANGED <<held, probe>> /\ ClientOnly

-----------------------------------------------------------------------------
(* External: the SDK's own schedule, and the clock. *)

SdkMints ==
    /\ Draw("mints") /\ expires' = Append(expires, clock + BearerLife)
    /\ UNCHANGED <<clock, held, forcedAt, probedAt, rotation, probe, client, attendee, patience,
                   excused>>

Tick ==
    /\ patience > 0 /\ patience' = patience - 1
    /\ Draw("ticks") /\ clock' = clock + 1
    /\ UNCHANGED <<expires, held, forcedAt, probedAt, rotation, probe, client, attendee, excused>>

Requesting(c) ==
    \/ Ask(c) \/ Rotates(c) \/ Looks(c) \/ Emergency(c)
    \/ Updates(c) \/ Configures(c) \/ AgentsReady(c) \/ Commits(c)

CredentialNext ==
    /\ credit.enabled
    /\ \/ Heartbeat \/ RotationEnters \/ Probing \/ SdkMints \/ Tick
       \/ \E c \in Client : Requesting(c)

CredentialSpec == CredentialInit /\ [][CredentialNext]_credentialVars

-----------------------------------------------------------------------------
Bearers == 0..Len(expires)

CredentialTypeOK ==
    /\ clock \in Nat /\ expires \in Seq(Nat)
    /\ held \in [bearer : Bearers, validatedAt : Nat,
                 health : {"unknown", "rotating", "degraded", "unhealthy"}]
    /\ forcedAt \in Int /\ probedAt \in Int
    /\ rotation \in {"starting", "sleeping", "waiting", "probing"}
    /\ probe \in [by : Client \cup {Rotation, Nobody}, bearer : Bearers, stalled : BOOLEAN,
                  at : {"done", "authenticating", "validating", "fanning", "emergency"}]
    /\ client \in [Client -> [got : Bearers \cup {Pat}, revision : Nat,
          at : {"idle", "rotating", "probing", "looking", "emergency", "serving", "configuring"}]]
    /\ attendee \in [known : BOOLEAN, ready : BOOLEAN, revision : Nat, file : Bearers \cup {Pat}]
    /\ patience \in {0, 1} /\ excused \subseteq {"outage", "behind"}
    /\ credit \in CredentialScopeType

(* "A replacement is validated and fanned out well before attendee CLIs    *)
(* could read an expired file" (_tick): whenever the SDK mints, however    *)
(* requests interleave with the thread and configure the agents, and       *)
(* after outages that are over.  Excused is a file left behind: its write  *)
(* failed, or a request got another bearer before the one held now, and    *)
(* wrote it after.                                                         *)
FileIsNeverExpired ==
    excused = {} /\ attendee.file \notin {NoBearer, Pat} => TimeLeft(attendee.file) > 0
=============================================================================
