------------------------------ MODULE OboMirror ------------------------------
(***************************************************************************)
(* The attendee's forwarded token (server/obo.py): requests bring tokens   *)
(* in any order, the manager holds the newest one as its record, and       *)
(* mirrors it to a file in the attendee's home, from which Omnigent's host *)
(* authenticates.  One attendee, as one instance has.                      *)
(*                                                                         *)
(* A request reads the clock, decides under the manager's lock, and writes *)
(* under the home's lock and the manager's.  The file outlives the process *)
(* and the record does not: a behaviour starts with any file.              *)
(***************************************************************************)
EXTENDS Integers, FiniteSets

CONSTANTS
    Token, NoToken,
    Issued, Expires,    \* a token's iat and exp
    Writer,             \* request threads
    Scopes              \* bounds: the environments that are checked

ASSUME MirrorAssumption ==
    /\ NoToken \notin Token
    /\ Issued \in [Token -> Nat] /\ Expires \in [Token -> Nat]
    /\ Scopes \subseteq [time : Nat, requests : Nat, faults : Nat,
                         started : BOOLEAN, stops : BOOLEAN]

VARIABLES
    now,
    record,         \* the token held for the attendee
    written,        \* written_token
    mirror,         \* disk: the token in auth_tokens.json
    writer,         \* writer[w]: where a request stands
    scope,              \* constant in a behaviour: its environment
    requests, faults    \* what of its bounds is used

mirrorVars == <<now, record, written, mirror, writer, scope, requests, faults>>

(* at: idle, arrived, queued, mirrored; heals: it is a recovery. *)
IdleWriter == [at |-> "idle", token |-> NoToken, seen |-> 0, heals |-> FALSE]

MirrorInit ==
    /\ now = 0 /\ record = NoToken /\ written = NoToken
    /\ mirror \in Token \cup {NoToken}
    /\ writer = [w \in Writer |-> IdleWriter]
    /\ scope \in Scopes /\ requests = 0 /\ faults = 0

Clock == now < scope.time /\ now' = now + 1
         /\ UNCHANGED <<record, written, mirror, writer, scope, requests, faults>>

FreshAt(t, time) == t # NoToken /\ Expires[t] > time

(* _token_order: by iat, then by exp. *)
NotNewer(t, u) ==
    \/ Issued[t] < Issued[u]
    \/ Issued[t] = Issued[u] /\ Expires[t] <= Expires[u]

Becomes(w, r) == writer' = [writer EXCEPT ![w] = r]

-----------------------------------------------------------------------------
Begins == requests < scope.requests /\ requests' = requests + 1

(* capture: a request with a token reads the clock, before any lock. *)
Arrive(w, t) ==
    /\ writer[w].at = "idle" /\ Begins
    /\ Becomes(w, [at |-> "arrived", token |-> t, seen |-> now, heals |-> FALSE])
    /\ UNCHANGED <<now, record, written, mirror, scope, faults>>

(* A late snapshot: expired, while the one held was fresh. *)
Late(t, seen) == ~FreshAt(t, seen) /\ FreshAt(record, seen)

(* Another token, that was not issued after the one held. *)
Superseded(t) == record \notin {NoToken, t} /\ NotNewer(t, record)

(* _capture, under the manager's lock: the record advances, or the token   *)
(* is dropped.  A token that the file already has is not written again.    *)
Decide(w) ==
    LET t == writer[w].token
        dropped == Late(t, writer[w].seen) \/ Superseded(t) IN
    /\ writer[w].at = "arrived"
    /\ record' = IF dropped THEN record ELSE t
    /\ Becomes(w, IF dropped \/ written = t THEN IdleWriter
                  ELSE [writer[w] EXCEPT !.at = "queued"])
    /\ UNCHANGED <<now, written, mirror, scope, requests, faults>>

(* selfheal.recover writes what is held once more, and always wakes.  Its  *)
(* cooldown, which limits how often, is left out.                          *)
Recover(w) ==
    /\ writer[w].at = "idle" /\ Begins
    /\ Becomes(w, [IdleWriter EXCEPT !.heals = TRUE,
                       !.at = IF record = NoToken THEN "mirrored" ELSE "queued"])
    /\ UNCHANGED <<now, record, written, mirror, scope, faults>>

Unlocked(w, wakes) ==
    Becomes(w, IF wakes THEN [writer[w] EXCEPT !.at = "mirrored"] ELSE IdleWriter)

(* Mutant of WriteMirror: the token was chosen before the home's lock. *)
WriteMirrorOwn(w) ==
    LET t == IF writer[w].heals THEN record ELSE writer[w].token IN
    /\ writer[w].at = "queued"
    /\ mirror' = t /\ written' = t
    /\ Unlocked(w, writer[w].heals \/ FreshAt(t, now))
    /\ UNCHANGED <<now, record, scope, requests, faults>>

(* _write_user, under both locks: the token held now is written, whichever *)
(* brought this request here.  A token that has expired by then wakes      *)
(* nobody.                                                                 *)
WriteMirror(w) ==
    /\ writer[w].at = "queued"
    /\ mirror' = record /\ written' = record
    /\ Unlocked(w, writer[w].heals \/ FreshAt(record, now))
    /\ UNCHANGED <<now, record, scope, requests, faults>>

(* The write fails, before the file is replaced or (chmod, the directory's *)
(* fsync) after.  The record does not count as written.                    *)
WriteFails(w) ==
    /\ writer[w].at = "queued" /\ faults < scope.faults /\ faults' = faults + 1
    /\ mirror' \in {mirror, record}
    /\ Unlocked(w, writer[w].heals)
    /\ UNCHANGED <<now, record, written, scope, requests>>

Requests ==
    \E w \in Writer :
        \/ \E t \in Token : Arrive(w, t)
        \/ Recover(w) \/ WriteFails(w)

Writing(w) == Decide(w) \/ WriteMirror(w)

-----------------------------------------------------------------------------
WriterState == [at : {"idle", "arrived", "queued", "mirrored"},
                token : Token \cup {NoToken}, seen : Nat, heals : BOOLEAN]

WritersTypeOK ==
    /\ writer \in [Writer -> WriterState]
    /\ \A w \in Writer :
        /\ writer[w].at = "arrived" => writer[w].token # NoToken
        /\ writer[w].at = "queued" => record # NoToken

MirrorTypeOK ==
    /\ scope \in Scopes /\ now \in 0..scope.time
    /\ requests \in 0..scope.requests /\ faults \in 0..scope.faults
    /\ record \in Token \cup {NoToken} /\ written \in Token \cup {NoToken}
    /\ mirror \in Token \cup {NoToken}
    /\ WritersTypeOK

(* Requests that overtake each other never put an older token over a newer *)
(* one: once this process has written the mirror, or tried to, the file    *)
(* only changes to the newest token held, and that one is newer.           *)
MirrorAdvances ==
    [][mirror' # mirror /\ written # NoToken =>
            /\ mirror' = record
            /\ NotNewer(written, mirror') /\ NotNewer(mirror, mirror')]_mirrorVars
=============================================================================
