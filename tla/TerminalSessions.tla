-------------------------- MODULE TerminalSessions --------------------------
(***************************************************************************)
(* The terminals of one server process (server/sessions.py), the journal   *)
(* of their metadata on disk (server/session_store.py) and the sockets     *)
(* that show them (server/ws.py).                                          *)
(*                                                                         *)
(* One slot holds one session: the registry.  A session is created by a    *)
(* request, read by a thread of its own, and terminated by whoever takes   *)
(* it out of the registry first: a request, the idle reaper, or the reader *)
(* itself.  The PTY's master is a descriptor number, which the kernel      *)
(* gives to another session once it is closed.                             *)
(*                                                                         *)
(* Output is the numbers 1, 2, ... in the order it was read.  Each step    *)
(* between two uses of a lock is an action.                                *)
(***************************************************************************)
EXTENDS Integers, Sequences, FiniteSets

CONSTANTS
    Session,        \* ids, each used once, numbered as they are drawn
    Socket,         \* browsers' terminal sockets
    Descriptor,     \* descriptor numbers
    Persister,      \* who refreshes the journal: "reaper", "project"
    NoSession, NoDescriptor,
    QueueSize       \* TERMINAL_SUBSCRIBER_QUEUE_SIZE

ASSUME TerminalAssumption ==
    /\ Session \subseteq Nat /\ NoSession \notin Session
    /\ Descriptor \subseteq Nat /\ NoDescriptor \notin Descriptor
    /\ Persister \subseteq {"reaper", "project"}
    /\ QueueSize \in Nat \ {0}

VARIABLES
    registry,       \* _sessions
    session,        \* session[s]: the Session object and its threads
    owner,          \* owner[d]: the session whose master d is now
    persister,      \* persister[p]: where a refresh of the journal stands
    sock,           \* sock[q]: a socket and its queue
    ready,          \* ready[q]: the event loop's callbacks for a socket, in order
    ghosts,         \* _prior
    journal,        \* disk: "absent", "live" or "exited", for each session
    used,           \* sessions that were ever created
    owed,           \* ghost: live and recorded when the last server died
    acknowledged,   \* ghost: restart ghosts the attendee dismissed
    settled         \* ghost: closed with no refresh of theirs under way

memoryVars == <<registry, session, owner, persister, sock, ready, ghosts>>
terminalVars == <<memoryVars, journal, used, owed, acknowledged, settled>>
historyVars == <<used, owed, acknowledged, settled>>

(* creator: the request that creates it; term: the thread that claimed it; *)
(* early: its master was closed before its reader was known.               *)
NewSession ==
    [creator |-> "none", snap |-> "live", exited |-> FALSE,
     fd |-> NoDescriptor, closed |-> FALSE, early |-> FALSE, alive |-> FALSE,
     produced |-> 0, to |-> {}, reader |-> "none", readerDone |-> FALSE,
     term |-> "no", by |-> "nobody", reported |-> FALSE, ticket |-> "open"]

Idle == [at |-> "asleep", of |-> NoSession, snap |-> "live"]
Off  == [stage |-> "off", of |-> NoSession, shown |-> 0, queue |-> <<>>,
         exited |-> FALSE]

TerminalEmpty ==
    /\ registry' = {} /\ session' = [s \in Session |-> NewSession]
    /\ owner' = [d \in Descriptor |-> NoSession]
    /\ persister' = [p \in Persister |-> Idle]
    /\ sock' = [q \in Socket |-> Off] /\ ready' = [q \in Socket |-> <<>>] /\ ghosts' = {}

TerminalInit ==
    /\ registry = {} /\ session = [s \in Session |-> NewSession]
    /\ owner = [d \in Descriptor |-> NoSession]
    /\ persister = [p \in Persister |-> Idle]
    /\ sock = [q \in Socket |-> Off] /\ ready = [q \in Socket |-> <<>>] /\ ghosts = {}
    /\ journal = [s \in Session |-> "absent"]
    /\ used = {} /\ owed = {} /\ acknowledged = {} /\ settled = {}

(* A message is an output's number, or one of two signals. *)
Exit     == 0
Overflow == -1
Message  == Nat \cup {Overflow}

-----------------------------------------------------------------------------
(* Creating a session. *)

(* The slot, the PTY and the process, in one section of the registry's     *)
(* lock.  The kernel gives out the lowest descriptor that is not open.     *)
Create(s, d) ==
    /\ registry = {}
    /\ s \notin used /\ \A t \in Session \ used : s <= t
    /\ owner[d] = NoSession /\ \A e \in Descriptor : owner[e] = NoSession => d <= e
    /\ registry' = {s} /\ used' = used \cup {s}
    /\ owner' = [owner EXCEPT ![d] = s]
    /\ session' = [session EXCEPT ![s] = [NewSession EXCEPT
                        !.creator = "inserted", !.fd = d, !.alive = TRUE]]
    /\ UNCHANGED <<persister, sock, ready, ghosts, journal, owed, acknowledged,
                   settled>>

Metadata(s) == IF session[s].exited THEN "exited" ELSE "live"

(* _persist, after the lock: the metadata is taken ... *)
CreateMeasure(s) ==
    /\ session[s].creator = "inserted"
    /\ session' = [session EXCEPT ![s].creator = "measured", ![s].snap = Metadata(s)]
    /\ UNCHANGED <<registry, owner, persister, sock, ready, ghosts, journal, historyVars>>

(* ... and written.  Writes are fail-soft: a failed one is as if it had    *)
(* not been made, and is left out here.                                    *)
CreatePersist(s) ==
    /\ session[s].creator = "measured"
    /\ session' = [session EXCEPT ![s].creator = "persisted"]
    /\ journal' = [journal EXCEPT ![s] = session[s].snap]
    /\ UNCHANGED <<registry, owner, persister, sock, ready, ghosts, historyVars>>

(* _reader_thread is assigned, then started. *)
CreateAssign(s) ==
    /\ session[s].creator = "persisted"
    /\ session' = [session EXCEPT ![s].creator = "assigned", ![s].reader = "assigned"]
    /\ UNCHANGED <<registry, owner, persister, sock, ready, ghosts, journal, historyVars>>

CreateStart(s) ==
    /\ session[s].creator = "assigned"
    /\ session' = [session EXCEPT ![s].creator = "done", ![s].reader = "reading"]
    /\ UNCHANGED <<registry, owner, persister, sock, ready, ghosts, journal, historyVars>>

-----------------------------------------------------------------------------
(* Output: from the PTY to the sockets' queues. *)

Attached(s) == {q \in Socket : sock[q].of = s /\ sock[q].stage \in {"replaying", "on"}}

(* call_soon_threadsafe for each of a set of queues. *)
Dispatched(qs, m) == [q \in Socket |-> IF q \in qs THEN Append(ready[q], m) ELSE ready[q]]

(* Mutant of ReadOutput: the recipients are chosen in another lock section *)
(* than the append, here when the output is dispatched.                    *)
ReadOutputUnfenced(s) ==
    /\ session[s].reader = "reading" /\ owner[session[s].fd] # NoSession
    /\ session' = [session EXCEPT ![s].reader = "publishing", ![s].to = Socket,
                                  ![s].produced = @ + 1]
    /\ UNCHANGED <<registry, owner, persister, sock, ready, ghosts, journal, historyVars>>

(* The reader reads from the number it was given, whoever has it now.      *)
(* publish_output appends and chooses the recipients under the lock ...    *)
ReadOutput(s) ==
    /\ session[s].reader = "reading" /\ owner[session[s].fd] # NoSession
    /\ session' = [session EXCEPT ![s].reader = "publishing",
                                  ![s].to = Attached(s), ![s].produced = @ + 1]
    /\ UNCHANGED <<registry, owner, persister, sock, ready, ghosts, journal, historyVars>>

(* ... and hands it to the loop after it. *)
DispatchOutput(s) ==
    /\ session[s].reader = "publishing"
    /\ session' = [session EXCEPT ![s].reader = "reading", ![s].to = {}]
    /\ ready' = Dispatched(session[s].to, session[s].produced)
    /\ UNCHANGED <<registry, owner, persister, sock, ghosts, journal, historyVars>>

(* What put_nowait makes of a queue: a full one becomes the one signal to  *)
(* reconnect.                                                              *)
Queued(queue, m) ==
    IF queue = <<Overflow>> THEN queue
    ELSE IF Len(queue) < QueueSize THEN Append(queue, m) ELSE <<Overflow>>

(* The loop runs the next callback of a socket.  It takes all callbacks in *)
(* one order, but those of different sockets do not meet.                  *)
LoopPut(q) ==
    /\ ready[q] # <<>> /\ ready' = [ready EXCEPT ![q] = Tail(@)]
    /\ sock' = [sock EXCEPT ![q].queue = Queued(@, Head(ready[q]))]
    /\ UNCHANGED <<registry, session, owner, persister, ghosts, journal, historyVars>>

-----------------------------------------------------------------------------
(* Sockets. *)

(* Nobody reads the queue of a socket that left: what is still meant for   *)
(* it is dropped with it.                                                  *)
Leave(q) ==
    /\ sock' = [sock EXCEPT ![q] = Off]
    /\ ready' = [ready EXCEPT ![q] = <<>>]
    /\ session' = [s \in Session |-> [session[s] EXCEPT !.to = @ \ {q}]]

(* A browser opens a socket: the session is looked up, and its presence    *)
(* recorded ...                                                            *)
OpenSocket(q, s) ==
    /\ sock[q].stage = "off" /\ s \in registry
    /\ sock' = [sock EXCEPT ![q] = [Off EXCEPT !.stage = "opening", !.of = s]]
    /\ UNCHANGED <<registry, session, owner, persister, ready, ghosts, journal, historyVars>>

(* Mutant of Attach: whether the session has exited is not looked at. *)
AttachRegardless(q) ==
    /\ sock[q].stage = "opening"
    /\ sock' = [sock EXCEPT ![q].stage = "replaying",
                            ![q].shown = session[sock[q].of].produced]
    /\ UNCHANGED <<registry, session, owner, persister, ready, ghosts, journal, historyVars>>

(* ... then attach_with_replay takes the scrollback and registers the      *)
(* queue, under the session's lock.  The replay ends with the newest       *)
(* output (how far back it goes is left out): that is what is shown.       *)
Attach(q) ==
    /\ sock[q].stage = "opening"
    /\ sock' = [sock EXCEPT ![q].stage = "replaying",
                            ![q].shown = session[sock[q].of].produced,
                            ![q].exited = session[sock[q].of].exited]
    /\ UNCHANGED <<registry, session, owner, persister, ready, ghosts, journal, historyVars>>

(* The replay is sent.  A session that has exited ends the socket. *)
SendReplay(q) ==
    /\ sock[q].stage = "replaying"
    /\ \/ /\ sock[q].exited /\ Leave(q)
       \/ /\ ~sock[q].exited
          /\ sock' = [sock EXCEPT ![q].stage = "on"]
          /\ UNCHANGED <<session, ready>>
    /\ UNCHANGED <<registry, owner, persister, ghosts, journal, historyVars>>

(* pump_terminal_output: one message.  Exit and overflow close the socket. *)
SendMessage(q) ==
    /\ sock[q].stage = "on" /\ sock[q].queue # <<>>
    /\ LET m == Head(sock[q].queue) IN
       \/ /\ m \in {Exit, Overflow} /\ Leave(q)
       \/ /\ m \notin {Exit, Overflow}
          /\ sock' = [sock EXCEPT ![q].queue = Tail(@), ![q].shown = m]
          /\ UNCHANGED <<session, ready>>
    /\ UNCHANGED <<registry, owner, persister, ghosts, journal, historyVars>>

(* The browser goes away. *)
Disconnect(q) ==
    /\ sock[q].stage # "off" /\ Leave(q)
    /\ UNCHANGED <<registry, owner, persister, ghosts, journal, historyVars>>

-----------------------------------------------------------------------------
(* The end of a session. *)

(* The agent and its process group exit. *)
AgentExits(s) ==
    /\ session[s].alive /\ session' = [session EXCEPT ![s].alive = FALSE]
    /\ UNCHANGED <<registry, owner, persister, sock, ready, ghosts, journal, historyVars>>

(* The reader meets end of file, or a descriptor that is no longer open. *)
ReadEnds(s) ==
    /\ session[s].reader = "reading"
    /\ owner[session[s].fd] # NoSession => ~session[owner[session[s].fd]].alive
    /\ session' = [session EXCEPT ![s].reader = "ended"]
    /\ UNCHANGED <<registry, owner, persister, sock, ready, ghosts, journal, historyVars>>

(* terminate(): whoever pops the session from the registry tears it down,  *)
(* the reader or another thread (the attendee's request, the operator's,   *)
(* the reaper, the drain).  A thread that comes second changes nothing.    *)
Claim(s, who) ==
    /\ s \in registry /\ registry' = registry \ {s}
    /\ who = "reader" => session[s].reader = "ended"
    /\ session' = [session EXCEPT ![s].term = "claimed", ![s].by = who]
    /\ UNCHANGED <<owner, persister, sock, ready, ghosts, journal, historyVars>>

MarkExited(s) ==
    /\ session[s].term = "claimed"
    /\ session' = [session EXCEPT ![s].term = "marked", ![s].exited = TRUE]
    /\ UNCHANGED <<registry, owner, persister, sock, ready, ghosts, journal, historyVars>>

(* The exit message goes to whoever is attached; then SIGHUP, and SIGKILL  *)
(* for what does not heed it, end the process group.                       *)
FanOutAndKill(s) ==
    /\ session[s].term = "marked"
    /\ session' = [session EXCEPT ![s].term = "killed", ![s].alive = FALSE]
    /\ ready' = Dispatched(Attached(s), Exit)
    /\ UNCHANGED <<registry, owner, persister, sock, ghosts, journal, historyVars>>

(* _close_master: once.  What is closed is the number, whoever has it. *)
Closed(s) == owner' = [owner EXCEPT ![session[s].fd] = NoSession]

(* Mutant of CloseMaster: the flag is not looked at. *)
CloseMasterAgain(s, r) == Closed(s) /\ session' = [session EXCEPT ![s] = [r EXCEPT !.closed = TRUE]]

CloseMaster(s, r) ==
    /\ session' = [session EXCEPT ![s] = [r EXCEPT !.closed = TRUE]]
    /\ IF session[s].closed THEN UNCHANGED owner ELSE Closed(s)

(* The reader is joined, for a bounded time.  Without one, or when it is   *)
(* this thread, or has ended, the master is closed; otherwise that is left *)
(* to the reader.  Joining a thread that is assigned and not started       *)
(* raises, and the rest of terminate() is not done.                        *)
JoinReader(s) ==
    LET r == session[s] IN
    /\ r.term = "killed"
    /\ \/ /\ r.by = "reader" \/ r.reader \in {"none", "done"}
          /\ CloseMaster(s, [r EXCEPT !.term = "joined", !.early = (r.reader = "none")])
       \/ /\ r.by # "reader" /\ r.reader = "assigned"
          /\ session' = [session EXCEPT ![s].term = "raised"] /\ UNCHANGED owner
       \/ /\ r.by # "reader" /\ r.reader \notin {"none", "assigned", "done"}
          /\ session' = [session EXCEPT ![s].term = "joined"] /\ UNCHANGED owner
    /\ UNCHANGED <<registry, persister, sock, ready, ghosts, journal, historyVars>>

(* Someone is about to write s to the journal as live. *)
Refreshing(s) ==
    \/ session[s].creator = "measured" /\ session[s].snap = "live"
    \/ \E p \in Persister : persister[p].of = s /\ persister[p].at = "measured"
                             /\ persister[p].snap = "live"

(* Mutant of RemoveRecord: the whole journal goes with it. *)
RemoveRecords(s) ==
    /\ session[s].term = "joined" /\ session' = [session EXCEPT ![s].term = "removed"]
    /\ journal' = [t \in Session |-> "absent"]
    /\ settled' = IF Refreshing(s) THEN settled ELSE settled \cup {s}
    /\ UNCHANGED <<registry, owner, persister, sock, ready, ghosts, used, owed,
                   acknowledged>>

(* A closed session is no restart ghost: its record goes. *)
RemoveRecord(s) ==
    /\ session[s].term = "joined" /\ session' = [session EXCEPT ![s].term = "removed"]
    /\ journal' = [journal EXCEPT ![s] = "absent"]
    /\ settled' = IF Refreshing(s) THEN settled ELSE settled \cup {s}
    /\ UNCHANGED <<registry, owner, persister, sock, ready, ghosts, used, owed,
                   acknowledged>>

Finished(r) == r.ticket = "finished" \/ (r.readerDone /\ r.reported)
Finish(r) == [r EXCEPT !.ticket = IF Finished(r) THEN "finished" ELSE "open"]

(* The exit is reported ... *)
ReportExit(s) ==
    /\ session[s].term = "removed"
    /\ session' = [session EXCEPT ![s].term = "reported", ![s].reported = TRUE]
    /\ UNCHANGED <<registry, owner, persister, sock, ready, ghosts, journal, historyVars>>

(* ... and _finish_capture ends the lifetime ticket, if the reader is done. *)
FinishAfterExit(s) ==
    /\ session[s].term = "reported"
    /\ session' = [session EXCEPT ![s] = Finish([session[s] EXCEPT !.term = "done"])]
    /\ UNCHANGED <<registry, owner, persister, sock, ready, ghosts, journal, historyVars>>

(* The reader's last acts, when it did not terminate the session itself or *)
(* has: the master, _reader_done ...                                       *)
ReaderCloses(s) ==
    /\ session[s].reader = "ended" /\ s \notin registry
    /\ session[s].by = "reader" => session[s].term = "done"
    /\ CloseMaster(s, [session[s] EXCEPT !.reader = "closing", !.readerDone = TRUE])
    /\ UNCHANGED <<registry, persister, sock, ready, ghosts, journal, historyVars>>

(* Mutant of ReaderFinishes: only terminate() ends the ticket. *)
ReaderJustEnds(s) ==
    /\ session[s].reader = "closing" /\ session' = [session EXCEPT ![s].reader = "done"]
    /\ UNCHANGED <<registry, owner, persister, sock, ready, ghosts, journal, historyVars>>

(* ... and _finish_capture, if the exit is reported. *)
ReaderFinishes(s) ==
    /\ session[s].reader = "closing"
    /\ session' = [session EXCEPT ![s] = Finish([session[s] EXCEPT !.reader = "done"])]
    /\ UNCHANGED <<registry, owner, persister, sock, ready, ghosts, journal, historyVars>>

-----------------------------------------------------------------------------
(* The journal of metadata: refreshes, and restarts. *)

(* The reaper lists the sessions (a stale one it terminates: Claim);       *)
(* update_project finds the session whose project changed.                 *)
ListLive(p, s) ==
    /\ persister[p].at = "asleep" /\ s \in registry
    /\ persister' = [persister EXCEPT ![p] = [Idle EXCEPT !.at = "listed", !.of = s]]
    /\ UNCHANGED <<registry, session, owner, sock, ready, ghosts, journal, historyVars>>

(* The reaper's check; only sessions that have not exited are refreshed. *)
SkipExited(p) ==
    /\ persister[p].at = "listed"
    /\ persister' = [persister EXCEPT ![p] =
                        IF p = "reaper" /\ session[@.of].exited THEN Idle
                        ELSE [@ EXCEPT !.at = "checked"]]
    /\ UNCHANGED <<registry, session, owner, sock, ready, ghosts, journal, historyVars>>

Measure(p) ==
    /\ persister[p].at = "checked"
    /\ persister' = [persister EXCEPT ![p] = [@ EXCEPT !.at = "measured",
                                                       !.snap = Metadata(persister[p].of)]]
    /\ UNCHANGED <<registry, session, owner, sock, ready, ghosts, journal, historyVars>>

Upsert(p) ==
    /\ persister[p].at = "measured"
    /\ journal' = [journal EXCEPT ![persister[p].of] = persister[p].snap]
    /\ persister' = [persister EXCEPT ![p] = Idle]
    /\ UNCHANGED <<registry, session, owner, sock, ready, ghosts, historyVars>>

(* The attendee dismisses one restart ghost. *)
AcknowledgePrior(s) ==
    /\ s \in ghosts /\ ghosts' = ghosts \ {s}
    /\ acknowledged' = acknowledged \cup {s}
    /\ UNCHANGED <<registry, session, owner, persister, sock, ready, journal,
                   used, owed, settled>>

(* Its creation has passed the journal. *)
Recorded(s) == session[s].creator \in {"persisted", "assigned", "done"}

(* The server process ends: the PTYs, and what was in memory. *)
TerminalsDie ==
    /\ TerminalEmpty
    /\ owed' = {s \in registry : Recorded(s)}
    /\ UNCHANGED <<journal, used, acknowledged, settled>>

(* Mutant of LoadPrior: entries that are marked exited become ghosts too. *)
LoadPriorAll ==
    /\ ghosts' = {s \in Session : journal[s] # "absent"}
    /\ journal' = [s \in Session |-> "absent"]
    /\ UNCHANGED <<registry, session, owner, persister, sock, ready, historyVars>>

(* configure_store, at startup: sessions still marked live become ghosts,  *)
(* and the journal starts empty.                                           *)
LoadPrior ==
    /\ ghosts' = {s \in Session : journal[s] = "live"}
    /\ journal' = [s \in Session |-> "absent"]
    /\ UNCHANGED <<registry, session, owner, persister, sock, ready, historyVars>>

-----------------------------------------------------------------------------
(* The steps of the server's own threads, and of its event loop. *)
Creation(s) == CreateMeasure(s) \/ CreatePersist(s) \/ CreateAssign(s) \/ CreateStart(s)

Reading(s) == DispatchOutput(s) \/ ReadEnds(s) \/ ReaderCloses(s) \/ ReaderFinishes(s)

Teardown(s) ==
    \/ MarkExited(s) \/ FanOutAndKill(s) \/ JoinReader(s) \/ RemoveRecord(s)
    \/ ReportExit(s) \/ FinishAfterExit(s)

Refresh(p) == SkipExited(p) \/ Measure(p) \/ Upsert(p)

Serving(q) == Attach(q) \/ SendReplay(q) \/ SendMessage(q)

-----------------------------------------------------------------------------
(* Properties. *)

SessionState ==
    [creator : {"none", "inserted", "measured", "persisted", "assigned", "done"},
     snap : {"live", "exited"}, exited : BOOLEAN,
     fd : Descriptor \cup {NoDescriptor}, closed : BOOLEAN, early : BOOLEAN,
     alive : BOOLEAN, produced : Nat, to : SUBSET Socket,
     reader : {"none", "assigned", "reading", "publishing", "ended", "closing",
               "done"},
     readerDone : BOOLEAN,
     term : {"no", "claimed", "marked", "killed", "joined", "raised", "removed",
             "reported", "done"},
     by : {"nobody", "reader", "other"},
     reported : BOOLEAN, ticket : {"open", "finished"}]

TerminalTypeOK ==
    /\ registry \subseteq Session /\ ghosts \subseteq Session
    /\ session \in [Session -> SessionState]
    /\ owner \in [Descriptor -> Session \cup {NoSession}]
    /\ persister \in [Persister ->
        [at : {"asleep", "listed", "checked", "measured"},
         of : Session \cup {NoSession}, snap : {"live", "exited"}]]
    /\ \A q \in Socket :
        /\ sock[q].stage \in {"off", "opening", "replaying", "on"}
        /\ sock[q].of \in Session \cup {NoSession}
        /\ sock[q].shown \in Nat /\ sock[q].queue \in Seq(Message)
    /\ ready \in [Socket -> Seq(Message)]
    /\ journal \in [Session -> {"absent", "live", "exited"}]

(* Three threads end a session, and its number may be someone else's PTY   *)
(* by the time the second of them closes it: a session whose master is not *)
(* closed has its own PTY behind the number.  And no reader reads from a   *)
(* number that was closed under it, except where the session was closed    *)
(* before its reader was known to terminate().                             *)
DescriptorsAreOwn ==
    \A s \in Session :
        LET r == session[s] IN
        /\ (r.fd # NoDescriptor /\ ~r.closed) => owner[r.fd] = s
        /\ (r.reader \in {"reading", "publishing"} /\ ~r.early) => ~r.closed

(* What is still on its way to a socket: numbers of outputs, and the exit. *)
InFlight(q) ==
    LET s == sock[q].of
    IN  sock[q].queue \o ready[q]
            \o (IF q \in session[s].to THEN <<session[s].produced>> ELSE <<>>)

(* line has the outputs from shown to produced, all of them, in order. *)
Continues(line, shown, produced) ==
    /\ \A n \in (shown + 1)..produced : \E i \in DOMAIN line : line[i] = n
    /\ \A i \in DOMAIN line : line[i] \in (shown + 1)..produced \cup {Exit}
    /\ \A i, j \in DOMAIN line : i < j /\ line[j] # Exit => line[i] < line[j]

(* A terminal shows each output once and in order, whenever it attached,   *)
(* or its queue holds the one signal to reconnect: what is on its way to   *)
(* it continues what it has shown.                                         *)
NoGapNoRepeat ==
    \A q \in Socket : sock[q].stage \in {"replaying", "on"} =>
        \/ sock[q].queue = <<Overflow>>
        \/ Continues(InFlight(q), sock[q].shown, session[sock[q].of].produced)

(* The ghosts of a server that has started are those it owes: a session    *)
(* that was live, and recorded, when the last server died.                 *)
GhostsCover == owed \subseteq ghosts \cup acknowledged

(* "A deliberately-closed session is no longer a restart ghost": unless a  *)
(* refresh that had already measured it was under way when it was removed. *)
ClosedStaysClosed == settled \cap ghosts = {}

(* The lifetime ticket, which closeout waits for, ends when both the       *)
(* reader and the thread that terminated the session have passed the point *)
(* where they end it: neither leaves it to the other.                      *)
LifetimeTicketEnds ==
    \A s \in Session :
        (session[s].reader = "done" /\ session[s].term = "done")
            => session[s].ticket = "finished"
=============================================================================
