--------------------------- MODULE MCServerWorkers ---------------------------
(* Three tokens: two of the usual lifetime, and a newer one that expires   *)
(* before the second does.  Two adapters, one of which cannot tell when a  *)
(* resource was made; a resource made in the run for each, and one from    *)
(* before it.  Help: two request threads and a page of one entry.  The     *)
(* bearer: windows in ticks, in the order that the code has them.          *)
EXTENDS ServerWorkers

CONSTANTS w1, w2, jobs, pipelines, loop, request, a1, a2, c1, c2, rotation_thread, nobody

Tokens == {1, 2, 3}
Writers == {w1, w2}
IssuedAt  == [t \in Tokens |-> t]
ExpiresAt == [t \in Tokens |-> CASE t = 1 -> 1 [] t = 2 -> 3 [] t = 3 -> 2]

NoHost    == [time |-> 0, requests |-> 0, faults |-> 0, started |-> FALSE, stops |-> FALSE]
Capturing == [time |-> 2, requests |-> 4, faults |-> 1, started |-> FALSE, stops |-> FALSE]
Hosting   == [time |-> 2, requests |-> 2, faults |-> 1, started |-> TRUE, stops |-> FALSE]
Stopping  == [time |-> 1, requests |-> 1, faults |-> 1, started |-> TRUE, stops |-> TRUE]

HostScopes == {NoHost, Capturing, Hosting, Stopping}

Adapters == {jobs, pipelines}
Timeless == {pipelines}
Requests1 == {request}
Resources == {1, 2, 3}
Kinds == [r \in Resources |-> IF r = 1 THEN jobs ELSE pipelines]
BeforeRun == {3}
OneOrTwo == {1, 2}

Disabled == [enabled |-> FALSE, made |-> {}, calls |-> 0, wakes |-> 0, limits |-> 0,
             failures |-> 0, drifts |-> 0]
Waking   == [Disabled EXCEPT !.enabled = TRUE, !.made = {1}, !.wakes = 1]
Missing  == [Disabled EXCEPT !.enabled = TRUE, !.made = {1}, !.failures = 1]
Retrying == [Disabled EXCEPT !.enabled = TRUE, !.wakes = 1, !.failures = 1]
Limiting == [Disabled EXCEPT !.enabled = TRUE, !.made = {2}, !.calls = 1, !.limits = 1]
Holding  == [Disabled EXCEPT !.enabled = TRUE, !.wakes = 1, !.limits = 1]
Drifting == [Disabled EXCEPT !.enabled = TRUE, !.made = {1}, !.drifts = 2]

Askers == {a1, a2}

NoHelp   == [posts |-> 0, amends |-> 0, wakes |-> 0, failures |-> 0, losses |-> 0,
             crashes |-> 0, down |-> FALSE]
Crashing == [NoHelp EXCEPT !.posts = 2, !.crashes = 1]
Losing   == [NoHelp EXCEPT !.posts = 1, !.crashes = 1, !.losses = 1]
Sharing  == [NoHelp EXCEPT !.posts = 1, !.amends = 1, !.wakes = 1]
Failing  == [NoHelp EXCEPT !.posts = 1, !.wakes = 1, !.failures = 1]
Down     == [NoHelp EXCEPT !.posts = 1, !.amends = 1, !.wakes = 1, !.down = TRUE]

HelpEnvironments == {NoHelp, Crashing, Losing, Sharing, Failing, Down}

Clients == {c1, c2}

NoBearerKept == [enabled |-> FALSE, pat |-> FALSE, clients |-> {},
                 ticks |-> 0, asks |-> 0, mints |-> 0, outages |-> 0]
Rotating     == [NoBearerKept EXCEPT !.enabled = TRUE, !.clients = {c1},
                                     !.ticks = 6, !.asks = 1, !.mints = 1]
Configuring  == [NoBearerKept EXCEPT !.enabled = TRUE, !.clients = Clients,
                                     !.ticks = 5, !.asks = 2]
Interrupted  == [NoBearerKept EXCEPT !.enabled = TRUE, !.ticks = 7, !.outages = 3]
FallingBack  == [NoBearerKept EXCEPT !.enabled = TRUE, !.clients = {c1}, !.pat = TRUE,
                                     !.ticks = 5, !.asks = 1, !.outages = 1]
Static       == [NoBearerKept EXCEPT !.enabled = TRUE, !.pat = TRUE, !.ticks = 4, !.outages = 2]

BearerEnvironments == {NoBearerKept, Rotating, Configuring, Interrupted, FallingBack, Static}

Environments == {Disabled, Waking, Missing, Retrying, Limiting, Holding, Drifting}
=============================================================================
