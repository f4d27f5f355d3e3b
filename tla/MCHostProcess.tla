---------------------------- MODULE MCHostProcess ----------------------------
(* The environments that TLC checks: restarts and stops of the server,     *)
(* extensions of the deadline, sessions that a crash overtakes, refreshes  *)
(* of their journal, and sockets that show one.                            *)
EXTENDS HostProcess

CONSTANTS qa, qb, la, lb, ct

Sessions == {1, 2}
Sockets == {qa, qb}
Descriptors == {3, 4}
Persisters == {"reaper", "project"}
TwoDelays == <<1, 2>>
Extensions == {2, 3}
Bases == {0, 1}
Launchers == {la, lb}
Pushers == {ct}
SecondWithoutCodex == {<<2, Codex>>}

Quiet == [sessions |-> {}, sockets |-> {}, outputs |-> 0, refreshes |-> {},
          bases |-> {1}, deaths |-> 0, stops |-> 0, deploys |-> 0,
          epochs |-> {}, faults |-> 0, uptimes |-> FALSE,
          launchers |-> {}, launches |-> 0, policies |-> 0, puts |-> 0]

Restarting == [Quiet EXCEPT !.deaths = 4, !.stops = 2, !.uptimes = TRUE]
Extending  == [Quiet EXCEPT !.deaths = 1, !.stops = 1, !.deploys = 2, !.faults = 1,
                            !.epochs = Extensions, !.bases = Bases]
Crashing   == [Quiet EXCEPT !.sessions = Sessions, !.deaths = 1]
Recording == [Quiet EXCEPT !.sessions = {1}, !.refreshes = Persisters, !.deaths = 2]
Showing    == [Quiet EXCEPT !.sessions = {1}, !.sockets = {qa}, !.outputs = 3]
Sharing    == [Quiet EXCEPT !.sessions = {1}, !.sockets = Sockets, !.outputs = 1]
Revising   == [Quiet EXCEPT !.launchers = {la}, !.launches = 2, !.policies = 2, !.puts = 3,
                            !.faults = 1, !.deaths = 1]
Preparing  == [Quiet EXCEPT !.launchers = Launchers, !.launches = 3, !.policies = 1, !.puts = 2,
                            !.faults = 1]

Environments ==
    {Restarting, Extending, Crashing, Recording, Showing, Sharing, Revising, Preparing}
=============================================================================
