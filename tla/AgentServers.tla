------------------------------ MODULE AgentServers ------------------------------
(***************************************************************************)
(* The servers of one host: agent/internal/manager/manager.go,             *)
(* slots/slots.go and procrun/procrun.go.                                  *)
(*                                                                         *)
(* What the manager does under its mutex is one action.  A start is three: *)
(* the slot is taken, the process is launched without the mutex, and then  *)
(* it gets its pid.  A stop can come in between.  Processes belong to the  *)
(* operating system and outlive the agent, whose memory is lost when it    *)
(* stops: a new one has the state file and whatever still runs.            *)
(*                                                                         *)
(* Left out: the rendering of cfg files and arguments, logs, and the       *)
(* validation of a request.  A forgotten process is assumed to hold its    *)
(* port by the time the port is probed.                                    *)
(*                                                                         *)
(* Bounds: Server are the servers ever started, MaxCrashes the restarts.   *)
(***************************************************************************)
EXTENDS Naturals, FiniteSets

CONSTANTS Server, Match, Port, NoServer, NoMatch, NoPort, MaxCrashes

ASSUME AgentAssumption == NoServer \notin Server /\ NoMatch \notin Match /\ NoPort \notin Port
ASSUME CrashesAssumption == MaxCrashes \in Nat

VARIABLES
    up,         \* the agent runs
    info,       \* match and port of each server
    entry,      \* how far the agent is with each server
    stopping, adopted,
    servers,    \* the agent's map from matches to servers
    used,       \* ports handed out
    saved,      \* servers in the state file
    running,    \* CS2 processes the host runs
    toSignal,   \* stops that hold the process and have not signalled it yet
    asked,      \* servers an API call wanted stopped
    lost,       \* servers launched by an agent that died before it had their pid
    reported,   \* servers the API was told have crashed
    crashes

memoryVars == <<entry, stopping, adopted, servers, used, toSignal>>
serverVars == <<up, info, memoryVars, saved, running, asked, lost, reported, crashes>>

Entries == {"none", "starting", "launched", "watched", "ended", "done"}

ServersTypeOK ==
    /\ up \in BOOLEAN
    /\ info \in [Server -> [match : Match \cup {NoMatch}, port : Port \cup {NoPort}]]
    /\ entry \in [Server -> Entries]
    /\ stopping \subseteq Server /\ adopted \subseteq Server
    /\ servers \in [Match -> Server \cup {NoServer}]
    /\ used \in [Port -> Match \cup {NoMatch}]
    /\ saved \subseteq Server /\ running \subseteq Server /\ toSignal \subseteq Server
    /\ asked \subseteq Server /\ lost \subseteq Server /\ reported \subseteq Server
    /\ crashes \in 0..MaxCrashes

ServersInit ==
    /\ up = TRUE
    /\ info = [s \in Server |-> [match |-> NoMatch, port |-> NoPort]]
    /\ entry = [s \in Server |-> "none"]
    /\ stopping = {} /\ adopted = {}
    /\ servers = [m \in Match |-> NoServer]
    /\ used = [p \in Port |-> NoMatch]
    /\ saved = {} /\ running = {} /\ toSignal = {}
    /\ asked = {} /\ lost = {} /\ reported = {}
    /\ crashes = 0

-----------------------------------------------------------------------------
Live == {servers[m] : m \in Match} \ {NoServer}

\* A server without a process is not in the file
Persisted == {s \in Live : entry'[s] = "watched"}

\* The port is free for the agent
Free_NoProbe(p) == used[p] = NoMatch

\* The port is free for the agent and on the host
Free(p) == used[p] = NoMatch /\ \A s \in running : info[s].port # p

Release(p) == used' = [used EXCEPT ![p] = NoMatch]

\* Start, up to the launch. The lowest free port is taken; any free port stands for it
Start(s, m, accepting) ==
    /\ up /\ accepting
    /\ entry[s] = "none"
    /\ servers[m] = NoServer
    /\ \E p \in Port :
        /\ Free(p)
        /\ used' = [used EXCEPT ![p] = m]
        /\ info' = [info EXCEPT ![s] = [match |-> m, port |-> p]]
    /\ entry' = [entry EXCEPT ![s] = "starting"]
    /\ servers' = [servers EXCEPT ![m] = s]
    /\ UNCHANGED <<up, stopping, adopted, saved, running, toSignal, asked, lost, reported, crashes>>

Launch(s) ==
    /\ up /\ entry[s] = "starting"
    /\ entry' = [entry EXCEPT ![s] = "launched"]
    /\ running' = running \cup {s}
    /\ UNCHANGED <<up, info, stopping, adopted, servers, used, saved, toSignal, asked, lost, reported, crashes>>

\* The map entry goes, the slot does not
LaunchFails_KeepsSlot(s) ==
    /\ up /\ entry[s] = "starting"
    /\ entry' = [entry EXCEPT ![s] = "done"]
    /\ servers' = [servers EXCEPT ![info[s].match] = NoServer]
    /\ UNCHANGED <<up, info, stopping, adopted, used, saved, running, toSignal, asked, lost, reported, crashes>>

LaunchFails(s) ==
    /\ up /\ entry[s] = "starting"
    /\ entry' = [entry EXCEPT ![s] = "done"]
    /\ servers' = [servers EXCEPT ![info[s].match] = NoServer]
    /\ Release(info[s].port)
    /\ UNCHANGED <<up, info, stopping, adopted, saved, running, toSignal, asked, lost, reported, crashes>>

\* The process has a pid from here on. A stop that came before is carried out now
Started_IgnoresStop(s) ==
    /\ up /\ entry[s] = "launched"
    /\ entry' = [entry EXCEPT ![s] = "watched"]
    /\ saved' = Persisted
    /\ UNCHANGED <<up, info, stopping, adopted, servers, used, running, toSignal, asked, lost, reported, crashes>>

Started_Unsaved(s) ==
    /\ up /\ entry[s] = "launched"
    /\ entry' = [entry EXCEPT ![s] = "watched"]
    /\ toSignal' = toSignal \cup ({s} \cap stopping)
    /\ UNCHANGED <<up, info, stopping, adopted, servers, used, saved, running, asked, lost, reported, crashes>>

Started(s) ==
    /\ up /\ entry[s] = "launched"
    /\ entry' = [entry EXCEPT ![s] = "watched"]
    /\ saved' = Persisted
    /\ toSignal' = toSignal \cup ({s} \cap stopping)
    /\ UNCHANGED <<up, info, stopping, adopted, servers, used, running, asked, lost, reported, crashes>>

\* Stop: without a process there is only the flag
Stop(m) ==
    /\ up /\ servers[m] # NoServer
    /\ LET s == servers[m]
       IN  /\ stopping' = stopping \cup {s}
           /\ asked' = asked \cup {s}
           /\ toSignal' = IF entry[s] = "watched" THEN toSignal \cup {s} ELSE toSignal
    /\ UNCHANGED <<up, info, entry, adopted, servers, used, saved, running, lost, reported, crashes>>

\* SIGTERM, and SIGKILL after the grace. That the agent dies in between is covered by ProcessEnds
Signal(s) ==
    /\ up /\ s \in toSignal
    /\ running' = running \ {s}
    /\ toSignal' = toSignal \ {s}
    /\ UNCHANGED <<up, info, entry, stopping, adopted, servers, used, saved, asked, lost, reported, crashes>>

\* The match is over or the process crashed
ProcessEnds(s) ==
    /\ s \in running
    /\ running' = running \ {s}
    /\ UNCHANGED <<up, info, memoryVars, saved, asked, lost, reported, crashes>>

\* watch, under the mutex
WatchEnds(s) ==
    /\ up /\ entry[s] = "watched" /\ s \notin running
    /\ entry' = [entry EXCEPT ![s] = "ended"]
    /\ servers' = [m \in Match |-> IF servers[m] = s THEN NoServer ELSE servers[m]]
    /\ Release(info[s].port)
    /\ saved' = {t \in Live \ {s} : entry[t] = "watched"}
    /\ UNCHANGED <<up, info, stopping, adopted, running, toSignal, asked, lost, reported, crashes>>

\* The files are removed, the stops are answered, and an exit nobody asked for is reported.
\* The exit code of an adopted server is unknown; that of another one may be 0
Finish_Blames(s) ==
    /\ up /\ entry[s] = "ended"
    /\ entry' = [entry EXCEPT ![s] = "done"]
    /\ reported' \in {reported, reported \cup {s}}
    /\ UNCHANGED <<up, info, stopping, adopted, servers, used, saved, running, toSignal, asked, lost, crashes>>

Finish(s) ==
    /\ up /\ entry[s] = "ended"
    /\ entry' = [entry EXCEPT ![s] = "done"]
    /\ \/ s \notin stopping /\ reported' = reported \cup {s}
       \/ s \in stopping \cup (Server \ adopted) /\ UNCHANGED reported
    /\ UNCHANGED <<up, info, stopping, adopted, servers, used, saved, running, toSignal, asked, lost, crashes>>

-----------------------------------------------------------------------------
\* The agent stops, by a crash or a deployment. Its servers go on
AgentDies ==
    /\ up /\ crashes < MaxCrashes
    /\ crashes' = crashes + 1
    /\ up' = FALSE
    /\ lost' = lost \cup {s \in running : entry[s] = "launched"}
    /\ entry' = [s \in Server |-> IF entry[s] = "none" THEN "none" ELSE "done"]
    /\ stopping' = {} /\ adopted' = {} /\ toSignal' = {}
    /\ servers' = [m \in Match |-> NoServer]
    /\ used' = [p \in Port |-> NoMatch]
    /\ UNCHANGED <<info, saved, running, asked, reported>>

\* Servers of the state file that are still alive are adopted, with their slot
Recover_NoClaim ==
    /\ ~up /\ up' = TRUE
    /\ LET alive == saved \cap running
       IN  /\ entry' = [s \in Server |-> IF s \in alive THEN "watched" ELSE entry[s]]
           /\ adopted' = alive
           /\ servers' = [m \in Match |-> IF \E s \in alive : info[s].match = m
                                          THEN CHOOSE s \in alive : info[s].match = m ELSE NoServer]
           /\ saved' = alive
    /\ UNCHANGED <<info, stopping, used, running, toSignal, asked, lost, reported, crashes>>

Recover ==
    /\ ~up /\ up' = TRUE
    /\ LET alive == saved \cap running
       IN  /\ entry' = [s \in Server |-> IF s \in alive THEN "watched" ELSE entry[s]]
           /\ adopted' = alive
           /\ servers' = [m \in Match |-> IF \E s \in alive : info[s].match = m
                                          THEN CHOOSE s \in alive : info[s].match = m ELSE NoServer]
           /\ used' = [p \in Port |-> IF \E s \in alive : info[s].port = p
                                      THEN info[CHOOSE s \in alive : info[s].port = p].match ELSE NoMatch]
           /\ saved' = alive
    /\ UNCHANGED <<info, stopping, running, toSignal, asked, lost, reported, crashes>>
=============================================================================
