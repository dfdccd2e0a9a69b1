-------------------------------- MODULE HostAgent --------------------------------
(***************************************************************************)
(* The agent of one host: its servers (AgentServers) and the updater of    *)
(* the CS2 install they share, agent/internal/update/update.go, as main.go *)
(* puts them together.                                                     *)
(*                                                                         *)
(* One goroutine runs the steps of the updater; POST /update comes from    *)
(* any other.  Between two steps the goroutine sleeps until a timer or a   *)
(* kick, and since the timer always fires, kicks are left out.  SteamCMD   *)
(* is a process of its own and goes on when the agent dies.                *)
(***************************************************************************)
EXTENDS AgentServers

VARIABLES
    state,      \* Status.State
    accepting,
    loop,       \* where the goroutine of the updater is
    steamcmd    \* SteamCMD processes of this agent and of the one before: "own", "left"

updateVars == <<state, accepting, loop, steamcmd>>
vars == <<serverVars, updateVars>>

TypeOK ==
    /\ ServersTypeOK
    /\ state \in {"idle", "draining", "updating"}
    /\ accepting \in BOOLEAN
    /\ loop \in {"wait", "check", "drain", "begin", "update"}
    /\ steamcmd \subseteq {"own", "left"}
    /\ state = "updating" => loop = "update"

UpdateInit ==
    /\ state = "idle" /\ accepting = TRUE
    /\ loop = "wait"
    /\ steamcmd = {}

Init == ServersInit /\ UpdateInit

-----------------------------------------------------------------------------
\* Trigger without closing the manager
Trigger_Open ==
    /\ up
    /\ state' = IF state = "idle" THEN "draining" ELSE state
    /\ UNCHANGED <<serverVars, accepting, loop, steamcmd>>

\* POST /update. Nothing changes during an update
Trigger ==
    /\ up
    /\ state' = IF state = "idle" THEN "draining" ELSE state
    /\ accepting' = (state # "idle" /\ accepting)
    /\ UNCHANGED <<serverVars, loop, steamcmd>>

\* A drain that began is not looked at again
Step_Once ==
    /\ up /\ loop = "wait" /\ state = "idle"
    /\ loop' = "check"
    /\ UNCHANGED <<serverVars, state, accepting, steamcmd>>

\* Run and Step: the timer fires and the state is read
Step ==
    /\ up /\ loop = "wait"
    /\ loop' = IF state = "idle" THEN "check" ELSE "drain"
    /\ UNCHANGED <<serverVars, state, accepting, steamcmd>>

\* Steam is asked for the newest build. A request may have arrived while it was
UpToDate ==
    /\ up /\ loop = "check"
    /\ loop' = "wait"
    /\ UNCHANGED <<serverVars, state, accepting, steamcmd>>

Outdated ==
    /\ up /\ loop = "check"
    /\ loop' = "drain"
    /\ state' = "draining" /\ accepting' = FALSE
    /\ UNCHANGED <<serverVars, steamcmd>>

\* drain: the number of servers is read, then the update begins
Drain_Anyway ==
    /\ up /\ loop = "drain"
    /\ loop' = IF \E s \in Live : entry[s] = "watched" THEN "wait" ELSE "begin"
    /\ UNCHANGED <<serverVars, state, accepting, steamcmd>>

Drain ==
    /\ up /\ loop = "drain"
    /\ loop' = IF Live # {} THEN "wait" ELSE "begin"
    /\ UNCHANGED <<serverVars, state, accepting, steamcmd>>

BeginUpdate ==
    /\ up /\ loop = "begin"
    /\ loop' = "update"
    /\ state' = "updating"
    /\ steamcmd' = steamcmd \cup {"own"}
    /\ UNCHANGED <<serverVars, accepting>>

\* A failed update stays closed and is tried again
EndUpdate(ok) ==
    /\ up /\ loop = "update"
    /\ loop' = "wait"
    /\ state' = IF ok THEN "idle" ELSE "draining"
    /\ accepting' = (ok \/ accepting)
    /\ steamcmd' = steamcmd \ {"own"}
    /\ UNCHANGED serverVars

LeftoverEnds ==
    /\ "left" \in steamcmd
    /\ steamcmd' = steamcmd \ {"left"}
    /\ UNCHANGED <<serverVars, state, accepting, loop>>

\* A new agent is idle and open. Its SteamCMD runs on, for systemd ends only the main process
Dies ==
    /\ AgentDies
    /\ state' = "idle" /\ accepting' = TRUE
    /\ loop' = "wait"
    /\ steamcmd' = IF steamcmd = {} THEN {} ELSE {"left"}

ServerStep ==
    \/ \E s \in Server :
        \/ \E m \in Match : Start(s, m, accepting) /\ UNCHANGED updateVars
        \/ Launch(s) /\ UNCHANGED updateVars
        \/ LaunchFails(s) /\ UNCHANGED updateVars
        \/ Started(s) /\ UNCHANGED updateVars
        \/ Signal(s) /\ UNCHANGED updateVars
        \/ ProcessEnds(s) /\ UNCHANGED updateVars
        \/ WatchEnds(s) /\ UNCHANGED updateVars
        \/ Finish(s) /\ UNCHANGED updateVars
    \/ \E m \in Match : Stop(m) /\ UNCHANGED updateVars
    \/ Recover /\ UNCHANGED updateVars

UpdateStep ==
    \/ Trigger \/ Step \/ UpToDate \/ Outdated \/ Drain \/ BeginUpdate
    \/ \E ok \in BOOLEAN : EndUpdate(ok)
    \/ LeftoverEnds

Next ==
    ServerStep \/ UpdateStep \/ Dies

\* Goroutines of the agent are scheduled, and a process that is signalled ends
Fairness ==
    /\ \A s \in Server :
        /\ WF_vars((Launch(s) \/ LaunchFails(s)) /\ UNCHANGED updateVars)
        /\ WF_vars(Started(s) /\ UNCHANGED updateVars)
        /\ WF_vars(Signal(s) /\ UNCHANGED updateVars)
        /\ WF_vars(WatchEnds(s) /\ UNCHANGED updateVars)
        /\ WF_vars(Finish(s) /\ UNCHANGED updateVars)
    /\ WF_vars(Recover /\ UNCHANGED updateVars)
    /\ WF_vars(Step) /\ WF_vars(UpToDate \/ Outdated) /\ WF_vars(Drain) /\ WF_vars(BeginUpdate)
    /\ WF_vars(EndUpdate(TRUE) \/ EndUpdate(FALSE))

\* A match server does not run for ever
MatchesEnd == \A s \in Server : WF_vars(ProcessEnds(s) /\ UNCHANGED updateVars)

Spec == Init /\ [][Next]_vars /\ Fairness

-----------------------------------------------------------------------------
\* manager.go 146-204, 258-325, slots.go 30-65: slots, servers and processes go together, however starts,
\* failed launches, stops, exits and restarts interleave. A port is handed out exactly while the map holds the
\* server it was handed out for; no two processes have one port, not even one the agent has forgotten and one
\* it starts now; and only a server whose agent died between its launch and its pid is forgotten
PortsAreServers ==
    up => \A p \in Port, m \in Match :
            (used[p] = m) <=> (servers[m] # NoServer /\ info[servers[m]].match = m /\ info[servers[m]].port = p)
SlotsAreServers ==
    /\ PortsAreServers
    /\ \A s, t \in running : s # t => info[s].port # info[t].port
    /\ up => running \subseteq Live \cup lost

\* Nothing runs from the install while SteamCMD changes it: a start that was accepted before the drain is
\* waited for, although its process may not exist yet
UpdateRunsAlone ==
    crashes = 0 => (steamcmd # {} => running = {})

\* A crash is reported for a server nobody asked to stop, also when the stop came during its launch. Only a server
\* adopted from an agent before this one may have been asked through that one
CrashIsReal ==
    [][\A s \in reported' \ reported : s \in asked => s \in adopted]_vars

\* A stop ends the process and frees the slot, also when it comes while the process is being launched
StopFreesTheSlot ==
    \A s \in Server : (s \in asked /\ crashes = 0) ~> (crashes > 0 \/ (s \notin running /\ s \notin Live))

\* The host is not closed for ever without an update: when matches end, what drains updates
DrainEnds ==
    MatchesEnd => ((state = "draining" /\ crashes = MaxCrashes) ~> (state = "updating"))
=============================================================================
