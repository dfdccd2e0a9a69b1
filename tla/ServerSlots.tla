----------------------------- MODULE ServerSlots -----------------------------
(***************************************************************************)
(* Slots and GSLT tokens of the Hetzner hosts, and who holds them:         *)
(* apps/api/src/modules/match/allocator.ts, driven by the allocation, the  *)
(* cancel and the teardown of match/flow.ts.                               *)
(*                                                                         *)
(* A server is stopped by looking up the host of the slot that names its   *)
(* match, so a slot that is freed too early leaves a server nobody finds.  *)
(* Up to four calls work on one match at once, each in a job of its own:   *)
(* "create" (createTournamentMatch), "alloc" (tryAllocate under its lease),*)
(* "ender" (the release of cancelMatch and endLost) and "tear" (teardown   *)
(* under its lock). One SQL statement or agent call is one step.           *)
(*                                                                         *)
(* Left out: DatHost, which takes neither slots nor tokens. Bounds:        *)
(* MaxHostTries, StopFailures (stop calls that fail) and MaxCrashes.       *)
(***************************************************************************)
EXTENDS Naturals, FiniteSets

CONSTANTS
    Match, Slot, Token, Host,
    HostOf,         \* the host of a slot
    Tournament,     \* the matches created with a reservation
    MaxHostTries, StopFailures, MaxCrashes,
    None

ASSUME HostOfAssumption == HostOf \in [Slot -> Host]
ASSUME TournamentAssumption == Tournament \subseteq Match
ASSUME SlotBounds == MaxHostTries \in Nat \ {0} /\ StopFailures \in Nat /\ MaxCrashes \in Nat
ASSUME NoneAssumption == None \notin Match \cup Slot \cup Token \cup Host

VARIABLES
    slot,        \* server_slots: status and matchId
    token,       \* gslt_tokens: the match a token is in use by, or None
    online,      \* hosts.status is online
    row,         \* matches.status, coarsely; "none" before its id is drawn, "drawn" without a row
    named,       \* the row has a hostId or slotId
    released,    \* matches.serverReleasedAt is set
    servers,     \* the processes that run on the hosts
    job,         \* what each call works on
    stopFails, crashes

vars == <<slot, token, online, row, named, released, servers, job, stopFails, crashes>>

Kind == {"create", "alloc", "ender", "tear"}
Row == {"none", "drawn", "allocating", "serving", "cancelled", "over"}
Server == [match : Match, host : Host, token : Token]
Step == {"idle", "insert", "pick", "send", "posted", "mark", "store",
         "lookup", "stopping", "freeSlot", "freeToken", "stamp"}

\* `slot`, `token` and `host` are what the call has read, `next` is where it goes on after a release
Job == [step : Step, slot : Slot \cup {None}, token : Token \cup {None}, host : Host \cup {None},
        next : {"idle", "pick", "stamp"}, tries : 0..MaxHostTries]
NoJob == [step |-> "idle", slot |-> None, token |-> None, host |-> None, next |-> "idle", tries |-> 0]

Free == [status |-> "free", match |-> None]
SlotsOf(m) == {s \in Slot : slot[s].match = m}
TokensOf(m) == {k \in Token : token[k] = m}
HostsOf(m) == {HostOf[s] : s \in SlotsOf(m)}
ServersOf(m) == {v \in servers : v.match = m}

Open(m) == row[m] \in {"allocating", "serving"}
Working(m) == \E j \in Kind : job[m][j].step # "idle"
At(m, j, step) == job[m][j].step = step

-----------------------------------------------------------------------------
Init ==
    /\ slot = [s \in Slot |-> Free]
    /\ token = [k \in Token |-> None]
    /\ online = [h \in Host |-> TRUE]
    /\ row = [m \in Match |-> "none"]
    /\ named = [m \in Match |-> FALSE]
    /\ released = [m \in Match |-> FALSE]
    /\ servers = {}
    /\ job = [m \in Match |-> [j \in Kind |-> NoJob]]
    /\ stopFails = 0
    /\ crashes = 0

Become(m, j, new) == job' = [job EXCEPT ![m][j] = new]
Go(m, j, step) == job' = [job EXCEPT ![m][j].step = step]
Done(m, j) == Become(m, j, NoJob)

tables == <<slot, token>>
rows == <<row, named, released>>
world == <<online, servers, stopFails, crashes>>

-----------------------------------------------------------------------------
\* reserve: one transaction takes a free slot on an online host and a free token, or nothing

Reservable == {s \in Slot : slot[s].status = "free" /\ online[HostOf[s]]}
FreeTokens == {k \in Token : token[k] = None}

Reserve(m, s, k) ==
    /\ s \in Reservable
    /\ k \in FreeTokens
    /\ slot' = [slot EXCEPT ![s] = [status |-> "reserved", match |-> m]]
    /\ token' = [token EXCEPT ![k] = m]

CannotReserve == Reservable = {} \/ FreeTokens = {}

\* release goes on at `next` when the slot and the token are free again
Releasing(stopServer, next) ==
    [NoJob EXCEPT !.step = IF stopServer THEN "lookup" ELSE "freeSlot", !.next = next]

-----------------------------------------------------------------------------
\* createTournamentMatch reserves, then inserts the row or gives the reservation back.
\* A queued match or a challenge comes to its allocation without one

CreateReserve(m) ==
    /\ m \in Tournament /\ row[m] = "none"
    /\ row' = [row EXCEPT ![m] = "drawn"]
    /\ \E s \in Slot, k \in Token :
        /\ Reserve(m, s, k)
        /\ Become(m, "create", [NoJob EXCEPT !.step = "insert", !.slot = s, !.token = k])
    /\ UNCHANGED <<named, released, world>>

CreateInsert(m) ==
    /\ At(m, "create", "insert")
    /\ row' = [row EXCEPT ![m] = "allocating"]
    /\ named' = [named EXCEPT ![m] = TRUE]
    /\ Done(m, "create")
    /\ UNCHANGED <<tables, released, world>>

CreateFails(m) ==
    /\ At(m, "create", "insert")
    /\ Become(m, "create", Releasing(FALSE, "idle"))
    /\ UNCHANGED <<tables, rows, world>>

EnterAllocation(m) ==
    /\ m \notin Tournament /\ row[m] = "none"
    /\ row' = [row EXCEPT ![m] = "allocating"]
    /\ UNCHANGED <<tables, named, released, job, world>>

-----------------------------------------------------------------------------
\* tryAllocate and allocate

\* The lease is taken and the row read
Begin(m) ==
    /\ At(m, "alloc", "idle")
    /\ row[m] = "allocating"
    /\ Become(m, "alloc", [NoJob EXCEPT !.step = "pick"])
    /\ UNCHANGED <<tables, rows, world>>

Picked(m, s, k) == [job[m]["alloc"] EXCEPT !.step = "send", !.slot = s, !.token = k]

\* reservationFor finds what an earlier attempt or the tournament reserved
PickOwn(m) ==
    /\ At(m, "alloc", "pick")
    /\ \E s \in SlotsOf(m), k \in TokensOf(m) : Become(m, "alloc", Picked(m, s, k))
    /\ UNCHANGED <<tables, rows, world>>

PickNew_Always(m) ==
    /\ At(m, "alloc", "pick")
    /\ \E s \in Slot, k \in Token :
        /\ Reserve(m, s, k)
        /\ Become(m, "alloc", Picked(m, s, k))
    /\ UNCHANGED <<rows, world>>

PickNew(m) ==
    /\ SlotsOf(m) = {} \/ TokensOf(m) = {}
    /\ PickNew_Always(m)

\* Nothing is free: the match waits for a later tick
PickNone(m) ==
    /\ At(m, "alloc", "pick")
    /\ SlotsOf(m) = {} \/ TokensOf(m) = {}
    /\ CannotReserve
    /\ Done(m, "alloc")
    /\ UNCHANGED <<tables, rows, world>>

\* hetzner.start looks up the host of the slot that names the match, again, and posts there.
\* Without one it throws, which is a failure like any other
Send(m) ==
    /\ At(m, "alloc", "send")
    /\ IF HostsOf(m) = {}
       THEN Become(m, "alloc", Releasing(TRUE, "idle"))
       ELSE \E h \in HostsOf(m) :
               Become(m, "alloc", [job[m]["alloc"] EXCEPT !.step = "posted", !.host = h])
    /\ UNCHANGED <<tables, rows, world>>

Posted(m) == At(m, "alloc", "posted")
Launched(m) == [match |-> m, host |-> job[m]["alloc"].host, token |-> job[m]["alloc"].token]
Duplicate(m) == \E v \in ServersOf(m) : v.host = job[m]["alloc"].host

AgentStarts(m) ==
    /\ Posted(m)
    /\ ~Duplicate(m)
    /\ servers' = servers \cup {Launched(m)}
    /\ Become(m, "alloc", [NoJob EXCEPT !.step = "mark", !.slot = job[m]["alloc"].slot])
    /\ UNCHANGED <<tables, rows, online, stopFails, crashes>>

\* 409 for a match the agent knows, an error, or no answer in time, whether it launched or not
AgentFails(m) ==
    /\ Posted(m)
    /\ servers' \in {servers} \cup (IF Duplicate(m) THEN {} ELSE {servers \cup {Launched(m)}})
    /\ Become(m, "alloc", Releasing(TRUE, "idle"))
    /\ UNCHANGED <<tables, rows, online, stopFails, crashes>>

BusyOn(m, tries, again) ==
    /\ Posted(m)
    /\ online' = [online EXCEPT ![HostOf[job[m]["alloc"].slot]] = FALSE]
    /\ Become(m, "alloc", [Releasing(FALSE, IF again THEN "pick" ELSE "idle") EXCEPT !.tries = tries])
    /\ UNCHANGED <<tables, rows, servers, stopFails, crashes>>


\* 503, although a server of the match may run there: the host is taken out until the next sync and
\* another one is tried
AgentBusy(m) ==
    LET tries == job[m]["alloc"].tries + 1 IN BusyOn(m, tries, tries < MaxHostTries)

\* The slot that was reserved is marked by its id, whoever it names by now
Mark(m) ==
    /\ At(m, "alloc", "mark")
    /\ slot' = [slot EXCEPT ![job[m]["alloc"].slot].status = "running"]
    /\ Become(m, "alloc", [NoJob EXCEPT !.step = "store"])
    /\ UNCHANGED <<token, rows, world>>

Serve(m) ==
    /\ row' = [row EXCEPT ![m] = "serving"]
    /\ named' = [named EXCEPT ![m] = TRUE]
    /\ Done(m, "alloc")

Store_NoGuard(m) ==
    /\ At(m, "alloc", "store")
    /\ Serve(m)
    /\ UNCHANGED <<tables, released, world>>

\* The row names the host, or the match ended meanwhile and the server has to go
Store(m) ==
    /\ At(m, "alloc", "store")
    /\ IF row[m] = "allocating"
       THEN Serve(m)
       ELSE /\ Become(m, "alloc", Releasing(TRUE, "idle"))
            /\ UNCHANGED <<row, named>>
    /\ UNCHANGED <<tables, released, world>>

-----------------------------------------------------------------------------
\* release, by whichever call

Lookup(m, j) ==
    /\ At(m, j, "lookup")
    /\ IF HostsOf(m) = {}
       THEN Go(m, j, "freeSlot")
       ELSE \E h \in HostsOf(m) : Become(m, j, [job[m][j] EXCEPT !.step = "stopping", !.host = h])
    /\ UNCHANGED <<tables, rows, world>>

\* An unknown match is no error for the agent
StopServer(m, j) ==
    /\ At(m, j, "stopping")
    /\ servers' = {v \in servers : v.match # m \/ v.host # job[m][j].host}
    /\ Become(m, j, [job[m][j] EXCEPT !.step = "freeSlot", !.host = None])
    /\ UNCHANGED <<tables, rows, online, stopFails, crashes>>

\* A stop that failed is logged
StopFails(m, j) ==
    /\ stopFails < StopFailures
    /\ At(m, j, "stopping")
    /\ stopFails' = stopFails + 1
    /\ Become(m, j, [job[m][j] EXCEPT !.step = "freeSlot", !.host = None])
    /\ UNCHANGED <<tables, rows, online, servers, crashes>>

FreeSlot(m, j) ==
    /\ At(m, j, "freeSlot")
    /\ slot' = [s \in Slot |-> IF s \in SlotsOf(m) THEN Free ELSE slot[s]]
    /\ Go(m, j, "freeToken")
    /\ UNCHANGED <<token, rows, world>>

FreeToken(m, j) ==
    /\ At(m, j, "freeToken")
    /\ token' = [k \in Token |-> IF k \in TokensOf(m) THEN None ELSE token[k]]
    /\ IF job[m][j].next = "idle" THEN Done(m, j) ELSE Go(m, j, job[m][j].next)
    /\ UNCHANGED <<slot, rows, world>>

\* serverReleasedAt
Stamp(m, j) ==
    /\ At(m, j, "stamp")
    /\ released' = [released EXCEPT ![m] = TRUE]
    /\ Done(m, j)
    /\ UNCHANGED <<tables, row, named, world>>

-----------------------------------------------------------------------------
\* The match ends

Close(m, how, release) ==
    /\ row' = [row EXCEPT ![m] = how]
    /\ IF release
       THEN Become(m, "ender", Releasing(TRUE, "stamp"))
       ELSE UNCHANGED job
    /\ UNCHANGED <<tables, named, released, world>>

\* cancelMatch. A timer that ends a match with a server leaves the release to the teardown
Cancel(m) ==
    \/ Open(m) /\ Close(m, "cancelled", TRUE)
    \/ row[m] = "serving" /\ Close(m, "cancelled", FALSE)

\* finishMatch, abandonMatch and the cap of the watchdog leave the server to the teardown
Finish(m) == row[m] = "serving" /\ Close(m, "over", FALSE)

\* endLost with server_lost
Lost(m) == row[m] = "serving" /\ Close(m, "over", TRUE)

TearWhen(m, due) ==
    /\ At(m, "tear", "idle")
    /\ row[m] \in {"cancelled", "over"} /\ ~released[m]
    /\ due
    /\ Become(m, "tear", Releasing(TRUE, "stamp"))
    /\ UNCHANGED <<tables, rows, world>>

Tear_OverOnly(m) == TearWhen(m, row[m] = "over")

\* The demo wait is over, or a cancelled row still names a host
Tear(m) == TearWhen(m, row[m] = "over" \/ named[m])

-----------------------------------------------------------------------------
\* syncHosts sees a host come or go. A server process ends on its own. The API dies
HostSync(h) ==
    /\ online' = [online EXCEPT ![h] = ~@]
    /\ UNCHANGED <<tables, rows, servers, job, stopFails, crashes>>

ServerExits(v) ==
    /\ servers' = servers \ {v}
    /\ UNCHANGED <<tables, rows, online, job, stopFails, crashes>>

Crash ==
    /\ crashes < MaxCrashes
    /\ crashes' = crashes + 1
    /\ job' = [m \in Match |-> [j \in Kind |-> NoJob]]
    /\ UNCHANGED <<tables, rows, online, servers, stopFails>>

-----------------------------------------------------------------------------
Allocation(m) ==
    \/ PickOwn(m) \/ PickNew(m) \/ PickNone(m) \/ Send(m)
    \/ AgentStarts(m) \/ AgentFails(m) \/ AgentBusy(m) \/ Mark(m) \/ Store(m)

Release(m, j) ==
    Lookup(m, j) \/ StopServer(m, j) \/ StopFails(m, j) \/ FreeSlot(m, j) \/ FreeToken(m, j) \/ Stamp(m, j)

\* Calls that are under way, and the teardown that the allocation loop starts
Progress(m) ==
    CreateInsert(m) \/ CreateFails(m) \/ Allocation(m) \/ Tear(m) \/ \E j \in Kind : Release(m, j)

Outside(m) ==
    CreateReserve(m) \/ EnterAllocation(m) \/ Begin(m) \/ Cancel(m) \/ Finish(m) \/ Lost(m)

Next ==
    \/ \E m \in Match : Progress(m) \/ Outside(m)
    \/ \E h \in Host : HostSync(h)
    \/ \E v \in servers : ServerExits(v)
    \/ Crash

Spec == Init /\ [][Next]_vars

\* A call that is not killed goes on, each call independently of the others; the loop comes round
FairSpec ==
    /\ Spec
    /\ \A m \in Match :
        /\ WF_vars(CreateInsert(m) \/ CreateFails(m) \/ \E j \in {"create"} : Release(m, j))
        /\ WF_vars(Allocation(m) \/ Release(m, "alloc"))
        /\ WF_vars(Release(m, "ender"))
        /\ WF_vars(Tear(m) \/ Release(m, "tear"))

-----------------------------------------------------------------------------
\* Every variable keeps its type
TypeOK ==
    /\ slot \in [Slot -> [status : {"free", "reserved", "running"}, match : Match \cup {None}]]
    /\ token \in [Token -> Match \cup {None}]
    /\ online \in [Host -> BOOLEAN]
    /\ row \in [Match -> Row]
    /\ named \in [Match -> BOOLEAN] /\ released \in [Match -> BOOLEAN]
    /\ servers \in SUBSET Server
    /\ job \in [Match -> [Kind -> Job]]
    /\ stopFails \in 0..StopFailures /\ crashes \in 0..MaxCrashes

\* flow.ts 703-735, allocator.ts 298-334: whatever a restart, a busy host, a stop that failed or a
\* start that timed out left behind, a match that is being served holds exactly one slot, and the
\* server that runs for it on the host of that slot has a token that is reserved for it
ServedByItsOwn ==
    \A m \in Match : row[m] = "serving" =>
        /\ Cardinality(SlotsOf(m)) = 1
        /\ \A v \in ServersOf(m) : v.host \in HostsOf(m) => v.token \in TokensOf(m)

\* flow.ts 772-797, 1170-1178: however allocation, cancel and teardown interleave, the slot and the
\* tokens of a match that is not open come back, unless a restart took the call that held them. A match
\* whose row names its host is released whatever restarts there are
SlotsComeBack ==
    \A m \in Match :
        ~Open(m) ~> \/ Open(m)
                    \/ /\ named[m] => released[m]
                       /\ crashes > 0 \/ SlotsOf(m) \cup TokensOf(m) = {}

\* schema.ts 222 says that serverReleasedAt is set once the server is stopped and the slot and the
\* token are free; flow.ts 730 says that a server that started too late does not run unowned
ReleasedIsGone ==
    \A m \in Match : released[m] /\ ~Working(m)
        => SlotsOf(m) = {} /\ TokensOf(m) = {} /\ ServersOf(m) = {}
=============================================================================
