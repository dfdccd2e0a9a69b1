--------------------------- MODULE ServerSlots_proofs ---------------------------
(***************************************************************************)
(* Proofs about the slots, tokens and servers of modules/match/allocator.ts *)
(* for any number of matches, slots, tokens, hosts and restarts.           *)
(*                                                                         *)
(* While a match is open only its allocation touches what it holds: the    *)
(* create call is done, and the calls that release begin when it closes.   *)
(* So the inductive invariant says, for each step of the allocation, which *)
(* slots and tokens name the match; of a closed match it says nothing.     *)
(***************************************************************************)
EXTENDS ServerSlots, TLAPS, FiniteSetTheorems

\* What a step can rely on in its job
JobShape(j) ==
    /\ j.step \in {"send", "posted", "mark"} => j.slot \in Slot
    /\ j.step \in {"send", "posted"} => j.token \in Token
    /\ j.step \in {"posted", "stopping"} => j.host \in Host
    /\ j.step \in {"pick", "send", "posted"} \/ j.next = "pick" => j.tries < MaxHostTries

JobsOK == job \in [Match -> [Kind -> Job]] /\ \A m \in Match, j \in Kind : JobShape(job[m][j])
TablesOK ==
    /\ slot \in [Slot -> [status : {"free", "reserved", "running"}, match : Match \cup {None}]]
    /\ token \in [Token -> Match \cup {None}]
RowsOK == row \in [Match -> Row] /\ named \in [Match -> BOOLEAN] /\ released \in [Match -> BOOLEAN]
WorldOK ==
    /\ online \in [Host -> BOOLEAN]
    /\ servers \in SUBSET Server
    /\ stopFails \in 0..StopFailures /\ crashes \in 0..MaxCrashes

\* What can be reserved names nobody
SlotInv == \A s \in Slot : slot[s].status = "free" => slot[s].match = None

Quiet(m, J) == \A j \in J : job[m][j].step = "idle"
HasOne(m) == (\E s \in Slot : SlotsOf(m) = {s}) /\ TokensOf(m) # {}
Owned(m) == \A v \in ServersOf(m) : v.host \in HostsOf(m) => v.token \in TokensOf(m)

\* The allocation of an open match, step by step. A server left by an attempt that failed may run with a token
\* that is not reserved any more, but then no later attempt starts another one on its host
AllocInv(m, j) ==
    /\ \A s, t \in SlotsOf(m) : s = t
    /\ SlotsOf(m) # {} => TokensOf(m) # {}
    /\ j.step \in {"send", "posted", "mark"} => j.slot \in SlotsOf(m)
    /\ j.step \in {"send", "posted"} => j.token \in TokensOf(m)
    /\ j.step = "posted" => j.host = HostOf[j.slot]
    /\ j.step \in {"mark", "store"} => HasOne(m) /\ Owned(m)
    /\ j.step = "freeToken" => SlotsOf(m) = {}

PhaseInv(m) ==
    /\ row[m] = "none" => Quiet(m, Kind) /\ SlotsOf(m) = {} /\ TokensOf(m) = {}
    /\ row[m] = "drawn" => Quiet(m, {"alloc", "ender", "tear"})
    /\ job[m]["create"].step = "insert" => row[m] = "drawn" /\ HasOne(m)
    /\ Open(m) => Quiet(m, {"create", "ender", "tear"})
    /\ row[m] = "allocating" => AllocInv(m, job[m]["alloc"])
    /\ row[m] = "serving" => Quiet(m, {"alloc"}) /\ HasOne(m) /\ Owned(m)

IInv == JobsOK /\ TablesOK /\ RowsOK /\ WorldOK /\ SlotInv /\ \A m \in Match : PhaseInv(m)

-----------------------------------------------------------------------------
\* A call that is not under way
LEMMA NoJobType == NoJob \in Job /\ JobShape(NoJob) /\ NoJob.step = "idle"
BY SlotBounds DEF NoJob, Job, Step, JobShape

\* What release starts with
LEMMA ReleasingType ==
    ASSUME NEW stopServer \in BOOLEAN, NEW next \in {"idle", "stamp"}
    PROVE  /\ Releasing(stopServer, next) \in Job /\ JobShape(Releasing(stopServer, next))
           /\ Releasing(stopServer, next).step \in {"lookup", "freeSlot"}
<1>1. Releasing(stopServer, next) \in Job
    BY NoJobType DEF Releasing, Job, Step
<1>2. /\ Releasing(stopServer, next).step \in {"lookup", "freeSlot"}
      /\ Releasing(stopServer, next).next = next /\ Releasing(stopServer, next).tries = 0
    BY NoJobType DEF Releasing, Job, NoJob
<1> QED BY <1>1, <1>2 DEF JobShape

\* The other calls of the match, and those of the others, go on
Others(m, j) ==
    /\ \A i \in Kind \ {j} : job'[m][i] = job[m][i]
    /\ \A n \in Match \ {m} : job'[n] = job[n]

\* One call takes a step
LEMMA BecomeStep ==
    ASSUME JobsOK, NEW m \in Match, NEW j \in Kind, NEW new \in Job, JobShape(new), Become(m, j, new)
    PROVE  JobsOK' /\ job'[m][j] = new /\ Others(m, j)
<1>1. job' = [job EXCEPT ![m] = [job[m] EXCEPT ![j] = new]]
    BY DEF Become, JobsOK
<1>2. job[m] \in [Kind -> Job] /\ job \in [Match -> [Kind -> Job]]
    BY DEF JobsOK
<1> DEFINE jobs == [job[m] EXCEPT ![j] = new]
<1>3. jobs \in [Kind -> Job] /\ jobs[j] = new /\ \A i \in Kind \ {j} : jobs[i] = job[m][i]
    BY <1>2
<1> HIDE DEF jobs
<1>4. job' \in [Match -> [Kind -> Job]] /\ job'[m] = jobs /\ \A n \in Match \ {m} : job'[n] = job[n]
    BY <1>1, <1>2, <1>3 DEF jobs
<1>5. \A n \in Match, i \in Kind : JobShape(job'[n][i])
    <2> SUFFICES ASSUME NEW n \in Match, NEW i \in Kind PROVE JobShape(job'[n][i])
        OBVIOUS
    <2>1. JobShape(job[n][i])
        BY DEF JobsOK
    <2>2. job'[n][i] = job[n][i] \/ job'[n][i] = new
        BY <1>3, <1>4
    <2> QED BY <2>1, <2>2
<1> QED BY <1>3, <1>4, <1>5 DEF JobsOK, Others

\* A call ends
LEMMA DoneStep ==
    ASSUME JobsOK, NEW m \in Match, NEW j \in Kind, Done(m, j)
    PROVE  JobsOK' /\ job'[m][j] = NoJob /\ Others(m, j)
BY BecomeStep, NoJobType DEF Done

\* A call only goes to another step
LEMMA GoStep ==
    ASSUME JobsOK, NEW m \in Match, NEW j \in Kind, NEW step \in Step, Go(m, j, step),
           JobShape([job[m][j] EXCEPT !.step = step])
    PROVE  JobsOK' /\ job'[m][j] = [job[m][j] EXCEPT !.step = step] /\ job'[m][j].step = step /\ Others(m, j)
<1> DEFINE new == [job[m][j] EXCEPT !.step = step]
<1>1. job[m][j] \in Job
    BY DEF JobsOK
<1>2. new \in Job /\ new.step = step
    BY <1>1 DEF Job
<1>3. Become(m, j, new) /\ JobShape(new)
    BY DEF Go, Become, JobsOK
<1>4. new = [job[m][j] EXCEPT !.step = step]
    OBVIOUS
<1> HIDE DEF new
<1>5. JobsOK' /\ job'[m][j] = new /\ Others(m, j)
    BY <1>2, <1>3, BecomeStep
<1> QED BY <1>2, <1>4, <1>5

\* A match that a step does not concern
Aside(m) ==
    /\ row'[m] = row[m] /\ SlotsOf(m)' = SlotsOf(m) /\ TokensOf(m)' = TokensOf(m)
    /\ ServersOf(m)' \subseteq ServersOf(m)

\* keeps its phase as long as its calls do
LEMMA AsideKeeps ==
    ASSUME NEW m \in Match, PhaseInv(m), Aside(m), job'[m] = job[m]
    PROVE  PhaseInv(m)'
<1>1. (HasOne(m) => HasOne(m)') /\ (HostsOf(m)' = HostsOf(m))
    BY DEF Aside, HasOne, HostsOf
<1>2. Owned(m) => Owned(m)'
    BY <1>1 DEF Aside, Owned
<1>3. AllocInv(m, job[m]["alloc"]) => AllocInv(m, job[m]["alloc"])'
    BY <1>1, <1>2 DEF Aside, AllocInv
<1> QED BY <1>1, <1>2, <1>3 DEF Aside, PhaseInv, Quiet, Open

\* Of a closed match nothing is said, but that it is not being created
LEMMA ClosedPhase ==
    ASSUME NEW m \in Match, row[m] \in {"cancelled", "over"}, job[m]["create"].step # "insert"
    PROVE  PhaseInv(m)
BY DEF PhaseInv, Open

\* One match at a time: where a step leaves the match it is about
LEMMA OneMatch ==
    ASSUME IInv, NEW m \in Match, PhaseInv(m)', JobsOK', TablesOK', RowsOK', WorldOK', SlotInv',
           \A n \in Match \ {m} : Aside(n) /\ job'[n] = job[n]
    PROVE  IInv'
<1>1. \A n \in Match \ {m} : PhaseInv(n)'
    BY AsideKeeps DEF IInv
<1> QED BY <1>1 DEF IInv

\* Slots, tokens and rows as they are
LEMMA TablesSame ==
    ASSUME UNCHANGED tables, NEW m
    PROVE  SlotsOf(m)' = SlotsOf(m) /\ TokensOf(m)' = TokensOf(m) /\ HostsOf(m)' = HostsOf(m)
           /\ (HasOne(m)' <=> HasOne(m)) /\ (TablesOK' <=> TablesOK) /\ (SlotInv' <=> SlotInv)
<1>1. slot' = slot /\ token' = token
    BY DEF tables
<1>2. SlotsOf(m)' = SlotsOf(m) /\ TokensOf(m)' = TokensOf(m)
    BY <1>1 DEF SlotsOf, TokensOf
<1> QED BY <1>1, <1>2 DEF HostsOf, HasOne, TablesOK, SlotInv

\* Nothing is known of a step in a table but that it is one
LEMMA TablesAside ==
    ASSUME UNCHANGED tables, NEW n, row'[n] = row[n], ServersOf(n)' \subseteq ServersOf(n)
    PROVE  Aside(n)
BY TablesSame DEF Aside

-----------------------------------------------------------------------------
\* A step of one call that changes no row and no table
LEMMA JobOnly ==
    ASSUME IInv, NEW m \in Match, NEW j \in Kind, JobsOK', Others(m, j), PhaseInv(m)', WorldOK',
           UNCHANGED <<tables, rows>>, \A n \in Match \ {m} : ServersOf(n)' \subseteq ServersOf(n)
    PROVE  IInv'
<1>1. TablesOK' /\ SlotInv' /\ RowsOK'
    BY TablesSame DEF IInv, rows, RowsOK
<1>2. \A n \in Match \ {m} : row'[n] = row[n] /\ job'[n] = job[n]
    BY DEF rows, Others
<1>3. \A n \in Match \ {m} : Aside(n)
    BY <1>2, TablesAside
<1> QED BY <1>1, <1>2, <1>3, OneMatch

\* While the allocation works, its match is open or was closed meanwhile, and it is not being created
LEMMA AllocPhase ==
    ASSUME IInv, NEW m \in Match, job[m]["alloc"].step # "idle"
    PROVE  /\ row[m] \in {"allocating", "cancelled", "over"} /\ job[m]["create"].step # "insert"
           /\ row[m] = "allocating" => AllocInv(m, job[m]["alloc"]) /\ Quiet(m, {"create", "ender", "tear"})
<1>1. PhaseInv(m) /\ row[m] \in Row
    BY DEF IInv, RowsOK
<1> QED BY <1>1 DEF PhaseInv, Quiet, Row, Kind, Open

\* A step of the allocation needs to show only what holds of an open match
LEMMA AllocKeeps ==
    ASSUME IInv, NEW m \in Match, job[m]["alloc"].step # "idle", Others(m, "alloc"), row'[m] = row[m],
           row[m] = "allocating" => AllocInv(m, job[m]["alloc"])'
    PROVE  PhaseInv(m)'
<1>1. /\ row[m] \in {"allocating", "cancelled", "over"} /\ job[m]["create"].step # "insert"
      /\ row[m] = "allocating" => Quiet(m, {"create", "ender", "tear"})
    BY AllocPhase
<1>2. \A j \in {"create", "ender", "tear"} : job'[m][j] = job[m][j]
    BY DEF Others, Kind
<1> QED BY <1>1, <1>2 DEF PhaseInv, Quiet, Open

\* A call that releases, not the allocation, works on a match that is not open
LEMMA ReleaseKeeps ==
    ASSUME IInv, NEW m \in Match, NEW j \in Kind, j # "alloc", job[m][j].step \notin {"idle", "insert"},
           Others(m, j), row'[m] = row[m], job'[m][j].step # "insert"
    PROVE  PhaseInv(m)'
<1>1. PhaseInv(m) /\ row[m] \in Row
    BY DEF IInv, RowsOK
<1>2. j \in {"create", "ender", "tear"}
    BY DEF Kind
<1>3. row[m] \in {"drawn", "cancelled", "over"} /\ (row[m] = "drawn" => j = "create")
    BY <1>1, <1>2 DEF PhaseInv, Quiet, Row, Kind, Open
<1>4. \A i \in Kind \ {j} : job'[m][i] = job[m][i]
    BY DEF Others
<1>5. job'[m]["create"].step # "insert"
    <2>1. CASE j = "create"
        BY <2>1
    <2>2. CASE j # "create"
        BY <1>1, <1>3, <1>4, <2>2 DEF PhaseInv, Kind
    <2> QED BY <2>1, <2>2
<1>6. row[m] = "drawn" => \A i \in {"alloc", "ender", "tear"} : job'[m][i].step = "idle"
    BY <1>1, <1>3, <1>4 DEF PhaseInv, Quiet, Kind
<1> QED BY <1>3, <1>5, <1>6 DEF PhaseInv, Quiet, Open

\* A reservation is the match's, and takes nothing from another
LEMMA ReserveStep ==
    ASSUME TablesOK, SlotInv, NEW m \in Match, NEW s \in Slot, NEW k \in Token, Reserve(m, s, k)
    PROVE  /\ TablesOK' /\ SlotInv'
           /\ SlotsOf(m)' = SlotsOf(m) \cup {s} /\ TokensOf(m)' = TokensOf(m) \cup {k}
           /\ \A n \in Match \ {m} : SlotsOf(n)' = SlotsOf(n) /\ TokensOf(n)' = TokensOf(n)
<1>1. slot[s].match = None /\ token[k] = None /\ \A n \in Match : n # None
    BY NoneAssumption DEF Reserve, Reservable, FreeTokens, SlotInv
<1> DEFINE r == [status |-> "reserved", match |-> m]
<1>2. slot' = [slot EXCEPT ![s] = r] /\ token' = [token EXCEPT ![k] = m]
    BY DEF Reserve
<1>3. slot'[s] = r /\ (\A t \in Slot \ {s} : slot'[t] = slot[t]) /\ r.status = "reserved" /\ r.match = m
    BY <1>2 DEF TablesOK
<1>4. token'[k] = m /\ \A t \in Token \ {k} : token'[t] = token[t]
    BY <1>2 DEF TablesOK
<1>5. TablesOK'
    BY <1>2 DEF TablesOK
<1> HIDE DEF r
<1>6. SlotInv'
    BY <1>3 DEF SlotInv
<1>7. \A n \in Match : SlotsOf(n)' = IF n = m THEN SlotsOf(n) \cup {s} ELSE SlotsOf(n)
    BY <1>1, <1>3 DEF SlotsOf
<1>8. \A n \in Match : TokensOf(n)' = IF n = m THEN TokensOf(n) \cup {k} ELSE TokensOf(n)
    BY <1>1, <1>4 DEF TokensOf
<1> QED BY <1>5, <1>6, <1>7, <1>8

\* What the tables do not say
LEMMA WorldSame ==
    ASSUME UNCHANGED world
    PROVE  (WorldOK' <=> WorldOK) /\ \A n : ServersOf(n)' = ServersOf(n)
BY DEF world, WorldOK, ServersOf

-----------------------------------------------------------------------------
\* createTournamentMatch reserves, allocator.ts 214-268
LEMMA CreateReserveI ==
    ASSUME IInv, NEW m \in Match, CreateReserve(m)
    PROVE  IInv'
<1>1. PICK s \in Slot, k \in Token :
          Reserve(m, s, k) /\ Become(m, "create", [NoJob EXCEPT !.step = "insert", !.slot = s, !.token = k])
    BY DEF CreateReserve
<1> DEFINE new == [NoJob EXCEPT !.step = "insert", !.slot = s, !.token = k]
<1>2. new \in Job /\ new.step = "insert" /\ new.next = "idle"
    BY NoJobType DEF Job, Step, NoJob
<1>3. Become(m, "create", new)
    BY <1>1
<1> HIDE DEF new
<1>4. JobsOK' /\ job'[m]["create"] = new /\ Others(m, "create")
    <2>1. JobShape(new)
        BY <1>2 DEF JobShape
    <2> QED BY <1>2, <1>3, <2>1, BecomeStep DEF IInv, Kind
<1>5. /\ TablesOK' /\ SlotInv' /\ SlotsOf(m)' = SlotsOf(m) \cup {s} /\ TokensOf(m)' = TokensOf(m) \cup {k}
      /\ \A n \in Match \ {m} : SlotsOf(n)' = SlotsOf(n) /\ TokensOf(n)' = TokensOf(n)
    BY <1>1, ReserveStep DEF IInv
<1>6. row[m] = "none" /\ row' = [row EXCEPT ![m] = "drawn"] /\ UNCHANGED <<named, released, world>>
    BY DEF CreateReserve
<1>7. RowsOK' /\ row'[m] = "drawn" /\ \A n \in Match \ {m} : row'[n] = row[n]
    BY <1>6 DEF IInv, RowsOK, Row
<1>8. PhaseInv(m) /\ SlotsOf(m) = {} /\ Quiet(m, Kind)
    BY <1>6 DEF IInv, PhaseInv
<1>9. HasOne(m)'
    BY <1>5, <1>8 DEF HasOne
<1>10. Quiet(m, {"alloc", "ender", "tear"})'
    BY <1>4, <1>8 DEF Quiet, Others, Kind
<1>11. PhaseInv(m)'
    BY <1>7, <1>9, <1>10 DEF PhaseInv, Open
<1>12. WorldOK' /\ \A n : ServersOf(n)' = ServersOf(n)
    BY <1>6, WorldSame DEF IInv
<1>13. \A n \in Match \ {m} : Aside(n) /\ job'[n] = job[n]
    BY <1>4, <1>5, <1>7, <1>12 DEF Aside, Others
<1> QED BY <1>4, <1>5, <1>7, <1>11, <1>12, <1>13, OneMatch

\* Then it inserts the row, or gives the reservation back
LEMMA CreateInsertI ==
    ASSUME IInv, NEW m \in Match, CreateInsert(m)
    PROVE  IInv'
<1>1. /\ job[m]["create"].step = "insert" /\ row' = [row EXCEPT ![m] = "allocating"]
      /\ named' = [named EXCEPT ![m] = TRUE] /\ Done(m, "create") /\ UNCHANGED <<tables, released, world>>
    BY DEF CreateInsert, At
<1>2. PhaseInv(m) /\ row[m] = "drawn" /\ HasOne(m) /\ Quiet(m, {"alloc", "ender", "tear"})
    BY <1>1 DEF IInv, PhaseInv
<1>3. JobsOK' /\ job'[m]["create"] = NoJob /\ Others(m, "create")
    BY <1>1, DoneStep DEF IInv, Kind
<1>4. RowsOK' /\ row'[m] = "allocating" /\ \A n \in Match \ {m} : row'[n] = row[n]
    BY <1>1 DEF IInv, RowsOK, Row
<1>5. TablesOK' /\ SlotInv' /\ SlotsOf(m)' = SlotsOf(m) /\ TokensOf(m)' = TokensOf(m)
    BY <1>1, TablesSame DEF IInv
<1>6. Quiet(m, Kind)'
    BY <1>2, <1>3, NoJobType DEF Quiet, Others, Kind
<1>7. AllocInv(m, job[m]["alloc"])'
    <2>1. job'[m]["alloc"].step = "idle"
        BY <1>6 DEF Quiet, Kind
    <2> QED BY <1>2, <1>5, <2>1 DEF AllocInv, HasOne
<1>8. PhaseInv(m)'
    BY <1>4, <1>6, <1>7 DEF PhaseInv, Quiet, Kind
<1>9. WorldOK' /\ \A n : ServersOf(n)' = ServersOf(n)
    BY <1>1, WorldSame DEF IInv
<1>10. \A n \in Match \ {m} : Aside(n) /\ job'[n] = job[n]
    BY <1>1, <1>3, <1>4, <1>9, TablesAside DEF Others
<1> QED BY <1>3, <1>4, <1>5, <1>8, <1>9, <1>10, OneMatch

\* A row that could not be inserted
LEMMA CreateFailsI ==
    ASSUME IInv, NEW m \in Match, CreateFails(m)
    PROVE  IInv'
<1>1. /\ job[m]["create"].step = "insert" /\ Become(m, "create", Releasing(FALSE, "idle"))
      /\ UNCHANGED <<tables, rows, world>>
    BY DEF CreateFails, At
<1>2. PhaseInv(m) /\ row[m] = "drawn" /\ Quiet(m, {"alloc", "ender", "tear"})
    BY <1>1 DEF IInv, PhaseInv
<1>3. JobsOK' /\ job'[m]["create"] = Releasing(FALSE, "idle") /\ Others(m, "create")
    BY <1>1, ReleasingType, BecomeStep DEF IInv, Kind
<1>4. job'[m]["create"].step # "insert"
    BY <1>3, ReleasingType
<1>5. Quiet(m, {"alloc", "ender", "tear"})' /\ row'[m] = "drawn"
    BY <1>1, <1>2, <1>3 DEF Quiet, Others, Kind, rows
<1>6. PhaseInv(m)'
    BY <1>4, <1>5 DEF PhaseInv, Open
<1>7. WorldOK' /\ \A n : ServersOf(n)' = ServersOf(n)
    BY <1>1, WorldSame DEF IInv
<1> QED BY <1>1, <1>3, <1>6, <1>7, JobOnly DEF Kind

\* A match without a reservation comes to its allocation
LEMMA EnterAllocationI ==
    ASSUME IInv, NEW m \in Match, EnterAllocation(m)
    PROVE  IInv'
<1>1. /\ row[m] = "none" /\ row' = [row EXCEPT ![m] = "allocating"]
      /\ UNCHANGED <<tables, named, released, job, world>>
    BY DEF EnterAllocation
<1>2. PhaseInv(m) /\ SlotsOf(m) = {} /\ Quiet(m, Kind)
    BY <1>1 DEF IInv, PhaseInv
<1>3. RowsOK' /\ row'[m] = "allocating" /\ \A n \in Match \ {m} : row'[n] = row[n]
    BY <1>1 DEF IInv, RowsOK, Row
<1>4. TablesOK' /\ SlotInv' /\ SlotsOf(m)' = SlotsOf(m) /\ TokensOf(m)' = TokensOf(m)
    BY <1>1, TablesSame DEF IInv
<1>5. Quiet(m, Kind)'
    BY <1>1, <1>2 DEF Quiet
<1>6. AllocInv(m, job[m]["alloc"])'
    <2>1. job'[m]["alloc"].step = "idle"
        BY <1>5 DEF Quiet, Kind
    <2> QED BY <1>2, <1>4, <2>1 DEF AllocInv
<1>7. PhaseInv(m)'
    BY <1>3, <1>5, <1>6 DEF PhaseInv, Quiet, Kind
<1>8. WorldOK' /\ \A n : ServersOf(n)' = ServersOf(n)
    BY <1>1, WorldSame DEF IInv
<1>9. \A n \in Match \ {m} : Aside(n) /\ job'[n] = job[n]
    BY <1>1, <1>3, <1>8, TablesAside
<1>10. JobsOK'
    BY <1>1 DEF IInv, JobsOK
<1> QED BY <1>3, <1>4, <1>7, <1>8, <1>9, <1>10, OneMatch

-----------------------------------------------------------------------------
\* A step of the allocation that leaves the tables and asks for no more than that the slot is one
LEMMA AllocJob ==
    ASSUME IInv, NEW m \in Match, job[m]["alloc"].step # "idle", NEW new \in Job, JobShape(new), Become(m, "alloc", new),
           new.step \notin {"send", "posted", "mark", "store", "freeToken"},
           UNCHANGED <<tables, rows>>, WorldOK', \A n \in Match \ {m} : ServersOf(n)' \subseteq ServersOf(n)
    PROVE  IInv'
<1>1. JobsOK' /\ job'[m]["alloc"] = new /\ Others(m, "alloc")
    BY BecomeStep DEF IInv, Kind
<1>2. row[m] = "allocating" => AllocInv(m, job[m]["alloc"])
    BY AllocPhase
<1>3. AllocInv(m, job[m]["alloc"]) => AllocInv(m, job[m]["alloc"])'
    BY <1>1, TablesSame DEF AllocInv
<1>4. PhaseInv(m)'
    BY <1>1, <1>2, <1>3, AllocKeeps DEF rows
<1> QED BY <1>1, <1>4, JobOnly DEF Kind

\* The lease is taken
LEMMA BeginI ==
    ASSUME IInv, NEW m \in Match, Begin(m)
    PROVE  IInv'
<1>1. /\ job[m]["alloc"].step = "idle" /\ row[m] = "allocating" /\ UNCHANGED <<tables, rows, world>>
      /\ Become(m, "alloc", [NoJob EXCEPT !.step = "pick"])
    BY DEF Begin, At
<1> DEFINE new == [NoJob EXCEPT !.step = "pick"]
<1>2. new \in Job /\ new.step = "pick" /\ new.tries = 0
    BY NoJobType DEF NoJob, Job, Step
<1>3. JobsOK' /\ job'[m]["alloc"] = new /\ Others(m, "alloc")
    <2>1. Become(m, "alloc", new)
        BY <1>1
    <2> HIDE DEF new
    <2>2. JobShape(new)
        BY <1>2, SlotBounds DEF JobShape
    <2> QED BY <1>2, <2>1, <2>2, BecomeStep DEF IInv, Kind
<1> HIDE DEF new
<1>4. PhaseInv(m) /\ AllocInv(m, job[m]["alloc"]) /\ Quiet(m, {"create", "ender", "tear"})
    BY <1>1 DEF IInv, PhaseInv, Open
<1>5. AllocInv(m, job[m]["alloc"])'
    BY <1>1, <1>2, <1>3, <1>4, TablesSame DEF AllocInv
<1>6. PhaseInv(m)'
    BY <1>1, <1>3, <1>4, <1>5 DEF PhaseInv, Quiet, Others, Kind, rows
<1>7. WorldOK' /\ \A n : ServersOf(n)' = ServersOf(n)
    BY <1>1, WorldSame DEF IInv
<1> QED BY <1>1, <1>3, <1>6, <1>7, JobOnly DEF Kind

\* The job that has picked
LEMMA PickedType ==
    ASSUME IInv, NEW m \in Match, job[m]["alloc"].step = "pick", NEW s \in Slot, NEW k \in Token
    PROVE  /\ Picked(m, s, k) \in Job /\ JobShape(Picked(m, s, k))
           /\ Picked(m, s, k).step = "send" /\ Picked(m, s, k).slot = s /\ Picked(m, s, k).token = k
<1>1. job[m]["alloc"] \in Job /\ JobShape(job[m]["alloc"])
    BY DEF IInv, JobsOK, Kind
<1>2. /\ Picked(m, s, k) \in Job
      /\ Picked(m, s, k).step = "send" /\ Picked(m, s, k).slot = s /\ Picked(m, s, k).token = k
      /\ Picked(m, s, k).tries = job[m]["alloc"].tries
    BY <1>1 DEF Picked, Job, Step
<1> QED BY <1>1, <1>2 DEF JobShape

\* What an earlier attempt or the tournament reserved
LEMMA PickOwnI ==
    ASSUME IInv, NEW m \in Match, PickOwn(m)
    PROVE  IInv'
<1>1. job[m]["alloc"].step = "pick" /\ UNCHANGED <<tables, rows, world>>
    BY DEF PickOwn, At
<1>2. PICK s \in SlotsOf(m), k \in TokensOf(m) : Become(m, "alloc", Picked(m, s, k))
    BY DEF PickOwn
<1>3. s \in Slot /\ k \in Token
    BY DEF SlotsOf, TokensOf
<1>4. JobsOK' /\ job'[m]["alloc"] = Picked(m, s, k) /\ Others(m, "alloc")
    BY <1>1, <1>2, <1>3, PickedType, BecomeStep DEF IInv, Kind
<1>5. row[m] = "allocating" => AllocInv(m, job[m]["alloc"])
    BY <1>1, AllocPhase
<1>6. AllocInv(m, job[m]["alloc"]) => AllocInv(m, job[m]["alloc"])'
    BY <1>1, <1>3, <1>4, PickedType, TablesSame DEF AllocInv
<1>7. PhaseInv(m)'
    BY <1>1, <1>4, <1>5, <1>6, AllocKeeps DEF rows
<1>8. WorldOK' /\ \A n : ServersOf(n)' = ServersOf(n)
    BY <1>1, WorldSame DEF IInv
<1> QED BY <1>1, <1>4, <1>7, <1>8, JobOnly DEF Kind

\* A new reservation, for a match that has none: with a slot it would have a token too
LEMMA PickNewI ==
    ASSUME IInv, NEW m \in Match, PickNew(m)
    PROVE  IInv'
<1>1. job[m]["alloc"].step = "pick" /\ UNCHANGED <<rows, world>> /\ (SlotsOf(m) = {} \/ TokensOf(m) = {})
    BY DEF PickNew, PickNew_Always, At
<1>2. PICK s \in Slot, k \in Token : Reserve(m, s, k) /\ Become(m, "alloc", Picked(m, s, k))
    BY DEF PickNew, PickNew_Always
<1>3. JobsOK' /\ job'[m]["alloc"] = Picked(m, s, k) /\ Others(m, "alloc")
    BY <1>1, <1>2, PickedType, BecomeStep DEF IInv, Kind
<1>4. /\ TablesOK' /\ SlotInv' /\ SlotsOf(m)' = SlotsOf(m) \cup {s} /\ TokensOf(m)' = TokensOf(m) \cup {k}
      /\ \A n \in Match \ {m} : SlotsOf(n)' = SlotsOf(n) /\ TokensOf(n)' = TokensOf(n)
    BY <1>2, ReserveStep DEF IInv
<1>5. row[m] = "allocating" => SlotsOf(m) = {}
    BY <1>1, AllocPhase DEF AllocInv
<1>6. SlotsOf(m) = {} => AllocInv(m, job[m]["alloc"])'
    BY <1>1, <1>3, <1>4, PickedType DEF AllocInv
<1>7. PhaseInv(m)'
    BY <1>1, <1>3, <1>5, <1>6, AllocKeeps DEF rows
<1>8. WorldOK' /\ (\A n : ServersOf(n)' = ServersOf(n)) /\ row' = row /\ RowsOK'
    BY <1>1, WorldSame DEF IInv, RowsOK, rows
<1>9. \A n \in Match \ {m} : Aside(n) /\ job'[n] = job[n]
    BY <1>3, <1>4, <1>8 DEF Aside, Others
<1> QED BY <1>3, <1>4, <1>7, <1>8, <1>9, OneMatch

\* The match waits for a later tick
LEMMA PickNoneI ==
    ASSUME IInv, NEW m \in Match, PickNone(m)
    PROVE  IInv'
<1>1. job[m]["alloc"].step = "pick" /\ UNCHANGED <<tables, rows, world>> /\ Become(m, "alloc", NoJob)
    BY DEF PickNone, At, Done
<1>2. WorldOK' /\ \A n : ServersOf(n)' = ServersOf(n)
    BY <1>1, WorldSame DEF IInv
<1> QED BY <1>1, <1>2, NoJobType, AllocJob

\* The start is posted to the host of the slot
LEMMA SendI ==
    ASSUME IInv, NEW m \in Match, Send(m)
    PROVE  IInv'
<1>1. job[m]["alloc"].step = "send" /\ UNCHANGED <<tables, rows, world>>
    BY DEF Send, At
<1>2. WorldOK' /\ \A n : ServersOf(n)' = ServersOf(n)
    BY <1>1, WorldSame DEF IInv
<1>3. CASE Become(m, "alloc", Releasing(TRUE, "idle"))
    BY <1>1, <1>2, <1>3, ReleasingType, AllocJob
<1>4. ASSUME NEW h \in HostsOf(m), Become(m, "alloc", [job[m]["alloc"] EXCEPT !.step = "posted", !.host = h])
      PROVE  IInv'
    <2> DEFINE new == [job[m]["alloc"] EXCEPT !.step = "posted", !.host = h]
    <2>1. h \in Host
        BY HostOfAssumption DEF HostsOf, SlotsOf
    <2>2. job[m]["alloc"] \in Job /\ JobShape(job[m]["alloc"])
        BY DEF IInv, JobsOK, Kind
    <2>3. /\ new \in Job /\ new.step = "posted" /\ new.host = h /\ new.slot = job[m]["alloc"].slot
          /\ new.token = job[m]["alloc"].token /\ new.tries = job[m]["alloc"].tries /\ new.next = job[m]["alloc"].next
        BY <2>1, <2>2 DEF Job, Step
    <2>4. Become(m, "alloc", new)
        BY <1>4
    <2> HIDE DEF new
    <2>5. JobShape(new)
        BY <1>1, <2>1, <2>2, <2>3 DEF JobShape
    <2>6. JobsOK' /\ job'[m]["alloc"] = new /\ Others(m, "alloc")
        BY <2>3, <2>4, <2>5, BecomeStep DEF IInv, Kind
    <2>7. row[m] = "allocating" => AllocInv(m, job[m]["alloc"])
        BY <1>1, AllocPhase
    <2>8. AllocInv(m, job[m]["alloc"]) => h = HostOf[new.slot]
        BY <1>1, <2>3 DEF AllocInv, HostsOf
    <2>9. AllocInv(m, job[m]["alloc"]) => AllocInv(m, job[m]["alloc"])'
        BY <1>1, <2>3, <2>6, <2>8, TablesSame DEF AllocInv
    <2>10. PhaseInv(m)'
        BY <1>1, <2>6, <2>7, <2>9, AllocKeeps DEF rows
    <2> QED BY <1>1, <1>2, <2>6, <2>10, JobOnly DEF Kind
<1> QED BY <1>3, <1>4 DEF Send

\* The agent starts a server where none of the match runs
LEMMA AgentStartsI ==
    ASSUME IInv, NEW m \in Match, AgentStarts(m)
    PROVE  IInv'
<1> DEFINE a == job[m]["alloc"]
           new == [NoJob EXCEPT !.step = "mark", !.slot = a.slot]
<1>1. /\ a.step = "posted" /\ ~Duplicate(m) /\ servers' = servers \cup {Launched(m)} /\ Become(m, "alloc", new)
      /\ UNCHANGED <<tables, rows, online, stopFails, crashes>>
    BY DEF AgentStarts, Posted, At
<1>2. a \in Job /\ JobShape(a)
    BY DEF IInv, JobsOK, Kind
<1>3. a.slot \in Slot /\ a.token \in Token /\ a.host \in Host
    BY <1>1, <1>2 DEF JobShape
<1>4. new \in Job /\ new.step = "mark" /\ new.slot = a.slot /\ new.next = "idle"
    BY <1>3, NoJobType DEF NoJob, Job, Step
<1> HIDE DEF new
<1>5. JobsOK' /\ job'[m]["alloc"] = new /\ Others(m, "alloc")
    <2>1. JobShape(new)
        BY <1>3, <1>4 DEF JobShape
    <2> QED BY <1>1, <1>4, <2>1, BecomeStep DEF IInv, Kind
<1>6. Launched(m) \in Server /\ Launched(m).match = m /\ Launched(m).host = a.host /\ Launched(m).token = a.token
    BY <1>3 DEF Launched, Server
<1>7. WorldOK' /\ \A n \in Match \ {m} : ServersOf(n)' \subseteq ServersOf(n)
    BY <1>1, <1>6 DEF IInv, WorldOK, ServersOf
<1>8. row[m] = "allocating" => AllocInv(m, a)
    BY <1>1, AllocPhase
<1>9. ASSUME AllocInv(m, a)
      PROVE  AllocInv(m, job[m]["alloc"])'
    <2>1. a.slot \in SlotsOf(m) /\ a.token \in TokensOf(m) /\ a.host = HostOf[a.slot] /\ \A s, t \in SlotsOf(m) : s = t
        BY <1>1, <1>9 DEF AllocInv
    <2>2. HasOne(m)
        BY <1>3, <2>1 DEF HasOne
    <2>3. HostsOf(m) = {a.host}
        BY <2>1 DEF HostsOf
    <2>4. Owned(m)'
        <3>1. \A v \in ServersOf(m)' : v = Launched(m) \/ v.host # a.host
            BY <1>1 DEF ServersOf, Duplicate
        <3> QED BY <1>1, <1>6, <2>1, <2>3, <3>1, TablesSame DEF Owned
    <2> QED BY <1>1, <1>4, <1>5, <1>9, <2>1, <2>2, <2>4, TablesSame DEF AllocInv
<1>10. PhaseInv(m)'
    BY <1>1, <1>5, <1>8, <1>9, AllocKeeps DEF rows
<1> QED BY <1>1, <1>5, <1>7, <1>10, JobOnly DEF Kind

\* It refuses, or answers too late
LEMMA AgentFailsI ==
    ASSUME IInv, NEW m \in Match, AgentFails(m)
    PROVE  IInv'
<1>1. /\ job[m]["alloc"].step = "posted" /\ Become(m, "alloc", Releasing(TRUE, "idle"))
      /\ UNCHANGED <<tables, rows, online, stopFails, crashes>>
      /\ servers' = servers \/ servers' = servers \cup {Launched(m)}
    BY DEF AgentFails, Posted, At
<1>2. Launched(m) \in Server /\ Launched(m).match = m
    BY <1>1 DEF Launched, Server, IInv, JobsOK, JobShape, Kind
<1>3. WorldOK' /\ \A n \in Match \ {m} : ServersOf(n)' \subseteq ServersOf(n)
    BY <1>1, <1>2 DEF IInv, WorldOK, ServersOf
<1> QED BY <1>1, <1>3, ReleasingType, AllocJob

\* It is busy: the host is taken out, and another one is tried
LEMMA AgentBusyI ==
    ASSUME IInv, NEW m \in Match, AgentBusy(m)
    PROVE  IInv'
<1> DEFINE a == job[m]["alloc"]
           tries == a.tries + 1
           next == IF tries < MaxHostTries THEN "pick" ELSE "idle"
           new == [Releasing(FALSE, next) EXCEPT !.tries = tries]
<1>1. /\ a.step = "posted" /\ online' = [online EXCEPT ![HostOf[a.slot]] = FALSE] /\ Become(m, "alloc", new)
      /\ UNCHANGED <<tables, rows, servers, stopFails, crashes>>
    BY DEF AgentBusy, BusyOn, Posted, At
<1>2. a \in Job /\ a.tries < MaxHostTries /\ a.slot \in Slot
    BY <1>1 DEF IInv, JobsOK, JobShape, Kind
<1>3. tries \in 0..MaxHostTries /\ next \in {"pick", "idle"} /\ (next = "pick" => tries < MaxHostTries)
    BY <1>2, SlotBounds DEF Job
<1> HIDE DEF tries, next
<1>4. new \in Job /\ new.step = "freeSlot" /\ new.tries = tries /\ new.next = next
    BY <1>3, NoJobType DEF Releasing, NoJob, Job, Step
<1> HIDE DEF new
<1>5. JobShape(new)
    BY <1>3, <1>4 DEF JobShape
<1>6. WorldOK' /\ \A n \in Match \ {m} : ServersOf(n)' \subseteq ServersOf(n)
    BY <1>1, <1>2, HostOfAssumption DEF IInv, WorldOK, ServersOf
<1> QED BY <1>1, <1>4, <1>5, <1>6, AllocJob

\* The slot is marked, whoever it names
LEMMA MarkI ==
    ASSUME IInv, NEW m \in Match, Mark(m)
    PROVE  IInv'
<1> DEFINE a == job[m]["alloc"]
           new == [NoJob EXCEPT !.step = "store"]
<1>1. /\ a.step = "mark" /\ slot' = [slot EXCEPT ![a.slot].status = "running"] /\ Become(m, "alloc", new)
      /\ UNCHANGED <<token, rows, world>>
    BY DEF Mark, At
<1>2. a.slot \in Slot
    BY <1>1 DEF IInv, JobsOK, JobShape, Kind
<1>3. new \in Job /\ new.step = "store" /\ new.next = "idle"
    BY NoJobType DEF NoJob, Job, Step
<1> HIDE DEF new
<1>4. JobsOK' /\ job'[m]["alloc"] = new /\ Others(m, "alloc")
    <2>1. JobShape(new)
        BY <1>3 DEF JobShape
    <2> QED BY <1>1, <1>3, <2>1, BecomeStep DEF IInv, Kind
<1>5. \A s \in Slot : slot'[s].match = slot[s].match /\ (slot'[s].status = slot[s].status \/ slot'[s].status = "running")
    BY <1>1, <1>2 DEF IInv, TablesOK
<1>6. TablesOK' /\ SlotInv'
    BY <1>1, <1>2, <1>5 DEF IInv, TablesOK, SlotInv
<1>7. \A n : SlotsOf(n)' = SlotsOf(n) /\ TokensOf(n)' = TokensOf(n)
    BY <1>1, <1>5 DEF SlotsOf, TokensOf
<1>8. WorldOK' /\ (\A n : ServersOf(n)' = ServersOf(n)) /\ RowsOK' /\ row' = row
    BY <1>1, WorldSame DEF IInv, rows, RowsOK
<1>9. row[m] = "allocating" => AllocInv(m, a)
    BY <1>1, AllocPhase
<1>10. AllocInv(m, a) => AllocInv(m, job[m]["alloc"])'
    <2>1. HasOne(m)' <=> HasOne(m)
        BY <1>7 DEF HasOne
    <2>2. Owned(m)' <=> Owned(m)
        BY <1>7, <1>8 DEF Owned, HostsOf
    <2> QED BY <1>1, <1>3, <1>4, <1>7, <2>1, <2>2 DEF AllocInv
<1>11. PhaseInv(m)'
    BY <1>1, <1>4, <1>8, <1>9, <1>10, AllocKeeps
<1>12. \A n \in Match \ {m} : Aside(n) /\ job'[n] = job[n]
    BY <1>4, <1>7, <1>8 DEF Aside, Others
<1> QED BY <1>4, <1>6, <1>8, <1>11, <1>12, OneMatch

\* The row names the host, or the match ended meanwhile
LEMMA StoreI ==
    ASSUME IInv, NEW m \in Match, Store(m)
    PROVE  IInv'
<1>1. job[m]["alloc"].step = "store" /\ UNCHANGED <<tables, released, world>>
    BY DEF Store, At
<1>2. WorldOK' /\ \A n : ServersOf(n)' = ServersOf(n)
    BY <1>1, WorldSame DEF IInv
<1>3. CASE row[m] = "allocating"
    <2>1. row' = [row EXCEPT ![m] = "serving"] /\ named' = [named EXCEPT ![m] = TRUE] /\ Done(m, "alloc")
        BY <1>3 DEF Store, Serve
    <2>2. JobsOK' /\ job'[m]["alloc"] = NoJob /\ Others(m, "alloc")
        BY <2>1, DoneStep DEF IInv, Kind
    <2>3. RowsOK' /\ row'[m] = "serving" /\ \A n \in Match \ {m} : row'[n] = row[n]
        BY <1>1, <2>1 DEF IInv, RowsOK, Row
    <2>4. TablesOK' /\ SlotInv' /\ (HasOne(m) => HasOne(m)') /\ (Owned(m) => Owned(m)')
        BY <1>1, <1>2, TablesSame DEF IInv, Owned
    <2>5. HasOne(m) /\ Owned(m) /\ Quiet(m, {"create", "ender", "tear"}) /\ job[m]["create"].step = "idle"
        BY <1>1, <1>3, AllocPhase DEF AllocInv, Quiet
    <2>6. Quiet(m, Kind)'
        BY <2>2, <2>5, NoJobType DEF Quiet, Others, Kind
    <2>7. PhaseInv(m)'
        BY <2>3, <2>4, <2>5, <2>6 DEF PhaseInv, Quiet, Kind
    <2>8. \A n \in Match \ {m} : Aside(n) /\ job'[n] = job[n]
        BY <1>1, <1>2, <2>2, <2>3, TablesAside DEF Others
    <2> QED BY <1>2, <2>2, <2>3, <2>4, <2>7, <2>8, OneMatch
<1>4. CASE row[m] # "allocating"
    <2>1. Become(m, "alloc", Releasing(TRUE, "idle")) /\ UNCHANGED <<tables, rows>>
        BY <1>1, <1>4 DEF Store, rows
    <2> QED BY <1>1, <1>2, <2>1, ReleasingType, AllocJob
<1> QED BY <1>3, <1>4

-----------------------------------------------------------------------------
\* A step of a release, by any call, that frees nothing: it may stop the server of its match
LEMMA ReleaseJob ==
    ASSUME IInv, NEW m \in Match, NEW j \in Kind, job[m][j].step \in {"lookup", "stopping"},
           NEW new \in Job, JobShape(new), Become(m, j, new), new.step \in {"freeSlot", "stopping"},
           UNCHANGED <<tables, rows>>, WorldOK', \A n \in Match \ {m} : ServersOf(n)' \subseteq ServersOf(n)
    PROVE  IInv'
<1>1. CASE j = "alloc"
    BY <1>1, AllocJob
<1>2. CASE j # "alloc"
    <2>1. JobsOK' /\ job'[m][j] = new /\ Others(m, j)
        BY BecomeStep DEF IInv
    <2>2. PhaseInv(m)'
        BY <1>2, <2>1, ReleaseKeeps DEF rows
    <2> QED BY <2>1, <2>2, JobOnly
<1> QED BY <1>1, <1>2

\* The host of the slot that names the match
LEMMA LookupI ==
    ASSUME IInv, NEW m \in Match, NEW j \in Kind, Lookup(m, j)
    PROVE  IInv'
<1>1. job[m][j].step = "lookup" /\ UNCHANGED <<tables, rows, world>>
    BY DEF Lookup, At
<1>2. job[m][j] \in Job /\ JobShape(job[m][j])
    BY DEF IInv, JobsOK
<1>3. WorldOK' /\ \A n : ServersOf(n)' = ServersOf(n)
    BY <1>1, WorldSame DEF IInv
<1>4. CASE Go(m, j, "freeSlot")
    <2> DEFINE new == [job[m][j] EXCEPT !.step = "freeSlot"]
    <2>1. new \in Job /\ new.step = "freeSlot" /\ new.next = job[m][j].next /\ new.tries = job[m][j].tries
        BY <1>2 DEF Job, Step
    <2>2. Become(m, j, new)
        BY <1>4 DEF Go, Become, IInv, JobsOK
    <2> HIDE DEF new
    <2>3. JobShape(new)
        BY <1>2, <2>1 DEF JobShape
    <2> QED BY <1>1, <1>3, <2>1, <2>2, <2>3, ReleaseJob
<1>5. ASSUME NEW h \in HostsOf(m), Become(m, j, [job[m][j] EXCEPT !.step = "stopping", !.host = h])
      PROVE  IInv'
    <2> DEFINE new == [job[m][j] EXCEPT !.step = "stopping", !.host = h]
    <2>1. h \in Host
        BY HostOfAssumption DEF HostsOf, SlotsOf
    <2>2. new \in Job /\ new.step = "stopping" /\ new.next = job[m][j].next /\ new.tries = job[m][j].tries
          /\ new.host = h
        BY <1>2, <2>1 DEF Job, Step
    <2>3. Become(m, j, new)
        BY <1>5
    <2> HIDE DEF new
    <2>4. JobShape(new)
        BY <1>2, <2>1, <2>2 DEF JobShape
    <2> QED BY <1>1, <1>3, <2>2, <2>3, <2>4, ReleaseJob
<1> QED BY <1>4, <1>5 DEF Lookup

\* The server there is stopped, or the stop fails
LEMMA StopI ==
    ASSUME IInv, NEW m \in Match, NEW j \in Kind, StopServer(m, j) \/ StopFails(m, j)
    PROVE  IInv'
<1> DEFINE new == [job[m][j] EXCEPT !.step = "freeSlot", !.host = None]
<1>1. job[m][j].step = "stopping" /\ Become(m, j, new) /\ UNCHANGED <<tables, rows>>
    BY DEF StopServer, StopFails, At
<1>2. job[m][j] \in Job /\ JobShape(job[m][j])
    BY DEF IInv, JobsOK
<1>3. new \in Job /\ new.step = "freeSlot" /\ new.next = job[m][j].next /\ new.tries = job[m][j].tries
    BY <1>2 DEF Job, Step
<1> HIDE DEF new
<1>4. JobShape(new)
    BY <1>2, <1>3 DEF JobShape
<1>5. WorldOK' /\ \A n \in Match : ServersOf(n)' \subseteq ServersOf(n)
    <2>1. CASE StopServer(m, j)
        <3>1. servers' \subseteq servers /\ UNCHANGED <<online, stopFails, crashes>>
            BY <2>1 DEF StopServer
        <3> QED BY <3>1 DEF IInv, WorldOK, ServersOf
    <2>2. CASE StopFails(m, j)
        <3>1. stopFails' \in 0..StopFailures /\ UNCHANGED <<online, servers, crashes>>
            BY <2>2, SlotBounds DEF StopFails, IInv, WorldOK
        <3> QED BY <3>1 DEF IInv, WorldOK, ServersOf
    <2> QED BY <2>1, <2>2
<1> QED BY <1>1, <1>3, <1>4, <1>5, ReleaseJob

\* The slots that name the match, whichever they are by now
LEMMA FreeSlotI ==
    ASSUME IInv, NEW m \in Match, NEW j \in Kind, FreeSlot(m, j)
    PROVE  IInv'
<1>1. /\ job[m][j].step = "freeSlot" /\ slot' = [s \in Slot |-> IF s \in SlotsOf(m) THEN Free ELSE slot[s]]
      /\ Go(m, j, "freeToken") /\ UNCHANGED <<token, rows, world>>
    BY DEF FreeSlot, At
<1>2. job[m][j] \in Job /\ JobShape(job[m][j])
    BY DEF IInv, JobsOK
<1>3. JobsOK' /\ job'[m][j].step = "freeToken" /\ Others(m, j)
    <2>1. JobShape([job[m][j] EXCEPT !.step = "freeToken"])
        BY <1>2 DEF JobShape, Job
    <2> QED BY <1>1, <2>1, GoStep DEF IInv, Step
<1>4. Free.status = "free" /\ Free.match = None /\ Free \in [status : {"free", "reserved", "running"}, match : Match \cup {None}]
    BY DEF Free
<1>5. TablesOK' /\ SlotInv'
    BY <1>1, <1>4 DEF IInv, TablesOK, SlotInv
<1>6. SlotsOf(m)' = {} /\ (\A n \in Match \ {m} : SlotsOf(n)' = SlotsOf(n)) /\ \A n : TokensOf(n)' = TokensOf(n)
    <2>1. \A n \in Match : n # None
        BY NoneAssumption
    <2>2. \A s \in Slot : slot'[s] = IF slot[s].match = m THEN Free ELSE slot[s]
        BY <1>1 DEF SlotsOf
    <2> QED BY <1>1, <1>4, <2>1, <2>2 DEF SlotsOf, TokensOf
<1>7. PhaseInv(m)'
    <2>1. CASE j = "alloc"
        <3>1. AllocInv(m, job[m]["alloc"])'
            BY <1>3, <1>6, <2>1 DEF AllocInv
        <3> QED BY <1>1, <1>3, <2>1, <3>1, AllocKeeps DEF rows
    <2>2. CASE j # "alloc"
        BY <1>1, <1>3, <2>2, ReleaseKeeps DEF rows
    <2> QED BY <2>1, <2>2
<1>8. WorldOK' /\ (\A n : ServersOf(n)' = ServersOf(n)) /\ RowsOK' /\ row' = row
    BY <1>1, WorldSame DEF IInv, rows, RowsOK
<1>9. \A n \in Match \ {m} : Aside(n) /\ job'[n] = job[n]
    BY <1>3, <1>6, <1>8 DEF Aside, Others
<1> QED BY <1>3, <1>5, <1>7, <1>8, <1>9, OneMatch

\* Then the tokens, and the call goes on where it has to
LEMMA FreeTokenI ==
    ASSUME IInv, NEW m \in Match, NEW j \in Kind, FreeToken(m, j)
    PROVE  IInv'
<1>1. /\ job[m][j].step = "freeToken" /\ token' = [k \in Token |-> IF k \in TokensOf(m) THEN None ELSE token[k]]
      /\ UNCHANGED <<slot, rows, world>>
    BY DEF FreeToken, At
<1>2. job[m][j] \in Job /\ JobShape(job[m][j])
    BY DEF IInv, JobsOK
<1>3. JobsOK' /\ job'[m][j].step \in {"idle", "pick", "stamp"} /\ Others(m, j)
    <2>1. CASE job[m][j].next = "idle"
        BY <1>1, <2>1, DoneStep, NoJobType DEF FreeToken, IInv
    <2>2. CASE job[m][j].next # "idle"
        <3>1. job[m][j].next \in {"pick", "stamp"} /\ Go(m, j, job[m][j].next)
            BY <1>2, <2>2 DEF FreeToken, Job
        <3>2. JobShape([job[m][j] EXCEPT !.step = job[m][j].next])
            BY <1>2, <3>1 DEF JobShape, Job
        <3> QED BY <3>1, <3>2, GoStep DEF IInv, Step
    <2> QED BY <2>1, <2>2
<1>4. TablesOK' /\ SlotInv'
    BY <1>1 DEF IInv, TablesOK, SlotInv
<1>5. (\A n : SlotsOf(n)' = SlotsOf(n)) /\ \A n \in Match \ {m} : TokensOf(n)' = TokensOf(n)
    <2>1. \A n \in Match : n # None
        BY NoneAssumption
    <2>2. \A k \in Token : token'[k] = IF token[k] = m THEN None ELSE token[k]
        BY <1>1 DEF TokensOf
    <2> QED BY <1>1, <2>1, <2>2 DEF SlotsOf, TokensOf
<1>6. PhaseInv(m)'
    <2>1. CASE j = "alloc"
        <3>1. row[m] = "allocating" => SlotsOf(m) = {}
            BY <1>1, <2>1, AllocPhase DEF AllocInv
        <3>2. SlotsOf(m) = {} => AllocInv(m, job[m]["alloc"])'
            BY <1>3, <1>5, <2>1 DEF AllocInv
        <3> QED BY <1>1, <1>3, <2>1, <3>1, <3>2, AllocKeeps DEF rows
    <2>2. CASE j # "alloc"
        BY <1>1, <1>3, <2>2, ReleaseKeeps DEF rows
    <2> QED BY <2>1, <2>2
<1>7. WorldOK' /\ (\A n : ServersOf(n)' = ServersOf(n)) /\ RowsOK' /\ row' = row
    BY <1>1, WorldSame DEF IInv, rows, RowsOK
<1>8. \A n \in Match \ {m} : Aside(n) /\ job'[n] = job[n]
    BY <1>3, <1>5, <1>7 DEF Aside, Others
<1> QED BY <1>3, <1>4, <1>6, <1>7, <1>8, OneMatch

\* serverReleasedAt
LEMMA StampI ==
    ASSUME IInv, NEW m \in Match, NEW j \in Kind, Stamp(m, j)
    PROVE  IInv'
<1>1. /\ job[m][j].step = "stamp" /\ released' = [released EXCEPT ![m] = TRUE] /\ Done(m, j)
      /\ UNCHANGED <<tables, row, named, world>>
    BY DEF Stamp, At
<1>2. JobsOK' /\ job'[m][j] = NoJob /\ Others(m, j)
    BY <1>1, DoneStep DEF IInv
<1>3. TablesOK' /\ SlotInv' /\ RowsOK'
    BY <1>1, TablesSame DEF IInv, RowsOK
<1>4. PhaseInv(m)'
    <2>1. CASE j = "alloc"
        <3>1. row[m] = "allocating" => AllocInv(m, job[m]["alloc"])
            BY <1>1, <2>1, AllocPhase
        <3>2. AllocInv(m, job[m]["alloc"]) => AllocInv(m, job[m]["alloc"])'
            BY <1>1, <1>2, <2>1, NoJobType, TablesSame DEF AllocInv
        <3> QED BY <1>1, <1>2, <2>1, <3>1, <3>2, AllocKeeps
    <2>2. CASE j # "alloc"
        BY <1>1, <1>2, <2>2, NoJobType, ReleaseKeeps
    <2> QED BY <2>1, <2>2
<1>5. WorldOK' /\ \A n : ServersOf(n)' = ServersOf(n)
    BY <1>1, WorldSame DEF IInv
<1>6. \A n \in Match \ {m} : Aside(n) /\ job'[n] = job[n]
    BY <1>1, <1>2, <1>5, TablesAside DEF Others
<1> QED BY <1>2, <1>3, <1>4, <1>5, <1>6, OneMatch

-----------------------------------------------------------------------------
\* The match closes, with a release or without
LEMMA CloseI ==
    ASSUME IInv, NEW m \in Match, NEW how \in {"cancelled", "over"}, NEW release \in BOOLEAN, Open(m),
           Close(m, how, release)
    PROVE  IInv'
<1>1. row' = [row EXCEPT ![m] = how] /\ UNCHANGED <<tables, named, released, world>>
    BY DEF Close
<1>2. RowsOK' /\ row'[m] = how /\ \A n \in Match \ {m} : row'[n] = row[n]
    BY <1>1 DEF IInv, RowsOK, Row
<1>3. JobsOK' /\ job'[m]["create"] = job[m]["create"] /\ \A n \in Match \ {m} : job'[n] = job[n]
    <2>1. CASE release
        <3>1. Become(m, "ender", Releasing(TRUE, "stamp"))
            BY <2>1 DEF Close
        <3>2. JobsOK' /\ Others(m, "ender")
            BY <3>1, ReleasingType, BecomeStep DEF IInv, Kind
        <3> QED BY <3>2 DEF Others, Kind
    <2>2. CASE ~release
        BY <2>2 DEF Close, IInv, JobsOK
    <2> QED BY <2>1, <2>2
<1>4. PhaseInv(m)'
    <2>1. job[m]["create"].step = "idle"
        BY DEF IInv, PhaseInv, Quiet
    <2> QED BY <1>2, <1>3, <2>1 DEF PhaseInv, Open
<1>5. TablesOK' /\ SlotInv'
    BY <1>1, TablesSame DEF IInv
<1>6. WorldOK' /\ \A n : ServersOf(n)' = ServersOf(n)
    BY <1>1, WorldSame DEF IInv
<1>7. \A n \in Match \ {m} : Aside(n) /\ job'[n] = job[n]
    BY <1>1, <1>2, <1>3, <1>6, TablesAside
<1> QED BY <1>2, <1>3, <1>4, <1>5, <1>6, <1>7, OneMatch

\* The teardown of a match that is closed
LEMMA TearI ==
    ASSUME IInv, NEW m \in Match, Tear(m)
    PROVE  IInv'
<1>1. /\ job[m]["tear"].step = "idle" /\ row[m] \in {"cancelled", "over"}
      /\ Become(m, "tear", Releasing(TRUE, "stamp")) /\ UNCHANGED <<tables, rows, world>>
    BY DEF Tear, TearWhen, At
<1>2. JobsOK' /\ Others(m, "tear")
    BY <1>1, ReleasingType, BecomeStep DEF IInv, Kind
<1>3. PhaseInv(m)'
    <2>1. job'[m]["create"].step # "insert"
        BY <1>1, <1>2 DEF IInv, PhaseInv, Others, Kind
    <2> QED BY <1>1, <2>1 DEF PhaseInv, Open, rows
<1>4. WorldOK' /\ \A n : ServersOf(n)' = ServersOf(n)
    BY <1>1, WorldSame DEF IInv
<1> QED BY <1>1, <1>2, <1>3, <1>4, JobOnly DEF Kind

\* What concerns no match: a host comes or goes, a server ends, nothing happens
LEMMA WorldStep ==
    ASSUME IInv, UNCHANGED <<tables, rows, job>>, WorldOK', \A n \in Match : ServersOf(n)' \subseteq ServersOf(n)
    PROVE  IInv'
<1>1. TablesOK' /\ SlotInv' /\ RowsOK' /\ JobsOK'
    BY TablesSame DEF IInv, rows, RowsOK, JobsOK
<1>2. \A n \in Match : Aside(n) /\ job'[n] = job[n]
    BY TablesAside DEF rows
<1>3. \A n \in Match : PhaseInv(n)'
    BY <1>2, AsideKeeps DEF IInv
<1> QED BY <1>1, <1>3 DEF IInv

\* The API dies, and with it all calls
LEMMA CrashI ==
    ASSUME IInv, Crash
    PROVE  IInv'
<1>1. /\ crashes' \in 0..MaxCrashes /\ UNCHANGED <<tables, rows, online, servers, stopFails>>
      /\ \A n \in Match, j \in Kind : job'[n][j] = NoJob
    BY SlotBounds DEF Crash, IInv, WorldOK
<1>2. JobsOK'
    BY NoJobType DEF Crash, JobsOK
<1>3. TablesOK' /\ SlotInv' /\ RowsOK'
    BY <1>1, TablesSame DEF IInv, rows, RowsOK
<1>4. WorldOK' /\ (\A n : ServersOf(n)' = ServersOf(n)) /\ row' = row
    BY <1>1 DEF IInv, WorldOK, ServersOf, rows
<1>5. ASSUME NEW n \in Match PROVE PhaseInv(n)'
    <2>1. PhaseInv(n) /\ Quiet(n, Kind)'
        BY <1>1, NoJobType DEF IInv, Quiet
    <2>2. SlotsOf(n)' = SlotsOf(n) /\ TokensOf(n)' = TokensOf(n) /\ HostsOf(n)' = HostsOf(n) /\ (HasOne(n) => HasOne(n)')
        BY <1>1, TablesSame
    <2>3. Owned(n) => Owned(n)'
        BY <1>4, <2>2 DEF Owned
    <2>4. AllocInv(n, job[n]["alloc"]) => AllocInv(n, job[n]["alloc"])'
        <3>1. job'[n]["alloc"].step = "idle"
            BY <2>1 DEF Quiet, Kind
        <3> QED BY <2>2, <3>1 DEF AllocInv
    <2>5. job'[n]["create"].step = "idle"
        BY <2>1 DEF Quiet, Kind
    <2>6. \A J \in SUBSET Kind : Quiet(n, J)'
        BY <2>1 DEF Quiet
    <2> QED BY <1>4, <2>1, <2>2, <2>3, <2>4, <2>5, <2>6 DEF PhaseInv, Open, Kind
<1> QED BY <1>2, <1>3, <1>4, <1>5 DEF IInv

-----------------------------------------------------------------------------
\* All slots and tokens are free
LEMMA InitInv == Init => IInv
<1> SUFFICES ASSUME Init PROVE IInv
    OBVIOUS
<1> USE DEF Init
<1>1. JobsOK
    BY NoJobType DEF JobsOK
<1>2. TablesOK /\ SlotInv
    BY DEF TablesOK, SlotInv, Free
<1>3. RowsOK /\ WorldOK
    BY SlotBounds DEF RowsOK, WorldOK, Row
<1>4. ASSUME NEW m \in Match PROVE PhaseInv(m)
    <2>1. m # None
        BY NoneAssumption
    <2>2. SlotsOf(m) = {} /\ TokensOf(m) = {}
        BY <2>1 DEF SlotsOf, TokensOf, Free
    <2>3. \A j \in Kind : job[m][j].step = "idle"
        BY NoJobType
    <2> QED BY <2>2, <2>3 DEF PhaseInv, Quiet, Open, Kind
<1> QED BY <1>1, <1>2, <1>3, <1>4 DEF IInv

\* Every step
LEMMA NextInv == IInv /\ [Next]_vars => IInv'
<1> SUFFICES ASSUME IInv, [Next]_vars PROVE IInv'
    OBVIOUS
<1>1. ASSUME NEW m \in Match, Allocation(m) PROVE IInv'
    BY <1>1, PickOwnI, PickNewI, PickNoneI, SendI, AgentStartsI, AgentFailsI, AgentBusyI, MarkI, StoreI DEF Allocation
<1>2. ASSUME NEW m \in Match, NEW j \in Kind, Release(m, j) PROVE IInv'
    BY <1>2, LookupI, StopI, FreeSlotI, FreeTokenI, StampI DEF Release
<1>3. ASSUME NEW m \in Match, Progress(m) PROVE IInv'
    BY <1>1, <1>2, <1>3, CreateInsertI, CreateFailsI, TearI DEF Progress
<1>4. ASSUME NEW m \in Match, Cancel(m) \/ Finish(m) \/ Lost(m) PROVE IInv'
    BY <1>4, CloseI DEF Cancel, Finish, Lost, Open
<1>5. ASSUME NEW m \in Match, Outside(m) PROVE IInv'
    BY <1>4, <1>5, CreateReserveI, EnterAllocationI, BeginI DEF Outside
<1>6. CASE \E h \in Host : HostSync(h)
    <2>1. UNCHANGED <<tables, rows, job>> /\ WorldOK' /\ \A n \in Match : ServersOf(n)' \subseteq ServersOf(n)
        BY <1>6 DEF HostSync, IInv, WorldOK, ServersOf
    <2> QED BY <2>1, WorldStep
<1>7. CASE \E v \in servers : ServerExits(v)
    <2>1. UNCHANGED <<tables, rows, job, online, stopFails, crashes>> /\ servers' \subseteq servers
        BY <1>7 DEF ServerExits
    <2>2. WorldOK' /\ \A n \in Match : ServersOf(n)' \subseteq ServersOf(n)
        BY <2>1 DEF IInv, WorldOK, ServersOf
    <2> QED BY <2>1, <2>2, WorldStep
<1>8. CASE UNCHANGED vars
    <2>1. UNCHANGED <<tables, rows, job>> /\ WorldOK' /\ \A n \in Match : ServersOf(n)' \subseteq ServersOf(n)
        BY <1>8 DEF vars, tables, rows, IInv, WorldOK, ServersOf
    <2> QED BY <2>1, WorldStep
<1> QED BY <1>3, <1>5, <1>6, <1>7, <1>8, CrashI DEF Next

\* The invariant holds of every behaviour
THEOREM Invariance == Spec => []IInv
BY InitInv, NextInv, PTL DEF Spec

\* The tables of schema.ts, the agents' processes and every call under way keep their types
THEOREM TypeCorrect == Spec => []TypeOK
<1>1. IInv => TypeOK
    BY DEF IInv, JobsOK, TablesOK, RowsOK, WorldOK, TypeOK
<1> QED BY <1>1, Invariance, PTL

\* A match that is served holds one slot, and its server there a token that is reserved for it, whatever restarts,
\* busy hosts, stops that failed and late starts there were
THEOREM ServedCorrect == Spec => []ServedByItsOwn
<1>1. IInv => ServedByItsOwn
    <2> SUFFICES ASSUME IInv, NEW m \in Match, row[m] = "serving"
                 PROVE  /\ Cardinality(SlotsOf(m)) = 1
                        /\ \A v \in ServersOf(m) : v.host \in HostsOf(m) => v.token \in TokensOf(m)
        BY DEF ServedByItsOwn
    <2>1. HasOne(m) /\ Owned(m)
        BY DEF IInv, PhaseInv
    <2>2. PICK s \in Slot : SlotsOf(m) = {s}
        BY <2>1 DEF HasOne
    <2>3. Cardinality({s}) = 1
        BY FS_Singleton
    <2> QED BY <2>1, <2>2, <2>3 DEF Owned
<1> QED BY <1>1, Invariance, PTL
=============================================================================
