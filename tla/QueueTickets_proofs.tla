-------------------------- MODULE QueueTickets_proofs --------------------------
(***************************************************************************)
(* Proofs about parties, tickets and challenges, for any number of them,   *)
(* of requests under way and of restarts: parties stand, a ticket goes to  *)
(* one match at a time, and a row that waits can be found.                 *)
(*                                                                         *)
(* The inductive invariant follows a ticket through the jobs that hold it. *)
(* A job knows tickets by its copies, taken before other jobs moved them,  *)
(* so each part says what is still true of a copy: whether its row was     *)
(* claimed, which match lent it, and who will list or cancel it.           *)
(***************************************************************************)
EXTENDS QueueTickets, TLAPS, FiniteSetTheorems, SequenceTheorems

JobType ==
    [pc : Steps, party : Party \cup {NoParty}, ticket : Ticket \cup {NoTicket}, modes : SUBSET Mode,
     gone : SUBSET Mode, after : Steps, tickets : SUBSET Ticket, copies : [Ticket -> SUBSET Mode],
     rest : Seq(Party \cup {NoParty}), match : Match \cup {NoMatch}, players : SUBSET Player, link : Nat]

\* What a step can rely on in its job
JobShape(j) ==
    /\ j.pc \in {"look", "insert", "adopt", "merge", "shrink", "put", "reopen"} => j.modes # {}
    /\ j.pc \in {"look", "insert", "adopt", "joinParty"} => j.party \in Party
    /\ j.pc = "joinParty" => j.rest # <<>>
    /\ j.pc = "cancel" \/ (j.pc \in {"drop", "cancelRow"} /\ j.after = "cancel") => j.rest \in Seq(Party)
    /\ j.pc \in {"merge", "shrink", "put", "assert", "drop", "cancelRow", "reopen"} => j.ticket \in Ticket
    /\ j.pc \in {"load", "create", "discard", "requeue", "reopen", "answer"} => j.match \in Match
    /\ j.pc = "shrink" => j.after = "idle"
    /\ j.pc = "put" => j.after \in {"idle", "assert"} \/ (j.after = "requeue" /\ j.match \in Match)
    /\ j.pc \in {"drop", "cancelRow"} => j.after \in {"idle", "cancel"}
    /\ j.players # {} => j.pc \in {"look", "insert", "adopt", "joinParty", "cancel", "drop", "cancelRow", "direct"}
    /\ j.pc = "reopen" => j.ticket \notin j.tickets
    /\ j.pc = "direct" => j.players # {}
    /\ j.pc = "claim" => j.tickets # {}
    /\ j.pc \in {"claim", "lost"} => j.match = NoMatch

JobsOK == job \in [Worker -> JobType] /\ \A w \in Worker : JobShape(job[w])

Rows == [status : Statuses, party : Party \cup {NoParty}, players : SUBSET Player, modes : SUBSET Mode]
Matches == [status : {"none", "claimed", "active", "over"}, tickets : SUBSET Ticket, players : SUBSET Player]
Challenges == [status : {"none", "open", "accepted", "declined", "cancelled", "expired"}, by : Player \cup {NoPlayer}]

StoreOK ==
    /\ row \in [Ticket -> Rows]
    /\ live \in [Ticket -> SUBSET Mode]
    /\ queued \in [Mode -> SUBSET Ticket]
    /\ partyKey \in [Party -> Ticket \cup {NoTicket}]

OtherOK ==
    /\ match \in [Match -> Matches]
    /\ challenge \in Challenges /\ (challenge.status # "none" => challenge.by \in Player)
    /\ requests \in 0..MaxRequests
    /\ ops \in Mixes
    /\ crashes \in 0..MaxCrashes

StrongTypeOK == PartyTypeOK /\ StoreOK /\ OtherOK /\ JobsOK

-----------------------------------------------------------------------------
\* The row was inserted; the ticket never was in a match; it is not a waiting row that never was in a match
Ever(t) == row[t].status # "none"
Fresh(t) == \A k \in Match : t \notin match[k].tickets
Gone(t) == Waiting(t) => ~Fresh(t)
Uses(k, t) == match[k].status \in {"claimed", "active"} /\ t \in match[k].tickets
Listed(t) == live[t] # {} /\ \E m \in Mode : t \in queued[m]

\* Jobs: one that makes a match of what it has claimed, one that puts a ticket back, one that answers a challenge,
\* one that will list the row or cancel it
Claims(j) == j.pc \in {"load", "consume", "create"} /\ j.match # NoMatch
Returns(j, t) ==
    \/ j.pc \in {"discard", "requeue", "reopen"} /\ t \in j.tickets
    \/ j.pc = "reopen" /\ t = j.ticket
    \/ j.pc = "put" /\ j.after = "requeue" /\ t \in j.tickets
Answers(j) == j.players # {} /\ j.pc \in {"cancel", "drop", "cancelRow", "direct"}
Owes(j, t) == j.ticket = t /\ j.pc \in {"put", "cancelRow"}

\* Every ticket that is known anywhere has a row, and a row has modes
JobRows(j) ==
    /\ j.ticket # NoTicket => Ever(j.ticket)
    /\ \A t \in j.tickets : Ever(t)
    /\ \A t \in Ticket : j.copies[t] # {} => Ever(t)
RowInv ==
    /\ \A t \in Ticket : live[t] # {} => Ever(t)
    /\ \A t \in Ticket : Ever(t) => row[t].modes # {}
    /\ \A k \in Match, t \in Ticket : t \in match[k].tickets => Ever(t)
    /\ \A w \in Worker : JobRows(job[w])

\* A claim takes rows that wait, and two claims make two matches
MatchInv ==
    /\ \A k \in Match : match[k].status = "none" => match[k].tickets = {}
    /\ \A k \in Match : match[k].status = "claimed" => match[k].tickets # {}
    /\ \A k \in Match, t \in Ticket : Uses(k, t) => ~Waiting(t)
    /\ \A k, l \in Match, t \in Ticket : Uses(k, t) /\ Uses(l, t) => k = l
    /\ \A w \in Worker : Claims(job[w]) => match[job[w].match].status = "claimed"
    /\ \A v, w \in Worker : Claims(job[v]) /\ Claims(job[w]) /\ job[v].match = job[w].match => v = w

\* A ticket is put back once, by the job of the match that failed, and is nowhere else until then
ReturnInv ==
    /\ \A w \in Worker, t \in Ticket : Returns(job[w], t) =>
          /\ ~Waiting(t) /\ t \in match[job[w].match].tickets
          /\ \A k \in Match : ~Uses(k, t)
    /\ \A v, w \in Worker, t \in Ticket : Returns(job[v], t) /\ Returns(job[w], t) => v = w

\* The creator of the challenge is among the players of the answer, and then of the match, which keeps a second
\* answer away when the lock has expired
ChallengeInv ==
    /\ \A v, w \in Worker : Answers(job[v]) /\ Answers(job[w]) => v = w
    /\ \A w \in Worker : Answers(job[w]) =>
          OfChallenge = {} /\ challenge.by \in job[w].players /\ challenge.status # "none"
    /\ \A k \in OfChallenge : challenge.by \in match[k].players /\ challenge.status # "none"
    /\ \A k, l \in OfChallenge : k = l

\* A pass drops only what was lost to another or is in its own match
LostOK(j) ==
    /\ j.pc = "lost" \/ (j.pc = "consume" /\ j.match = NoMatch) => \A t \in j.tickets : Gone(t)
    /\ j.pc \in {"claim", "lost", "consume"} => \A t \in Ticket : j.copies[t] # {} => Gone(t)
    /\ j.pc = "load" => j.tickets \subseteq match[j.match].tickets
ListedInv ==
    /\ \A w \in Worker : LostOK(job[w])
    /\ crashes = 0 => \A t \in Ticket : Waiting(t) /\ Fresh(t) => Listed(t) \/ \E w \in Worker : Owes(job[w], t)

\* Who waits for the lock of a party waits for one that was created
JoinInv == \A w \in Worker : job[w].pc = "joinParty" => leader[job[w].party] # NoPlayer

QInv == StrongTypeOK /\ RowInv /\ MatchInv /\ ReturnInv /\ ChallengeInv /\ ListedInv /\ JoinInv

-----------------------------------------------------------------------------
\* The types of the jobs and stores are those of queue/service.ts
LEMMA StrongIsType == StrongTypeOK => TypeOK
BY DEF StrongTypeOK, TypeOK, QueueTypeOK, StoreOK, OtherOK, JobsOK, JobType, JobShape, Rows, Matches, Challenges

\* A worker without a request has nothing
LEMMA IdleType == Idle \in JobType /\ JobShape(Idle)
<1>1. <<>> \in Seq(Party \cup {NoParty})
    OBVIOUS
<1>2. Idle \in JobType
    BY <1>1 DEF Idle, JobType, Steps
<1> QED BY <1>2 DEF JobShape, Idle

\* The other workers
Others(w) == \A v \in Worker \ {w} : job'[v] = job[v]

\* One worker gets a job
LEMMA JobStep ==
    ASSUME JobsOK, NEW w \in Worker, NEW j \in JobType, JobShape(j), job' = [job EXCEPT ![w] = j]
    PROVE  JobsOK' /\ job'[w] = j /\ Others(w)
BY DEF JobsOK, Others

\* A request ends
LEMMA EndStep ==
    ASSUME JobsOK, NEW w \in Worker, End(w)
    PROVE  JobsOK' /\ job'[w] = Idle /\ Others(w)
BY JobStep, IdleType DEF End

\* A request begins
LEMMA BeginStep ==
    ASSUME StrongTypeOK, NEW w \in Worker, NEW step \in Steps, NEW i \in JobType,
           JobShape([i EXCEPT !.pc = step]), Begin(w, step, i)
    PROVE  /\ JobsOK' /\ job[w] = Idle /\ job'[w] = [i EXCEPT !.pc = step] /\ Others(w)
           /\ requests' \in 0..MaxRequests
<1>1. [i EXCEPT !.pc = step] \in JobType
    BY DEF JobType
<1>2. requests' \in 0..MaxRequests
    BY RequestsAssumption DEF Begin, StrongTypeOK, OtherOK
<1> QED BY <1>1, <1>2, JobStep DEF Begin, StrongTypeOK

\* Only the step changes
Moved(w, step) ==
    /\ job'[w].pc = step
    /\ job'[w].party = job[w].party /\ job'[w].ticket = job[w].ticket /\ job'[w].modes = job[w].modes
    /\ job'[w].gone = job[w].gone /\ job'[w].after = job[w].after /\ job'[w].tickets = job[w].tickets
    /\ job'[w].copies = job[w].copies /\ job'[w].rest = job[w].rest /\ job'[w].match = job[w].match
    /\ job'[w].players = job[w].players /\ job'[w].link = job[w].link

\* A request goes on
LEMMA GotoStep ==
    ASSUME JobsOK, NEW w \in Worker, NEW step \in Steps, Goto(w, step)
    PROVE  job' \in [Worker -> JobType] /\ Moved(w, step) /\ Others(w)
<1> DEFINE j == [job[w] EXCEPT !.pc = step]
<1>1. job' = [job EXCEPT ![w] = j]
    BY DEF Goto
<1>2. job[w] \in JobType /\ job \in [Worker -> JobType]
    BY DEF JobsOK
<1>3. j \in JobType
    BY <1>2 DEF JobType
<1>4. job'[w] = j /\ job' \in [Worker -> JobType] /\ Others(w)
    BY <1>1, <1>2, <1>3 DEF Others
<1>5. /\ j.pc = step
      /\ j.party = job[w].party /\ j.ticket = job[w].ticket /\ j.modes = job[w].modes
      /\ j.gone = job[w].gone /\ j.after = job[w].after /\ j.tickets = job[w].tickets
      /\ j.copies = job[w].copies /\ j.rest = job[w].rest /\ j.match = job[w].match
      /\ j.players = job[w].players /\ j.link = job[w].link
    BY <1>2 DEF JobType
<1> QED BY <1>4, <1>5 DEF Moved

\* What is left alone keeps its type
LEMMA TypeFrame ==
    ASSUME StrongTypeOK, JobsOK', UNCHANGED <<partyVars, storeVars, notJob>>, requests' \in 0..MaxRequests
    PROVE  StrongTypeOK'
BY DEF StrongTypeOK, PartyTypeOK, StoreOK, OtherOK, partyVars, storeVars, notJob

\* SetStatus changes the status of some rows and nothing else
LEMMA StatusStep ==
    ASSUME StoreOK, NEW S, NEW status \in Statuses, SetStatus(S, status)
    PROVE  /\ row' \in [Ticket -> Rows]
           /\ \A t \in Ticket : /\ t \in S => row'[t].status = status
                                /\ t \notin S => row'[t] = row[t]
                                /\ row'[t].modes = row[t].modes
<1>1. \A t \in Ticket : row[t] \in Rows /\ [row[t] EXCEPT !.status = status] \in Rows
                        /\ [row[t] EXCEPT !.status = status].status = status
                        /\ [row[t] EXCEPT !.status = status].modes = row[t].modes
    BY DEF StoreOK, Rows
<1>2. row' = [t \in Ticket |-> IF t \in S THEN [row[t] EXCEPT !.status = status] ELSE row[t]]
    BY DEF SetStatus
<1> QED BY <1>1, <1>2

-----------------------------------------------------------------------------
\* The new job claims, returns and answers no more than the old one
JobKeeps(w) ==
    /\ job'[w].pc = "joinParty" => job[w].pc = "joinParty" /\ job'[w].party = job[w].party
    /\ Claims(job'[w]) => Claims(job[w]) /\ job'[w].match = job[w].match
    /\ \A t \in Ticket : Returns(job'[w], t) => Returns(job[w], t) /\ job'[w].match = job[w].match
    /\ Answers(job'[w]) => Answers(job[w]) /\ job'[w].players = job[w].players

\* A row that may come to wait: nobody else holds it, and either it is new or it was in a match
Opens(t) ==
    /\ \A k \in Match : ~Uses(k, t)
    /\ \A v \in Worker : ~Returns(job'[v], t)
    /\ Ever(t) => ~Fresh(t)

\* No other row comes to wait, and those that do are listed or owed as before
RowsKeep(w) ==
    /\ \A t \in Ticket : Ever(t) => Ever(t)'
    /\ \A t \in Ticket : Ever(t)' => row'[t].modes # {}
    /\ \A t \in Ticket : Waiting(t)' => Waiting(t) \/ Opens(t)
    /\ \A t \in Ticket : live'[t] # {} => Ever(t)'
    /\ \A t \in Ticket : Waiting(t)' /\ Fresh(t) /\ (Listed(t) \/ Owes(job[w], t) \/ ~Waiting(t))
                            => Listed(t)' \/ Owes(job'[w], t)

\* Most steps open no row and make no match
LEMMA QuietStep ==
    ASSUME QInv, NEW w \in Worker, StrongTypeOK', Others(w), JobKeeps(w), RowsKeep(w),
           JobRows(job[w])', LostOK(job[w])',
           UNCHANGED <<match, crashes>>,
           challenge'.by = challenge.by, challenge.status # "none" => challenge'.status # "none",
           \A g \in Party : leader'[g] = NoPlayer => leader[g] = NoPlayer
    PROVE  QInv'
<1> USE DEF QInv
<1>1. RowInv'
    <2>1. \A v \in Worker \ {w} : job'[v] = job[v] /\ job[v] \in JobType /\ JobRows(job[v])
        BY DEF Others, RowInv, StrongTypeOK, JobsOK
    <2>2. \A v \in Worker : JobRows(job[v])'
        BY <2>1 DEF JobRows, JobType, RowsKeep
    <2> QED BY <2>2 DEF RowInv, RowsKeep, Ever
<1>2. MatchInv'
    <2>1. \A k \in Match, t \in Ticket : Uses(k, t)' <=> Uses(k, t)
        BY DEF Uses
    <2>2. \A k \in Match, t \in Ticket : Uses(k, t)' => ~Waiting(t)'
        BY <2>1 DEF MatchInv, RowsKeep, Opens
    <2>3. \A v \in Worker : Claims(job'[v]) => Claims(job[v]) /\ job'[v].match = job[v].match
        BY DEF Others, JobKeeps
    <2> QED BY <2>1, <2>2, <2>3 DEF MatchInv
<1>3. ReturnInv'
    <2>1. \A v \in Worker, t \in Ticket : Returns(job'[v], t) => Returns(job[v], t) /\ job'[v].match = job[v].match
        BY DEF Others, JobKeeps
    <2>2. \A t \in Ticket, k \in Match : Uses(k, t)' <=> Uses(k, t)
        BY DEF Uses
    <2>3. \A v \in Worker, t \in Ticket : Returns(job'[v], t) => ~Waiting(t)'
        BY <2>1 DEF ReturnInv, RowsKeep, Opens
    <2> QED BY <2>1, <2>2, <2>3 DEF ReturnInv
<1>4. ChallengeInv'
    <2>1. \A v \in Worker : Answers(job'[v]) => Answers(job[v]) /\ job'[v].players = job[v].players
        BY DEF Others, JobKeeps
    <2>2. OfChallenge' = OfChallenge
        BY DEF OfChallenge
    <2>3. \A u, v \in Worker : Answers(job'[u]) /\ Answers(job'[v]) => u = v
        BY <2>1 DEF ChallengeInv
    <2>4. \A v \in Worker : Answers(job'[v]) =>
              OfChallenge' = {} /\ challenge'.by \in job'[v].players /\ challenge'.status # "none"
        BY <2>1, <2>2 DEF ChallengeInv
    <2>5. /\ \A k \in OfChallenge' : challenge'.by \in match'[k].players /\ challenge'.status # "none"
          /\ \A k, l \in OfChallenge' : k = l
        BY <2>2 DEF ChallengeInv
    <2> QED BY <2>3, <2>4, <2>5 DEF ChallengeInv, Answers
<1>5. ListedInv'
    <2>1. \A t \in Ticket : (Fresh(t)' <=> Fresh(t)) /\ (Ever(t) /\ Gone(t) => Gone(t)')
        BY DEF Fresh, Gone, RowsKeep, Opens
    <2>2. \A v \in Worker \ {w} : job'[v] = job[v] /\ job[v] \in JobType /\ LostOK(job[v]) /\ JobRows(job[v])
        BY DEF Others, ListedInv, RowInv, StrongTypeOK, JobsOK
    <2>3. \A v \in Worker : LostOK(job[v])'
        BY <2>1, <2>2 DEF LostOK, JobRows, JobType
    <2>4. ASSUME crashes' = 0, NEW t \in Ticket, Waiting(t)', Fresh(t)'
          PROVE  Listed(t)' \/ \E v \in Worker : Owes(job'[v], t)
        <3>1. Fresh(t) /\ crashes = 0
            BY <2>1, <2>4
        <3>2. CASE Listed(t) \/ Owes(job[w], t) \/ ~Waiting(t)
            BY <2>1, <2>4, <3>1, <3>2 DEF RowsKeep
        <3>3. CASE \E v \in Worker \ {w} : Owes(job[v], t)
            BY <3>3, <2>2
        <3> QED BY <3>1, <3>2, <3>3 DEF ListedInv
    <2> QED BY <2>3, <2>4 DEF ListedInv, Owes
<1>6. JoinInv'
    <2>1. \A v \in Worker : job'[v].pc = "joinParty" =>
              job[v].pc = "joinParty" /\ job'[v].party = job[v].party /\ job[v].party \in Party
        BY DEF Others, JobKeeps, StrongTypeOK, JobsOK, JobShape
    <2> QED BY <2>1 DEF JoinInv
<1> QED BY <1>1, <1>2, <1>3, <1>4, <1>5, <1>6

\* A step that reads: the job goes on, the stores are as before
LEMMA ReadStep ==
    ASSUME QInv, NEW w \in Worker, JobsOK', Others(w), JobKeeps(w), JobRows(job'[w]), LostOK(job'[w]),
           UNCHANGED <<storeVars, notJob>>, PartyTypeOK', requests' \in 0..MaxRequests,
           \A g \in Party : leader'[g] = NoPlayer => leader[g] = NoPlayer,
           \A t \in Ticket : Waiting(t) => ~Owes(job[w], t)
    PROVE  QInv'
<1>1. StrongTypeOK'
    BY DEF QInv, StrongTypeOK, StoreOK, OtherOK, storeVars, notJob
<1>2. UNCHANGED <<match, challenge, crashes, row, live, queued>>
    BY DEF notJob, storeVars
<1>3. JobRows(job[w])' /\ LostOK(job[w])'
    BY <1>2 DEF JobRows, LostOK, Ever, Gone, Waiting, Fresh
<1>4. RowsKeep(w)
    BY <1>2 DEF RowsKeep, QInv, RowInv, Ever, Waiting, Listed
<1> QED BY <1>1, <1>2, <1>3, <1>4, QuietStep

\* The same for a job under way
LEMMA LookStep ==
    ASSUME QInv, NEW w \in Worker, JobsOK', Others(w), JobKeeps(w), JobRows(job'[w]), LostOK(job'[w]),
           UNCHANGED <<storeVars, notQueue>>, job[w].pc \notin {"put", "cancelRow"}
    PROVE  QInv'
<1>1. /\ UNCHANGED <<storeVars, notJob>> /\ PartyTypeOK' /\ requests' \in 0..MaxRequests
      /\ \A g \in Party : leader'[g] = NoPlayer => leader[g] = NoPlayer
    BY DEF QInv, StrongTypeOK, PartyTypeOK, OtherOK, notQueue, partyVars
<1>2. \A t \in Ticket : ~Owes(job[w], t)
    BY DEF Owes
<1> QED BY <1>1, <1>2, ReadStep

\* What the invariant says of one job
LEMMA JobFacts ==
    ASSUME QInv, NEW w \in Worker
    PROVE  job[w] \in JobType /\ JobShape(job[w]) /\ JobRows(job[w]) /\ LostOK(job[w])
BY DEF QInv, StrongTypeOK, JobsOK, RowInv, ListedInv

\* A job that only goes to another step
LEMMA MoveStep ==
    ASSUME QInv, NEW w \in Worker, NEW step \in Steps, Goto(w, step), JobShape([job[w] EXCEPT !.pc = step])
    PROVE  JobsOK' /\ Moved(w, step) /\ Others(w) /\ job'[w] \in JobType
<1>1. job' \in [Worker -> JobType] /\ Moved(w, step) /\ Others(w)
    BY GotoStep DEF QInv, StrongTypeOK
<1>2. job[w] \in JobType /\ job' = [job EXCEPT ![w] = [job[w] EXCEPT !.pc = step]]
    BY JobFacts DEF Goto
<1>3. job'[w] = [job[w] EXCEPT !.pc = step]
    BY <1>2 DEF QInv, StrongTypeOK, JobsOK
<1>4. JobsOK'
    BY <1>1, <1>3 DEF QInv, StrongTypeOK, JobsOK, Others
<1> QED BY <1>1, <1>4

-----------------------------------------------------------------------------
\* joinQueue, service.ts 233-262. The party is made when there is none, and its roster is what the row will hold
LEMMA JoinQ ==
    ASSUME QInv, PartyTypeOK', NEW w \in Worker, NEW p \in Player, NEW modes \in (SUBSET Mode) \ {{}}, Join(w, p, modes),
           \A g \in Party : leader'[g] = NoPlayer => leader[g] = NoPlayer
    PROVE  QInv'
<1>1. PICK g \in Party :
        Begin(w, "look", [Idle EXCEPT !.party = g, !.modes = modes, !.players = {q \in Player : memberOf'[q] = g}])
    BY DEF Join
<1> DEFINE i == [Idle EXCEPT !.party = g, !.modes = modes, !.players = {q \in Player : memberOf'[q] = g}]
           j == [i EXCEPT !.pc = "look"]
<1>2. i \in JobType
    BY IdleType DEF JobType
<1>3. j.pc = "look" /\ j.party = g /\ j.modes = modes /\ j.ticket = NoTicket /\ j.tickets = {}
      /\ j.copies = [t \in Ticket |-> {}]
    BY IdleType DEF JobType, Idle
<1>4. JobShape(j)
    BY <1>3 DEF JobShape
<1>5. JobsOK' /\ job[w] = Idle /\ job'[w] = j /\ Others(w) /\ requests' \in 0..MaxRequests
    BY <1>1, <1>2, <1>4, BeginStep DEF QInv, Steps
<1> HIDE DEF j
<1>6. JobKeeps(w) /\ JobRows(job'[w]) /\ LostOK(job'[w])
    BY <1>3, <1>5 DEF JobKeeps, Claims, Returns, Answers, JobRows, LostOK
<1>7. \A t \in Ticket : ~Owes(job[w], t)
    BY <1>5 DEF Owes, Idle
<1> QED BY <1>5, <1>6, <1>7, ReadStep DEF Join

\* leave, service.ts 423-452: out of some modes or of all
LEMMA LeaveQ ==
    ASSUME QInv, NEW w \in Worker, NEW g \in Party, NEW modes \in (SUBSET Mode) \ {{}}, Leave(w, g, modes)
    PROVE  QInv'
<1> DEFINE t == TicketForParty(g)
           remaining == live[t] \ modes
           step == IF remaining = {} THEN "cancel" ELSE "shrink"
           i == [Idle EXCEPT !.ticket = t, !.modes = remaining, !.gone = live[t] \ remaining, !.rest = <<g>>]
           j == [i EXCEPT !.pc = step]
<1>1. t # NoTicket /\ Begin(w, step, i)
    BY DEF Leave
<1>2. t \in Ticket /\ live[t] \in SUBSET Mode /\ live[t] # {}
    BY <1>1 DEF QInv, StrongTypeOK, StoreOK, TicketForParty
<1> HIDE DEF t
<1>3. i \in JobType
    <2>1. <<g>> \in Seq(Party \cup {NoParty})
        OBVIOUS
    <2> QED BY <1>2, <2>1, IdleType DEF JobType
<1>4. j.pc = step /\ j.ticket = t /\ j.modes = remaining /\ j.tickets = {} /\ j.rest = <<g>> /\ j.after = "idle"
      /\ j.copies = [u \in Ticket |-> {}] /\ j.players = {} /\ j.match = NoMatch
    BY <1>3, IdleType DEF JobType, Idle
<1>5. step \in {"cancel", "shrink"} /\ (step = "shrink" => remaining # {}) /\ <<g>> \in Seq(Party)
    OBVIOUS
<1> HIDE DEF remaining, step, j, i
<1>6. JobShape(j)
    BY <1>2, <1>4, <1>5 DEF JobShape
<1>7. JobsOK' /\ job[w] = Idle /\ job'[w] = j /\ Others(w) /\ requests' \in 0..MaxRequests
    <2>1. step \in Steps /\ JobShape([i EXCEPT !.pc = step])
        BY <1>5, <1>6 DEF Steps, j
    <2> QED BY <1>1, <1>3, <2>1, BeginStep DEF QInv, j
<1>8. Ever(t)
    BY <1>2 DEF QInv, RowInv
<1>9. JobKeeps(w) /\ JobRows(job'[w]) /\ LostOK(job'[w])
    BY <1>4, <1>5, <1>7, <1>8 DEF JobKeeps, Claims, Returns, Answers, JobRows, LostOK
<1>10. \A u \in Ticket : ~Owes(job[w], u)
    BY <1>7 DEF Owes, Idle
<1> QED BY <1>7, <1>9, <1>10, ReadStep DEF Leave, partyVars, QInv, StrongTypeOK, PartyTypeOK

\* The ticket of the party is looked up, service.ts 263-270
LEMMA JoinLookQ ==
    ASSUME QInv, NEW w \in Worker, JoinLook(w)
    PROVE  QInv'
<1>1. job[w].pc = "look" /\ job[w] \in JobType /\ JobShape(job[w]) /\ JobRows(job[w])
    BY JobFacts DEF JoinLook, At
<1>2. CASE TicketForParty(job[w].party) = NoTicket
    <2>1. JobShape([job[w] EXCEPT !.pc = "insert"])
        BY <1>1 DEF JobShape, JobType
    <2>2. JobsOK' /\ Moved(w, "insert") /\ Others(w)
        BY <1>2, <2>1, MoveStep DEF JoinLook, Steps
    <2>3. JobKeeps(w) /\ JobRows(job'[w]) /\ LostOK(job'[w])
        BY <1>1, <2>2 DEF Moved, JobKeeps, Claims, Returns, Answers, JobRows, LostOK
    <2> QED BY <1>1, <2>2, <2>3, LookStep DEF JoinLook
<1>3. CASE TicketForParty(job[w].party) # NoTicket
    <2> DEFINE t == TicketForParty(job[w].party)
               j == [job[w] EXCEPT !.pc = "merge", !.ticket = t, !.modes = @ \cup live[t], !.players = {}]
    <2>1. t \in Ticket /\ live[t] \in SUBSET Mode /\ Ever(t)
        BY <1>1, <1>3 DEF QInv, StrongTypeOK, StoreOK, RowInv, TicketForParty, JobShape
    <2>2. job' = [job EXCEPT ![w] = j]
        BY <1>3 DEF JoinLook
    <2> HIDE DEF t
    <2>3. j \in JobType
        BY <1>1, <2>1 DEF JobType, Steps
    <2>4. j.pc = "merge" /\ j.ticket = t /\ j.modes = job[w].modes \cup live[t] /\ j.players = {}
          /\ j.tickets = job[w].tickets /\ j.copies = job[w].copies
        BY <1>1 DEF JobType
    <2> HIDE DEF j
    <2>5. JobShape(j)
        BY <1>1, <2>1, <2>4 DEF JobShape
    <2>6. JobsOK' /\ job'[w] = j /\ Others(w)
        BY <2>2, <2>3, <2>5, JobStep DEF QInv, StrongTypeOK
    <2>7. JobKeeps(w) /\ JobRows(job'[w]) /\ LostOK(job'[w])
        BY <1>1, <2>1, <2>4, <2>6 DEF JobKeeps, Claims, Returns, Answers, JobRows, LostOK
    <2> QED BY <1>1, <2>6, <2>7, LookStep DEF JoinLook
<1> QED BY <1>2, <1>3

\* A join that found another row of its party takes it, or ends when it is gone by then
LEMMA JoinAdoptQ ==
    ASSUME QInv, NEW w \in Worker, JoinAdopt(w)
    PROVE  QInv'
<1>1. job[w].pc = "adopt" /\ job[w] \in JobType /\ JobShape(job[w]) /\ JobRows(job[w])
    BY JobFacts DEF JoinAdopt, At
<1>2. CASE WaitingOf(job[w].party) = {}
    <2>1. JobsOK' /\ job'[w] = Idle /\ Others(w)
        BY <1>2, EndStep DEF JoinAdopt, QInv, StrongTypeOK
    <2>2. JobKeeps(w) /\ JobRows(job'[w]) /\ LostOK(job'[w])
        BY <2>1 DEF Idle, JobKeeps, Claims, Returns, Answers, JobRows, LostOK
    <2> QED BY <1>1, <2>1, <2>2, LookStep DEF JoinAdopt
<1>3. CASE WaitingOf(job[w].party) # {}
    <2>1. PICK t \in WaitingOf(job[w].party) :
            job' = [job EXCEPT ![w].pc = "merge", ![w].ticket = t, ![w].modes = @ \cup row[t].modes, ![w].players = {}]
        BY <1>3 DEF JoinAdopt
    <2> DEFINE j == [job[w] EXCEPT !.pc = "merge", !.ticket = t, !.modes = @ \cup row[t].modes, !.players = {}]
    <2>2. t \in Ticket /\ row[t].modes \in SUBSET Mode /\ Ever(t)
        BY DEF WaitingOf, Waiting, Ever, QInv, StrongTypeOK, StoreOK, Rows
    <2>3. job' = [job EXCEPT ![w] = j]
        BY <2>1
    <2>4. j \in JobType
        BY <1>1, <2>2 DEF JobType, Steps
    <2>5. j.pc = "merge" /\ j.ticket = t /\ j.modes = job[w].modes \cup row[t].modes /\ j.players = {}
          /\ j.tickets = job[w].tickets /\ j.copies = job[w].copies
        BY <1>1 DEF JobType
    <2> HIDE DEF j
    <2>6. JobShape(j)
        BY <1>1, <2>2, <2>5 DEF JobShape
    <2>7. JobsOK' /\ job'[w] = j /\ Others(w)
        BY <2>3, <2>4, <2>6, JobStep DEF QInv, StrongTypeOK
    <2>8. JobKeeps(w) /\ JobRows(job'[w]) /\ LostOK(job'[w])
        BY <1>1, <2>2, <2>5, <2>7 DEF JobKeeps, Claims, Returns, Answers, JobRows, LostOK
    <2> QED BY <1>1, <2>7, <2>8, LookStep DEF JoinAdopt
<1> QED BY <1>2, <1>3

\* The row is updated while it waits, service.ts 288
LEMMA JoinMergeQ ==
    ASSUME QInv, NEW w \in Worker, JoinMerge(w)
    PROVE  QInv'
<1> DEFINE t == job[w].ticket
           j == [job[w] EXCEPT !.pc = "put", !.after = "assert"]
           modes == IF Waiting(t) THEN job[w].modes ELSE row[t].modes
<1>1. /\ job[w].pc = "merge" /\ job[w] \in JobType /\ JobShape(job[w]) /\ JobRows(job[w])
      /\ UNCHANGED <<live, queued, partyKey, match, challenge, crashes, ops, requests, partyVars>>
    BY JobFacts DEF JoinMerge, At, UnchangedLive, notQueue, notJob
<1>2. t \in Ticket
    BY <1>1 DEF JobShape
<1>3. row' = [row EXCEPT ![t] = [row[t] EXCEPT !.modes = modes]]
    BY DEF JoinMerge
<1>4. modes \in SUBSET Mode /\ (row[t].modes # {} => modes # {}) /\ row \in [Ticket -> Rows] /\ row[t] \in Rows
    BY <1>1, <1>2 DEF JobType, JobShape, QInv, StrongTypeOK, StoreOK, Rows
<1> HIDE DEF modes
<1>5. [row[t] EXCEPT !.modes = modes] \in Rows /\ [row[t] EXCEPT !.modes = modes].status = row[t].status
      /\ [row[t] EXCEPT !.modes = modes].modes = modes
    BY <1>4 DEF Rows
<1>6. /\ row' \in [Ticket -> Rows]
      /\ \A u \in Ticket : row'[u].status = row[u].status /\ (row[u].modes # {} => row'[u].modes # {})
    BY <1>2, <1>3, <1>4, <1>5
<1>7. j \in JobType /\ job' = [job EXCEPT ![w] = j]
    BY <1>1 DEF JobType, Steps, JoinMerge
<1>8. j.pc = "put" /\ j.after = "assert" /\ j.ticket = t /\ j.modes = job[w].modes /\ j.players = job[w].players
      /\ j.tickets = job[w].tickets /\ j.copies = job[w].copies
    BY <1>1 DEF JobType
<1> HIDE DEF j
<1>9. JobShape(j)
    BY <1>1, <1>8 DEF JobShape
<1>10. JobsOK' /\ job'[w] = j /\ Others(w)
    BY <1>7, <1>9, JobStep DEF QInv, StrongTypeOK
<1>11. StrongTypeOK'
    BY <1>1, <1>6, <1>10 DEF QInv, StrongTypeOK, PartyTypeOK, StoreOK, OtherOK, partyVars
<1>12. JobKeeps(w)
    BY <1>8, <1>10 DEF JobKeeps, Claims, Returns, Answers
<1>13. JobRows(job[w])' /\ LostOK(job[w])'
    BY <1>1, <1>6, <1>8, <1>10 DEF JobRows, LostOK, Ever, JobType
<1>14. RowsKeep(w)
    BY <1>1, <1>6, <1>8, <1>10 DEF RowsKeep, QInv, RowInv, Ever, Waiting, Listed, Owes
<1> QED BY <1>1, <1>10, <1>11, <1>12, <1>13, <1>14, QuietStep DEF partyVars

\* The row is inserted, and waits to be put; or another join of the party was faster. service.ts 271-297
LEMMA JoinInsertQ ==
    ASSUME QInv, NEW w \in Worker, JoinInsert(w)
    PROVE  QInv'
<1>1. job[w].pc = "insert" /\ job[w] \in JobType /\ JobShape(job[w]) /\ JobRows(job[w])
    BY JobFacts DEF JoinInsert, InsertRow, At
<1>2. CASE InsertRow(w)
    <2>1. PICK t \in Ticket :
            /\ row[t].status = "none"
            /\ row' = [row EXCEPT ![t] = [status |-> "waiting", party |-> job[w].party,
                                          players |-> job[w].players, modes |-> job[w].modes]]
            /\ job' = [job EXCEPT ![w].pc = "put", ![w].ticket = t, ![w].after = "assert", ![w].players = {}]
        BY <1>2 DEF InsertRow
    <2>2. UNCHANGED <<live, queued, partyKey, match, challenge, crashes, ops, requests, partyVars>>
        BY <1>2 DEF InsertRow, UnchangedLive, notQueue, notJob
    <2> DEFINE j == [job[w] EXCEPT !.pc = "put", !.ticket = t, !.after = "assert", !.players = {}]
    <2>3. /\ row' \in [Ticket -> Rows] /\ row'[t].status = "waiting" /\ row'[t].modes = job[w].modes
          /\ \A u \in Ticket \ {t} : row'[u] = row[u]
        BY <1>1, <2>1 DEF QInv, StrongTypeOK, StoreOK, Rows, Statuses, JobType
    <2>4. j \in JobType /\ job' = [job EXCEPT ![w] = j]
        BY <1>1, <2>1 DEF JobType, Steps
    <2>5. j.pc = "put" /\ j.after = "assert" /\ j.ticket = t /\ j.modes = job[w].modes /\ j.players = {}
          /\ j.tickets = job[w].tickets /\ j.copies = job[w].copies
        BY <1>1 DEF JobType
    <2> HIDE DEF j
    <2>6. JobShape(j)
        BY <1>1, <2>5 DEF JobShape
    <2>7. JobsOK' /\ job'[w] = j /\ Others(w)
        BY <2>4, <2>6, JobStep DEF QInv, StrongTypeOK
    <2>8. StrongTypeOK'
        BY <2>2, <2>3, <2>7 DEF QInv, StrongTypeOK, PartyTypeOK, StoreOK, OtherOK, partyVars
    <2>9. JobKeeps(w)
        BY <2>5, <2>7 DEF JobKeeps, Claims, Returns, Answers
    <2>10. \A u \in Ticket : Ever(u) => Ever(u)'
        BY <2>1, <2>3 DEF Ever
    <2>11. JobRows(job[w])' /\ LostOK(job[w])'
        BY <1>1, <2>3, <2>5, <2>7, <2>10 DEF JobRows, LostOK, Ever, JobType
    <2>12. Opens(t)
        <3>1. ~Ever(t)
            BY <2>1 DEF Ever
        <3>2. \A k \in Match : t \notin match[k].tickets
            BY <3>1 DEF QInv, RowInv
        <3>3. \A v \in Worker : ~Returns(job[v], t)
            <4> SUFFICES ASSUME NEW v \in Worker PROVE ~Returns(job[v], t)
                OBVIOUS
            <4>1. JobRows(job[v])
                BY JobFacts
            <4> QED BY <3>1, <4>1, QueueAssumption DEF Returns, JobRows
        <3>4. ~Returns(job'[w], t)
            BY <2>5, <2>7 DEF Returns
        <3> QED BY <3>1, <3>2, <3>3, <3>4, <2>7 DEF Opens, Uses, Others
    <2>13. RowsKeep(w)
        <3>1. \A u \in Ticket : Waiting(u)' => Waiting(u) \/ u = t
            BY <2>3 DEF Waiting
        <3>2. \A u \in Ticket : Listed(u) => Listed(u)'
            BY <2>2 DEF Listed
        <3>3. \A u \in Ticket : live'[u] # {} => Ever(u)'
            BY <2>2, <2>10 DEF QInv, RowInv
        <3>4. Owes(job'[w], t) /\ \A u \in Ticket : ~Owes(job[w], u)
            BY <1>1, <2>5, <2>7 DEF Owes
        <3>5. \A u \in Ticket : Ever(u)' => row'[u].modes # {}
            BY <1>1, <2>3 DEF QInv, RowInv, Ever, JobShape
        <3> QED BY <2>10, <2>12, <3>1, <3>2, <3>3, <3>4, <3>5 DEF RowsKeep
    <2> QED BY <2>2, <2>7, <2>8, <2>9, <2>11, <2>13, QuietStep DEF partyVars
<1>3. CASE Goto(w, "adopt") /\ UNCHANGED <<storeVars, notQueue>>
    <2>1. JobShape([job[w] EXCEPT !.pc = "adopt"])
        BY <1>1 DEF JobShape, JobType
    <2>2. JobsOK' /\ Moved(w, "adopt") /\ Others(w)
        BY <1>3, <2>1, MoveStep DEF Steps
    <2>3. JobKeeps(w) /\ JobRows(job'[w]) /\ LostOK(job'[w])
        BY <1>1, <2>2 DEF Moved, JobKeeps, Claims, Returns, Answers, JobRows, LostOK
    <2> QED BY <1>1, <1>3, <2>2, <2>3, LookStep
<1> QED BY <1>2, <1>3 DEF JoinInsert

\* A request goes where it was told to go after a step, or ends
LEMMA AfterStep ==
    ASSUME QInv, NEW w \in Worker, job[w].after # "idle" => JobShape([job[w] EXCEPT !.pc = job[w].after]),
           IF job[w].after = "idle" THEN End(w) ELSE Goto(w, job[w].after)
    PROVE  /\ JobsOK' /\ Others(w)
           /\ IF job[w].after = "idle" THEN job'[w] = Idle ELSE Moved(w, job[w].after)
<1>1. job[w].after \in Steps
    BY JobFacts DEF JobType
<1> QED BY <1>1, EndStep, MoveStep DEF QInv, StrongTypeOK

\* putLive, service.ts 396-410: one MULTI lists the ticket
LEMMA PutQ ==
    ASSUME QInv, NEW w \in Worker, Put(w)
    PROVE  QInv'
<1>1. /\ job[w].pc = "put" /\ job[w] \in JobType /\ JobShape(job[w]) /\ JobRows(job[w])
      /\ UNCHANGED <<row, match, challenge, crashes, ops, requests, partyVars>>
    BY JobFacts DEF Put, At, notQueue, notJob
<1>3. PICK t \in Ticket : t = job[w].ticket /\ job[w].modes \in SUBSET Mode /\ job[w].modes # {}
    BY <1>1 DEF JobShape, JobType
<1>2. /\ live' = [live EXCEPT ![t] = job[w].modes]
      /\ partyKey' = [partyKey EXCEPT ![row[t].party] = t]
      /\ queued' = [m \in Mode |-> IF m \in job[w].modes THEN queued[m] \cup {t}
                                   ELSE IF m \in job[w].gone THEN queued[m] \ {t} ELSE queued[m]]
    BY <1>3 DEF Put, PutLive
<1>4. Ever(t)
    BY <1>1, <1>3, QueueAssumption DEF JobRows
<1>5. live' \in [Ticket -> SUBSET Mode] /\ live'[t] = job[w].modes /\ \A u \in Ticket \ {t} : live'[u] = live[u]
    BY <1>2, <1>3 DEF QInv, StrongTypeOK, StoreOK
<1>6. partyKey' \in [Party -> Ticket \cup {NoTicket}]
    BY <1>2, <1>3 DEF QInv, StrongTypeOK, StoreOK
<1>7. queued' \in [Mode -> SUBSET Ticket]
      /\ \A m \in Mode : /\ \A u \in Ticket \ {t} : u \in queued[m] => u \in queued'[m]
                         /\ m \in job[w].modes => t \in queued'[m]
    BY <1>2, <1>3 DEF QInv, StrongTypeOK, StoreOK
<1>8. JobShape([job[w] EXCEPT !.pc = job[w].after])
    BY <1>1 DEF JobShape, JobType
<1>9. /\ JobsOK' /\ Others(w)
      /\ IF job[w].after = "idle" THEN job'[w] = Idle ELSE Moved(w, job[w].after)
    BY <1>8, AfterStep DEF Put
<1>10. StrongTypeOK'
    BY <1>1, <1>5, <1>6, <1>7, <1>9 DEF QInv, StrongTypeOK, PartyTypeOK, StoreOK, OtherOK, partyVars
<1>11. RowsKeep(w)
    <2>1. Listed(t)'
        <3>1. PICK m \in Mode : m \in job[w].modes
            BY <1>3
        <3> QED BY <1>3, <1>5, <1>7, <3>1 DEF Listed
    <2>2. \A u \in Ticket \ {t} : Listed(u) => Listed(u)'
        BY <1>5, <1>7 DEF Listed
    <2>3. \A u \in Ticket : (Ever(u) => Ever(u)') /\ (Waiting(u)' => Waiting(u))
        BY <1>1 DEF Ever, Waiting
    <2>4. \A u \in Ticket : live'[u] # {} => Ever(u)'
        BY <1>1, <1>4, <1>5 DEF QInv, RowInv, Ever
    <2>5. \A u \in Ticket \ {t} : ~Owes(job[w], u)
        BY <1>3 DEF Owes
    <2>6. \A u \in Ticket : Ever(u)' => row'[u].modes # {}
        BY <1>1 DEF QInv, RowInv, Ever
    <2> QED BY <2>1, <2>2, <2>3, <2>4, <2>5, <2>6 DEF RowsKeep
<1>12. CASE job[w].after = "idle"
    <2>1. JobKeeps(w) /\ JobRows(job[w])' /\ LostOK(job[w])'
        BY <1>9, <1>12 DEF Idle, JobKeeps, Claims, Returns, Answers, JobRows, LostOK
    <2> QED BY <1>1, <1>9, <1>10, <1>11, <2>1, QuietStep DEF partyVars
<1>13. CASE job[w].after \in {"assert", "requeue"}
    <2>1. Moved(w, job[w].after)
        BY <1>9, <1>13
    <2>2. JobKeeps(w)
        BY <1>1, <1>13, <2>1 DEF Moved, JobKeeps, Claims, Returns, Answers
    <2>3. JobRows(job[w])' /\ LostOK(job[w])'
        BY <1>1, <1>13, <2>1 DEF Moved, JobRows, LostOK, Ever
    <2> QED BY <1>1, <1>9, <1>10, <1>11, <2>2, <2>3, QuietStep DEF partyVars
<1> QED BY <1>1, <1>12, <1>13 DEF JobShape

\* assertRoster, service.ts 299-310
LEMMA JoinAssertQ ==
    ASSUME QInv, NEW w \in Worker, JoinAssert(w)
    PROVE  QInv'
<1>1. job[w].pc = "assert" /\ job[w] \in JobType /\ JobShape(job[w]) /\ JobRows(job[w])
    BY JobFacts DEF JoinAssert, At
<1>2. CASE End(w)
    <2>1. JobsOK' /\ job'[w] = Idle /\ Others(w)
        BY <1>2, EndStep DEF QInv, StrongTypeOK
    <2>2. JobKeeps(w) /\ JobRows(job'[w]) /\ LostOK(job'[w])
        BY <2>1 DEF Idle, JobKeeps, Claims, Returns, Answers, JobRows, LostOK
    <2> QED BY <1>1, <2>1, <2>2, LookStep DEF JoinAssert
<1>3. CASE job' = [job EXCEPT ![w].pc = "drop", ![w].after = "idle"]
    <2> DEFINE j == [job[w] EXCEPT !.pc = "drop", !.after = "idle"]
    <2>1. j \in JobType /\ job' = [job EXCEPT ![w] = j]
        BY <1>1, <1>3 DEF JobType, Steps
    <2>2. j.pc = "drop" /\ j.ticket = job[w].ticket /\ j.after = "idle" /\ j.players = job[w].players
          /\ j.tickets = job[w].tickets /\ j.copies = job[w].copies
        BY <1>1 DEF JobType
    <2> HIDE DEF j
    <2>3. JobShape(j)
        BY <1>1, <2>2 DEF JobShape
    <2>4. JobsOK' /\ job'[w] = j /\ Others(w)
        BY <2>1, <2>3, JobStep DEF QInv, StrongTypeOK
    <2>5. job[w].players = {}
        BY <1>1 DEF JobShape
    <2>6. JobKeeps(w) /\ JobRows(job'[w]) /\ LostOK(job'[w])
        BY <1>1, <2>2, <2>4, <2>5 DEF JobKeeps, Claims, Returns, Answers, JobRows, LostOK
    <2> QED BY <1>1, <2>4, <2>6, LookStep DEF JoinAssert
<1> QED BY <1>2, <1>3 DEF JoinAssert

\* A ticket leaves some modes, service.ts 437-449
LEMMA ShrinkQ ==
    ASSUME QInv, NEW w \in Worker, Shrink(w)
    PROVE  QInv'
<1>1. /\ job[w].pc = "shrink" /\ job[w] \in JobType /\ JobShape(job[w]) /\ JobRows(job[w])
      /\ UNCHANGED <<live, queued, partyKey, match, challenge, crashes, ops, requests, partyVars>>
    BY JobFacts DEF Shrink, At, UnchangedLive, notQueue, notJob
<1>2. job[w].ticket \in Ticket /\ job[w].modes \in SUBSET Mode
    BY <1>1 DEF JobShape, JobType
<1>3. row' = [row EXCEPT ![job[w].ticket] = [row[job[w].ticket] EXCEPT !.modes = job[w].modes]]
    BY DEF Shrink
<1>4. \A u \in Ticket : row[u] \in Rows /\ [row[u] EXCEPT !.modes = job[w].modes] \in Rows
                        /\ [row[u] EXCEPT !.modes = job[w].modes].status = row[u].status
                        /\ [row[u] EXCEPT !.modes = job[w].modes].modes = job[w].modes
    BY <1>2 DEF QInv, StrongTypeOK, StoreOK, Rows
<1>5. /\ row' \in [Ticket -> Rows]
      /\ \A u \in Ticket : row'[u].status = row[u].status /\ (row[u].modes # {} => row'[u].modes # {})
    BY <1>1, <1>2, <1>3, <1>4 DEF JobShape, QInv, StrongTypeOK, StoreOK
<1>6. JobShape([job[w] EXCEPT !.pc = "put"])
    BY <1>1 DEF JobShape, JobType
<1>7. JobsOK' /\ Moved(w, "put") /\ Others(w)
    BY <1>6, MoveStep DEF Shrink, Steps
<1>8. StrongTypeOK'
    BY <1>1, <1>5, <1>7 DEF QInv, StrongTypeOK, PartyTypeOK, StoreOK, OtherOK, partyVars
<1>9. JobKeeps(w)
    BY <1>1, <1>7 DEF Moved, JobKeeps, Claims, Returns, Answers, JobShape
<1>10. JobRows(job[w])' /\ LostOK(job[w])'
    BY <1>1, <1>2, <1>5, <1>7 DEF Moved, JobRows, LostOK, Ever, JobType
<1>11. RowsKeep(w)
    BY <1>1, <1>5 DEF RowsKeep, QInv, RowInv, Ever, Waiting, Listed, Owes
<1> QED BY <1>1, <1>7, <1>8, <1>9, <1>10, <1>11, QuietStep DEF partyVars

\* cancelParty looks the next party up, service.ts 454-470
LEMMA CancelPartyQ ==
    ASSUME QInv, NEW w \in Worker, CancelParty(w)
    PROVE  QInv'
<1>1. job[w].pc = "cancel" /\ job[w] \in JobType /\ JobShape(job[w]) /\ JobRows(job[w])
    BY JobFacts DEF CancelParty, At
<1>2. CASE End(w)
    <2>1. JobsOK' /\ job'[w] = Idle /\ Others(w)
        BY <1>2, EndStep DEF QInv, StrongTypeOK
    <2>2. JobKeeps(w) /\ JobRows(job'[w]) /\ LostOK(job'[w])
        BY <2>1 DEF Idle, JobKeeps, Claims, Returns, Answers, JobRows, LostOK
    <2> QED BY <1>1, <2>1, <2>2, LookStep DEF CancelParty
<1>3. CASE job[w].players # {} /\ Goto(w, "direct")
    <2>1. JobShape([job[w] EXCEPT !.pc = "direct"])
        BY <1>1, <1>3 DEF JobShape, JobType
    <2>2. JobsOK' /\ Moved(w, "direct") /\ Others(w)
        BY <1>3, <2>1, MoveStep DEF Steps
    <2>3. JobKeeps(w) /\ JobRows(job'[w]) /\ LostOK(job'[w])
        BY <1>1, <2>2 DEF Moved, JobKeeps, Claims, Returns, Answers, JobRows, LostOK
    <2> QED BY <1>1, <2>2, <2>3, LookStep DEF CancelParty
<1>4. CASE job[w].rest # <<>>
    <2> DEFINE t == TicketForParty(Head(job[w].rest))
               step == IF t = NoTicket THEN "cancel" ELSE "drop"
               modes == IF t = NoTicket THEN {} ELSE live[t]
               j == [job[w] EXCEPT !.rest = Tail(@), !.pc = step, !.ticket = t, !.modes = modes, !.after = "cancel"]
    <2>1. job[w].rest \in Seq(Party)
        BY <1>1 DEF JobShape
    <2>2. Head(job[w].rest) \in Party /\ Tail(job[w].rest) \in Seq(Party)
        BY <1>4, <2>1
    <2>3. Tail(job[w].rest) \in Seq(Party \cup {NoParty})
        BY SMTT(30), <1>1, <1>4 DEF JobType
    <2>4. t \in Ticket \cup {NoTicket} /\ (t # NoTicket => Ever(t)) /\ modes \in SUBSET Mode
        BY <2>2 DEF QInv, StrongTypeOK, StoreOK, RowInv, TicketForParty
    <2>5. job' = [job EXCEPT ![w] = j]
        BY <1>4 DEF CancelParty
    <2>6. step \in {"cancel", "drop"} /\ (step = "drop" => t # NoTicket)
        OBVIOUS
    <2> HIDE DEF t, step, modes
    <2>7. j \in JobType
        BY <1>1, <2>3, <2>4, <2>6 DEF JobType, Steps
    <2>8. j.pc = step /\ j.ticket = t /\ j.after = "cancel" /\ j.players = job[w].players
          /\ j.rest = Tail(job[w].rest) /\ j.tickets = job[w].tickets /\ j.copies = job[w].copies
        BY <1>1 DEF JobType
    <2> HIDE DEF j
    <2>9. JobShape(j)
        BY <2>2, <2>4, <2>6, <2>8 DEF JobShape
    <2>10. JobsOK' /\ job'[w] = j /\ Others(w)
        BY <2>5, <2>7, <2>9, JobStep DEF QInv, StrongTypeOK
    <2>11. JobKeeps(w) /\ JobRows(job'[w]) /\ LostOK(job'[w])
        BY <1>1, <2>4, <2>6, <2>8, <2>10 DEF JobKeeps, Claims, Returns, Answers, JobRows, LostOK
    <2> QED BY <1>1, <2>10, <2>11, LookStep DEF CancelParty
<1> QED BY <1>2, <1>3, <1>4 DEF CancelParty

\* dropLive, service.ts 412-421, takes one ticket out and no other
LEMMA DropStep ==
    ASSUME StoreOK, NEW t \in Ticket, NEW modes, DropLive(t, modes)
    PROVE  /\ live' \in [Ticket -> SUBSET Mode] /\ queued' \in [Mode -> SUBSET Ticket]
           /\ partyKey' \in [Party -> Ticket \cup {NoTicket}]
           /\ live'[t] = {} /\ \A u \in Ticket \ {t} : live'[u] = live[u] /\ (Listed(u) => Listed(u)')
<1>1. live' \in [Ticket -> SUBSET Mode] /\ live'[t] = {} /\ \A u \in Ticket \ {t} : live'[u] = live[u]
    BY DEF StoreOK, DropLive
<1>2. queued' \in [Mode -> SUBSET Ticket] /\ \A m \in Mode, u \in Ticket \ {t} : u \in queued[m] => u \in queued'[m]
    BY DEF StoreOK, DropLive
<1>3. partyKey' \in [Party -> Ticket \cup {NoTicket}]
    BY DEF StoreOK, DropLive
<1> QED BY <1>1, <1>2, <1>3 DEF Listed

\* The ticket of a cancelled party is dropped, and its row is what remains to be cancelled
LEMMA DropQ ==
    ASSUME QInv, NEW w \in Worker, Drop(w)
    PROVE  QInv'
<1>1. /\ job[w].pc = "drop" /\ job[w] \in JobType /\ JobShape(job[w]) /\ JobRows(job[w])
      /\ UNCHANGED <<row, match, challenge, crashes, ops, requests, partyVars>>
    BY JobFacts DEF Drop, At, notQueue, notJob
<1>2. PICK t \in Ticket : t = job[w].ticket
    BY <1>1 DEF JobShape
<1>3. DropLive(t, job[w].modes)
    BY <1>2 DEF Drop
<1>4. /\ live' \in [Ticket -> SUBSET Mode] /\ queued' \in [Mode -> SUBSET Ticket]
      /\ partyKey' \in [Party -> Ticket \cup {NoTicket}]
      /\ live'[t] = {} /\ \A u \in Ticket \ {t} : live'[u] = live[u] /\ (Listed(u) => Listed(u)')
    BY <1>3, DropStep DEF QInv, StrongTypeOK
<1>5. JobShape([job[w] EXCEPT !.pc = "cancelRow"])
    BY <1>1 DEF JobShape, JobType
<1>6. JobsOK' /\ Moved(w, "cancelRow") /\ Others(w)
    BY <1>5, MoveStep DEF Drop, Steps
<1>7. StrongTypeOK'
    BY <1>1, <1>4, <1>6 DEF QInv, StrongTypeOK, PartyTypeOK, StoreOK, OtherOK, partyVars
<1>8. JobKeeps(w)
    BY <1>1, <1>6 DEF Moved, JobKeeps, Claims, Returns, Answers
<1>9. JobRows(job[w])' /\ LostOK(job[w])'
    BY <1>1, <1>6 DEF Moved, JobRows, LostOK, Ever
<1>10. RowsKeep(w)
    <2>1. \A u \in Ticket : (Ever(u) => Ever(u)') /\ (Waiting(u)' => Waiting(u))
        BY <1>1 DEF Ever, Waiting
    <2>2. \A u \in Ticket : live'[u] # {} => Ever(u)'
        BY <1>1, <1>4 DEF QInv, RowInv, Ever
    <2>3. Owes(job'[w], t) /\ \A u \in Ticket : ~Owes(job[w], u)
        BY <1>1, <1>2, <1>6 DEF Owes, Moved
    <2>4. \A u \in Ticket : Ever(u)' => row'[u].modes # {}
        BY <1>1 DEF QInv, RowInv, Ever
    <2> QED BY <1>4, <2>1, <2>2, <2>3, <2>4 DEF RowsKeep
<1> QED BY <1>1, <1>6, <1>7, <1>8, <1>9, <1>10, QuietStep DEF partyVars

\* A status other than waiting is set, and the rows are no worse listed
LEMMA CancelsRows ==
    ASSUME QInv, NEW w \in Worker, NEW S, NEW status \in {"matched", "cancelled"}, SetStatus(S, status),
           UnchangedLive, \A t \in S : Ever(t), \A t \in Ticket : Owes(job[w], t) => t \in S \/ ~Waiting(t)
    PROVE  /\ row' \in [Ticket -> Rows] /\ RowsKeep(w)
           /\ \A t \in Ticket : (Ever(t) <=> Ever(t)') /\ (Waiting(t)' => Waiting(t)) /\ (t \in S => ~Waiting(t)')
<1>1. /\ row' \in [Ticket -> Rows]
      /\ \A t \in Ticket : /\ t \in S => row'[t].status = status
                           /\ t \notin S => row'[t] = row[t]
                           /\ row'[t].modes = row[t].modes
    BY StatusStep DEF QInv, StrongTypeOK, Statuses
<1>2. \A t \in Ticket : (Ever(t) <=> Ever(t)') /\ (Waiting(t)' => Waiting(t)) /\ (t \in S => ~Waiting(t)')
    BY <1>1 DEF Ever, Waiting
<1>3. \A t \in Ticket : (Listed(t) => Listed(t)') /\ (live'[t] # {} => Ever(t)')
    BY <1>2 DEF UnchangedLive, Listed, QInv, RowInv
<1>4. \A t \in Ticket : Ever(t)' => row'[t].modes # {}
    BY <1>1, <1>2 DEF QInv, RowInv
<1> QED BY <1>1, <1>2, <1>3, <1>4 DEF RowsKeep

\* The row of a dropped ticket is cancelled if it waits, service.ts 462-466
LEMMA CancelRowQ ==
    ASSUME QInv, NEW w \in Worker, CancelRow(w)
    PROVE  QInv'
<1>1. /\ job[w].pc = "cancelRow" /\ job[w] \in JobType /\ JobShape(job[w]) /\ JobRows(job[w])
      /\ UNCHANGED <<live, queued, partyKey, match, challenge, crashes, ops, requests, partyVars>>
    BY JobFacts DEF CancelRow, At, UnchangedLive, notQueue, notJob
<1> DEFINE S == {job[w].ticket} \cap {t \in Ticket : Waiting(t)}
<1>2. \A t \in S : Ever(t)
    BY DEF Ever, Waiting
<1>3. \A t \in Ticket : Owes(job[w], t) => t \in S \/ ~Waiting(t)
    BY DEF Owes
<1>4. SetStatus(S, "cancelled") /\ UnchangedLive
    BY DEF CancelRow
<1> HIDE DEF S
<1>5. row' \in [Ticket -> Rows] /\ RowsKeep(w) /\ \A t \in Ticket : (Ever(t) <=> Ever(t)')
    BY <1>2, <1>3, <1>4, CancelsRows
<1>6. job[w].after # "idle" => JobShape([job[w] EXCEPT !.pc = job[w].after])
    BY <1>1 DEF JobShape, JobType
<1>7. /\ JobsOK' /\ Others(w)
      /\ IF job[w].after = "idle" THEN job'[w] = Idle ELSE Moved(w, job[w].after)
    BY <1>6, AfterStep DEF CancelRow
<1>8. StrongTypeOK'
    BY <1>1, <1>5, <1>7 DEF QInv, StrongTypeOK, PartyTypeOK, StoreOK, OtherOK, partyVars
<1>9. CASE job[w].after = "idle"
    <2>1. JobKeeps(w) /\ JobRows(job[w])' /\ LostOK(job[w])'
        BY <1>7, <1>9 DEF Idle, JobKeeps, Claims, Returns, Answers, JobRows, LostOK
    <2> QED BY <1>1, <1>5, <1>7, <1>8, <2>1, QuietStep DEF partyVars
<1>10. CASE job[w].after = "cancel"
    <2>1. JobKeeps(w)
        BY <1>1, <1>7, <1>10 DEF Moved, JobKeeps, Claims, Returns, Answers
    <2>2. JobRows(job[w])' /\ LostOK(job[w])'
        BY <1>1, <1>5, <1>7, <1>10, QueueAssumption DEF Moved, JobRows, LostOK, JobType
    <2> QED BY <1>1, <1>5, <1>7, <1>8, <2>1, <2>2, QuietStep DEF partyVars
<1> QED BY <1>1, <1>9, <1>10 DEF JobShape

-----------------------------------------------------------------------------
\* A pass of the matchmaker proposes tickets it has read, queue/loop.ts 10-65
LEMMA ProposeQ ==
    ASSUME QInv, NEW w \in Worker, NEW m \in Mode, NEW S \in SUBSET Ticket, Propose(w, m, S)
    PROVE  QInv'
<1> DEFINE i == [Idle EXCEPT !.tickets = S]
           j == [i EXCEPT !.pc = "claim"]
<1>1. S # {} /\ (\A t \in S : Ever(t)) /\ Begin(w, "claim", i)
    BY DEF Propose, QInv, RowInv
<1>2. i \in JobType
    BY IdleType DEF JobType
<1>3. j.pc = "claim" /\ j.ticket = NoTicket /\ j.tickets = S /\ j.match = NoMatch /\ j.players = {}
      /\ j.copies = [t \in Ticket |-> {}]
    BY IdleType DEF JobType, Idle
<1> HIDE DEF i
<1>4. JobShape(j)
    <2> HIDE DEF j
    <2> QED BY <1>1, <1>3 DEF JobShape
<1>5. JobsOK' /\ job[w] = Idle /\ job'[w] = j /\ Others(w) /\ requests' \in 0..MaxRequests
    BY <1>1, <1>2, <1>4, BeginStep DEF QInv, Steps
<1> HIDE DEF j
<1>6. JobKeeps(w) /\ JobRows(job'[w]) /\ LostOK(job'[w])
    BY <1>1, <1>3, <1>5 DEF JobKeeps, Claims, Returns, Answers, JobRows, LostOK
<1>7. \A t \in Ticket : ~Owes(job[w], t)
    BY <1>5 DEF Owes, Idle
<1> QED BY <1>5, <1>6, <1>7, ReadStep DEF Propose, partyVars, QInv, StrongTypeOK, PartyTypeOK

\* The claimed tickets are read before they are dropped, service.ts 506-517. They are in the match of the pass
LEMMA LoadTicketsQ ==
    ASSUME QInv, NEW w \in Worker, LoadTickets(w)
    PROVE  QInv'
<1>1. job[w].pc = "load" /\ job[w] \in JobType /\ JobShape(job[w]) /\ JobRows(job[w]) /\ LostOK(job[w])
    BY JobFacts DEF LoadTickets, At
<1> DEFINE copies == [t \in Ticket |-> IF t \in job[w].tickets THEN live[t] ELSE {}]
           j == [job[w] EXCEPT !.pc = "consume", !.tickets = {}, !.copies = copies]
<1>2. copies \in [Ticket -> SUBSET Mode]
    BY DEF QInv, StrongTypeOK, StoreOK
<1>3. \A t \in Ticket : copies[t] # {} => t \in job[w].tickets
    OBVIOUS
<1>4. job' = [job EXCEPT ![w] = j]
    BY DEF LoadTickets
<1> HIDE DEF copies
<1>5. j \in JobType
    BY <1>1, <1>2 DEF JobType, Steps
<1>6. j.pc = "consume" /\ j.ticket = job[w].ticket /\ j.tickets = {} /\ j.copies = copies /\ j.match = job[w].match
      /\ j.players = job[w].players
    BY <1>1 DEF JobType
<1> HIDE DEF j
<1>7. JobShape(j)
    BY <1>1, <1>6 DEF JobShape
<1>8. JobsOK' /\ job'[w] = j /\ Others(w)
    BY <1>4, <1>5, <1>7, JobStep DEF QInv, StrongTypeOK
<1>9. \A t \in job[w].tickets : ~Fresh(t)
    BY <1>1 DEF LostOK, JobShape, Fresh
<1>10. job[w].match # NoMatch
    BY <1>1, QueueAssumption DEF JobShape
<1>11. JobKeeps(w) /\ JobRows(job'[w]) /\ LostOK(job'[w])
    BY <1>1, <1>3, <1>6, <1>8, <1>9, <1>10 DEF JobKeeps, Claims, Returns, Answers, JobRows, LostOK, Gone
<1> QED BY <1>1, <1>8, <1>11, LookStep DEF LoadTickets

\* The claim was lost: the rows that do not wait any more are looked at, service.ts 536-551
LEMMA ClaimLostQ ==
    ASSUME QInv, NEW w \in Worker, ClaimLost(w)
    PROVE  QInv'
<1>1. job[w].pc = "claim" /\ job[w] \in JobType /\ JobShape(job[w]) /\ JobRows(job[w]) /\ LostOK(job[w])
    BY JobFacts DEF ClaimLost, At
<1> DEFINE lost == {t \in job[w].tickets : ~Waiting(t)}
           j == [job[w] EXCEPT !.pc = "lost", !.tickets = lost]
<1>2. job' = [job EXCEPT ![w] = j]
    BY DEF ClaimLost
<1>3. lost \subseteq job[w].tickets /\ \A t \in lost : ~Waiting(t)
    OBVIOUS
<1> HIDE DEF lost
<1>4. j \in JobType
    BY <1>1, <1>3 DEF JobType, Steps
<1>5. j.pc = "lost" /\ j.ticket = job[w].ticket /\ j.tickets = lost /\ j.copies = job[w].copies
      /\ j.match = job[w].match /\ j.players = job[w].players
    BY <1>1 DEF JobType
<1> HIDE DEF j
<1>6. JobShape(j)
    BY <1>1, <1>5 DEF JobShape
<1>7. JobsOK' /\ job'[w] = j /\ Others(w)
    BY <1>2, <1>4, <1>6, JobStep DEF QInv, StrongTypeOK
<1>8. JobKeeps(w) /\ JobRows(job'[w]) /\ LostOK(job'[w])
    BY SMTT(30), <1>1, <1>3, <1>5, <1>7 DEF JobKeeps, Claims, Returns, Answers, JobRows, LostOK, Gone
<1> QED BY <1>1, <1>7, <1>8, LookStep DEF ClaimLost

\* The next lost ticket
LEMMA ReadLostQ ==
    ASSUME QInv, NEW w \in Worker, ReadLost(w)
    PROVE  QInv'
<1>1. job[w].pc = "lost" /\ job[w] \in JobType /\ JobShape(job[w]) /\ JobRows(job[w]) /\ LostOK(job[w])
    BY JobFacts DEF ReadLost, At
<1>2. CASE End(w)
    <2>1. JobsOK' /\ job'[w] = Idle /\ Others(w)
        BY <1>2, EndStep DEF QInv, StrongTypeOK
    <2>2. JobKeeps(w) /\ JobRows(job'[w]) /\ LostOK(job'[w])
        BY <2>1 DEF Idle, JobKeeps, Claims, Returns, Answers, JobRows, LostOK
    <2> QED BY <1>1, <2>1, <2>2, LookStep DEF ReadLost
<1>3. ASSUME NEW t \in job[w].tickets,
             job' = [job EXCEPT ![w].tickets = @ \ {t}, ![w].copies[t] = live[t],
                                ![w].pc = IF live[t] = {} THEN "lost" ELSE "consume"]
      PROVE  QInv'
    <2> DEFINE step == IF live[t] = {} THEN "lost" ELSE "consume"
               copies == [job[w].copies EXCEPT ![t] = live[t]]
               j == [job[w] EXCEPT !.tickets = @ \ {t}, !.copies = copies, !.pc = step]
    <2>1. t \in Ticket /\ live[t] \in SUBSET Mode
        BY <1>1 DEF JobType, QInv, StrongTypeOK, StoreOK
    <2>2. copies \in [Ticket -> SUBSET Mode] /\ \A u \in Ticket : copies[u] # {} => u = t \/ job[w].copies[u] # {}
        BY <1>1, <2>1 DEF JobType
    <2>3. step \in {"lost", "consume"}
        OBVIOUS
    <2>4. job' = [job EXCEPT ![w] = j]
        BY <1>3
    <2> HIDE DEF copies, step
    <2>5. j \in JobType
        BY <1>1, <2>2, <2>3 DEF JobType, Steps
    <2>6. j.pc = step /\ j.ticket = job[w].ticket /\ j.tickets = job[w].tickets \ {t} /\ j.copies = copies
          /\ j.match = job[w].match /\ j.players = job[w].players
        BY <1>1 DEF JobType
    <2> HIDE DEF j
    <2>7. JobShape(j)
        BY <1>1, <2>3, <2>6 DEF JobShape
    <2>8. JobsOK' /\ job'[w] = j /\ Others(w)
        BY <2>4, <2>5, <2>7, JobStep DEF QInv, StrongTypeOK
    <2>9. job[w].match = NoMatch
        BY <1>1 DEF JobShape
    <2>10. JobKeeps(w) /\ JobRows(job'[w]) /\ LostOK(job'[w])
        BY <1>1, <2>2, <2>3, <2>6, <2>8, <2>9 DEF JobKeeps, Claims, Returns, Answers, JobRows, LostOK
    <2> QED BY <1>1, <2>8, <2>10, LookStep DEF ReadLost
<1> QED BY <1>2, <1>3 DEF ReadLost

\* Tickets of the match, or lost ones, are dropped by their copies, service.ts 412-421
LEMMA ConsumeQ ==
    ASSUME QInv, NEW w \in Worker, Consume(w)
    PROVE  QInv'
<1>1. /\ job[w].pc = "consume" /\ job[w] \in JobType /\ JobShape(job[w]) /\ JobRows(job[w]) /\ LostOK(job[w])
      /\ UNCHANGED <<row, match, challenge, crashes, ops, requests, partyVars>>
    BY JobFacts DEF Consume, At, notQueue, notJob
<1>2. CASE \A t \in Ticket : job[w].copies[t] = {}
    <2> DEFINE step == IF job[w].match = NoMatch THEN "lost" ELSE "create"
    <2>1. Goto(w, step) /\ UnchangedLive
        BY <1>2 DEF Consume
    <2>2. step \in Steps /\ ((step = "lost" /\ job[w].match = NoMatch) \/ (step = "create" /\ job[w].match \in Match))
        <3>1. job[w].match \in Match \cup {NoMatch}
            BY <1>1 DEF JobType
        <3>2. CASE job[w].match = NoMatch
            BY <3>2 DEF Steps
        <3>3. CASE job[w].match # NoMatch
            BY <3>1, <3>3 DEF Steps
        <3> QED BY <3>2, <3>3
    <2> HIDE DEF step
    <2>3. JobShape([job[w] EXCEPT !.pc = step])
        BY <1>1, <2>2 DEF JobShape, JobType
    <2>4. JobsOK' /\ Moved(w, step) /\ Others(w)
        BY <2>1, <2>2, <2>3, MoveStep
    <2>5. JobKeeps(w)
        BY <1>1, <2>2, <2>4 DEF Moved, JobKeeps, Claims, Returns, Answers
    <2>6. JobRows(job'[w]) /\ LostOK(job'[w])
        BY <1>1, <1>2, <2>2, <2>4 DEF Moved, JobRows, LostOK
    <2> QED BY <1>1, <2>1, <2>4, <2>5, <2>6, LookStep DEF storeVars, notQueue, notJob, UnchangedLive
<1>3. ASSUME NEW t \in Ticket, job[w].copies[t] # {}, DropLive(t, job[w].copies[t]),
             job' = [job EXCEPT ![w].copies[t] = {}]
      PROVE  QInv'
    <2>1. /\ live' \in [Ticket -> SUBSET Mode] /\ queued' \in [Mode -> SUBSET Ticket]
          /\ partyKey' \in [Party -> Ticket \cup {NoTicket}]
          /\ live'[t] = {} /\ \A u \in Ticket \ {t} : live'[u] = live[u] /\ (Listed(u) => Listed(u)')
        BY <1>3, DropStep DEF QInv, StrongTypeOK
    <2> DEFINE copies == [job[w].copies EXCEPT ![t] = {}]
               j == [job[w] EXCEPT !.copies = copies]
    <2>2. copies \in [Ticket -> SUBSET Mode] /\ \A u \in Ticket : copies[u] # {} => job[w].copies[u] # {}
        BY <1>1 DEF JobType
    <2>3. job' = [job EXCEPT ![w] = j]
        BY <1>3
    <2> HIDE DEF copies
    <2>4. j \in JobType
        BY <1>1, <2>2 DEF JobType
    <2>5. j.pc = "consume" /\ j.ticket = job[w].ticket /\ j.tickets = job[w].tickets /\ j.copies = copies
          /\ j.match = job[w].match /\ j.players = job[w].players
        BY <1>1 DEF JobType
    <2> HIDE DEF j
    <2>6. JobShape(j)
        BY <1>1, <2>5 DEF JobShape
    <2>7. JobsOK' /\ job'[w] = j /\ Others(w)
        BY <2>3, <2>4, <2>6, JobStep DEF QInv, StrongTypeOK
    <2>8. StrongTypeOK'
        BY <1>1, <2>1, <2>7 DEF QInv, StrongTypeOK, PartyTypeOK, StoreOK, OtherOK, partyVars
    <2>9. JobKeeps(w)
        BY <1>1, <2>5, <2>7 DEF JobKeeps, Claims, Returns, Answers
    <2>10. JobRows(job[w])' /\ LostOK(job[w])'
        BY <1>1, <2>2, <2>5, <2>7 DEF JobRows, LostOK, Ever, Gone, Waiting, Fresh
    <2>11. RowsKeep(w)
        <3>1. \A u \in Ticket : (Ever(u) => Ever(u)') /\ (Waiting(u)' => Waiting(u))
            BY <1>1 DEF Ever, Waiting
        <3>2. \A u \in Ticket : live'[u] # {} => Ever(u)'
            BY <1>1, <2>1 DEF QInv, RowInv, Ever
        <3>3. Waiting(t) => ~Fresh(t)
            BY <1>1, <1>3 DEF LostOK, Gone
        <3>4. \A u \in Ticket : ~Owes(job[w], u)
            BY <1>1 DEF Owes
        <3>5. \A u \in Ticket : Ever(u)' => row'[u].modes # {}
            BY <1>1 DEF QInv, RowInv, Ever
        <3> QED BY <2>1, <3>1, <3>2, <3>3, <3>4, <3>5 DEF RowsKeep
    <2> QED BY <1>1, <2>7, <2>8, <2>9, <2>10, <2>11, QuietStep DEF partyVars
<1> QED BY <1>2, <1>3 DEF Consume

-----------------------------------------------------------------------------
\* Tickets that do not go back are cancelled, whatever became of them, service.ts 600-606
LEMMA DiscardQ ==
    ASSUME QInv, NEW w \in Worker, Discard(w)
    PROVE  QInv'
<1>1. /\ job[w].pc = "discard" /\ job[w] \in JobType /\ JobShape(job[w]) /\ JobRows(job[w]) /\ job[w].match \in Match
      /\ UNCHANGED <<live, queued, partyKey, match, challenge, crashes, ops, requests, partyVars>>
    BY JobFacts DEF Discard, At, UnchangedLive, notQueue, notJob, JobShape
<1> DEFINE S == match[job[w].match].tickets \ job[w].tickets
<1>2. \A t \in S : Ever(t)
    BY <1>1 DEF QInv, RowInv, StrongTypeOK, OtherOK, Matches
<1>3. \A t \in Ticket : ~Owes(job[w], t)
    BY <1>1 DEF Owes
<1>4. SetStatus(S, "cancelled") /\ UnchangedLive
    BY DEF Discard
<1> HIDE DEF S
<1>5. row' \in [Ticket -> Rows] /\ RowsKeep(w) /\ \A t \in Ticket : (Ever(t) <=> Ever(t)')
    BY <1>2, <1>3, <1>4, CancelsRows
<1>6. JobShape([job[w] EXCEPT !.pc = "requeue"])
    BY <1>1 DEF JobShape, JobType
<1>7. JobsOK' /\ Moved(w, "requeue") /\ Others(w)
    BY <1>6, MoveStep DEF Discard, Steps
<1>8. StrongTypeOK'
    BY <1>1, <1>5, <1>7 DEF QInv, StrongTypeOK, PartyTypeOK, StoreOK, OtherOK, partyVars
<1>9. JobKeeps(w)
    BY <1>1, <1>7 DEF Moved, JobKeeps, Claims, Returns, Answers
<1>10. JobRows(job[w])' /\ LostOK(job[w])'
    BY <1>1, <1>5, <1>7, QueueAssumption DEF Moved, JobRows, LostOK, JobType
<1> QED BY <1>1, <1>5, <1>7, <1>8, <1>9, <1>10, QuietStep DEF partyVars

\* A ticket goes back when its party is the same, service.ts 554-576
LEMMA RequeueQ ==
    ASSUME QInv, NEW w \in Worker, Requeue(w)
    PROVE  QInv'
<1>1. /\ job[w].pc = "requeue" /\ job[w] \in JobType /\ JobShape(job[w]) /\ JobRows(job[w]) /\ job[w].match \in Match
      /\ UNCHANGED <<live, queued, partyKey, match, challenge, crashes, ops, requests, partyVars>>
    BY JobFacts DEF Requeue, At, UnchangedLive, notQueue, notJob, JobShape
<1>2. CASE End(w) /\ UNCHANGED row
    <2>1. JobsOK' /\ job'[w] = Idle /\ Others(w)
        BY <1>2, EndStep DEF QInv, StrongTypeOK
    <2>2. JobKeeps(w) /\ JobRows(job'[w]) /\ LostOK(job'[w])
        BY <2>1 DEF Idle, JobKeeps, Claims, Returns, Answers, JobRows, LostOK
    <2> QED BY <1>1, <1>2, <2>1, <2>2, LookStep DEF storeVars, notQueue, notJob
<1>3. ASSUME NEW t \in job[w].tickets, SetStatus({t}, "cancelled"), job' = [job EXCEPT ![w].tickets = @ \ {t}]
      PROVE  QInv'
    <2> DEFINE j == [job[w] EXCEPT !.tickets = @ \ {t}]
    <2>1. j \in JobType /\ job' = [job EXCEPT ![w] = j]
        BY <1>1, <1>3 DEF JobType
    <2>2. j.pc = "requeue" /\ j.ticket = job[w].ticket /\ j.tickets = job[w].tickets \ {t} /\ j.copies = job[w].copies
          /\ j.match = job[w].match /\ j.players = job[w].players
        BY <1>1 DEF JobType
    <2> HIDE DEF j
    <2>3. JobShape(j)
        BY <1>1, <2>2 DEF JobShape
    <2>4. JobsOK' /\ job'[w] = j /\ Others(w)
        BY <2>1, <2>3, JobStep DEF QInv, StrongTypeOK
    <2>5. \A u \in {t} : Ever(u)
        BY <1>1 DEF JobRows
    <2>6. \A u \in Ticket : ~Owes(job[w], u)
        BY <1>1 DEF Owes
    <2>7. row' \in [Ticket -> Rows] /\ RowsKeep(w) /\ \A u \in Ticket : (Ever(u) <=> Ever(u)')
        BY <1>1, <1>3, <2>5, <2>6, CancelsRows DEF UnchangedLive
    <2>8. StrongTypeOK'
        BY <1>1, <2>4, <2>7 DEF QInv, StrongTypeOK, PartyTypeOK, StoreOK, OtherOK, partyVars
    <2>9. JobKeeps(w)
        BY <1>1, <2>2, <2>4 DEF JobKeeps, Claims, Returns, Answers
    <2>10. JobRows(job[w])' /\ LostOK(job[w])'
        BY <1>1, <2>2, <2>4, <2>7, QueueAssumption DEF JobRows, LostOK, JobType
    <2> QED BY <1>1, <2>4, <2>7, <2>8, <2>9, <2>10, QuietStep DEF partyVars
<1>4. ASSUME NEW t \in job[w].tickets, UNCHANGED row,
             job' = [job EXCEPT ![w].pc = "reopen", ![w].tickets = @ \ {t}, ![w].ticket = t, ![w].modes = row[t].modes]
      PROVE  QInv'
    <2> DEFINE j == [job[w] EXCEPT !.pc = "reopen", !.tickets = @ \ {t}, !.ticket = t, !.modes = row[t].modes]
    <2>1. t \in Ticket /\ row[t].modes \in SUBSET Mode /\ row[t].modes # {} /\ Ever(t)
        BY <1>1 DEF JobType, JobRows, QInv, StrongTypeOK, StoreOK, Rows, RowInv
    <2>2. j \in JobType /\ job' = [job EXCEPT ![w] = j]
        BY <1>1, <1>4, <2>1 DEF JobType, Steps
    <2>3. j.pc = "reopen" /\ j.ticket = t /\ j.tickets = job[w].tickets \ {t} /\ j.copies = job[w].copies
          /\ j.match = job[w].match /\ j.players = job[w].players /\ j.modes = row[t].modes
        BY <1>1 DEF JobType
    <2> HIDE DEF j
    <2>4. JobShape(j)
        BY <1>1, <2>1, <2>3 DEF JobShape
    <2>5. JobsOK' /\ job'[w] = j /\ Others(w)
        BY <2>2, <2>4, JobStep DEF QInv, StrongTypeOK
    <2>6. JobKeeps(w) /\ JobRows(job'[w]) /\ LostOK(job'[w])
        BY <1>1, <2>1, <2>3, <2>5 DEF JobKeeps, Claims, Returns, Answers, JobRows, LostOK
    <2> QED BY <1>1, <1>4, <2>5, <2>6, LookStep DEF storeVars, notQueue, notJob
<1> QED BY <1>2, <1>3, <1>4 DEF Requeue

\* The row of a failed match waits again, or its party has another one, service.ts 576-598
LEMMA ReopenQ ==
    ASSUME QInv, NEW w \in Worker, Reopen(w)
    PROVE  QInv'
<1>1. /\ job[w].pc = "reopen" /\ job[w] \in JobType /\ JobShape(job[w]) /\ JobRows(job[w]) /\ job[w].match \in Match
      /\ UNCHANGED <<live, queued, partyKey, match, challenge, crashes, ops, requests, partyVars>>
    BY JobFacts DEF Reopen, At, UnchangedLive, notQueue, notJob, JobShape
<1>2. PICK t \in Ticket : t = job[w].ticket
    BY <1>1 DEF JobShape
<1>3. Ever(t) /\ Returns(job[w], t)
    BY <1>1, <1>2, QueueAssumption DEF JobRows, Returns
<1>4. \A u \in Ticket : ~Owes(job[w], u)
    BY <1>1 DEF Owes
<1>5. CASE SetStatus({t}, "cancelled") /\ Goto(w, "requeue")
    <2>1. row' \in [Ticket -> Rows] /\ RowsKeep(w) /\ \A u \in Ticket : (Ever(u) <=> Ever(u)')
        BY <1>1, <1>3, <1>4, <1>5, CancelsRows DEF UnchangedLive
    <2>2. JobShape([job[w] EXCEPT !.pc = "requeue"])
        BY <1>1 DEF JobShape, JobType
    <2>3. JobsOK' /\ Moved(w, "requeue") /\ Others(w)
        BY <1>5, <2>2, MoveStep DEF Steps
    <2>4. StrongTypeOK'
        BY <1>1, <2>1, <2>3 DEF QInv, StrongTypeOK, PartyTypeOK, StoreOK, OtherOK, partyVars
    <2>5. JobKeeps(w)
        BY <1>1, <2>3 DEF Moved, JobKeeps, Claims, Returns, Answers
    <2>6. JobRows(job[w])' /\ LostOK(job[w])'
        BY <1>1, <2>1, <2>3, QueueAssumption DEF Moved, JobRows, LostOK, JobType
    <2> QED BY <1>1, <2>1, <2>3, <2>4, <2>5, <2>6, QuietStep DEF partyVars
<1>6. CASE SetStatus({t}, "waiting") /\ job' = [job EXCEPT ![w].pc = "put", ![w].after = "requeue"]
    <2>1. /\ row' \in [Ticket -> Rows] /\ row'[t].status = "waiting" /\ row'[t].modes = row[t].modes
          /\ \A u \in Ticket \ {t} : row'[u] = row[u]
        BY <1>6, StatusStep DEF QInv, StrongTypeOK, Statuses
    <2> DEFINE j == [job[w] EXCEPT !.pc = "put", !.after = "requeue"]
    <2>2. j \in JobType /\ job' = [job EXCEPT ![w] = j]
        BY <1>1, <1>6 DEF JobType, Steps
    <2>3. j.pc = "put" /\ j.after = "requeue" /\ j.ticket = t /\ j.tickets = job[w].tickets /\ j.copies = job[w].copies
          /\ j.match = job[w].match /\ j.players = job[w].players /\ j.modes = job[w].modes
        BY <1>1, <1>2 DEF JobType
    <2> HIDE DEF j
    <2>4. JobShape(j)
        BY <1>1, <1>2, <2>3 DEF JobShape
    <2>5. JobsOK' /\ job'[w] = j /\ Others(w)
        BY <2>2, <2>4, JobStep DEF QInv, StrongTypeOK
    <2>6. StrongTypeOK'
        BY <1>1, <2>1, <2>5 DEF QInv, StrongTypeOK, PartyTypeOK, StoreOK, OtherOK, partyVars
    <2>7. JobKeeps(w)
        BY <1>1, <2>3, <2>5 DEF JobKeeps, Claims, Returns, Answers
    <2>8. \A u \in Ticket : Ever(u) => Ever(u)'
        BY <2>1 DEF Ever
    <2>9. JobRows(job[w])' /\ LostOK(job[w])'
        BY <1>1, <1>2, <2>3, <2>5, <2>8 DEF JobRows, LostOK, JobType
    <2>10. Opens(t)
        <3>1. (\A k \in Match : ~Uses(k, t)) /\ ~Fresh(t)
            BY <1>1, <1>3 DEF QInv, ReturnInv, Fresh
        <3>2. \A v \in Worker \ {w} : ~Returns(job[v], t)
            BY <1>3 DEF QInv, ReturnInv
        <3>3. t \notin job[w].tickets
            BY <1>1, <1>2 DEF JobShape
        <3> QED BY <2>3, <2>5, <3>1, <3>2, <3>3 DEF Opens, Returns, Others
    <2>11. RowsKeep(w)
        <3>1. \A u \in Ticket : Waiting(u)' => Waiting(u) \/ u = t
            BY <2>1 DEF Waiting
        <3>2. \A u \in Ticket : Listed(u) => Listed(u)'
            BY <1>1 DEF Listed
        <3>3. \A u \in Ticket : live'[u] # {} => Ever(u)'
            BY <1>1, <2>8 DEF QInv, RowInv
        <3>4. Owes(job'[w], t)
            BY <2>3, <2>5 DEF Owes
        <3>5. \A u \in Ticket : Ever(u)' => row'[u].modes # {}
            BY <1>3, <2>1 DEF QInv, RowInv, Ever
        <3> QED BY <1>4, <2>8, <2>10, <3>1, <3>2, <3>3, <3>4, <3>5 DEF RowsKeep
    <2> QED BY <1>1, <2>5, <2>6, <2>7, <2>9, <2>11, QuietStep DEF partyVars
<1> QED BY <1>2, <1>5, <1>6 DEF Reopen

-----------------------------------------------------------------------------
\* A party change that committed cancels the tickets of the parties that changed, parties/service.ts 194-272
LEMMA PartyChangedQ ==
    ASSUME QInv, PartyTypeOK', NEW w \in Worker, NEW g \in Party, PartyChanged(w, <<g>>),
           \A h \in Party : leader'[h] = NoPlayer => leader[h] = NoPlayer
    PROVE  QInv'
<1> DEFINE i == [Idle EXCEPT !.rest = <<g>>]
           j == [i EXCEPT !.pc = "cancel"]
<1>1. <<g>> \in Seq(Party) /\ <<g>> \in Seq(Party \cup {NoParty})
    OBVIOUS
<1>2. i \in JobType
    BY <1>1, IdleType DEF JobType
<1>3. j.pc = "cancel" /\ j.ticket = NoTicket /\ j.tickets = {} /\ j.match = NoMatch /\ j.players = {}
      /\ j.copies = [t \in Ticket |-> {}] /\ j.rest = <<g>>
    BY IdleType DEF JobType, Idle
<1> HIDE DEF i
<1>4. JobShape(j)
    <2> HIDE DEF j
    <2> QED BY <1>1, <1>3 DEF JobShape
<1>5. JobsOK' /\ job[w] = Idle /\ job'[w] = j /\ Others(w) /\ requests' \in 0..MaxRequests
    <2>1. Begin(w, "cancel", i)
        BY DEF PartyChanged, i
    <2> QED BY <2>1, <1>2, <1>4, BeginStep DEF QInv, Steps
<1> HIDE DEF j
<1>6. JobKeeps(w) /\ JobRows(job'[w]) /\ LostOK(job'[w])
    BY <1>3, <1>5 DEF JobKeeps, Claims, Returns, Answers, JobRows, LostOK
<1>7. \A t \in Ticket : ~Owes(job[w], t)
    BY <1>5 DEF Owes, Idle
<1> QED BY <1>5, <1>6, <1>7, ReadStep DEF PartyChanged

\* The link and the player's own party are read before the lock
LEMMA JoinsQ ==
    ASSUME QInv, NEW w \in Worker, NEW p \in Player, NEW g \in Party, Joins(w, p, g)
    PROVE  QInv'
<1> DEFINE i == [Idle EXCEPT !.party = g, !.link = invite[g], !.players = {p}, !.rest = <<memberOf[p]>>]
           j == [i EXCEPT !.pc = "joinParty"]
<1>1. leader[g] # NoPlayer /\ UNCHANGED <<partyVars, storeVars, notJob>> /\ Begin(w, "joinParty", i)
    BY DEF Joins, Unused
<1>2. memberOf[p] \in Party \cup {NoParty} /\ invite[g] \in Nat
    BY DEF QInv, StrongTypeOK, PartyTypeOK
<1>3. <<memberOf[p]>> \in Seq(Party \cup {NoParty}) /\ <<memberOf[p]>> # <<>>
    BY <1>2
<1>4. i \in JobType
    BY <1>2, <1>3, IdleType DEF JobType
<1>5. j.pc = "joinParty" /\ j.ticket = NoTicket /\ j.tickets = {} /\ j.match = NoMatch /\ j.party = g
      /\ j.copies = [t \in Ticket |-> {}] /\ j.rest = <<memberOf[p]>>
    BY IdleType DEF JobType, Idle
<1> HIDE DEF i
<1>6. JobShape(j)
    <2> HIDE DEF j
    <2> QED BY <1>3, <1>5 DEF JobShape
<1>7. JobsOK' /\ job[w] = Idle /\ job'[w] = j /\ Others(w) /\ requests' \in 0..MaxRequests
    BY <1>1, <1>4, <1>6, BeginStep DEF QInv, Steps
<1> HIDE DEF j
<1>8. UNCHANGED <<row, live, queued, partyKey, match, challenge, ops, crashes, partyVars>>
    BY <1>1 DEF storeVars, notJob
<1>9. StrongTypeOK'
    BY <1>7, <1>8 DEF QInv, StrongTypeOK, PartyTypeOK, StoreOK, OtherOK, partyVars
<1>10. /\ ~Claims(job'[w]) /\ ~Answers(job'[w]) /\ JobRows(job'[w]) /\ LostOK(job'[w])
       /\ \A t \in Ticket : ~Returns(job'[w], t) /\ ~Owes(job[w], t)
    BY <1>5, <1>7 DEF Claims, Returns, Answers, Owes, JobRows, LostOK, Idle
<1> USE DEF QInv
<1>11. \A v \in Worker \ {w} : job'[v] = job[v]
    BY <1>7 DEF Others
<1>12. RowInv'
    <2>1. \A v \in Worker : JobRows(job'[v])
        BY <1>10, <1>11 DEF RowInv
    <2> QED BY <1>8, <2>1 DEF RowInv, JobRows, Ever
<1>13. MatchInv'
    BY <1>8, <1>10, <1>11 DEF MatchInv, Uses, Waiting
<1>14. ReturnInv'
    BY <1>8, <1>10, <1>11 DEF ReturnInv, Uses, Waiting
<1>15. ChallengeInv'
    BY <1>8, <1>10, <1>11 DEF ChallengeInv, OfChallenge
<1>16. ListedInv'
    <2>1. \A v \in Worker : LostOK(job'[v])
        BY <1>10, <1>11 DEF ListedInv
    <2>2. \A v \in Worker : LostOK(job[v])'
        BY <1>8, <2>1 DEF LostOK, Gone, Waiting, Fresh
    <2>3. \A t \in Ticket, v \in Worker : Owes(job[v], t) => Owes(job'[v], t)
        BY <1>10, <1>11
    <2>4. \A t \in Ticket : (Waiting(t)' => Waiting(t)) /\ (Fresh(t)' => Fresh(t)) /\ (Listed(t) => Listed(t)')
        BY <1>8 DEF Waiting, Fresh, Listed
    <2> QED BY <1>8, <2>2, <2>3, <2>4 DEF ListedInv, Owes
<1>17. JoinInv'
    BY <1>1, <1>5, <1>7, <1>8, <1>11 DEF JoinInv, partyVars
<1> QED BY <1>9, <1>12, <1>13, <1>14, <1>15, <1>16, <1>17

\* Under the lock the player is moved, or refused; then the tickets of both parties are cancelled
LEMMA JoinsLockedQ ==
    ASSUME QInv, PartyTypeOK', NEW w \in Worker, JoinsLocked(w),
           \A h \in Party : leader'[h] = NoPlayer => leader[h] = NoPlayer
    PROVE  QInv'
<1>1. /\ job[w].pc = "joinParty" /\ job[w] \in JobType /\ JobShape(job[w])
      /\ UNCHANGED <<storeVars, notJob>> /\ UNCHANGED requests
    BY JobFacts DEF JoinsLocked, At
<1>2. requests' \in 0..MaxRequests /\ \A t \in Ticket : ~Owes(job[w], t)
    BY <1>1 DEF QInv, StrongTypeOK, OtherOK, Owes
<1> DEFINE from == Head(job[w].rest)
           rest == IF from = NoParty THEN <<job[w].party>> ELSE <<from, job[w].party>>
           j == [Idle EXCEPT !.pc = "cancel", !.rest = rest]
<1>3. CASE End(w)
    <2>1. JobsOK' /\ job'[w] = Idle /\ Others(w)
        BY <1>3, EndStep DEF QInv, StrongTypeOK
    <2>2. JobKeeps(w) /\ JobRows(job'[w]) /\ LostOK(job'[w])
        BY <2>1 DEF Idle, JobKeeps, Claims, Returns, Answers, JobRows, LostOK
    <2> QED BY <1>1, <1>2, <2>1, <2>2, ReadStep
<1>4. CASE job' = [job EXCEPT ![w] = j]
    <2>1. from \in Party \cup {NoParty} /\ job[w].party \in Party
        BY <1>1 DEF JobType, JobShape
    <2>2. rest \in Seq(Party) /\ rest \in Seq(Party \cup {NoParty})
        <3>1. CASE from = NoParty
            BY <2>1, <3>1
        <3>2. CASE from # NoParty
            BY <2>1, <3>2
        <3> QED BY <3>1, <3>2
    <2> HIDE DEF rest, from
    <2>3. j \in JobType
        BY <2>2, IdleType DEF JobType, Steps
    <2>4. j.pc = "cancel" /\ j.ticket = NoTicket /\ j.tickets = {} /\ j.match = NoMatch /\ j.players = {}
          /\ j.copies = [t \in Ticket |-> {}] /\ j.rest = rest
        BY IdleType DEF JobType, Idle
    <2>5. job' = [job EXCEPT ![w] = j]
        BY <1>4 DEF rest, from
    <2> HIDE DEF j
    <2>6. JobShape(j)
        BY <2>2, <2>4 DEF JobShape
    <2>7. JobsOK' /\ job'[w] = j /\ Others(w)
        BY <2>3, <2>5, <2>6, JobStep DEF QInv, StrongTypeOK
    <2>8. JobKeeps(w) /\ JobRows(job'[w]) /\ LostOK(job'[w])
        BY <2>4, <2>7 DEF JobKeeps, Claims, Returns, Answers, JobRows, LostOK
    <2> QED BY <1>1, <1>2, <2>7, <2>8, ReadStep
<1> QED BY <1>3, <1>4 DEF JoinsLocked

-----------------------------------------------------------------------------
\* Matches come and go: rows do not come to wait, tickets stay in their match, the jobs of others go on
LEMMA MatchFrame ==
    ASSUME QInv, NEW w \in Worker, StrongTypeOK', Others(w), UNCHANGED <<leader, live, queued, crashes>>,
           \A t \in Ticket : (Ever(t)' <=> Ever(t)) /\ row'[t].modes = row[t].modes /\ (Waiting(t)' => Waiting(t)),
           \A k \in Match : match[k].tickets \subseteq match'[k].tickets,
           \A k \in Match, t \in Ticket : t \in match'[k].tickets => Ever(t),
           JobRows(job[w])', LostOK(job[w])', job'[w].pc = "joinParty" => job'[w] = job[w],
           \A t \in Ticket : Owes(job[w], t) => Owes(job'[w], t)
    PROVE  RowInv' /\ ListedInv' /\ JoinInv'
<1> USE DEF QInv
<1>1. \A v \in Worker \ {w} : job'[v] = job[v] /\ job[v] \in JobType /\ JobShape(job[v]) /\ JobRows(job[v]) /\ LostOK(job[v])
    BY JobFacts DEF Others
<1>2. RowInv'
    <2>1. \A v \in Worker : JobRows(job[v])'
        BY <1>1 DEF JobRows, JobType
    <2> QED BY <2>1 DEF RowInv
<1>3. ListedInv'
    <2>1. \A t \in Ticket : (Fresh(t)' => Fresh(t)) /\ (Gone(t) => Gone(t)')
        BY DEF Fresh, Gone
    <2>2. \A v \in Worker : LostOK(job[v])'
        <3>1. \A v \in Worker \ {w} : job[v].pc = "load" => job[v].match \in Match
            BY <1>1 DEF JobShape
        <3> QED BY <1>1, <2>1, <3>1 DEF LostOK, JobType
    <2>3. \A t \in Ticket, v \in Worker : Owes(job[v], t) => Owes(job'[v], t)
        BY <1>1
    <2>4. \A t \in Ticket : Listed(t) => Listed(t)'
        BY DEF Listed
    <2> QED BY <2>1, <2>2, <2>3, <2>4 DEF ListedInv, Owes
<1>4. JoinInv'
    <2>1. \A v \in Worker : job'[v].pc = "joinParty" => job'[v] = job[v]
        BY <1>1
    <2> QED BY <2>1 DEF JoinInv
<1> QED BY <1>2, <1>3, <1>4

\* Which matches there are after one of them changed
Matched(k, m) == /\ match' = [match EXCEPT ![k] = m] /\ m \in Matches
                 /\ match'[k] = m /\ \A l \in Match \ {k} : match'[l] = match[l]

\* One match changes
LEMMA MatchStep ==
    ASSUME OtherOK, NEW k \in Match, NEW m \in Matches, match' = [match EXCEPT ![k] = m]
    PROVE  Matched(k, m) /\ match' \in [Match -> Matches]
BY DEF OtherOK, Matched

\* What a job says of its tickets concerns a match that exists
LEMMA ReturnsMatch ==
    ASSUME QInv, NEW w \in Worker, NEW t \in Ticket, Returns(job[w], t)
    PROVE  job[w].match \in Match
<1>1. job[w] \in JobType /\ JobShape(job[w])
    BY JobFacts
<1> QED BY <1>1 DEF Returns, JobShape

\* A job that is idle, or whose match is put together, has nothing more to claim, return or answer
LEMMA FreeJob ==
    ASSUME NEW j, j.pc \in {"idle", "answer"}
    PROVE  /\ ~Claims(j) /\ ~Answers(j) /\ (\A t \in Ticket : ~Returns(j, t) /\ ~Owes(j, t))
           /\ LostOK(j) /\ j.pc # "joinParty"
BY DEF Claims, Answers, Returns, Owes, LostOK

\* A match made of what was claimed becomes active, match/flow.ts 156-262
LEMMA CreateFromQueueQ ==
    ASSUME QInv, NEW w \in Worker, CreateFromQueue(w)
    PROVE  QInv'
<1>1. /\ job[w].pc = "create" /\ job[w] \in JobType /\ JobShape(job[w])
      /\ UNCHANGED <<row, live, queued, partyKey, challenge, crashes, ops, requests, partyVars>>
    BY JobFacts DEF CreateFromQueue, At, storeVars
<1>2. PICK k \in Match : k = job[w].match
    BY <1>1 DEF JobShape
<1>3. Claims(job[w]) /\ match[k] \in Matches /\ match[k].status = "claimed" /\ match[k].tickets # {}
    <2>1. Claims(job[w])
        BY <1>1, <1>2, QueueAssumption DEF Claims
    <2> QED BY <1>2, <2>1 DEF QInv, MatchInv, StrongTypeOK, OtherOK
<1> DEFINE m == [match[k] EXCEPT !.status = "active"]
<1>4. m \in Matches /\ m.status = "active" /\ m.tickets = match[k].tickets /\ m.players = match[k].players
    BY <1>3 DEF Matches
<1>5. match' = [match EXCEPT ![k] = m]
    BY <1>2 DEF CreateFromQueue
<1> HIDE DEF m
<1>6. Matched(k, m) /\ match' \in [Match -> Matches]
    BY <1>4, <1>5, MatchStep DEF QInv, StrongTypeOK
<1>7. JobsOK' /\ job'[w] = Idle /\ Others(w)
    BY EndStep DEF QInv, StrongTypeOK, CreateFromQueue
<1>8. StrongTypeOK'
    BY <1>1, <1>6, <1>7 DEF QInv, StrongTypeOK, PartyTypeOK, StoreOK, OtherOK, partyVars
<1>9. ~Claims(Idle) /\ ~Answers(Idle) /\ (\A t \in Ticket : ~Returns(Idle, t)) /\ LostOK(job'[w]) /\ JobRows(job'[w])
      /\ job'[w].pc = "idle"
    BY <1>7, FreeJob DEF Idle, JobRows
<1>10. RowInv' /\ ListedInv' /\ JoinInv'
    <2>1. \A l \in Match : match'[l].tickets = match[l].tickets
        BY <1>4, <1>6 DEF Matched
    <2>2. \A t \in Ticket : (Ever(t)' <=> Ever(t)) /\ row'[t].modes = row[t].modes /\ (Waiting(t)' => Waiting(t))
        BY <1>1 DEF Ever, Waiting
    <2>3. JobRows(job[w])' /\ LostOK(job[w])'
        BY <1>7 DEF JobRows, LostOK, Idle
    <2>4. \A t \in Ticket : ~Owes(job[w], t)
        BY <1>1 DEF Owes
    <2> QED BY <1>1, <1>7, <1>8, <1>9, <2>1, <2>2, <2>3, <2>4, MatchFrame DEF partyVars, QInv, RowInv
<1>11. \A l \in Match, t \in Ticket : Uses(l, t)' <=> Uses(l, t)
    BY <1>3, <1>4, <1>6 DEF Uses, Matched
<1>12. \A v \in Worker \ {w} : job'[v] = job[v] /\ (Claims(job[v]) => job[v].match # k)
    BY <1>2, <1>3, <1>7 DEF Others, QInv, MatchInv
<1>13. MatchInv'
    <2>1. \A t \in Ticket : Waiting(t)' <=> Waiting(t)
        BY <1>1 DEF Waiting
    <2>2. \A v \in Worker : Claims(job'[v]) => match'[job'[v].match].status = "claimed"
        <3>1. \A v \in Worker \ {w} : Claims(job[v]) => job[v].match \in Match \ {k}
            BY <1>12, JobFacts DEF Claims, JobType
        <3> QED BY <1>6, <1>7, <1>9, <1>12, <3>1 DEF Matched, QInv, MatchInv
    <2>3. \A u, v \in Worker : Claims(job'[u]) /\ Claims(job'[v]) /\ job'[u].match = job'[v].match => u = v
        BY <1>7, <1>9, <1>12 DEF QInv, MatchInv
    <2> QED BY <1>3, <1>4, <1>6, <1>11, <2>1, <2>2, <2>3 DEF Matched, QInv, MatchInv
<1>14. ReturnInv'
    <2>1. \A l \in Match : match'[l].tickets = match[l].tickets
        BY <1>4, <1>6 DEF Matched
    <2>2. \A v \in Worker, t \in Ticket : Returns(job'[v], t) => Returns(job[v], t) /\ job'[v] = job[v] /\ job[v].match \in Match
        BY <1>7, <1>9, <1>12, ReturnsMatch
    <2>3. \A t \in Ticket : Waiting(t)' <=> Waiting(t)
        BY <1>1 DEF Waiting
    <2> QED BY <1>11, <2>1, <2>2, <2>3 DEF QInv, ReturnInv
<1>15. ChallengeInv'
    <2>1. OfChallenge' = OfChallenge /\ \A l \in OfChallenge : match'[l] = match[l]
        BY <1>3, <1>4, <1>6 DEF Matched, OfChallenge
    <2>2. \A v \in Worker : Answers(job'[v]) => Answers(job[v]) /\ job'[v] = job[v]
        BY <1>7, <1>9, <1>12
    <2> QED BY <1>1, <2>1, <2>2 DEF QInv, ChallengeInv
<1> QED BY <1>8, <1>10, <1>13, <1>14, <1>15 DEF QInv

\* A match that is over: neither its tickets nor its players are in a match any more
LEMMA OverFacts ==
    ASSUME QInv, NEW w \in Worker, NEW k \in Match, match[k].status = "active",
           match' = [match EXCEPT ![k].status = "over"], Others(w), row' = row,
           job'[w] = job[w] \/ (~Claims(job'[w]) /\ ~Answers(job'[w])), challenge' = challenge
    PROVE  /\ match' \in [Match -> Matches] /\ match'[k].status = "over"
           /\ \A l \in Match : match'[l].tickets = match[l].tickets
           /\ \A l \in Match, t \in Ticket : Uses(l, t)' => Uses(l, t) /\ l # k
           /\ MatchInv' /\ ChallengeInv'
<1> DEFINE m == [match[k] EXCEPT !.status = "over"]
<1>1. match[k] \in Matches /\ match' = [match EXCEPT ![k] = m]
    BY DEF QInv, StrongTypeOK, OtherOK
<1>2. m \in Matches /\ m.status = "over" /\ m.tickets = match[k].tickets /\ m.players = match[k].players
    BY <1>1 DEF Matches
<1> HIDE DEF m
<1>3. Matched(k, m) /\ match' \in [Match -> Matches]
    BY <1>1, <1>2, MatchStep DEF QInv, StrongTypeOK
<1>4. \A l \in Match : match'[l].tickets = match[l].tickets /\ match'[l].players = match[l].players
                       /\ (match'[l].status = match[l].status \/ l = k)
    BY <1>2, <1>3 DEF Matched
<1>5. \A l \in Match, t \in Ticket : Uses(l, t)' => Uses(l, t) /\ l # k
    BY <1>2, <1>3, <1>4 DEF Matched, Uses
<1>6. \A v \in Worker \ {w} : job'[v] = job[v]
    BY DEF Others
<1>7. \A v \in Worker : Claims(job'[v]) => Claims(job[v]) /\ job'[v] = job[v] /\ job[v].match \in Match \ {k}
    <2>1. \A v \in Worker : Claims(job'[v]) => Claims(job[v]) /\ job'[v] = job[v]
        BY <1>6
    <2>2. \A v \in Worker : Claims(job[v]) => job[v].match \in Match /\ match[job[v].match].status = "claimed"
        BY JobFacts DEF Claims, JobType, QInv, MatchInv
    <2> QED BY <2>1, <2>2
<1>8. MatchInv'
    <2>1. \A t \in Ticket : Waiting(t)' <=> Waiting(t)
        BY DEF Waiting
    <2>2. \A v \in Worker : Claims(job'[v]) => match'[job'[v].match].status = "claimed"
        BY <1>3, <1>7 DEF Matched, QInv, MatchInv
    <2>3. \A u, v \in Worker : Claims(job'[u]) /\ Claims(job'[v]) /\ job'[u].match = job'[v].match => u = v
        BY <1>7 DEF QInv, MatchInv
    <2> QED BY <1>2, <1>3, <1>5, <2>1, <2>2, <2>3 DEF Matched, QInv, MatchInv
<1>9. ChallengeInv'
    <2>1. OfChallenge' \subseteq OfChallenge
        BY <1>2, <1>3, <1>4 DEF Matched, OfChallenge
    <2>2. \A v \in Worker : Answers(job'[v]) => Answers(job[v]) /\ job'[v] = job[v]
        BY <1>6
    <2>3. \A u, v \in Worker : Answers(job'[u]) /\ Answers(job'[v]) => u = v
        BY <2>2 DEF QInv, ChallengeInv
    <2>4. \A v \in Worker : Answers(job'[v]) =>
              OfChallenge' = {} /\ challenge'.by \in job'[v].players /\ challenge'.status # "none"
        BY <2>1, <2>2 DEF QInv, ChallengeInv
    <2>5. \A l \in OfChallenge' : challenge'.by \in match'[l].players /\ challenge'.status # "none"
        BY <1>4, <2>1 DEF QInv, ChallengeInv, OfChallenge
    <2>6. \A l, n \in OfChallenge' : l = n
        BY <2>1 DEF QInv, ChallengeInv
    <2> QED BY <2>3, <2>4, <2>5, <2>6 DEF ChallengeInv
<1> QED BY <1>2, <1>3, <1>4, <1>5, <1>8, <1>9 DEF Matched

\* A match ends
LEMMA MatchOverQ ==
    ASSUME QInv, NEW w \in Worker, NEW k \in Match, MatchOver(k)
    PROVE  QInv'
<1>1. /\ match[k].status = "active" /\ match' = [match EXCEPT ![k].status = "over"] /\ job' = job
      /\ UNCHANGED <<row, live, queued, partyKey, challenge, crashes, ops, requests, partyVars>>
    BY DEF MatchOver, storeVars
<1>2. Others(w) /\ job'[w] = job[w]
    BY <1>1 DEF Others
<1>3. /\ match' \in [Match -> Matches] /\ match'[k].status = "over"
      /\ \A l \in Match : match'[l].tickets = match[l].tickets
      /\ \A l \in Match, t \in Ticket : Uses(l, t)' => Uses(l, t) /\ l # k
      /\ MatchInv' /\ ChallengeInv'
    BY <1>1, <1>2, OverFacts
<1>4. StrongTypeOK'
    BY <1>1, <1>3 DEF QInv, StrongTypeOK, PartyTypeOK, StoreOK, OtherOK, partyVars, JobsOK
<1>5. \A t \in Ticket : (Ever(t)' <=> Ever(t)) /\ row'[t].modes = row[t].modes /\ (Waiting(t)' <=> Waiting(t))
    BY <1>1 DEF Ever, Waiting
<1>6. RowInv' /\ ListedInv' /\ JoinInv'
    <2>1. JobRows(job[w])'
        BY <1>1, <1>5, JobFacts DEF JobRows, JobType, Ever
    <2>2. LostOK(job[w])'
        <3>1. \A t \in Ticket : Gone(t)' <=> Gone(t)
            BY <1>3, <1>5 DEF Gone, Fresh
        <3> QED BY <1>1, <1>3, <3>1, JobFacts DEF LostOK, JobShape, JobType
    <2> QED BY <1>1, <1>2, <1>3, <1>4, <1>5, <2>1, <2>2, MatchFrame DEF partyVars, QInv, RowInv
<1>7. ReturnInv'
    BY <1>1, <1>3, <1>5, ReturnsMatch DEF QInv, ReturnInv
<1> QED BY <1>3, <1>4, <1>6, <1>7 DEF QInv

\* A match fails and some of its tickets go back: a job holds them from now on, match/flow.ts 404-470
LEMMA MatchFailsQ ==
    ASSUME QInv, NEW w \in Worker, NEW k \in Match, NEW back \in SUBSET Ticket, MatchFails(w, k, back)
    PROVE  QInv'
<1>1. /\ match[k].status = "active" /\ match' = [match EXCEPT ![k].status = "over"] /\ back \subseteq match[k].tickets
      /\ UNCHANGED <<row, live, queued, partyKey, challenge, crashes, ops, partyVars>>
    BY DEF MatchFails, storeVars
<1> DEFINE i == [Idle EXCEPT !.tickets = back, !.match = k]
           j == [i EXCEPT !.pc = "discard"]
<1>2. Begin(w, "discard", i)
    BY DEF MatchFails
<1>3. i \in JobType
    BY IdleType DEF JobType
<1>4. j.pc = "discard" /\ j.ticket = NoTicket /\ j.tickets = back /\ j.match = k /\ j.players = {}
      /\ j.copies = [t \in Ticket |-> {}]
    BY IdleType DEF JobType, Idle
<1> HIDE DEF i
<1>5. JobShape(j)
    <2> HIDE DEF j
    <2> QED BY <1>4 DEF JobShape
<1>6. JobsOK' /\ job[w] = Idle /\ job'[w] = j /\ Others(w) /\ requests' \in 0..MaxRequests
    BY <1>2, <1>3, <1>5, BeginStep DEF QInv, Steps
<1> HIDE DEF j
<1>7. /\ ~Claims(job'[w]) /\ ~Answers(job'[w]) /\ LostOK(job[w])'
      /\ \A t \in Ticket : ~Owes(job[w], t) /\ (Returns(job'[w], t) => t \in back)
    BY <1>4, <1>6 DEF Claims, Answers, LostOK, Owes, Idle, Returns
<1>8. /\ match' \in [Match -> Matches] /\ match'[k].status = "over"
      /\ \A l \in Match : match'[l].tickets = match[l].tickets
      /\ \A l \in Match, t \in Ticket : Uses(l, t)' => Uses(l, t) /\ l # k
      /\ MatchInv' /\ ChallengeInv'
    BY <1>1, <1>6, <1>7, OverFacts
<1>9. StrongTypeOK'
    BY <1>1, <1>6, <1>8 DEF QInv, StrongTypeOK, PartyTypeOK, StoreOK, OtherOK, partyVars
<1>10. \A t \in Ticket : (Ever(t)' <=> Ever(t)) /\ row'[t].modes = row[t].modes /\ (Waiting(t)' <=> Waiting(t))
    BY <1>1 DEF Ever, Waiting
<1>11. RowInv' /\ ListedInv' /\ JoinInv'
    <2>1. \A t \in back : Ever(t)
        BY <1>1 DEF QInv, RowInv
    <2>2. JobRows(job[w])'
        BY <1>4, <1>6, <1>10, <2>1 DEF JobRows
    <2>3. job'[w].pc # "joinParty"
        BY <1>4, <1>6
    <2> QED BY <1>1, <1>6, <1>7, <1>8, <1>9, <1>10, <2>2, <2>3, MatchFrame DEF partyVars, QInv, RowInv
<1>12. ReturnInv'
    <2>1. \A t \in back : Uses(k, t)
        BY <1>1 DEF Uses
    <2>2. \A v \in Worker \ {w} : job'[v] = job[v]
        BY <1>6 DEF Others
    <2>3. \A v \in Worker \ {w}, t \in Ticket : Returns(job'[v], t) => t \notin back
        BY <2>1, <2>2 DEF QInv, ReturnInv
    <2>4. \A t \in back : ~Waiting(t)' /\ t \in match'[k].tickets /\ \A l \in Match : ~Uses(l, t)'
        BY <1>1, <1>8, <1>10, <2>1 DEF QInv, MatchInv
    <2>5. \A v \in Worker \ {w}, t \in Ticket : Returns(job'[v], t) =>
              ~Waiting(t)' /\ t \in match'[job'[v].match].tickets /\ \A l \in Match : ~Uses(l, t)'
        BY <1>8, <1>10, <2>2, ReturnsMatch DEF QInv, ReturnInv
    <2>6. job'[w].match = k
        BY <1>4, <1>6
    <2>7. \A v \in Worker, t \in Ticket : Returns(job'[v], t) =>
              ~Waiting(t)' /\ t \in match'[job'[v].match].tickets /\ \A l \in Match : ~Uses(l, t)'
        BY <1>7, <2>4, <2>5, <2>6
    <2>8. \A u, v \in Worker, t \in Ticket : Returns(job'[u], t) /\ Returns(job'[v], t) => u = v
        BY <1>7, <2>2, <2>3 DEF QInv, ReturnInv
    <2> QED BY <2>7, <2>8 DEF ReturnInv
<1> QED BY <1>8, <1>9, <1>11, <1>12 DEF QInv

\* An accepted challenge becomes a match: the one answer is over, and the players of the match include its creator
LEMMA CreateDirectQ ==
    ASSUME QInv, NEW w \in Worker, CreateDirect(w)
    PROVE  QInv'
<1>1. /\ job[w].pc = "direct" /\ job[w] \in JobType /\ JobShape(job[w])
      /\ UNCHANGED <<row, live, queued, partyKey, challenge, crashes, ops, requests, partyVars>>
    BY JobFacts DEF CreateDirect, At, storeVars
<1>2. PICK k \in Match :
        /\ match[k].status = "none"
        /\ match' = [match EXCEPT ![k] = [status |-> "active", tickets |-> {}, players |-> job[w].players]]
        /\ job' = [job EXCEPT ![w] = [Idle EXCEPT !.pc = "answer", !.match = k]]
    BY DEF CreateDirect
<1> DEFINE m == [status |-> "active", tickets |-> {}, players |-> job[w].players]
           j == [Idle EXCEPT !.pc = "answer", !.match = k]
<1>3. m \in Matches /\ m.status = "active" /\ m.tickets = {} /\ m.players = job[w].players
    BY <1>1 DEF Matches, JobType
<1>4. match' = [match EXCEPT ![k] = m] /\ job' = [job EXCEPT ![w] = j]
    BY <1>2
<1> HIDE DEF m
<1>5. Matched(k, m) /\ match' \in [Match -> Matches]
    BY <1>3, <1>4, MatchStep DEF QInv, StrongTypeOK
<1>6. j \in JobType /\ j.pc = "answer" /\ j.ticket = NoTicket /\ j.tickets = {} /\ j.match = k /\ j.players = {}
      /\ j.copies = [t \in Ticket |-> {}]
    <2>1. j \in JobType
        BY IdleType DEF JobType, Steps
    <2>2. j.pc = "answer" /\ j.ticket = NoTicket /\ j.tickets = {} /\ j.match = k /\ j.players = {}
          /\ j.copies = [t \in Ticket |-> {}]
        BY IdleType DEF JobType, Idle
    <2> QED BY <2>1, <2>2
<1> HIDE DEF j
<1>7. JobShape(j)
    BY <1>6 DEF JobShape
<1>8. JobsOK' /\ job'[w] = j /\ Others(w)
    BY <1>4, <1>6, <1>7, JobStep DEF QInv, StrongTypeOK
<1>9. StrongTypeOK'
    BY <1>1, <1>5, <1>8 DEF QInv, StrongTypeOK, PartyTypeOK, StoreOK, OtherOK, partyVars
<1>10. ~Claims(j) /\ ~Answers(j) /\ LostOK(j) /\ (\A t \in Ticket : ~Returns(j, t))
    BY <1>6, FreeJob
<1>11. match[k].tickets = {} /\ \A l \in Match : match'[l].tickets = match[l].tickets
    BY <1>2, <1>3, <1>5 DEF Matched, QInv, MatchInv
<1>12. \A t \in Ticket : (Ever(t)' <=> Ever(t)) /\ row'[t].modes = row[t].modes /\ (Waiting(t)' <=> Waiting(t))
    BY <1>1 DEF Ever, Waiting
<1>13. RowInv' /\ ListedInv' /\ JoinInv'
    <2>1. JobRows(job[w])'
        BY <1>6, <1>8 DEF JobRows
    <2>2. LostOK(job[w])'
        BY <1>6, <1>8 DEF LostOK
    <2>3. \A t \in Ticket : ~Owes(job[w], t)
        BY <1>1 DEF Owes
    <2>4. job'[w].pc # "joinParty"
        BY <1>6, <1>8
    <2> QED BY <1>1, <1>8, <1>9, <1>11, <1>12, <2>1, <2>2, <2>3, <2>4, MatchFrame DEF partyVars, QInv, RowInv
<1>14. \A l \in Match, t \in Ticket : Uses(l, t)' <=> Uses(l, t)
    BY <1>2, <1>3, <1>5, <1>11 DEF Uses, Matched
<1>15. \A v \in Worker \ {w} : job'[v] = job[v]
    BY <1>8 DEF Others
<1>16. MatchInv'
    <2>1. \A v \in Worker : Claims(job'[v]) => Claims(job[v]) /\ job'[v] = job[v] /\ job[v].match \in Match \ {k}
        <3>1. \A v \in Worker : Claims(job[v]) => job[v].match \in Match /\ match[job[v].match].status = "claimed"
            BY JobFacts DEF Claims, JobType, QInv, MatchInv
        <3> QED BY <1>2, <1>8, <1>10, <1>15, <3>1
    <2>2. \A v \in Worker : Claims(job'[v]) => match'[job'[v].match].status = "claimed"
        BY <1>5, <2>1 DEF Matched, QInv, MatchInv
    <2>3. \A u, v \in Worker : Claims(job'[u]) /\ Claims(job'[v]) /\ job'[u].match = job'[v].match => u = v
        BY <2>1 DEF QInv, MatchInv
    <2> QED BY <1>3, <1>5, <1>11, <1>12, <1>14, <2>2, <2>3 DEF Matched, QInv, MatchInv
<1>17. ReturnInv'
    <2>1. \A v \in Worker, t \in Ticket : Returns(job'[v], t) => Returns(job[v], t) /\ job'[v] = job[v] /\ job[v].match \in Match
        BY <1>8, <1>10, <1>15, ReturnsMatch
    <2> QED BY <1>11, <1>12, <1>14, <2>1 DEF QInv, ReturnInv
<1>18. ChallengeInv'
    <2>1. Answers(job[w])
        BY <1>1 DEF Answers, JobShape
    <2>2. OfChallenge = {} /\ challenge.by \in job[w].players /\ challenge.status # "none"
        BY <2>1 DEF QInv, ChallengeInv
    <2>3. \A l \in OfChallenge' : l = k
        BY <1>5, <2>2 DEF OfChallenge, Matched
    <2>4. \A v \in Worker : ~Answers(job'[v])
        BY <1>8, <1>10, <1>15, <2>1 DEF QInv, ChallengeInv
    <2>5. \A l \in OfChallenge' : challenge'.by \in match'[l].players /\ challenge'.status # "none"
        BY <1>1, <1>3, <1>5, <2>2, <2>3 DEF Matched
    <2> QED BY <2>3, <2>4, <2>5 DEF ChallengeInv
<1> QED BY <1>9, <1>13, <1>16, <1>17, <1>18 DEF QInv

\* All tickets still wait and become matched, queue/service.ts 486-517
LEMMA ClaimAllQ ==
    ASSUME QInv, NEW w \in Worker, ClaimAll(w)
    PROVE  QInv'
<1>1. /\ job[w].pc = "claim" /\ job[w] \in JobType /\ JobShape(job[w]) /\ JobRows(job[w]) /\ LostOK(job[w])
      /\ \A t \in job[w].tickets : Waiting(t)
      /\ UNCHANGED <<live, queued, partyKey, challenge, crashes, ops, requests, partyVars>>
    BY JobFacts DEF ClaimAll, ClaimAll_Unchecked, At, UnchangedLive
<1>2. PICK k \in Match :
        /\ match[k].status = "none"
        /\ match' = [match EXCEPT ![k] = [status |-> "claimed", tickets |-> job[w].tickets,
                                          players |-> UNION {row[t].players : t \in job[w].tickets}]]
        /\ job' = [job EXCEPT ![w].pc = "load", ![w].match = k]
    BY DEF ClaimAll, ClaimAll_Unchecked
<1> DEFINE S == job[w].tickets
           m == [status |-> "claimed", tickets |-> S, players |-> UNION {row[t].players : t \in S}]
           j == [job[w] EXCEPT !.pc = "load", !.match = k]
<1>3. S \subseteq Ticket /\ S # {} /\ SetStatus(S, "matched")
    BY <1>1 DEF JobType, JobShape, ClaimAll, ClaimAll_Unchecked
<1>4. m \in Matches /\ m.status = "claimed" /\ m.tickets = S
    <2>1. \A t \in S : row[t].players \subseteq Player
        BY <1>3 DEF QInv, StrongTypeOK, StoreOK, Rows
    <2> QED BY <1>3, <2>1 DEF Matches
<1>5. match' = [match EXCEPT ![k] = m]
    BY <1>2
<1> HIDE DEF m
<1>6. Matched(k, m) /\ match' \in [Match -> Matches]
    BY <1>4, <1>5, MatchStep DEF QInv, StrongTypeOK
<1>7. j \in JobType /\ job' = [job EXCEPT ![w] = j]
    BY <1>1, <1>2 DEF JobType, Steps
<1>8. j.pc = "load" /\ j.ticket = job[w].ticket /\ j.tickets = S /\ j.match = k /\ j.players = job[w].players
      /\ j.copies = job[w].copies
    BY <1>1 DEF JobType
<1> HIDE DEF j
<1>9. JobShape(j)
    BY <1>1, <1>8 DEF JobShape
<1>10. JobsOK' /\ job'[w] = j /\ Others(w)
    BY <1>7, <1>9, JobStep DEF QInv, StrongTypeOK
<1>11. row' \in [Ticket -> Rows] /\ \A t \in Ticket : /\ t \in S => row'[t].status = "matched"
                                                      /\ t \notin S => row'[t] = row[t]
                                                      /\ row'[t].modes = row[t].modes
    BY <1>3, StatusStep DEF QInv, StrongTypeOK, Statuses
<1>12. StrongTypeOK'
    BY <1>1, <1>6, <1>10, <1>11 DEF QInv, StrongTypeOK, PartyTypeOK, StoreOK, OtherOK, partyVars
<1>13. \A t \in Ticket : (Ever(t)' <=> Ever(t)) /\ (Waiting(t)' <=> (Waiting(t) /\ t \notin S))
    BY <1>1, <1>11 DEF Ever, Waiting
<1>14. match[k].tickets = {} /\ match'[k].tickets = S /\ \A l \in Match \ {k} : match'[l] = match[l]
    BY <1>2, <1>4, <1>6 DEF Matched, QInv, MatchInv
<1>15. RowInv' /\ ListedInv' /\ JoinInv'
    <2>1. \A t \in S : Ever(t)
        BY <1>1 DEF JobRows
    <2>2. JobRows(job[w])'
        BY <1>1, <1>8, <1>10, <1>13, QueueAssumption DEF JobRows, JobType
    <2>3. LostOK(job[w])'
        BY <1>8, <1>10, <1>14 DEF LostOK
    <2>4. \A t \in Ticket : ~Owes(job[w], t)
        BY <1>1 DEF Owes
    <2>5. job'[w].pc # "joinParty"
        BY <1>8, <1>10
    <2>6. \A l \in Match : match[l].tickets \subseteq match'[l].tickets
        BY <1>14
    <2>7. \A l \in Match, t \in Ticket : t \in match'[l].tickets => Ever(t)
        BY <1>14, <2>1 DEF QInv, RowInv
    <2> QED BY <1>1, <1>10, <1>11, <1>12, <1>13, <2>2, <2>3, <2>4, <2>5, <2>6, <2>7, MatchFrame DEF partyVars
<1>16. \A l \in Match, t \in Ticket : Uses(l, t)' => Uses(l, t) \/ (l = k /\ t \in S)
    BY <1>6, <1>14 DEF Uses, Matched
<1>17. \A l \in Match, t \in S : ~Uses(l, t)
    BY <1>1, <1>3 DEF QInv, MatchInv
<1>18. \A v \in Worker \ {w} : job'[v] = job[v]
    BY <1>10 DEF Others
<1>19. MatchInv'
    <2>1. \A v \in Worker \ {w} : Claims(job'[v]) => Claims(job[v]) /\ job[v].match \in Match \ {k}
        <3>1. \A v \in Worker : Claims(job[v]) => job[v].match \in Match /\ match[job[v].match].status = "claimed"
            BY JobFacts DEF Claims, JobType, QInv, MatchInv
        <3> QED BY <1>2, <1>18, <3>1
    <2>2. \A v \in Worker : Claims(job'[v]) => match'[job'[v].match].status = "claimed"
        BY <1>4, <1>6, <1>8, <1>10, <1>14, <1>18, <2>1 DEF Matched, QInv, MatchInv
    <2>3. \A u, v \in Worker : Claims(job'[u]) /\ Claims(job'[v]) /\ job'[u].match = job'[v].match => u = v
        BY <1>8, <1>10, <1>18, <2>1 DEF QInv, MatchInv
    <2>4. \A l \in Match, t \in Ticket : Uses(l, t)' => ~Waiting(t)'
        BY <1>13, <1>16 DEF QInv, MatchInv
    <2>5. \A l, n \in Match, t \in Ticket : Uses(l, t)' /\ Uses(n, t)' => l = n
        BY <1>16, <1>17 DEF QInv, MatchInv
    <2>6. \A l \in Match : match'[l].status = "none" => match'[l].tickets = {}
        BY <1>4, <1>6, <1>14 DEF Matched, QInv, MatchInv
    <2>7. \A l \in Match : match'[l].status = "claimed" => match'[l].tickets # {}
        BY <1>3, <1>14 DEF QInv, MatchInv
    <2> QED BY <2>2, <2>3, <2>4, <2>5, <2>6, <2>7 DEF MatchInv
<1>20. ReturnInv'
    <2>1. \A v \in Worker, t \in Ticket : Returns(job'[v], t) =>
              Returns(job[v], t) /\ job'[v] = job[v] /\ job[v].match \in Match
        BY <1>8, <1>10, <1>18, ReturnsMatch DEF Returns
    <2>2. \A v \in Worker, t \in Ticket : Returns(job'[v], t) => ~Waiting(t)' /\ t \in match'[job'[v].match].tickets
        BY <1>13, <1>14, <2>1 DEF QInv, ReturnInv
    <2>3. \A v \in Worker, t \in Ticket : Returns(job'[v], t) => \A l \in Match : ~Uses(l, t)'
        BY <1>1, <1>16, <2>1 DEF QInv, ReturnInv
    <2>4. \A u, v \in Worker, t \in Ticket : Returns(job'[u], t) /\ Returns(job'[v], t) => u = v
        BY <2>1 DEF QInv, ReturnInv
    <2> QED BY <2>2, <2>3, <2>4 DEF ReturnInv
<1>21. ChallengeInv'
    <2>1. OfChallenge' = OfChallenge /\ \A l \in OfChallenge : match'[l] = match[l]
        BY <1>2, <1>4, <1>6 DEF Matched, OfChallenge
    <2>2. \A v \in Worker : Answers(job'[v]) => Answers(job[v]) /\ job'[v] = job[v]
        BY <1>8, <1>10, <1>18 DEF Answers
    <2> QED BY <1>1, <2>1, <2>2 DEF QInv, ChallengeInv
<1> QED BY <1>12, <1>15, <1>19, <1>20, <1>21 DEF QInv

-----------------------------------------------------------------------------
\* The tickets and jobs are as before; parties may have changed
LEMMA KeepStep ==
    ASSUME QInv, PartyTypeOK', UNCHANGED queueVars, \A g \in Party : leader'[g] = NoPlayer => leader[g] = NoPlayer
    PROVE  QInv'
<1> USE DEF QInv
<1>1. UNCHANGED <<row, live, queued, partyKey, match, challenge, job, requests, ops, crashes>>
    BY DEF queueVars, storeVars
<1>2. StrongTypeOK'
    BY <1>1 DEF StrongTypeOK, StoreOK, OtherOK, JobsOK
<1>3. RowInv'
    BY <1>1 DEF RowInv, JobRows, Ever
<1>4. MatchInv'
    BY <1>1 DEF MatchInv, Uses, Waiting
<1>5. ReturnInv'
    BY <1>1 DEF ReturnInv, Uses, Waiting
<1>6. ChallengeInv'
    BY <1>1 DEF ChallengeInv, OfChallenge
<1>7. ListedInv'
    BY <1>1 DEF ListedInv, LostOK, Gone, Fresh, Waiting, Listed
<1>8. JoinInv'
    BY <1>1 DEF JoinInv, StrongTypeOK, JobsOK, JobShape
<1> QED BY <1>2, <1>3, <1>4, <1>5, <1>6, <1>7, <1>8

\* Only the challenge changes
LEMMA ChallengeStep ==
    ASSUME QInv, UNCHANGED <<partyVars, storeVars, match, job, requests, ops, crashes>>,
           challenge' \in Challenges, challenge'.status # "none", challenge'.by \in Player,
           \A k \in OfChallenge : challenge'.by \in match[k].players,
           \A w \in Worker : Answers(job[w]) => challenge'.by \in job[w].players
    PROVE  QInv'
<1> USE DEF QInv
<1>1. UNCHANGED <<row, live, queued, partyKey, match, job, requests, ops, crashes, partyVars>>
    BY DEF storeVars
<1>2. StrongTypeOK'
    BY <1>1 DEF StrongTypeOK, StoreOK, OtherOK, JobsOK, PartyTypeOK, partyVars
<1>3. RowInv'
    BY <1>1 DEF RowInv, JobRows, Ever
<1>4. MatchInv'
    BY <1>1 DEF MatchInv, Uses, Waiting
<1>5. ReturnInv'
    BY <1>1 DEF ReturnInv, Uses, Waiting
<1>6. ChallengeInv'
    BY <1>1 DEF ChallengeInv, OfChallenge
<1>7. ListedInv'
    BY <1>1 DEF ListedInv, LostOK, Gone, Fresh, Waiting, Listed
<1>8. JoinInv'
    BY <1>1 DEF JoinInv, partyVars
<1> QED BY <1>2, <1>3, <1>4, <1>5, <1>6, <1>7, <1>8

\* The challenge is made, challenges/service.ts 60-190
LEMMA CreateChallengeQ ==
    ASSUME QInv, NEW p \in Player, CreateChallenge(p)
    PROVE  QInv'
<1>1. OfChallenge = {} /\ \A w \in Worker : ~Answers(job[w])
    BY DEF CreateChallenge, QInv, ChallengeInv
<1>2. challenge' = [status |-> "open", by |-> p]
    BY DEF CreateChallenge
<1>3. challenge' \in Challenges /\ challenge'.status # "none" /\ challenge'.by \in Player
    BY <1>2 DEF Challenges
<1> QED BY <1>1, <1>3, ChallengeStep DEF CreateChallenge

\* It is declined, withdrawn or too old
LEMMA CloseChallengeQ ==
    ASSUME QInv, CloseChallenge
    PROVE  QInv'
<1>1. challenge \in Challenges /\ challenge.status # "none" /\ challenge.by \in Player
    BY DEF CloseChallenge, QInv, StrongTypeOK, OtherOK
<1>2. PICK s \in {"declined", "cancelled", "expired"} : challenge' = [challenge EXCEPT !.status = s]
    BY DEF CloseChallenge
<1>3. challenge' \in Challenges /\ challenge'.status # "none" /\ challenge'.by = challenge.by
    BY <1>1, <1>2 DEF Challenges
<1> QED BY <1>1, <1>3, ChallengeStep DEF CloseChallenge, QInv, ChallengeInv

\* It was accepted, and the job of the answer ends
LEMMA AnswerQ ==
    ASSUME QInv, NEW w \in Worker, Answer(w)
    PROVE  QInv'
<1>1. /\ job[w].pc = "answer" /\ End(w)
      /\ UNCHANGED <<row, live, queued, partyKey, match, crashes, ops, requests, partyVars>>
    BY DEF Answer, At, storeVars
<1>2. JobsOK' /\ job'[w] = Idle /\ Others(w)
    BY <1>1, EndStep DEF QInv, StrongTypeOK
<1>3. challenge' \in Challenges /\ challenge'.by = challenge.by
      /\ (challenge'.status = "none" <=> challenge.status = "none")
    <2>1. challenge \in Challenges /\ challenge' = IF challenge.status = "open" THEN [challenge EXCEPT !.status = "accepted"]
                                                                               ELSE challenge
        BY DEF Answer, QInv, StrongTypeOK, OtherOK
    <2>2. CASE challenge.status = "open"
        BY <2>1, <2>2 DEF Challenges
    <2>3. CASE challenge.status # "open"
        BY <2>1, <2>3
    <2> QED BY <2>2, <2>3
<1>4. StrongTypeOK'
    BY <1>1, <1>2, <1>3 DEF QInv, StrongTypeOK, PartyTypeOK, StoreOK, OtherOK, partyVars
<1>5. JobKeeps(w) /\ JobRows(job[w])' /\ LostOK(job[w])'
    BY <1>2 DEF Idle, JobKeeps, Claims, Returns, Answers, JobRows, LostOK
<1>6. RowsKeep(w)
    <2>1. \A t \in Ticket : ~Owes(job[w], t)
        BY <1>1 DEF Owes
    <2> QED BY <1>1, <2>1 DEF RowsKeep, QInv, RowInv, Ever, Waiting, Listed
<1> QED BY <1>1, <1>2, <1>3, <1>4, <1>5, <1>6, QuietStep DEF partyVars

\* Whoever leads a side is on it
LEMMA SideFacts ==
    ASSUME PartyTypeOK, NEW p \in Player, NEW solo \in BOOLEAN
    PROVE  Side(p, solo) \subseteq Player /\ (Side(p, solo) # {} => p \in Side(p, solo))
<1>1. CASE solo \/ memberOf[p] = NoParty
    BY <1>1 DEF Side
<1>2. CASE ~(solo \/ memberOf[p] = NoParty)
    BY <1>2, PartyAssumption DEF Side, Members, PartyTypeOK
<1> QED BY <1>1, <1>2

\* The parties of both sides
LEMMA PartyOfFacts ==
    ASSUME PartyTypeOK, NEW p \in Player, NEW q \in Player
    PROVE  PartyOf(p) \o PartyOf(q) \in Seq(Party)
<1>1. \A r \in Player : PartyOf(r) \in Seq(Party)
    <2> SUFFICES ASSUME NEW r \in Player PROVE PartyOf(r) \in Seq(Party)
        OBVIOUS
    <2>1. CASE memberOf[r] = NoParty
        BY <2>1 DEF PartyOf
    <2>2. CASE memberOf[r] # NoParty
        BY <2>2 DEF PartyOf, PartyTypeOK
    <2> QED BY <2>1, <2>2
<1> QED BY <1>1

\* Two sides agree, and nobody of them is in a match, challenges/service.ts 285-330
LEMMA AcceptQ ==
    ASSUME QInv, NEW w \in Worker, NEW p \in Player, Accept(w, p)
    PROVE  QInv'
<1>1. PICK solo \in BOOLEAN :
        LET home == Side(challenge.by, solo)
            away == Side(p, solo)
        IN  home # {} /\ Begin(w, "cancel", [Idle EXCEPT !.players = home \cup away,
                                                       !.rest = PartyOf(challenge.by) \o PartyOf(p)])
    BY DEF Accept, Accept_NoMatchCheck
<1>2. /\ challenge.status = "open" /\ challenge.by \in Player /\ \A v \in Worker : ~Answers(job[v])
      /\ UNCHANGED <<row, live, queued, partyKey, match, challenge, ops, crashes, partyVars>>
      /\ job'[w].players \cap InMatch = {}
    BY DEF Accept, Accept_NoMatchCheck, Answering, Answers, QInv, StrongTypeOK, OtherOK, storeVars, notJob
<1> DEFINE players == Side(challenge.by, solo) \cup Side(p, solo)
           rest == PartyOf(challenge.by) \o PartyOf(p)
           i == [Idle EXCEPT !.players = players, !.rest = rest]
           j == [i EXCEPT !.pc = "cancel"]
<1>3. players \subseteq Player /\ challenge.by \in players
    BY <1>1, <1>2, SideFacts DEF QInv, StrongTypeOK
<1>4. rest \in Seq(Party) /\ rest \in Seq(Party \cup {NoParty})
    <2>1. rest \in Seq(Party)
        BY <1>2, PartyOfFacts DEF QInv, StrongTypeOK
    <2> HIDE DEF rest
    <2> QED BY <2>1
<1>5. Begin(w, "cancel", i)
    BY <1>1
<1> HIDE DEF players, rest
<1>6. i \in JobType
    BY <1>3, <1>4, IdleType DEF JobType
<1>7. j.pc = "cancel" /\ j.ticket = NoTicket /\ j.tickets = {} /\ j.match = NoMatch /\ j.players = players
      /\ j.copies = [t \in Ticket |-> {}] /\ j.rest = rest
    BY IdleType DEF JobType, Idle
<1> HIDE DEF i
<1>8. JobShape(j)
    <2> HIDE DEF j
    <2> QED BY <1>4, <1>7 DEF JobShape
<1>9. JobsOK' /\ job[w] = Idle /\ job'[w] = j /\ Others(w) /\ requests' \in 0..MaxRequests
    BY <1>5, <1>6, <1>8, BeginStep DEF QInv, Steps
<1> HIDE DEF j
<1>10. StrongTypeOK'
    BY <1>2, <1>9 DEF QInv, StrongTypeOK, PartyTypeOK, StoreOK, OtherOK, partyVars
<1>11. /\ ~Claims(job'[w]) /\ JobRows(job'[w]) /\ LostOK(job'[w]) /\ job'[w].pc # "joinParty"
       /\ \A t \in Ticket : ~Returns(job'[w], t) /\ ~Owes(job[w], t)
    BY <1>7, <1>9 DEF Claims, Returns, Owes, JobRows, LostOK, Idle
<1> USE DEF QInv
<1>12. \A v \in Worker \ {w} : job'[v] = job[v]
    BY <1>9 DEF Others
<1>13. RowInv'
    <2>1. \A v \in Worker : JobRows(job'[v])
        BY <1>11, <1>12 DEF RowInv
    <2> QED BY <1>2, <2>1 DEF RowInv, JobRows, Ever
<1>14. MatchInv'
    BY <1>2, <1>11, <1>12 DEF MatchInv, Uses, Waiting
<1>15. ReturnInv'
    BY <1>2, <1>11, <1>12 DEF ReturnInv, Uses, Waiting
<1>16. ChallengeInv'
    <2>1. challenge.by \notin InMatch
        BY <1>2, <1>3, <1>7, <1>9
    <2>2. OfChallenge = {}
        <3>1. \A k \in OfChallenge : challenge.by \in match[k].players /\ match[k].status = "active" /\ k \in Match
            BY DEF ChallengeInv, OfChallenge
        <3> QED BY <2>1, <3>1 DEF InMatch
    <2>3. OfChallenge' = {}
        BY <1>2, <2>2 DEF OfChallenge
    <2>4. \A v \in Worker : Answers(job'[v]) => v = w
        BY <1>2, <1>12
    <2> QED BY <1>2, <1>3, <1>7, <1>9, <2>3, <2>4 DEF ChallengeInv
<1>17. ListedInv'
    <2>1. \A v \in Worker : LostOK(job'[v])
        BY <1>11, <1>12 DEF ListedInv
    <2>2. \A v \in Worker : LostOK(job[v])'
        BY <1>2, <2>1 DEF LostOK, Gone, Waiting, Fresh
    <2>3. \A t \in Ticket, v \in Worker : Owes(job[v], t) => Owes(job'[v], t)
        BY <1>11, <1>12
    <2>4. \A t \in Ticket : (Waiting(t)' => Waiting(t)) /\ (Fresh(t)' => Fresh(t)) /\ (Listed(t) => Listed(t)')
        BY <1>2 DEF Waiting, Fresh, Listed
    <2> QED BY <1>2, <2>2, <2>3, <2>4 DEF ListedInv, Owes
<1>18. JoinInv'
    BY <1>2, <1>11, <1>12 DEF JoinInv, partyVars
<1> QED BY <1>10, <1>13, <1>14, <1>15, <1>16, <1>17, <1>18

\* A restart loses every request under way
LEMMA CrashQ ==
    ASSUME QInv, Crash
    PROVE  QInv'
<1> USE DEF QInv
<1>1. /\ UNCHANGED <<row, live, queued, partyKey, match, challenge, requests, ops, partyVars>>
      /\ crashes' \in 0..MaxCrashes /\ crashes' # 0
    BY QueueAssumption DEF Crash, storeVars, StrongTypeOK, OtherOK
<1>2. job' \in [Worker -> JobType] /\ \A w \in Worker : job'[w] = Idle
    BY IdleType DEF Crash
<1>3. StrongTypeOK'
    <2>1. JobsOK'
        BY <1>2, IdleType DEF JobsOK
    <2> QED BY <1>1, <2>1 DEF StrongTypeOK, PartyTypeOK, StoreOK, OtherOK, partyVars
<1>4. \A w \in Worker : /\ ~Claims(job'[w]) /\ ~Answers(job'[w]) /\ JobRows(job[w])' /\ LostOK(job[w])'
                        /\ job'[w].pc # "joinParty" /\ \A t \in Ticket : ~Returns(job'[w], t)
    BY <1>2 DEF Idle, Claims, Answers, Returns, JobRows, LostOK
<1>5. RowInv'
    BY <1>1, <1>4 DEF RowInv, Ever
<1>6. MatchInv'
    BY <1>1, <1>4 DEF MatchInv, Uses, Waiting
<1>7. ReturnInv'
    BY <1>4 DEF ReturnInv
<1>8. ChallengeInv'
    <2>1. OfChallenge' = OfChallenge
        BY <1>1 DEF OfChallenge
    <2> QED BY <1>1, <1>4, <2>1 DEF ChallengeInv
<1>9. ListedInv'
    BY <1>1, <1>4 DEF ListedInv
<1>10. JoinInv'
    BY <1>4 DEF JoinInv
<1> QED BY <1>3, <1>5, <1>6, <1>7, <1>8, <1>9, <1>10

-----------------------------------------------------------------------------
\* Parties. A party without members was never made or is disbanded; a player's link is newer than his last kick
RosterOK(g) ==
    /\ IsFiniteSet(Members(g)) /\ Cardinality(Members(g)) <= MaxPartySize
    /\ (leader[g] = NoPlayer \/ g \in disbanded) <=> (Members(g) = {})
    /\ Members(g) # {} => leader[g] \in Members(g)
    /\ leader[g] = NoPlayer => g \notin disbanded
LinkOK(p, g) ==
    /\ kicked[<<p, g>>] < invite[g]
    /\ leader[g] = NoPlayer => kicked[<<p, g>>] = 0
    /\ memberOf[p] = g => usedLink[p] > kicked[<<p, g>>]
PartyInv == PartyTypeOK /\ (\A g \in Party : RosterOK(g)) /\ (\A p \in Player, g \in Party : LinkOK(p, g))

\* A party once made stays made
Founded == \A g \in Party : leader'[g] = NoPlayer => leader[g] = NoPlayer

\* It is what the two properties say
LEMMA PartyInvStands == PartyInv => PartiesStand
<1> SUFFICES ASSUME PartyInv PROVE PartiesStand
    OBVIOUS
<1>1. PartyIsLed
    BY DEF PartyInv, RosterOK, PartyIsLed, Unused
<1>2. KickedStaysOut
    BY DEF PartyInv, LinkOK, KickedStaysOut
<1> QED BY <1>1, <1>2 DEF PartiesStand

\* A player moves: his old party loses him, the new one has him, and the others are as before
LEMMA MembersMove ==
    ASSUME PartyTypeOK, NEW p \in Player, NEW to \in Party \cup {NoParty}, memberOf' = [memberOf EXCEPT ![p] = to],
           NEW g \in Party, IsFiniteSet(Members(g))
    PROVE  /\ IsFiniteSet(Members(g)') /\ Cardinality(Members(g)) \in Nat
           /\ g = to => Members(g)' = Members(g) \cup {p}
           /\ g = to /\ memberOf[p] # g => Cardinality(Members(g)') = Cardinality(Members(g)) + 1
           /\ g # to => Members(g)' = Members(g) \ {p} /\ Cardinality(Members(g)') <= Cardinality(Members(g))
           /\ g # to /\ memberOf[p] # g => Members(g)' = Members(g)
<1>1. Cardinality(Members(g)) \in Nat
    BY FS_CardinalityType
<1>2. CASE g = to
    <2>1. Members(g)' = Members(g) \cup {p}
        BY <1>2 DEF Members, PartyTypeOK
    <2>2. IsFiniteSet(Members(g) \cup {p})
          /\ (p \notin Members(g) => Cardinality(Members(g) \cup {p}) = Cardinality(Members(g)) + 1)
        BY FS_AddElement
    <2>3. memberOf[p] # g => p \notin Members(g)
        BY DEF Members
    <2> QED BY <1>1, <1>2, <2>1, <2>2, <2>3
<1>3. CASE g # to
    <2>1. Members(g)' = Members(g) \ {p}
        BY <1>3 DEF Members, PartyTypeOK
    <2>2. IsFiniteSet(Members(g) \ {p}) /\ Cardinality(Members(g) \ {p}) <= Cardinality(Members(g))
        BY <1>1, FS_RemoveElement
    <2>3. memberOf[p] # g => Members(g) \ {p} = Members(g)
        BY DEF Members
    <2> QED BY <1>1, <1>3, <2>1, <2>2, <2>3
<1> QED BY <1>2, <1>3

\* Whatever leaves the parties alone
LEMMA PartyFrame ==
    ASSUME PartyInv, UNCHANGED partyVars
    PROVE  PartyInv' /\ Founded
<1>1. UNCHANGED <<memberOf, leader, disbanded, invite, usedLink, kicked>>
    BY DEF partyVars
<1>2. \A h \in Party : Members(h)' = Members(h)
    BY <1>1 DEF Members
<1>3. \A h \in Party : RosterOK(h)'
    BY <1>1, <1>2 DEF PartyInv, RosterOK
<1>4. PartyTypeOK' /\ Founded
    BY <1>1 DEF PartyInv, PartyTypeOK, Founded
<1>5. \A q \in Player, h \in Party : LinkOK(q, h)'
    BY <1>1 DEF PartyInv, LinkOK
<1> QED BY <1>3, <1>4, <1>5 DEF PartyInv

\* The party of a request, made when the player has none, parties/service.ts 96-131
LEMMA EnsurePartyP ==
    ASSUME PartyInv, NEW p \in Player, NEW g \in Party, EnsureParty(p, g)
    PROVE  PartyInv' /\ Founded
<1>1. CASE UNCHANGED partyVars
    BY <1>1, PartyFrame
<1>2. CASE memberOf[p] = NoParty
    <2>1. /\ leader[g] = NoPlayer /\ memberOf' = [memberOf EXCEPT ![p] = g] /\ leader' = [leader EXCEPT ![g] = p]
          /\ usedLink' = [usedLink EXCEPT ![p] = 1] /\ UNCHANGED <<disbanded, invite, kicked>>
        BY <1>2 DEF EnsureParty, Unused
    <2>2. PartyTypeOK' /\ Founded
        BY <2>1, PartyAssumption DEF PartyInv, PartyTypeOK, Founded
    <2>3. ASSUME NEW h \in Party PROVE RosterOK(h)'
        <3>1. RosterOK(h)
            BY DEF PartyInv
        <3>2. IsFiniteSet(Members(h)') /\ Cardinality(Members(h)) \in Nat
              /\ (h = g => Members(h)' = Members(h) \cup {p})
              /\ (h = g /\ memberOf[p] # h => Cardinality(Members(h)') = Cardinality(Members(h)) + 1)
              /\ (h # g /\ memberOf[p] # h => Members(h)' = Members(h))
            BY <2>1, <3>1, MembersMove DEF PartyInv, RosterOK
        <3>3. memberOf[p] # h
            BY <1>2, PartyAssumption
        <3>4. CASE h = g
            <4>1. Members(g) = {} /\ g \notin disbanded
                BY <2>1, <3>1, <3>4 DEF RosterOK
            <4>2. Members(g)' = {p}
                BY <3>2, <3>4, <4>1
            <4>3. leader'[g] = p /\ leader'[g] # NoPlayer
                BY <2>1, PartyAssumption DEF PartyInv, PartyTypeOK
            <4>4. Cardinality(Members(g)') <= MaxPartySize
                <5>1. Cardinality({p}) = 1
                    BY FS_Singleton
                <5> QED BY <4>2, <5>1, PartyBounds
            <4> QED BY <2>1, <3>2, <3>4, <4>1, <4>2, <4>3, <4>4 DEF RosterOK
        <3>5. CASE h # g
            <4>1. Members(h)' = Members(h) /\ leader'[h] = leader[h]
                BY <2>1, <3>2, <3>3, <3>5 DEF PartyInv, PartyTypeOK
            <4> QED BY <2>1, <3>1, <4>1 DEF RosterOK
        <3> QED BY <3>4, <3>5
    <2>4. ASSUME NEW q \in Player, NEW h \in Party PROVE LinkOK(q, h)'
        <3>1. LinkOK(q, h) /\ kicked[<<q, h>>] \in Nat
            BY DEF PartyInv, PartyTypeOK
        <3>2. CASE q = p
            BY <2>1, <2>2, <3>1, <3>2 DEF LinkOK, PartyInv, PartyTypeOK, Founded
        <3>3. CASE q # p
            BY <2>1, <2>2, <3>1, <3>3 DEF LinkOK, PartyInv, PartyTypeOK, Founded
        <3> QED BY <3>2, <3>3
    <2> QED BY <2>2, <2>3, <2>4 DEF PartyInv
<1> QED BY <1>1, <1>2 DEF EnsureParty

\* A member goes, to nowhere or to a party that has room: the leader is one of those who stay,
\* parties/service.ts 133-160
LEMMA RemoveMemberP ==
    ASSUME PartyInv, NEW p \in Player, NEW g \in Party, NEW to \in Party \cup {NoParty},
           memberOf[p] = g, to # g, RemoveMember(p, g, to),
           to \in Party => to \notin disbanded /\ leader[to] # NoPlayer /\ Cardinality(Members(to)) < MaxPartySize
    PROVE  /\ memberOf' \in [Player -> Party \cup {NoParty}] /\ leader' \in [Party -> Player \cup {NoPlayer}]
           /\ disbanded' \subseteq Party /\ Founded /\ \A h \in Party : RosterOK(h)'
<1>1. /\ memberOf' = [memberOf EXCEPT ![p] = to]
      /\ disbanded' = IF Members(g) = {p} THEN disbanded \cup {g} ELSE disbanded
    BY DEF RemoveMember
<1>2. p \in Members(g) /\ Members(g) \subseteq Player /\ RosterOK(g)
    BY DEF Members, PartyInv
<1>3. leader[g] \in Members(g) /\ g \notin disbanded
    BY <1>2 DEF RosterOK
<1>4. /\ \A h \in Party \ {g} : leader'[h] = leader[h]
      /\ leader'[g] \in Members(g) /\ (Members(g) # {p} => leader'[g] # p)
      /\ leader' \in [Party -> Player \cup {NoPlayer}]
    <2>1. CASE leader[g] = p /\ Members(g) # {p}
        <3>1. PICK heir \in Members(g) \ {p} : leader' = [leader EXCEPT ![g] = heir]
            BY <2>1 DEF RemoveMember
        <3> QED BY <1>2, <3>1 DEF PartyInv, PartyTypeOK
    <2>2. CASE ~(leader[g] = p /\ Members(g) # {p})
        BY <1>2, <1>3, <2>2 DEF RemoveMember, PartyInv, PartyTypeOK
    <2> QED BY <2>1, <2>2
<1>5. memberOf' \in [Player -> Party \cup {NoParty}] /\ disbanded' \subseteq Party /\ Founded
    BY <1>1, <1>2, <1>4, PartyAssumption DEF PartyInv, PartyTypeOK, Founded
<1>6. ASSUME NEW h \in Party PROVE RosterOK(h)'
    <2>1. RosterOK(h)
        BY DEF PartyInv
    <2>2. /\ IsFiniteSet(Members(h)') /\ Cardinality(Members(h)) \in Nat
          /\ h = to => Members(h)' = Members(h) \cup {p}
          /\ h = to /\ memberOf[p] # h => Cardinality(Members(h)') = Cardinality(Members(h)) + 1
          /\ h # to => Members(h)' = Members(h) \ {p} /\ Cardinality(Members(h)') <= Cardinality(Members(h))
          /\ h # to /\ memberOf[p] # h => Members(h)' = Members(h)
        BY <1>1, <2>1, MembersMove DEF PartyInv, RosterOK
    <2>3. Cardinality(Members(h)') \in Nat
        BY <2>2, FS_CardinalityType
    <2>4. h # g => (h \in disbanded' <=> h \in disbanded)
        BY <1>1
    <2>5. CASE h = g
        <3>1. Members(g)' = Members(g) \ {p} /\ Cardinality(Members(g)') <= MaxPartySize
            BY <2>1, <2>2, <2>3, <2>5, PartyBounds DEF RosterOK
        <3>2. leader'[g] # NoPlayer
            BY <1>2, <1>4, PartyAssumption
        <3>3. Members(g)' = {} <=> Members(g) = {p}
            BY <1>2, <3>1
        <3>4. g \in disbanded' <=> Members(g) = {p}
            BY <1>1, <1>3
        <3>5. Members(g)' # {} => leader'[g] \in Members(g)'
            BY <1>4, <3>1, <3>3
        <3> QED BY <2>2, <2>5, <3>1, <3>2, <3>3, <3>4, <3>5 DEF RosterOK
    <2>6. CASE h = to
        <3>1. Members(h)' = Members(h) \cup {p} /\ Cardinality(Members(h)') <= MaxPartySize
            BY <2>2, <2>6, PartyBounds
        <3>2. leader'[h] = leader[h] /\ leader[h] # NoPlayer /\ h \notin disbanded /\ h # g
            BY <1>4, <2>6
        <3>3. leader[h] \in Members(h)
            BY <2>1, <3>2 DEF RosterOK
        <3> QED BY <2>2, <2>4, <3>1, <3>2, <3>3 DEF RosterOK
    <2>7. CASE h # g /\ h # to
        <3>1. Members(h)' = Members(h) /\ leader'[h] = leader[h]
            BY <1>4, <2>2, <2>7
        <3> QED BY <2>1, <2>4, <2>7, <3>1 DEF RosterOK
    <2> QED BY <2>5, <2>6, <2>7
<1> QED BY <1>4, <1>5, <1>6

\* leave
LEMMA LeavePartyP ==
    ASSUME PartyInv, NEW p \in Player, NEW g \in Party, LeaveParty(p, g, InMatch)
    PROVE  PartyInv' /\ Founded
<1>1. memberOf[p] = g /\ NoParty # g /\ RemoveMember(p, g, NoParty) /\ UNCHANGED <<invite, usedLink, kicked>>
    BY PartyAssumption DEF LeaveParty
<1>2. /\ memberOf' \in [Player -> Party \cup {NoParty}] /\ leader' \in [Party -> Player \cup {NoPlayer}]
      /\ disbanded' \subseteq Party /\ Founded /\ \A h \in Party : RosterOK(h)'
    BY <1>1, RemoveMemberP, PartyAssumption
<1>3. memberOf' = [memberOf EXCEPT ![p] = NoParty]
    BY <1>1 DEF RemoveMember
<1>4. \A q \in Player, h \in Party : LinkOK(q, h)'
    BY <1>1, <1>2, <1>3, PartyAssumption DEF PartyInv, PartyTypeOK, LinkOK, Founded
<1> QED BY <1>1, <1>2, <1>4 DEF PartyInv, PartyTypeOK

\* kick: the link dies with it
LEMMA KickP ==
    ASSUME PartyInv, NEW p \in Player, NEW g \in Party, NEW target \in Player, Kick(p, g, target, InMatch)
    PROVE  PartyInv' /\ Founded
<1>1. /\ memberOf[target] = g /\ NoParty # g /\ RemoveMember(target, g, NoParty) /\ UNCHANGED usedLink
      /\ kicked' = [kicked EXCEPT ![<<target, g>>] = invite[g]] /\ invite' = [invite EXCEPT ![g] = @ + 1]
      /\ leader[g] = p
    BY PartyAssumption DEF Kick
<1>2. /\ memberOf' \in [Player -> Party \cup {NoParty}] /\ leader' \in [Party -> Player \cup {NoPlayer}]
      /\ disbanded' \subseteq Party /\ Founded /\ \A h \in Party : RosterOK(h)'
    BY <1>1, RemoveMemberP, PartyAssumption
<1>3. memberOf' = [memberOf EXCEPT ![target] = NoParty]
    BY <1>1 DEF RemoveMember
<1>4. invite' \in [Party -> Nat] /\ kicked' \in [Player \X Party -> Nat]
    BY <1>1 DEF PartyInv, PartyTypeOK
<1>5. ASSUME NEW q \in Player, NEW h \in Party PROVE LinkOK(q, h)'
    <2>1. LinkOK(q, h) /\ kicked[<<q, h>>] \in Nat /\ invite[h] \in Nat /\ <<q, h>> \in Player \X Party
        BY DEF PartyInv, PartyTypeOK
    <2>2. invite'[h] >= invite[h] /\ (h = g => invite'[h] = invite[h] + 1)
        BY <1>1, <2>1 DEF PartyInv, PartyTypeOK
    <2>3. CASE q = target /\ h = g
        <3>1. kicked'[<<q, h>>] = invite[g] /\ memberOf'[q] = NoParty /\ leader'[h] # NoPlayer
            BY <1>1, <1>2, <1>3, <2>1, <2>3, PartyAssumption DEF PartyInv, PartyTypeOK, Founded
        <3> QED BY <1>1, <2>1, <2>2, <2>3, <3>1 DEF LinkOK
    <2>4. CASE ~(q = target /\ h = g)
        <3>1. kicked'[<<q, h>>] = kicked[<<q, h>>]
            BY <1>1, <2>1, <2>4 DEF PartyInv, PartyTypeOK
        <3>2. memberOf'[q] = h => memberOf[q] = h
            BY <1>3, PartyAssumption DEF PartyInv, PartyTypeOK
        <3>3. leader'[h] = NoPlayer => leader[h] = NoPlayer
            BY <1>2 DEF Founded
        <3>4. invite'[h] \in Nat
            BY <1>4
        <3> QED BY <1>1, <2>1, <2>2, <3>1, <3>2, <3>3, <3>4 DEF LinkOK
    <2> QED BY <2>3, <2>4
<1>6. PartyTypeOK'
    BY <1>1, <1>2, <1>4 DEF PartyInv, PartyTypeOK
<1> QED BY <1>2, <1>5, <1>6 DEF PartyInv

\* join under the lock of both parties: the link that was read is still the link, parties/service.ts 206-254
LEMMA JoinPartyP ==
    ASSUME PartyInv, NEW p \in Player, NEW g \in Party, NEW link, NEW from, leader[g] # NoPlayer,
           MayJoin(p, g, link, from, InMatch), JoinParty(p, g, link, from)
    PROVE  PartyInv' /\ Founded
<1>1. /\ g \notin disbanded /\ invite[g] = link /\ memberOf[p] # g /\ memberOf[p] = from
      /\ Cardinality(Members(g)) < MaxPartySize /\ UNCHANGED <<invite, kicked>>
      /\ usedLink' = [usedLink EXCEPT ![p] = link]
    BY DEF MayJoin, JoinParty
<1>2. /\ memberOf' \in [Player -> Party \cup {NoParty}] /\ leader' \in [Party -> Player \cup {NoPlayer}]
      /\ disbanded' \subseteq Party /\ Founded /\ (\A h \in Party : RosterOK(h)')
      /\ memberOf' = [memberOf EXCEPT ![p] = g]
    <2>1. CASE from # NoParty
        <3>1. from \in Party /\ RemoveMember(p, from, g)
            BY <1>1, <2>1 DEF JoinParty, PartyInv, PartyTypeOK
        <3> QED BY <1>1, <3>1, RemoveMemberP DEF RemoveMember
    <2>2. CASE from = NoParty
        <3>1. memberOf' = [memberOf EXCEPT ![p] = g] /\ UNCHANGED <<leader, disbanded>>
            BY <2>2 DEF JoinParty
        <3>2. ASSUME NEW h \in Party PROVE RosterOK(h)'
            <4>1. RosterOK(h) /\ memberOf[p] # h
                BY <1>1, <2>2, PartyAssumption DEF PartyInv
            <4>2. /\ IsFiniteSet(Members(h)') /\ Cardinality(Members(h)) \in Nat
                  /\ h = g => Members(h)' = Members(h) \cup {p}
                  /\ h = g /\ memberOf[p] # h => Cardinality(Members(h)') = Cardinality(Members(h)) + 1
                  /\ h # g /\ memberOf[p] # h => Members(h)' = Members(h)
                BY <3>1, <4>1, MembersMove DEF PartyInv, RosterOK
            <4>3. CASE h = g
                <5>1. Members(h)' = Members(h) \cup {p} /\ Cardinality(Members(h)') <= MaxPartySize
                    BY <1>1, <4>1, <4>2, <4>3, PartyBounds
                <5>2. leader[h] \in Members(h)
                    BY <1>1, <4>1, <4>3 DEF RosterOK
                <5> QED BY <1>1, <3>1, <4>2, <4>3, <5>1, <5>2 DEF RosterOK
            <4>4. CASE h # g
                BY <3>1, <4>1, <4>2, <4>4 DEF RosterOK
            <4> QED BY <4>3, <4>4
        <3> QED BY <3>1, <3>2 DEF PartyInv, PartyTypeOK, Founded
    <2> QED BY <2>1, <2>2
<1>3. PartyTypeOK'
    BY <1>1, <1>2 DEF PartyInv, PartyTypeOK
<1>4. ASSUME NEW q \in Player, NEW h \in Party PROVE LinkOK(q, h)'
    <2>1. LinkOK(q, h) /\ (leader'[h] = NoPlayer => leader[h] = NoPlayer)
        BY <1>2 DEF PartyInv, Founded
    <2>2. CASE q = p
        <3>1. memberOf'[q] = h => h = g
            BY <1>2, <2>2 DEF PartyInv, PartyTypeOK
        <3>2. usedLink'[q] = link
            BY <1>1, <2>2 DEF PartyInv, PartyTypeOK
        <3>3. kicked[<<q, h>>] \in Nat /\ invite[h] \in Nat
            BY DEF PartyInv, PartyTypeOK
        <3> QED BY <1>1, <2>1, <3>1, <3>2, <3>3 DEF LinkOK
    <2>3. CASE q # p
        BY <1>1, <1>2, <2>1, <2>3 DEF LinkOK, PartyInv, PartyTypeOK
    <2> QED BY <2>2, <2>3
<1> QED BY <1>2, <1>3, <1>4 DEF PartyInv

\* A new leader, or a new link
LEMMA LeadP ==
    ASSUME PartyInv, NEW p \in Player, NEW g \in Party, NEW target \in Player,
           SetLeader(p, g, target) \/ RotateInvite(p, g)
    PROVE  PartyInv' /\ Founded
<1>1. CASE SetLeader(p, g, target)
    <2>1. /\ leader' = [leader EXCEPT ![g] = target] /\ UNCHANGED <<memberOf, disbanded, invite, usedLink, kicked>>
          /\ target \in Members(g) /\ leader[g] = p
        BY <1>1 DEF SetLeader, Members
    <2>2. PartyTypeOK' /\ Founded
        BY <2>1, PartyAssumption DEF PartyInv, PartyTypeOK, Founded
    <2>3. ASSUME NEW h \in Party PROVE RosterOK(h)'
        <3>1. Members(h)' = Members(h) /\ RosterOK(h)
            BY <2>1 DEF Members, PartyInv
        <3>2. CASE h = g
            <4>1. leader'[h] = target /\ leader'[h] # NoPlayer /\ leader[h] # NoPlayer
                BY <2>1, <3>2, PartyAssumption DEF PartyInv, PartyTypeOK
            <4> QED BY <2>1, <3>1, <3>2, <4>1 DEF RosterOK
        <3>3. CASE h # g
            <4>1. leader'[h] = leader[h]
                BY <2>1, <3>3 DEF PartyInv, PartyTypeOK
            <4> QED BY <2>1, <3>1, <4>1 DEF RosterOK
        <3> QED BY <3>2, <3>3
    <2>4. \A q \in Player, h \in Party : LinkOK(q, h)'
        BY <2>1, <2>2 DEF PartyInv, LinkOK, Founded
    <2> QED BY <2>2, <2>3, <2>4 DEF PartyInv
<1>2. CASE RotateInvite(p, g)
    <2>1. invite' = [invite EXCEPT ![g] = @ + 1] /\ UNCHANGED <<memberOf, leader, disbanded, usedLink, kicked>>
        BY <1>2 DEF RotateInvite
    <2>2. PartyTypeOK' /\ Founded
        BY <2>1 DEF PartyInv, PartyTypeOK, Founded
    <2>3. \A h \in Party : RosterOK(h)'
        <3>1. \A h \in Party : Members(h)' = Members(h)
            BY <2>1 DEF Members
        <3> QED BY <2>1, <3>1 DEF PartyInv, RosterOK
    <2>4. ASSUME NEW q \in Player, NEW h \in Party PROVE LinkOK(q, h)'
        <3>1. LinkOK(q, h) /\ kicked[<<q, h>>] \in Nat /\ invite[h] \in Nat /\ invite'[h] >= invite[h] /\ invite'[h] \in Nat
            BY <2>1, <2>2 DEF PartyInv, PartyTypeOK
        <3> QED BY <2>1, <3>1 DEF LinkOK
    <2> QED BY <2>2, <2>3, <2>4 DEF PartyInv
<1> QED BY <1>1, <1>2

-----------------------------------------------------------------------------
\* Tickets and parties together
IInv == QInv /\ PartyInv

\* The database is empty and nothing is under way
LEMMA InitInv == Init => IInv
<1> SUFFICES ASSUME Init PROVE IInv
    OBVIOUS
<1> USE DEF Init, PartyInit
<1>1. PartyTypeOK
    BY DEF PartyTypeOK
<1>2. StrongTypeOK
    <2>1. StoreOK
        BY DEF StoreOK, Rows, Statuses
    <2>2. OtherOK
        BY QueueAssumption, RequestsAssumption DEF OtherOK, Matches, Challenges
    <2>3. JobsOK
        BY IdleType DEF JobsOK
    <2> QED BY <1>1, <2>1, <2>2, <2>3 DEF StrongTypeOK
<1>3. \A w \in Worker : /\ job[w] = Idle /\ JobRows(Idle) /\ LostOK(Idle) /\ ~Claims(Idle) /\ ~Answers(Idle)
                        /\ Idle.pc # "joinParty" /\ \A t \in Ticket : ~Returns(Idle, t)
    <2>1. JobRows(Idle)
        BY DEF Idle, JobRows
    <2>2. Idle.pc = "idle"
        BY DEF Idle
    <2> QED BY <2>1, <2>2, FreeJob
<1>4. RowInv
    BY <1>3 DEF RowInv, Ever
<1>5. MatchInv
    BY <1>3 DEF MatchInv, Uses
<1>6. ReturnInv
    BY <1>3 DEF ReturnInv
<1>7. ChallengeInv
    BY <1>3 DEF ChallengeInv, OfChallenge
<1>8. ListedInv
    BY <1>3 DEF ListedInv, Waiting
<1>9. JoinInv
    BY <1>3 DEF JoinInv
<1>10. PartyInv
    <2>1. ASSUME NEW g \in Party PROVE RosterOK(g)
        <3>1. Members(g) = {}
            BY PartyAssumption DEF Members
        <3>2. IsFiniteSet(Members(g)) /\ Cardinality(Members(g)) <= MaxPartySize
            BY <3>1, FS_EmptySet, PartyBounds
        <3> QED BY <3>1, <3>2 DEF RosterOK
    <2>2. \A p \in Player, g \in Party : LinkOK(p, g)
        BY DEF LinkOK
    <2> QED BY <1>1, <2>1, <2>2 DEF PartyInv
<1> QED BY <1>2, <1>4, <1>5, <1>6, <1>7, <1>8, <1>9, <1>10 DEF IInv, QInv

\* Requests for a ticket
LEMMA QueueRequestInv ==
    ASSUME IInv, NEW w \in Worker, QueueRequest(w)
    PROVE  IInv'
<1> USE DEF IInv
<1>1. ASSUME NEW p \in Player, NEW modes \in (SUBSET Mode) \ {{}}, Join(w, p, modes)
      PROVE  IInv'
    <2>1. PartyInv' /\ Founded
        BY <1>1, EnsurePartyP DEF Join
    <2> QED BY <1>1, <2>1, JoinQ DEF PartyInv, Founded
<1>2. CASE \E g \in Party, modes \in (SUBSET Mode) \ {{}} : Leave(w, g, modes)
    <2>1. UNCHANGED partyVars
        BY <1>2 DEF Leave
    <2> QED BY <1>2, <2>1, LeaveQ, PartyFrame
<1>3. CASE JoinLook(w) \/ JoinInsert(w) \/ JoinAdopt(w) \/ JoinMerge(w) \/ JoinAssert(w)
    <2>1. UNCHANGED partyVars
        BY <1>3 DEF JoinLook, JoinInsert, InsertRow, JoinAdopt, JoinMerge, JoinAssert, notQueue
    <2> QED BY SMTT(30), <1>3, <2>1, JoinLookQ, JoinInsertQ, JoinAdoptQ, JoinMergeQ, JoinAssertQ, PartyFrame
<1>4. CASE Put(w) \/ Shrink(w) \/ CancelParty(w) \/ Drop(w) \/ CancelRow(w)
    <2>1. UNCHANGED partyVars
        BY <1>4 DEF Put, Shrink, CancelParty, Drop, CancelRow, notQueue
    <2> QED BY <1>4, <2>1, PutQ, ShrinkQ, CancelPartyQ, DropQ, CancelRowQ, PartyFrame
<1> QED BY <1>1, <1>2, <1>3, <1>4 DEF QueueRequest

\* Requests that change a party
LEMMA PartyRequestInv ==
    ASSUME IInv, NEW w \in Worker, PartyRequest(w)
    PROVE  IInv'
<1> USE DEF IInv
<1>1. ASSUME NEW p \in Player, Leaves(w, p)
      PROVE  IInv'
    <2>1. PICK g \in Party : g = memberOf[p]
        BY <1>1 DEF Leaves, PartyInv, PartyTypeOK
    <2>2. PartyInv' /\ Founded
        BY <1>1, <2>1, LeavePartyP DEF Leaves
    <2>3. PartyChanged(w, <<g>>)
        BY <1>1, <2>1 DEF Leaves
    <2> QED BY <2>2, <2>3, PartyChangedQ DEF PartyInv, Founded
<1>2. ASSUME NEW p \in Player, NEW target \in Player, Kicks(w, p, target)
      PROVE  IInv'
    <2>1. PICK g \in Party : g = memberOf[p]
        BY <1>2 DEF Kicks, PartyInv, PartyTypeOK
    <2>2. PartyInv' /\ Founded
        BY <1>2, <2>1, KickP DEF Kicks
    <2>3. PartyChanged(w, <<g>>)
        BY <1>2, <2>1 DEF Kicks
    <2> QED BY <2>2, <2>3, PartyChangedQ DEF PartyInv, Founded
<1>3. ASSUME NEW p \in Player, NEW target \in Player, Leads(p, target)
      PROVE  IInv'
    <2>1. PICK g \in Party : g = memberOf[p]
        BY <1>3 DEF Leads, PartyInv, PartyTypeOK
    <2>2. PartyInv' /\ Founded
        BY <1>3, <2>1, LeadP DEF Leads
    <2>3. UNCHANGED queueVars
        BY <1>3 DEF Leads
    <2> QED BY <2>2, <2>3, KeepStep DEF PartyInv, Founded
<1>4. ASSUME NEW p \in Player, NEW g \in Party, Joins(w, p, g)
      PROVE  IInv'
    BY <1>4, JoinsQ, PartyFrame DEF Joins
<1>5. CASE JoinsLocked(w)
    <2>1. job[w].pc = "joinParty" /\ job[w].players \subseteq Player /\ job[w].party \in Party
          /\ leader[job[w].party] # NoPlayer
        BY <1>5, JobFacts DEF JoinsLocked, At, JobType, JobShape, QInv, JoinInv
    <2>2. PartyInv' /\ Founded
        <3>1. CASE UNCHANGED partyVars
            BY <3>1, PartyFrame
        <3>2. CASE \E p \in job[w].players :
                      /\ MayJoin(p, job[w].party, job[w].link, Head(job[w].rest), InMatch)
                      /\ JoinParty(p, job[w].party, job[w].link, Head(job[w].rest))
            BY <2>1, <3>2, JoinPartyP
        <3> QED BY <1>5, <3>1, <3>2 DEF JoinsLocked
    <2> QED BY <1>5, <2>2, JoinsLockedQ DEF PartyInv, Founded
<1> QED BY <1>1, <1>2, <1>3, <1>4, <1>5 DEF PartyRequest

\* Passes of the matchmaker
LEMMA MatchmakingInv ==
    ASSUME IInv, NEW w \in Worker, Matchmaking(w)
    PROVE  IInv'
<1>1. UNCHANGED partyVars
    BY DEF Matchmaking, Propose, ClaimAll, ClaimAll_Unchecked, LoadTickets, ClaimLost, ReadLost, Consume,
           CreateFromQueue, notQueue
<1>2. QInv'
    BY SMTT(30), ProposeQ, ClaimAllQ, LoadTicketsQ, ClaimLostQ, ReadLostQ, ConsumeQ, CreateFromQueueQ DEF Matchmaking, IInv
<1> QED BY SMTT(30), <1>1, <1>2, PartyFrame DEF IInv

\* Matches that end
LEMMA MatchEndsInv ==
    ASSUME IInv, NEW w \in Worker, MatchEnds(w)
    PROVE  IInv'
<1>1. UNCHANGED partyVars
    BY DEF MatchEnds, MatchOver, MatchFails, Discard, Requeue, Reopen, notQueue
<1>2. QInv'
    BY MatchOverQ, MatchFailsQ, DiscardQ, RequeueQ, ReopenQ DEF MatchEnds, IInv
<1> QED BY <1>1, <1>2, PartyFrame DEF IInv

\* Challenges
LEMMA ChallengeRequestInv ==
    ASSUME IInv, NEW w \in Worker, ChallengeRequest(w)
    PROVE  IInv'
<1>1. UNCHANGED partyVars
    BY DEF ChallengeRequest, CreateChallenge, Accept, Accept_NoMatchCheck, CreateDirect, Answer, CloseChallenge
<1>2. QInv'
    BY CreateChallengeQ, AcceptQ, CreateDirectQ, AnswerQ, CloseChallengeQ DEF ChallengeRequest, IInv
<1> QED BY <1>1, <1>2, PartyFrame DEF IInv

\* Every step
LEMMA NextInv == IInv /\ [Next]_vars => IInv'
<1> SUFFICES ASSUME IInv, [Next]_vars PROVE IInv'
    OBVIOUS
<1>1. CASE \E w \in Worker :
              QueueRequest(w) \/ PartyRequest(w) \/ Matchmaking(w) \/ MatchEnds(w) \/ ChallengeRequest(w)
    BY <1>1, QueueRequestInv, PartyRequestInv, MatchmakingInv, MatchEndsInv, ChallengeRequestInv
<1>2. CASE Crash
    BY <1>2, CrashQ, PartyFrame DEF IInv, Crash
<1>3. CASE UNCHANGED vars
    <2>1. PartyInv' /\ Founded /\ UNCHANGED queueVars
        BY <1>3, PartyFrame DEF IInv, vars
    <2> QED BY <2>1, KeepStep DEF IInv, PartyInv, Founded
<1> QED BY <1>1, <1>2, <1>3 DEF Next

\* The invariant holds of every behaviour
THEOREM Invariance == Spec => []IInv
BY InitInv, NextInv, PTL DEF Spec

\* The rows and keys of queue/service.ts, the parties and every request under way keep their types
THEOREM TypeCorrect == Spec => []TypeOK
<1>1. IInv => TypeOK
    BY StrongIsType DEF IInv, QInv
<1> QED BY <1>1, Invariance, PTL

\* A party has a leader who is in it and room for all, and nobody is in it through a link from before his kick
THEOREM PartiesCorrect == Spec => []PartiesStand
<1>1. IInv => PartiesStand
    BY PartyInvStands DEF IInv
<1> QED BY <1>1, Invariance, PTL

\* A ticket is in one match at a time, and a challenge in one, whatever locks expire
THEOREM ClaimsCorrect == Spec => []ClaimedOnce
<1>1. ASSUME NEW S, \A x, y \in S : x = y
      PROVE  Cardinality(S) <= 1
    <2>1. CASE S = {}
        BY <2>1, FS_EmptySet
    <2>2. CASE S # {}
        <3>1. PICK x : S = {x}
            BY <1>1, <2>2
        <3>2. Cardinality({x}) = 1
            BY FS_Singleton
        <3> QED BY <3>1, <3>2
    <2> QED BY <2>1, <2>2
<1>2. IInv => ClaimedOnce
    <2> SUFFICES ASSUME IInv PROVE ClaimedOnce
        OBVIOUS
    <2>1. \A t \in Ticket : \A k, l \in Using(t) : k = l
        BY DEF IInv, QInv, MatchInv, Uses, Using
    <2>2. \A k, l \in OfChallenge : k = l
        BY DEF IInv, QInv, ChallengeInv
    <2>3. \A t \in Ticket : Cardinality(Using(t)) <= 1
        BY <1>1, <2>1
    <2>4. Cardinality(OfChallenge) <= 1
        BY <1>1, <2>2
    <2> QED BY <2>3, <2>4 DEF ClaimedOnce
<1> QED BY <1>2, Invariance, PTL

\* When all requests are done and none was lost, a row that waits and never was in a match can be found
THEOREM QueueCorrect == Spec => []WaitingIsQueued
<1>1. IInv => WaitingIsQueued
    <2> SUFFICES ASSUME IInv, Quiet, NEW t \in Ticket, Waiting(t), \A k \in Match : t \notin match[k].tickets
                 PROVE  live[t] # {} /\ \E m \in Mode : t \in queued[m]
        BY DEF WaitingIsQueued
    <2>1. \A w \in Worker : ~Owes(job[w], t)
        BY DEF Quiet, Owes, Idle
    <2> QED BY <2>1 DEF IInv, QInv, ListedInv, Fresh, Listed, Quiet
<1> QED BY <1>1, Invariance, PTL
=============================================================================
