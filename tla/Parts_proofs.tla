----------------------------- MODULE Parts_proofs -----------------------------
(***************************************************************************)
(* Proofs about the smaller machines of the system, a section each.        *)
(*                                                                         *)
(* Reports and cases (ReviewCases), for any reporters, admins, trusted     *)
(* ones, cases and claims: no report is forgotten and a ruling stands. The *)
(* websocket of a tab (Realtime), for any topics, limits and sockets: what *)
(* the pages follow is what the server sends. The script and the plugin in *)
(* a map of Rush (RushGame), for any draws and reloads: they agree on the  *)
(* score. The ratings (RatingLedger), for any matches, players and         *)
(* rollbacks at once: each is the replay of the results that count. And    *)
(* the agent of a host (HostAgent), for any servers, matches, ports and    *)
(* number of restarts: its slots are its servers, no server runs while     *)
(* SteamCMD changes the install, and no stop is reported as a crash.       *)
(***************************************************************************)
EXTENDS RatingLedger, ReviewCases, Realtime, RushGame, HostAgent,
        LoopTheorems, FiniteSetTheorems, SequenceTheorems

(***************************************************************************)
(* Reports and cases                                                       *)
(***************************************************************************)

Reviewer == Reporter \cup Admin
Report == [outcome : AnyOutcome, rulings : Nat]
Case == [status : {"open", "reviewing", "cleared", "confirmed"}, reviewer : Admin \cup {None}, stale : BOOLEAN,
         reopenedBy : Reporter \cup {None}]
Call ==
    [step : {"idle", "filed", "count", "keep", "claimed", "unclaimed", "unkeep?", "unkeep"}]
    \cup [step : {"insert"}, reopenedBy : Reporter \cup {None}]
    \cup [step : {"follow"}, outcome : AnyOutcome]
    \cup [step : {"claim", "unclaim", "decide"}, flag : Nat]
    \cup [step : {"decided"}, outcome : Decided]

ReviewTypeOK ==
    /\ report \in [Reporter -> Report \cup {None}]
    /\ case \in Seq(Case)
    /\ call \in [Reviewer -> Call]

\* A ruling that has been made gives this outcome
Ruled(outcome) == \E i \in Numbers : ~Undecided(case[i]) /\ outcome = OutcomeFor(case[i].status)

\* What a request has read that still holds
CallInv(a) ==
    /\ call[a].step \in {"filed", "count", "insert"} => a \in Reported
    /\ call[a].step \in {"claim", "unclaim", "decide"} => call[a].flag \in Numbers
    /\ At(a, "decide") => a \in Admin /\ a # Suspect
    /\ At(a, "follow") => call[a].outcome = "reviewed" \/ Ruled(call[a].outcome)
    /\ At(a, "decided") => Ruled(OutcomeFor(call[a].outcome))

\* A report that a ruling came after has its outcome, or will in a moment
RulingUnderWay == \E a \in Reviewer : At(a, "decided")
ReportInv(r) ==
    /\ report[r].rulings < Rulings => Settled(r) \/ RulingUnderWay
    /\ Settled(r) => Ruled(report[r].outcome)

\* Reports that call for a case have one, or a request that is to open it
CallsForCase == Cardinality(Reported) >= 2 \/ Trusted \cap Reported # {}
CaseComes == \E r \in Reporter : call[r].step \in {"filed", "count", "insert"}

ReviewInv ==
    /\ ReviewTypeOK
    /\ \A a \in Reviewer : CallInv(a)
    /\ \A r \in Reported : ReportInv(r)
    /\ CallsForCase => case # <<>> \/ CaseComes

-----------------------------------------------------------------------------
\* An outcome of a ruling is final, and tells which ruling it was
LEMMA Outcomes ==
    /\ OutcomeFor("confirmed") = "actioned" /\ OutcomeFor("cleared") = "dismissed"
    /\ OutcomeFor("reviewing") = "reviewed" /\ OutcomeFor("open") = "received"
BY DEF OutcomeFor

\* A ruling gives its reports one of the two outcomes that are final
LEMMA RuledIsFinal ==
    ASSUME ReviewTypeOK, NEW outcome, Ruled(outcome)
    PROVE  outcome \in {"actioned", "dismissed"}
BY Outcomes DEF Ruled, ReviewTypeOK, Numbers, Undecided, Decided, Case

\* A report that is there is a record, and the number of rulings is one
LEMMA RulingsNat ==
    ASSUME ReviewTypeOK
    PROVE  Rulings \in Nat
<1>1. Numbers = 1..Len(case) /\ Len(case) \in Nat
    BY DEF ReviewTypeOK, Numbers
<1>2. IsFiniteSet(Numbers)
    BY <1>1, FS_Interval
<1> QED BY <1>2, FS_Subset, FS_CardinalityType DEF Rulings

\* What a step that rules nothing leaves of the rulings: each is what it was, and there are as many
RulingsKept ==
    /\ Numbers \subseteq Numbers'
    /\ \A i \in Numbers : ~Undecided(case[i]) => case'[i] = case[i]
    /\ Rulings' = Rulings

\* A ruling stands through a step that keeps the rulings
LEMMA RuledStays ==
    ASSUME Numbers \subseteq Numbers', \A i \in Numbers : ~Undecided(case[i]) => case'[i] = case[i],
           NEW outcome, Ruled(outcome)
    PROVE  Ruled(outcome)'
BY DEF Ruled

\* A request that goes on, while reports and rulings stay as they are
LEMMA GoesOn ==
    ASSUME ReviewInv, NEW a \in Reviewer, NEW c \in Call, ~At(a, "decided"),
           call' = [call EXCEPT ![a] = c], report' = report, case' \in Seq(Case),
           RulingsKept, CallInv(a)', (CallsForCase => case # <<>> \/ CaseComes)'
    PROVE  ReviewInv'
<1>1. ReviewTypeOK'
    BY DEF ReviewInv, ReviewTypeOK
<1>2. ASSUME NEW b \in Reviewer PROVE CallInv(b)'
    <2>1. CASE b = a
        BY <2>1
    <2>2. CASE b # a
        <3>1. call'[b] = call[b] /\ CallInv(b)
            BY <2>2 DEF ReviewInv, ReviewTypeOK
        <3>2. \A outcome : Ruled(outcome) => Ruled(outcome)'
            BY RuledStays DEF RulingsKept
        <3>3. Reported' = Reported /\ Numbers \subseteq Numbers'
            BY DEF Reported, RulingsKept
        <3> QED BY <3>1, <3>2, <3>3 DEF CallInv, At
    <2> QED BY <2>1, <2>2
<1>3. ASSUME NEW r \in Reported' PROVE ReportInv(r)'
    <2>1. r \in Reported /\ ReportInv(r)
        BY <1>3 DEF Reported, ReviewInv
    <2>2. RulingUnderWay => RulingUnderWay'
        BY DEF RulingUnderWay, At, ReviewInv, ReviewTypeOK
    <2>3. Settled(r)' <=> Settled(r)
        BY DEF Settled, Reported
    <2> QED BY <2>1, <2>2, <2>3, RuledStays DEF ReportInv, RulingsKept
<1> QED BY <1>1, <1>2, <1>3 DEF ReviewInv

\* A step of one request: it goes on with c
LEMMA CallType ==
    ASSUME ReviewInv, NEW a \in Reviewer, NEW c, Go(a, c), c \in Call
    PROVE  /\ call' = [call EXCEPT ![a] = c] /\ call'[a] = c
           /\ \A b \in Reviewer : b # a => call'[b] = call[b]
BY DEF Go, ReviewInv, ReviewTypeOK

\* The reports and cases that a step leaves alone
LEMMA Untouched ==
    ASSUME ReviewInv, UNCHANGED <<report, case>>
    PROVE  /\ case' \in Seq(Case) /\ RulingsKept /\ Reported' = Reported /\ (CallsForCase' <=> CallsForCase)
           /\ Numbers' = Numbers /\ \A outcome : Ruled(outcome)' <=> Ruled(outcome)
BY DEF ReviewInv, ReviewTypeOK, RulingsKept, Reported, CallsForCase, Numbers, Rulings, Ruled, Undecided

\* A request that is not about to open a case leaves it to the others
LEMMA CaseStillComes ==
    ASSUME ReviewInv, NEW a \in Reviewer, NEW c \in Call, Go(a, c), UNCHANGED <<report, case>>,
           call[a].step \in {"filed", "count", "insert"} => c.step \in {"filed", "count", "insert"} \/ case # <<>>
    PROVE  (CallsForCase => case # <<>> \/ CaseComes)'
<1>1. /\ call'[a] = c
      /\ \A b \in Reviewer : b # a => call'[b] = call[b]
    BY CallType
<1>2. CallsForCase' <=> CallsForCase
    BY Untouched
<1>3. SUFFICES ASSUME CallsForCase, case = <<>> PROVE CaseComes'
    BY <1>2
<1>4. PICK r \in Reporter : call[r].step \in {"filed", "count", "insert"}
    BY <1>3 DEF ReviewInv, CaseComes
<1>5. call'[r].step \in {"filed", "count", "insert"}
    BY <1>1, <1>3, <1>4 DEF Reviewer
<1> QED BY <1>5 DEF CaseComes

\* onReport joins the latest case, or goes on to open one
LEMMA JoinCaseInv ==
    ASSUME ReviewInv, NEW r \in Reporter, JoinCase(r)
    PROVE  ReviewInv'
<1>1. UNCHANGED <<report, case>> /\ At(r, "filed") /\ r \in Reviewer /\ r \in Reported
    BY DEF JoinCase, tables, Reviewer, ReviewInv, CallInv, At
<1>2. case # <<>> => Len(case) \in Numbers /\ Latest \in Case /\ Len(case) >= 1
    <2> HAVE case # <<>>
    <2>1. case \in Seq(Case) /\ Len(case) \in Nat /\ DOMAIN case = 1..Len(case)
        BY DEF ReviewInv, ReviewTypeOK
    <2>2. Len(case) # 0
        BY <2>1, EmptySeq
    <2> QED BY <2>1, <2>2 DEF Latest, Numbers
<1>3. PICK c \in Call :
          /\ Go(r, c)
          /\ c.step \in {"count", "insert", "idle", "follow"}
          /\ c.step \in {"idle", "follow"} => case # <<>>
          /\ c.step = "follow" =>
                case # <<>> /\ Latest.status # "open" /\ c.outcome = OutcomeFor(Latest.status)
    <2>1. CASE case = <<>>
        <3>1. Go(r, [step |-> "count"]) /\ [step |-> "count"] \in Call
            BY <2>1 DEF JoinCase, Call
        <3> QED BY <3>1
    <2>2. CASE case # <<>> /\ Latest.status = "cleared" /\ r \in Trusted /\ ~ReopenedBefore(r)
        <3>1. Go(r, [step |-> "insert", reopenedBy |-> r]) /\ [step |-> "insert", reopenedBy |-> r] \in Call
            BY <2>2 DEF JoinCase, Call
        <3> QED BY <3>1
    <2>3. CASE case # <<>> /\ ~(Latest.status = "cleared" /\ r \in Trusted /\ ~ReopenedBefore(r)) /\ Latest.status = "open"
        <3>1. Go(r, Idle) /\ Idle \in Call /\ Idle.step = "idle"
            BY <2>3 DEF JoinCase, Call, Idle
        <3> QED BY <2>3, <3>1
    <2>4. CASE case # <<>> /\ ~(Latest.status = "cleared" /\ r \in Trusted /\ ~ReopenedBefore(r)) /\ Latest.status # "open"
        <3> DEFINE c == [step |-> "follow", outcome |-> OutcomeFor(Latest.status)]
        <3>1. Go(r, c)
            BY <2>4 DEF JoinCase
        <3>2. OutcomeFor(Latest.status) \in AnyOutcome
            BY <1>2, <2>4, Outcomes DEF Case, AnyOutcome
        <3>3. c \in Call /\ c.step = "follow" /\ c.outcome = OutcomeFor(Latest.status)
            BY <3>2 DEF Call
        <3> QED BY <2>4, <3>1, <3>3
    <2> QED BY <2>1, <2>2, <2>3, <2>4
<1>4. CallInv(r)'
    <2>1. call'[r] = c /\ Reported' = Reported /\ \A outcome : Ruled(outcome) => Ruled(outcome)'
        BY <1>1, <1>3, CallType, Untouched
    <2>2. c.step = "follow" => c.outcome = "reviewed" \/ Ruled(c.outcome)
        BY <1>2, <1>3, Outcomes DEF Ruled, Latest, Case, Undecided, Decided
    <2> QED BY <1>1, <1>3, <2>1, <2>2 DEF CallInv, At
<1>5. (CallsForCase => case # <<>> \/ CaseComes)'
    BY <1>1, <1>3, CaseStillComes
<1> QED BY <1>1, <1>3, <1>4, <1>5, GoesOn, Untouched, CallType DEF At

\* Two reports have two reporters
LEMMA TwoReports ==
    ASSUME Cardinality(Reported) < 2, NEW r \in Reported
    PROVE  Reported = {r}
<1>1. IsFiniteSet(Reported) /\ Cardinality(Reported) \in Nat
    BY ReviewAssumption, FS_Subset, FS_CardinalityType DEF Reported
<1>2. IsFiniteSet({r}) /\ Cardinality({r}) = 1 /\ {r} \subseteq Reported
    BY FS_Singleton
<1>3. Cardinality(Reported) >= 1
    BY <1>1, <1>2, FS_Subset
<1>4. Cardinality({r}) = Cardinality(Reported)
    BY <1>1, <1>2, <1>3
<1> QED BY <1>1, <1>2, <1>4, FS_Subset

\* onReport counts the reports and opens a case, or leaves it to the next report
LEMMA CountReportsInv ==
    ASSUME ReviewInv, NEW r \in Reporter, CountReports(r)
    PROVE  ReviewInv'
<1>1. UNCHANGED <<report, case>> /\ At(r, "count") /\ r \in Reviewer /\ r \in Reported
    BY DEF CountReports, tables, Reviewer, ReviewInv, CallInv, At
<1>2. PICK c \in Call : Go(r, c) /\ c.step \in {"insert", "idle"}
          /\ (c.step = "insert" <=> Cardinality(Reported) >= 2 \/ r \in Trusted)
    <2>1. CASE Cardinality(Reported) >= 2 \/ r \in Trusted
        <3>1. Go(r, [step |-> "insert", reopenedBy |-> None]) /\ [step |-> "insert", reopenedBy |-> None] \in Call
            BY <2>1 DEF CountReports, Call
        <3> QED BY <2>1, <3>1
    <2>2. CASE ~(Cardinality(Reported) >= 2 \/ r \in Trusted)
        <3>1. Go(r, Idle) /\ Idle \in Call /\ Idle.step = "idle"
            BY <2>2 DEF CountReports, Call, Idle
        <3> QED BY <2>2, <3>1
    <2> QED BY <2>1, <2>2
<1>3. CallInv(r)'
    <2>1. call'[r] = c /\ Reported' = Reported
        BY <1>1, <1>2, CallType, Untouched
    <2> QED BY <1>1, <1>2, <2>1 DEF CallInv, At
<1>4. (CallsForCase => case # <<>> \/ CaseComes)'
    <2>1. CASE c.step = "insert"
        BY <1>1, <1>2, <2>1, CaseStillComes
    <2>2. CASE c.step # "insert"
        <3>1. Cardinality(Reported) \in Nat
            BY ReviewAssumption, FS_Subset, FS_CardinalityType DEF Reported
        <3>2. ~(Cardinality(Reported) >= 2) /\ Cardinality(Reported) < 2 /\ r \notin Trusted
            BY <1>2, <2>2, <3>1
        <3>3. Reported = {r}
            BY <1>1, <3>2, TwoReports
        <3>4. ~CallsForCase
            BY <3>2, <3>3 DEF CallsForCase
        <3> QED BY <1>1, <3>4, Untouched
    <2> QED BY <2>1, <2>2
<1> QED BY <1>1, <1>2, <1>3, <1>4, GoesOn, Untouched, CallType DEF At

\* The number of rulings does not change when no case becomes decided, or stops being it
LEMMA SameRulings ==
    ASSUME ReviewTypeOK, case' \in Seq(Case), Numbers \subseteq Numbers',
           \A i \in Numbers : ~Undecided(case[i]) => case'[i] = case[i],
           \A i \in Numbers' : ~Undecided(case'[i]) => i \in Numbers /\ ~Undecided(case[i])
    PROVE  RulingsKept
<1>1. {i \in Numbers' : ~Undecided(case'[i])} = {i \in Numbers : ~Undecided(case[i])}
    OBVIOUS
<1> QED BY <1>1 DEF RulingsKept, Rulings, Undecided

\* openFlag: a case is opened, or there is one
LEMMA OpenCaseInv ==
    ASSUME ReviewInv, NEW r \in Reporter, OpenCase(r)
    PROVE  ReviewInv'
<1>1. UNCHANGED report /\ At(r, "insert") /\ r \in Reviewer
    BY DEF OpenCase, Reviewer
<1>2. CASE SomeOpen /\ Go(r, Idle) /\ UNCHANGED case
    <2>1. Idle \in Call /\ Idle.step = "idle" /\ UNCHANGED <<report, case>>
        BY <1>1, <1>2 DEF Idle, Call
    <2>2. case # <<>>
        BY <1>2 DEF SomeOpen, Numbers
    <2>3. CallInv(r)'
        BY <1>1, <1>2, <2>1, CallType DEF CallInv, At
    <2>4. (CallsForCase => case # <<>> \/ CaseComes)'
        BY <2>1, <2>2
    <2> QED BY <1>1, <1>2, <2>1, <2>3, <2>4, GoesOn, Untouched, CallType DEF At
<1>3. CASE /\ case' = Append(case, [status |-> "open", reviewer |-> None, stale |-> FALSE,
                                    reopenedBy |-> call[r].reopenedBy])
           /\ Go(r, [step |-> "keep"])
    <2> DEFINE new == [status |-> "open", reviewer |-> None, stale |-> FALSE, reopenedBy |-> call[r].reopenedBy]
               c == [step |-> "keep"]
    <2>1. c \in Call /\ c.step = "keep"
        BY DEF Call
    <2>2. new \in Case
        BY <1>1 DEF Case, At, ReviewInv, ReviewTypeOK, Call
    <2>3. case \in Seq(Case) /\ Len(case) \in Nat /\ Numbers = 1..Len(case)
        BY DEF ReviewInv, ReviewTypeOK, Numbers
    <2>4. /\ case' \in Seq(Case) /\ Len(case') = Len(case) + 1
          /\ \A i \in 1..Len(case) : case'[i] = case[i]
          /\ case'[Len(case) + 1] = new
        BY <1>3, <2>2, <2>3, AppendProperties
    <2>5. Numbers' = 1..(Len(case) + 1)
        BY <2>3, <2>4 DEF Numbers
    <2> HIDE DEF new, c
    <2>6. Undecided(new)
        BY DEF new, Undecided, Decided
    <2>7. RulingsKept
        BY <2>3, <2>4, <2>5, <2>6, SameRulings DEF ReviewInv
    <2>8. CallInv(r)'
        BY <1>3, <2>1, CallType, <1>1 DEF c, CallInv, At
    <2>9. case' # <<>>
        BY <2>3, <2>4, EmptySeq
    <2> QED BY <1>1, <1>3, <2>1, <2>4, <2>7, <2>8, <2>9, GoesOn, CallType DEF At, c
<1> QED BY <1>2, <1>3 DEF OpenCase

\* A request that reads the tables, or comes to nothing, and was not about to open a case
LEMMA QuietStep ==
    ASSUME ReviewInv, NEW a \in Reviewer, NEW c \in Call, Go(a, c), UNCHANGED <<report, case>>,
           call[a].step \notin {"filed", "count", "insert", "decided"}, CallInv(a)'
    PROVE  ReviewInv'
<1>1. (CallsForCase => case # <<>> \/ CaseComes)'
    BY CaseStillComes
<1> QED BY <1>1, GoesOn, Untouched, CallType DEF At

\* A request that has nothing more to do
LEMMA RequestEndsInv ==
    ASSUME ReviewInv, NEW a \in Reviewer, Go(a, Idle), UNCHANGED <<report, case>>,
           call[a].step \notin {"filed", "count", "insert", "decided"}
    PROVE  ReviewInv'
<1>1. Idle \in Call /\ Idle.step = "idle"
    BY DEF Idle, Call
<1>2. CallInv(a)'
    BY <1>1, CallType DEF CallInv, At
<1> QED BY <1>1, <1>2, QuietStep

\* claim, unclaim and decide read the case
LEMMA ReadInv ==
    ASSUME ReviewInv, NEW a \in Admin, NEW i \in Numbers, ReadToClaim(a, i) \/ ReadToUnclaim(a, i) \/ ReadToDecide(a, i)
    PROVE  ReviewInv'
<1>1. PICK step \in {"claim", "unclaim", "decide"} :
          At(a, "idle") /\ Go(a, [step |-> step, flag |-> i]) /\ UNCHANGED <<report, case>>
          /\ (step = "decide" => a # Suspect)
    BY DEF ReadToClaim, ReadToUnclaim, ReadToDecide, Read, tables
<1> DEFINE c == [step |-> step, flag |-> i]
<1>2. i \in Nat
    BY DEF Numbers, ReviewInv, ReviewTypeOK
<1>3. c \in Call /\ c.step = step /\ c.flag = i /\ a \in Reviewer
    BY <1>2 DEF Call, Reviewer
<1>4. Numbers' = Numbers
    BY <1>1 DEF Numbers
<1> HIDE DEF c
<1>5. CallInv(a)'
    BY <1>1, <1>3, <1>4, CallType DEF CallInv, At, c
<1> QED BY <1>1, <1>3, <1>5, QuietStep DEF At, c

\* The case a request has read, and what an update makes of the cases
LEMMA UpdateFacts ==
    ASSUME ReviewInv, NEW a \in Reviewer, NEW c \in Case, NEW next, UpdateCase(a, c, next),
           call[a].step \in {"claim", "unclaim", "decide"}
    PROVE  /\ call[a].flag \in Numbers /\ CaseOf(a) \in Case
           /\ case' \in Seq(Case) /\ Numbers' = Numbers /\ case'[call[a].flag] = c
           /\ \A i \in Numbers : i # call[a].flag => case'[i] = case[i]
           /\ Go(a, next) /\ UNCHANGED report
<1>1. call[a].flag \in Numbers /\ case \in Seq(Case)
    BY DEF ReviewInv, CallInv, ReviewTypeOK
<1> QED BY <1>1 DEF UpdateCase, CaseOf, Numbers

\* An update that leaves the case to be decided
LEMMA UpdateInv ==
    ASSUME ReviewInv, NEW a \in Admin, NEW c \in Case, NEW step \in {"claimed", "unclaimed"},
           UpdateCase(a, c, [step |-> step]), call[a].step \in {"claim", "unclaim"},
           Undecided(CaseOf(a)), Undecided(c)
    PROVE  ReviewInv'
<1> DEFINE next == [step |-> step]
<1>1. a \in Reviewer /\ next \in Call /\ next.step = step
    BY DEF Reviewer, Call
<1> HIDE DEF next
<1>2. /\ call[a].flag \in Numbers
      /\ case' \in Seq(Case) /\ Numbers' = Numbers /\ case'[call[a].flag] = c
      /\ \A i \in Numbers : i # call[a].flag => case'[i] = case[i]
      /\ Go(a, next) /\ UNCHANGED report
    BY <1>1, UpdateFacts DEF next
<1>3. Undecided(c)' <=> Undecided(c)
    BY DEF Undecided
<1>4. RulingsKept
    BY <1>2, <1>3, SameRulings DEF ReviewInv, CaseOf
<1>5. CallInv(a)'
    BY <1>1, <1>2, CallType DEF CallInv, At
<1>6. case' # <<>>
    BY <1>2 DEF Numbers
<1> QED BY <1>1, <1>2, <1>4, <1>5, <1>6, GoesOn, CallType DEF At

\* claim: refused, or the case is the admin's
LEMMA ClaimInv ==
    ASSUME ReviewInv, NEW a \in Admin, Claim(a)
    PROVE  ReviewInv'
<1>1. CASE Refuse(a, "claim", CaseOf(a).status = "open")
    BY <1>1, RequestEndsInv DEF Refuse, At, tables, Reviewer
<1>2. CASE /\ At(a, "claim") /\ CaseOf(a).status = "open"
           /\ UpdateCase(a, [CaseOf(a) EXCEPT !.status = "reviewing", !.reviewer = a, !.stale = FALSE],
                         [step |-> "claimed"])
    <2> DEFINE c == [CaseOf(a) EXCEPT !.status = "reviewing", !.reviewer = a, !.stale = FALSE]
    <2>1. CaseOf(a) \in Case
        BY <1>2 DEF CaseOf, At, ReviewInv, CallInv, ReviewTypeOK, Reviewer, Numbers
    <2>2. c \in Case /\ Undecided(c) /\ Undecided(CaseOf(a))
        BY <1>2, <2>1 DEF Case, Undecided, Decided
    <2> HIDE DEF c
    <2> QED BY <1>2, <2>2, UpdateInv DEF At, c
<1> QED BY <1>1, <1>2 DEF Claim

\* unclaim: refused, or the case is open again
LEMMA UnclaimInv ==
    ASSUME ReviewInv, NEW a \in Admin, Unclaim(a)
    PROVE  ReviewInv'
<1>1. CASE Refuse(a, "unclaim", MayReopen(a))
    BY <1>1, RequestEndsInv DEF Refuse, At, tables, Reviewer
<1>2. CASE /\ At(a, "unclaim") /\ MayReopen(a)
           /\ UpdateCase(a, [CaseOf(a) EXCEPT !.status = "open", !.reviewer = None, !.stale = FALSE],
                         [step |-> "unclaimed"])
    <2> DEFINE c == [CaseOf(a) EXCEPT !.status = "open", !.reviewer = None, !.stale = FALSE]
    <2>1. CaseOf(a) \in Case
        BY <1>2 DEF CaseOf, At, ReviewInv, CallInv, ReviewTypeOK, Reviewer, Numbers
    <2>2. c \in Case /\ Undecided(c) /\ Undecided(CaseOf(a))
        BY <1>2, <2>1 DEF Case, Undecided, Decided, MayReopen
    <2> HIDE DEF c
    <2> QED BY <1>2, <2>2, UpdateInv DEF At, c
<1> QED BY <1>1, <1>2 DEF Unclaim

\* decide: refused, or the case is decided and its reports are about to follow
LEMMA DecideInv ==
    ASSUME ReviewInv, NEW a \in Admin, NEW outcome \in Decided, Decide(a, outcome)
    PROVE  ReviewInv'
<1>1. CASE Refuse(a, "decide", MayRule(a))
    BY <1>1, RequestEndsInv DEF Refuse, At, tables, Reviewer
<1>2. CASE /\ At(a, "decide") /\ MayRule(a)
           /\ UpdateCase(a, [CaseOf(a) EXCEPT !.status = outcome, !.reviewer = a],
                         [step |-> "decided", outcome |-> outcome])
    <2> DEFINE c == [CaseOf(a) EXCEPT !.status = outcome, !.reviewer = a]
               next == [step |-> "decided", outcome |-> outcome]
    <2>1. CaseOf(a) \in Case
        BY <1>2 DEF CaseOf, At, ReviewInv, CallInv, ReviewTypeOK, Reviewer, Numbers
    <2>2. c \in Case /\ c.status = outcome /\ ~Undecided(c) /\ Undecided(CaseOf(a))
        BY <1>2, <2>1 DEF Case, Undecided, Decided, MayRule
    <2>3. next \in Call /\ next.step = "decided" /\ next.outcome = outcome /\ a \in Reviewer
        BY DEF Call, Reviewer
    <2> HIDE DEF c, next
    <2>4. /\ call[a].flag \in Numbers
          /\ case' \in Seq(Case) /\ Numbers' = Numbers /\ case'[call[a].flag] = c
          /\ \A i \in Numbers : i # call[a].flag => case'[i] = case[i]
          /\ Go(a, next) /\ UNCHANGED report
        BY <1>2, <2>2, <2>3, UpdateFacts DEF At, c, next
    <2>5. /\ call' = [call EXCEPT ![a] = next] /\ call'[a] = next
          /\ \A b \in Reviewer : b # a => call'[b] = call[b]
        BY <2>3, <2>4, CallType
    <2>6. Reported' = Reported /\ \A r : Settled(r)' <=> Settled(r)
        BY <2>4 DEF Reported, Settled
    <2>7. ASSUME NEW o, Ruled(o) PROVE Ruled(o)'
        BY <2>2, <2>4, <2>7, RuledStays DEF CaseOf
    <2>8. ReviewTypeOK'
        BY <2>3, <2>4, <2>5 DEF ReviewInv, ReviewTypeOK
    <2>9. ASSUME NEW b \in Reviewer PROVE CallInv(b)'
        <3>1. CASE b = a
            <4>1. Ruled(OutcomeFor(outcome))'
                BY <2>2, <2>4 DEF Ruled, Undecided
            <4> QED BY <3>1, <4>1, <2>3, <2>5 DEF CallInv, At
        <3>2. CASE b # a
            <4>1. call'[b] = call[b] /\ CallInv(b)
                BY <2>5, <3>2 DEF ReviewInv
            <4> QED BY <4>1, <2>4, <2>6, <2>7 DEF CallInv, At
        <3> QED BY <3>1, <3>2
    <2>10. RulingUnderWay'
        BY <2>3, <2>5 DEF RulingUnderWay, At
    <2>11. ASSUME NEW r \in Reported' PROVE ReportInv(r)'
        BY <2>4, <2>6, <2>7, <2>10 DEF ReportInv, ReviewInv
    <2>12. case' # <<>>
        BY <2>4 DEF Numbers
    <2> QED BY <2>8, <2>9, <2>11, <2>12 DEF ReviewInv
<1> QED BY <1>1, <1>2 DEF Decide

\* A claim times out
LEMMA ClaimTimesOutInv ==
    ASSUME ReviewInv, NEW i \in Numbers, ClaimTimesOut(i)
    PROVE  ReviewInv'
<1> DEFINE c == [case[i] EXCEPT !.stale = TRUE]
<1>1. /\ case' = [case EXCEPT ![i] = c] /\ case[i].status = "reviewing"
      /\ UNCHANGED <<report, call>>
    BY DEF ClaimTimesOut
<1>2. /\ case' \in Seq(Case) /\ Numbers' = Numbers /\ case'[i].status = "reviewing"
      /\ \A k \in Numbers : k # i => case'[k] = case[k]
    <2>1. case \in Seq(Case) /\ case[i] \in Case
        BY DEF ReviewInv, ReviewTypeOK, Numbers
    <2>2. c \in Case /\ c.status = "reviewing"
        BY <1>1, <2>1 DEF Case
    <2> HIDE DEF c
    <2> QED BY <1>1, <2>1, <2>2 DEF Numbers
<1>3. Undecided(case[i]) /\ Undecided(case'[i])
    BY <1>1, <1>2 DEF Undecided, Decided
<1>4. RulingsKept
    BY <1>2, <1>3, SameRulings DEF ReviewInv
<1>5. Reported' = Reported /\ (RulingUnderWay' <=> RulingUnderWay) /\ \A r : Settled(r)' <=> Settled(r)
    BY <1>1 DEF Reported, Settled, RulingUnderWay, At
<1>6. ASSUME NEW o, Ruled(o) PROVE Ruled(o)'
    BY <1>4, <1>6, RuledStays DEF RulingsKept
<1>7. ReviewTypeOK'
    BY <1>1, <1>2 DEF ReviewInv, ReviewTypeOK
<1>8. ASSUME NEW b \in Reviewer PROVE CallInv(b)'
    BY <1>1, <1>2, <1>5, <1>6 DEF ReviewInv, CallInv, At
<1>9. ASSUME NEW r \in Reported' PROVE ReportInv(r)'
    BY <1>1, <1>4, <1>5, <1>6 DEF ReportInv, ReviewInv, RulingsKept
<1>10. case' # <<>>
    BY <1>2 DEF Numbers
<1> QED BY <1>7, <1>8, <1>9, <1>10 DEF ReviewInv

-----------------------------------------------------------------------------
(* Steps that move reports                                                 *)

\* setReportOutcome leaves the outcomes that it does not start from, and final ones stay final
LEMMA MoveFacts ==
    ASSUME ReviewTypeOK, NEW from, NEW outcome \in AnyOutcome, MoveReports(from, outcome)
    PROVE  /\ report' \in [Reporter -> Report \cup {None}] /\ Reported' = Reported
           /\ \A r \in Reported :
                 /\ report'[r].rulings = report[r].rulings
                 /\ report[r].outcome \in from => report'[r].outcome = outcome
                 /\ report[r].outcome \notin from => report'[r] = report[r]
<1>1. ASSUME NEW r \in Reporter, r \in Reported
      PROVE  /\ report[r] \in Report /\ [report[r] EXCEPT !.outcome = outcome] \in Report
             /\ [report[r] EXCEPT !.outcome = outcome].outcome = outcome
             /\ [report[r] EXCEPT !.outcome = outcome].rulings = report[r].rulings
    BY <1>1 DEF ReviewTypeOK, Reported, Report
<1>2. \A r \in Reporter \ Reported : report[r] = None
    BY DEF Reported
<1>3. None \notin Report
    BY ReviewAssumption DEF Report
<1>4. \A r \in Reporter : report'[r] \in Report \cup {None} /\ (report'[r] # None <=> report[r] # None)
    BY <1>1, <1>2, <1>3 DEF MoveReports, Reported
<1>5. Reported' = Reported
    BY <1>4 DEF Reported
<1>6. Reported \subseteq Reporter
    BY DEF Reported
<1> QED BY <1>1, <1>4, <1>5, <1>6 DEF MoveReports

\* A request that moves reports and is done, or goes on to the demo
LEMMA MovesInv ==
    ASSUME ReviewInv, NEW a \in Reviewer, NEW from, NEW outcome \in AnyOutcome, MoveReports(from, outcome),
           UNCHANGED case, call[a].step \notin {"filed", "count", "insert"},
           NEW c \in Call, Go(a, c), c.step \in {"idle", "unkeep?"},
           \/ from = AnyOutcome /\ Ruled(outcome)
           \/ /\ ~At(a, "decided") /\ from \cap {"actioned", "dismissed"} = {}
              /\ outcome \in {"actioned", "dismissed"} => Ruled(outcome)
    PROVE  ReviewInv'
<1>1. /\ report' \in [Reporter -> Report \cup {None}] /\ Reported' = Reported
      /\ \A r \in Reported :
            /\ report'[r].rulings = report[r].rulings
            /\ report[r].outcome \in from => report'[r].outcome = outcome
            /\ report[r].outcome \notin from => report'[r] = report[r]
    BY MoveFacts DEF ReviewInv
<1>2. /\ call' = [call EXCEPT ![a] = c] /\ call'[a] = c
      /\ \A b \in Reviewer : b # a => call'[b] = call[b]
    BY CallType
<1>3. Numbers' = Numbers /\ Rulings' = Rulings /\ \A o : Ruled(o)' <=> Ruled(o)
    BY DEF Numbers, Rulings, Ruled, Undecided
<1>4. ReviewTypeOK'
    BY <1>1, <1>2 DEF ReviewInv, ReviewTypeOK
<1>5. ASSUME NEW b \in Reviewer PROVE CallInv(b)'
    <2>1. CASE b = a
        BY <1>2, <2>1 DEF CallInv, At
    <2>2. CASE b # a
        <3>1. call'[b] = call[b] /\ CallInv(b)
            BY <1>2, <2>2 DEF ReviewInv
        <3> QED BY <3>1, <1>1, <1>3 DEF CallInv, At
    <2> QED BY <2>1, <2>2
<1>6. ASSUME NEW r \in Reported' PROVE ReportInv(r)'
    <2>1. r \in Reported /\ r \in Reporter /\ ReportInv(r) /\ report[r].outcome \in AnyOutcome
        BY <1>1, <1>6 DEF ReviewInv, ReviewTypeOK, Reported, Report
    <2>2. CASE from = AnyOutcome /\ Ruled(outcome)
        <3>1. outcome \in {"actioned", "dismissed"}
            BY <2>2, RuledIsFinal DEF ReviewInv
        <3>2. report'[r].outcome = outcome
            BY <1>1, <2>1, <2>2
        <3> QED BY <1>1, <1>3, <1>6, <2>2, <3>1, <3>2 DEF ReportInv, Settled
    <2>3. CASE /\ ~At(a, "decided") /\ from \cap {"actioned", "dismissed"} = {}
               /\ outcome \in {"actioned", "dismissed"} => Ruled(outcome)
        <3>1. RulingUnderWay => RulingUnderWay'
            BY <1>2, <2>3 DEF RulingUnderWay, At
        <3>2. Settled(r) => Settled(r)'
            BY <1>1, <1>6, <2>3 DEF Settled
        <3>3. ASSUME Settled(r)' PROVE Ruled(report'[r].outcome)
            <4>1. CASE report[r].outcome \in from
                BY <1>1, <2>1, <2>3, <3>3, <4>1 DEF Settled
            <4>2. CASE report[r].outcome \notin from
                BY <1>1, <2>1, <3>3, <4>2 DEF Settled, ReportInv
            <4> QED BY <4>1, <4>2
        <3> QED BY <1>1, <1>3, <2>1, <3>1, <3>2, <3>3 DEF ReportInv
    <2> QED BY <2>2, <2>3
<1>7. (CallsForCase => case # <<>> \/ CaseComes)'
    <2>1. CallsForCase' <=> CallsForCase
        BY <1>1 DEF CallsForCase
    <2>2. CaseComes => CaseComes'
        BY <1>2 DEF CaseComes, Reviewer
    <2> QED BY <2>1, <2>2 DEF ReviewInv
<1> QED BY <1>4, <1>5, <1>6, <1>7 DEF ReviewInv

\* A late report follows its case, a claim moves the reports on and its release moves them back
LEMMA MovesOnInv ==
    ASSUME ReviewInv,
           \/ \E r \in Reporter : FollowCase(r)
           \/ \E a \in Admin : MarkReviewed(a) \/ MarkReceived(a)
    PROVE  ReviewInv'
<1>1. Idle \in Call /\ Idle.step = "idle"
    BY DEF Idle, Call
<1>2. ASSUME NEW r \in Reporter, FollowCase(r) PROVE ReviewInv'
    <2>1. /\ r \in Reviewer /\ At(r, "follow") /\ MoveReports({"received"}, call[r].outcome)
          /\ Go(r, Idle) /\ UNCHANGED case
        BY <1>2 DEF FollowCase, Reviewer
    <2>2. call[r].outcome \in AnyOutcome
        BY <2>1 DEF At, ReviewInv, ReviewTypeOK, Call
    <2>3. call[r].outcome \in {"actioned", "dismissed"} => Ruled(call[r].outcome)
        BY <2>1 DEF ReviewInv, CallInv
    <2> QED BY <1>1, <2>1, <2>2, <2>3, MovesInv DEF At
<1>3. ASSUME NEW a \in Admin, MarkReviewed(a) PROVE ReviewInv'
    <2>1. /\ a \in Reviewer /\ At(a, "claimed") /\ MoveReports({"received"}, "reviewed")
          /\ Go(a, Idle) /\ UNCHANGED case /\ "reviewed" \in AnyOutcome
        BY <1>3 DEF MarkReviewed, Reviewer, AnyOutcome
    <2> QED BY <1>1, <2>1, MovesInv DEF At
<1>4. ASSUME NEW a \in Admin, MarkReceived(a) PROVE ReviewInv'
    <2>1. /\ a \in Reviewer /\ At(a, "unclaimed") /\ MoveReports({"reviewed"}, "received")
          /\ Go(a, Idle) /\ UNCHANGED case /\ "received" \in AnyOutcome
        BY <1>4 DEF MarkReceived, Reviewer, AnyOutcome
    <2> QED BY <1>1, <2>1, MovesInv DEF At
<1> QED BY <1>2, <1>3, <1>4

\* Every report follows the ruling
LEMMA RuleReportsInv ==
    ASSUME ReviewInv, NEW a \in Admin, RuleReports(a)
    PROVE  ReviewInv'
<1>1. /\ a \in Reviewer /\ At(a, "decided") /\ UNCHANGED case
      /\ MoveReports(AnyOutcome, OutcomeFor(call[a].outcome))
    BY DEF RuleReports, Reviewer
<1>2. Ruled(OutcomeFor(call[a].outcome)) /\ OutcomeFor(call[a].outcome) \in AnyOutcome
    BY <1>1, RuledIsFinal DEF ReviewInv, CallInv, AnyOutcome
<1>3. PICK c \in Call : Go(a, c) /\ c.step \in {"idle", "unkeep?"}
    <2>1. Idle \in Call /\ Idle.step = "idle" /\ [step |-> "unkeep?"] \in Call
        BY DEF Idle, Call
    <2> QED BY <2>1 DEF RuleReports
<1> QED BY <1>1, <1>2, <1>3, MovesInv DEF At

\* The report route stores the report: nothing ruled so far can be about it
LEMMA FileReportInv ==
    ASSUME ReviewInv, NEW r \in Reporter, FileReport(r)
    PROVE  ReviewInv'
<1> DEFINE new == [outcome |-> "received", rulings |-> Rulings]
           c == [step |-> "filed"]
<1>1. /\ At(r, "idle") /\ report[r] = None /\ Go(r, c) /\ UNCHANGED case /\ r \in Reviewer
      /\ report' = [report EXCEPT ![r] = new]
    BY DEF FileReport, Reviewer
<1>2. Rulings \in Nat
    BY RulingsNat DEF ReviewInv
<1>3. new \in Report /\ new.outcome = "received" /\ new.rulings = Rulings /\ c \in Call /\ c.step = "filed"
    BY <1>2 DEF Report, AnyOutcome, Call
<1> HIDE DEF new, c
<1>4. new # None
    BY <1>3, ReviewAssumption DEF Report
<1>5. /\ call' = [call EXCEPT ![r] = c] /\ call'[r] = c
      /\ \A b \in Reviewer : b # r => call'[b] = call[b]
    BY <1>1, <1>3, CallType
<1>6. Numbers' = Numbers /\ Rulings' = Rulings /\ \A o : Ruled(o)' <=> Ruled(o)
    BY <1>1 DEF Numbers, Rulings, Ruled, Undecided
<1>7. /\ report' \in [Reporter -> Report \cup {None}] /\ report'[r] = new
      /\ \A q \in Reporter : q # r => report'[q] = report[q]
    BY <1>1, <1>3 DEF ReviewInv, ReviewTypeOK
<1>8. ReviewTypeOK'
    BY <1>1, <1>3, <1>5, <1>7 DEF ReviewInv, ReviewTypeOK
<1>9. Reported' = Reported \cup {r}
    BY <1>4, <1>7 DEF Reported
<1>10. ASSUME NEW b \in Reviewer PROVE CallInv(b)'
    <2>1. CASE b = r
        BY <1>3, <1>5, <1>9, <2>1 DEF CallInv, At
    <2>2. CASE b # r
        <3>1. call'[b] = call[b] /\ CallInv(b)
            BY <1>5, <2>2 DEF ReviewInv
        <3> QED BY <3>1, <1>6, <1>9 DEF CallInv, At
    <2> QED BY <2>1, <2>2
<1>11. ASSUME NEW q \in Reported' PROVE ReportInv(q)'
    <2>1. CASE q = r
        <3>1. ~(report'[r].rulings < Rulings')
            BY <1>2, <1>3, <1>6, <1>7
        <3>2. ~Settled(r)'
            BY <1>3, <1>7 DEF Settled
        <3> QED BY <2>1, <3>1, <3>2 DEF ReportInv
    <2>2. CASE q # r
        <3>1. q \in Reported /\ q \in Reporter /\ report'[q] = report[q] /\ ReportInv(q)
            BY <1>7, <1>9, <1>11, <2>2 DEF ReviewInv, Reported
        <3>2. RulingUnderWay => RulingUnderWay'
            BY <1>1, <1>5 DEF RulingUnderWay, At
        <3>3. Settled(q)' <=> Settled(q)
            BY <1>9, <3>1 DEF Settled
        <3>4. Ruled(report'[q].outcome) <=> Ruled(report[q].outcome)
            BY <3>1
        <3> QED BY <1>6, <3>1, <3>2, <3>3, <3>4 DEF ReportInv
    <2> QED BY <2>1, <2>2
<1>12. CaseComes'
    BY <1>3, <1>5 DEF CaseComes
<1> QED BY <1>8, <1>10, <1>11, <1>12 DEF ReviewInv

\* The steps about the demo move no report and no case
LEMMA DemoInv ==
    ASSUME ReviewInv,
           \/ \E r \in Reporter : KeepDemo(r)
           \/ \E a \in Admin : CountOthers(a) \/ ReleaseDemo(a)
    PROVE  ReviewInv'
<1>1. ASSUME NEW r \in Reporter, KeepDemo(r) PROVE ReviewInv'
    BY <1>1, RequestEndsInv DEF KeepDemo, At, Reviewer
<1>2. ASSUME NEW a \in Admin, ReleaseDemo(a) PROVE ReviewInv'
    BY <1>2, RequestEndsInv DEF ReleaseDemo, At, Reviewer
<1>3. ASSUME NEW a \in Admin, CountOthers(a) PROVE ReviewInv'
    <2>1. a \in Reviewer /\ At(a, "unkeep?") /\ UNCHANGED <<report, case>>
        BY <1>3 DEF CountOthers, tables, Reviewer
    <2>2. CASE Go(a, Idle)
        BY <2>1, <2>2, RequestEndsInv DEF At
    <2>3. CASE Go(a, [step |-> "unkeep"])
        <3> DEFINE c == [step |-> "unkeep"]
        <3>1. c \in Call /\ c.step = "unkeep"
            BY DEF Call
        <3> HIDE DEF c
        <3>2. CallInv(a)'
            BY <2>1, <2>3, <3>1, CallType DEF CallInv, At, c
        <3> QED BY <2>1, <2>3, <3>1, <3>2, QuietStep DEF At, c
    <2> QED BY <1>3, <2>2, <2>3 DEF CountOthers
<1> QED BY <1>1, <1>2, <1>3

\* No report and no case to begin with
LEMMA ReviewInitInv == ReviewInit => ReviewInv
<1> SUFFICES ASSUME ReviewInit PROVE ReviewInv
    OBVIOUS
<1>1. Reported = {} /\ Idle \in Call /\ Idle.step = "idle" /\ Numbers = {}
    BY DEF ReviewInit, Reported, Idle, Call, Numbers
<1>2. ReviewTypeOK /\ \A a \in Reviewer : CallInv(a)
    BY <1>1 DEF ReviewInit, ReviewTypeOK, Reviewer, CallInv, At
<1>3. Cardinality(Reported) = 0
    BY <1>1, FS_EmptySet
<1> QED BY <1>1, <1>2, <1>3 DEF ReviewInv, CallsForCase

\* Every step of a report or of a review keeps the invariant
LEMMA ReviewNextInv == ReviewInv /\ [ReviewNext]_reviewVars => ReviewInv'
<1> SUFFICES ASSUME ReviewInv, [ReviewNext]_reviewVars PROVE ReviewInv'
    OBVIOUS
<1>1. CASE \E r \in Reporter :
              FileReport(r) \/ JoinCase(r) \/ FollowCase(r) \/ CountReports(r) \/ OpenCase(r) \/ KeepDemo(r)
    BY <1>1, FileReportInv, JoinCaseInv, MovesOnInv, CountReportsInv, OpenCaseInv, DemoInv
<1>2. CASE \E a \in Admin, i \in Numbers : ReadToClaim(a, i) \/ ReadToUnclaim(a, i) \/ ReadToDecide(a, i)
    BY <1>2, ReadInv
<1>3. CASE \E a \in Admin : Claim(a) \/ MarkReviewed(a) \/ Unclaim(a) \/ MarkReceived(a)
    BY <1>3, ClaimInv, UnclaimInv, MovesOnInv
<1>4. CASE \E a \in Admin, outcome \in Decided : Decide(a, outcome)
    BY <1>4, DecideInv
<1>5. CASE \E a \in Admin : RuleReports(a) \/ CountOthers(a) \/ ReleaseDemo(a)
    BY <1>5, RuleReportsInv, DemoInv
<1>6. CASE \E i \in Numbers : ClaimTimesOut(i)
    BY <1>6, ClaimTimesOutInv
<1>7. CASE UNCHANGED reviewVars
    BY <1>7 DEF reviewVars, ReviewInv, ReviewTypeOK, CallInv, At, Reported, Numbers, Ruled, Undecided, ReportInv,
                Rulings, Settled, RulingUnderWay, CallsForCase, CaseComes
<1> QED BY <1>1, <1>2, <1>3, <1>4, <1>5, <1>6, <1>7 DEF ReviewNext

\* Whatever requests interleave, what each has read still holds as far as it matters
THEOREM ReviewInvariance == ReviewSpec => []ReviewInv
BY ReviewInitInv, ReviewNextInv, PTL DEF ReviewSpec

\* No report is forgotten: a report that calls for a case gets one, and a ruling reaches every report before it
THEOREM ReportsCorrect == ReviewSpec => []NoReportForgotten
<1>1. ReviewInv => NoReportForgotten
    <2> SUFFICES ASSUME ReviewInv, \A a \in Reviewer : At(a, "idle")
                 PROVE  /\ CallsForCase => case # <<>>
                        /\ \A r \in Reported : report[r].rulings < Rulings =>
                              \E i \in Numbers : report[r].outcome = OutcomeFor(case[i].status)
        BY DEF NoReportForgotten, CallsForCase, Reviewer
    <2>1. CallsForCase => case # <<>>
        BY DEF ReviewInv, CaseComes, At, Reviewer
    <2>2. ASSUME NEW r \in Reported, report[r].rulings < Rulings
          PROVE  \E i \in Numbers : report[r].outcome = OutcomeFor(case[i].status)
        <3>1. ~RulingUnderWay
            BY DEF RulingUnderWay, At
        <3>2. Ruled(report[r].outcome)
            BY <2>2, <3>1 DEF ReviewInv, ReportInv
        <3> QED BY <3>2 DEF Ruled
    <2> QED BY <2>1, <2>2
<1> QED BY <1>1, ReviewInvariance, PTL

\* A report that a ruling has settled stays settled, whichever request moves reports
LEMMA SettledStays ==
    ASSUME ReviewInv, ReviewNext, NEW r \in Reporter, Settled(r)
    PROVE  Settled(r)'
<1>1. CASE report' = report
    BY <1>1 DEF Settled, Reported
<1>2. CASE \E q \in Reporter : FileReport(q)
    BY <1>2 DEF FileReport, Settled, Reported, ReviewInv, ReviewTypeOK
<1>3. CASE \E outcome \in AnyOutcome : \E from :
              MoveReports(from, outcome) /\ (outcome \in {"actioned", "dismissed"} \/ from \cap {"actioned", "dismissed"} = {})
    BY <1>3, MoveFacts DEF Settled, ReviewInv
<1>4. CASE \E q \in Reporter : FollowCase(q)
    <2>1. PICK q \in Reporter : FollowCase(q)
        BY <1>4
    <2>2. call[q].outcome \in AnyOutcome
        BY <2>1 DEF FollowCase, At, ReviewInv, ReviewTypeOK, Call, Reviewer
    <2> QED BY <1>3, <2>1, <2>2 DEF FollowCase
<1>5. CASE \E a \in Admin : MarkReviewed(a) \/ MarkReceived(a)
    BY <1>3, <1>5 DEF MarkReviewed, MarkReceived, AnyOutcome
<1>6. CASE \E a \in Admin : RuleReports(a)
    <2>1. PICK a \in Admin : RuleReports(a)
        BY <1>6
    <2>2. OutcomeFor(call[a].outcome) \in {"actioned", "dismissed"}
        BY <2>1, RuledIsFinal DEF RuleReports, ReviewInv, CallInv, Reviewer
    <2> QED BY <1>3, <2>1, <2>2 DEF RuleReports, AnyOutcome
<1> QED
    BY <1>1, <1>2, <1>4, <1>5, <1>6
    DEF ReviewNext, JoinCase, CountReports, OpenCase, KeepDemo, ReadToClaim, ReadToUnclaim, ReadToDecide, Read,
        Claim, Unclaim, Decide, Refuse, UpdateCase, CountOthers, ReleaseDemo, ClaimTimesOut, tables

\* A ruling is made once, by who may make it, and stands with what it settled
THEOREM RulingsCorrect == ReviewSpec => RulingStands
<1>1. ReviewInv /\ [ReviewNext]_reviewVars =>
        [/\ \A i \in Numbers : case'[i] # case[i] =>
              /\ Undecided(case[i])
              /\ ~Undecided(case'[i]) => Mine(case[i], case'[i].reviewer) /\ case'[i].reviewer # Suspect
         /\ \A r \in Reporter : Settled(r) => Settled(r)']_reviewVars
    <2> SUFFICES ASSUME ReviewInv, ReviewNext
                 PROVE  \A i \in Numbers : case'[i] # case[i] =>
                            /\ Undecided(case[i])
                            /\ ~Undecided(case'[i]) => Mine(case[i], case'[i].reviewer) /\ case'[i].reviewer # Suspect
        BY SettledStays
    <2>1. CASE UNCHANGED case
        BY <2>1
    <2>2. CASE \E r \in Reporter : OpenCase(r)
        <3>1. PICK c : case' = case \/ case' = Append(case, c)
            BY <2>2 DEF OpenCase
        <3> QED BY <3>1 DEF Numbers, ReviewInv, ReviewTypeOK
    <2>3. ASSUME NEW a \in Admin, Claim(a) \/ Unclaim(a) \/ \E outcome \in Decided : Decide(a, outcome), case' # case
          PROVE  /\ call[a].flag \in Numbers /\ Undecided(CaseOf(a))
                 /\ \A i \in Numbers : i # call[a].flag => case'[i] = case[i]
                 /\ LET c == case'[call[a].flag]
                    IN  ~Undecided(c) => Mine(CaseOf(a), c.reviewer) /\ c.reviewer # Suspect
        <3>1. call[a].step \in {"claim", "unclaim", "decide"}
            BY <2>3 DEF Claim, Unclaim, Decide, At, Refuse, tables
        <3>2. call[a].flag \in Numbers /\ CaseOf(a) \in Case /\ case \in Seq(Case)
            BY <3>1 DEF ReviewInv, CallInv, Reviewer, CaseOf, ReviewTypeOK, Numbers
        <3>3. PICK c : case' = [case EXCEPT ![call[a].flag] = c] /\ Undecided(CaseOf(a))
                       /\ (~Undecided(c) => Mine(CaseOf(a), c.reviewer) /\ c.reviewer # Suspect)
            <4>1. CASE Claim(a)
                <5> DEFINE c == [CaseOf(a) EXCEPT !.status = "reviewing", !.reviewer = a, !.stale = FALSE]
                <5>1. CaseOf(a).status = "open" /\ case' = [case EXCEPT ![call[a].flag] = c]
                    BY <2>3, <4>1 DEF Claim, UpdateCase, Refuse, tables
                <5>2. Undecided(CaseOf(a)) /\ Undecided(c)
                    BY <3>2, <5>1 DEF Undecided, Decided, Case
                <5> QED BY <5>1, <5>2
            <4>2. CASE Unclaim(a)
                <5> DEFINE c == [CaseOf(a) EXCEPT !.status = "open", !.reviewer = None, !.stale = FALSE]
                <5>1. CaseOf(a).status = "reviewing" /\ case' = [case EXCEPT ![call[a].flag] = c]
                    BY <2>3, <4>2 DEF Unclaim, UpdateCase, Refuse, tables, MayReopen
                <5>2. Undecided(CaseOf(a)) /\ Undecided(c)
                    BY <3>2, <5>1 DEF Undecided, Decided, Case
                <5> QED BY <5>1, <5>2
            <4>3. CASE \E outcome \in Decided : Decide(a, outcome)
                <5>1. PICK outcome \in Decided : Decide(a, outcome)
                    BY <4>3
                <5> DEFINE c == [CaseOf(a) EXCEPT !.status = outcome, !.reviewer = a]
                <5>2. /\ MayRule(a) /\ At(a, "decide")
                      /\ case' = [case EXCEPT ![call[a].flag] = c]
                    BY <2>3, <5>1 DEF Decide, UpdateCase, Refuse, tables
                <5>3. c.reviewer = a /\ a # Suspect
                    BY <3>2, <5>2 DEF Case, ReviewInv, CallInv, Reviewer
                <5> QED BY <5>2, <5>3 DEF MayRule
            <4> QED BY <2>3, <4>1, <4>2, <4>3
        <3> QED BY <3>2, <3>3 DEF Numbers
    <2>4. CASE \E i \in Numbers : ClaimTimesOut(i)
        BY <2>4 DEF ClaimTimesOut, Undecided, Decided, Numbers, ReviewInv, ReviewTypeOK, Case
    <2> QED
        BY <2>1, <2>2, <2>3, <2>4
        DEF ReviewNext, FileReport, JoinCase, FollowCase, CountReports, KeepDemo, ReadToClaim, ReadToUnclaim,
            ReadToDecide, Read, tables, MarkReviewed, MarkReceived, RuleReports, CountOthers, ReleaseDemo, CaseOf
<1> QED BY <1>1, ReviewInvariance, PTL DEF ReviewSpec, RulingStands

-----------------------------------------------------------------------------
(***************************************************************************)
(* The websocket of a tab                                                  *)
(***************************************************************************)

Message == [type : {"subscribe", "unsubscribe"}, topic : Topic]
SocketState ==
    [near : {"connecting", "open", "closing", "closed"}, far : {"none", "open", "closed"}, sent : Seq(Message),
     refused : BOOLEAN]

RealtimeTypeOK ==
    /\ socket \in Seq(SocketState) /\ Len(socket) <= MaxSockets
    /\ ws \in Opened \cup {NoSocket}
    /\ subscriptions \subseteq Topic
    /\ follows \in [Socket -> SUBSET Topic] /\ followers \in [Topic -> SUBSET Socket]

\* Both maps of the hub tell the same, of sockets that are open at its end
HubAgrees == \A s \in Socket, x \in Topic : s \in followers[x] <=> x \in follows[s]
OnlyOpen == \A s \in Socket : follows[s] # {} => s \in Opened /\ socket[s].far = "open"
NotYetOpen == \A s \in Opened : socket[s].near = "connecting" => socket[s].far = "none"

\* What is under way of a topic: nothing, or message i is the last one
Silent(sent, x) == \A i \in 1..Len(sent) : sent[i].topic # x
IsLast(sent, x, i) == sent[i].topic = x /\ \A j \in 1..Len(sent) : j > i => sent[j].topic # x

Connected == ws # NoSocket /\ socket[ws].near = "open" /\ socket[ws].far = "open"
Followed(x) ==
    /\ ws \in followers[x] => x \in subscriptions
    /\ (x \in subscriptions /\ ~socket[ws].refused) => ws \in followers[x]

\* The last word on a topic is what the tab wants, said or under way
LastWord(x) ==
    LET sent == socket[ws].sent
    IN  /\ \A i \in 1..Len(sent) : IsLast(sent, x, i) => (sent[i].type = "subscribe" <=> x \in subscriptions)
        /\ Silent(sent, x) => Followed(x)

RealtimeInv ==
    /\ RealtimeTypeOK
    /\ HubAgrees /\ OnlyOpen /\ NotYetOpen
    /\ Connected => \A x \in Topic : LastWord(x)

-----------------------------------------------------------------------------
\* A socket that is updated, among the others
LEMMA UpdatedSocket ==
    ASSUME RealtimeTypeOK, NEW s \in Opened, NEW c \in SocketState, socket' = [socket EXCEPT ![s] = c]
    PROVE  /\ socket' \in Seq(SocketState) /\ Len(socket') = Len(socket) /\ Opened' = Opened
           /\ socket'[s] = c /\ \A t \in Opened : t # s => socket'[t] = socket[t]
BY DEF RealtimeTypeOK, Opened

\* The sockets that have been opened are among those the hub knows
LEMMA OpenedFacts ==
    ASSUME RealtimeTypeOK
    PROVE  /\ Opened = 1..Len(socket) /\ Opened \subseteq Socket /\ NoSocket \notin Opened
           /\ \A s \in Opened : socket[s] \in SocketState
BY RealtimeAssumption DEF RealtimeTypeOK, Opened, Socket

\* onclose and close of a socket: it is not connected any more, or not the tab's
LEMMA LetsGo ==
    ASSUME RealtimeInv, NEW s \in Opened, NEW near \in {"closing", "closed"},
           socket' = [socket EXCEPT ![s].near = near], ws' = IF ws = s THEN NoSocket ELSE ws,
           UNCHANGED <<subscriptions, hub>>
    PROVE  RealtimeInv'
<1> DEFINE c == [socket[s] EXCEPT !.near = near]
<1>1. socket[s] \in SocketState /\ Opened = 1..Len(socket) /\ NoSocket \notin Opened
    BY OpenedFacts DEF RealtimeInv
<1>2. c \in SocketState /\ c.near = near /\ c.far = socket[s].far /\ socket' = [socket EXCEPT ![s] = c]
    BY <1>1 DEF SocketState
<1> HIDE DEF c
<1>3. /\ socket' \in Seq(SocketState) /\ Len(socket') = Len(socket) /\ Opened' = Opened
      /\ socket'[s] = c /\ \A t \in Opened : t # s => socket'[t] = socket[t]
    BY <1>2, UpdatedSocket DEF RealtimeInv
<1>4. RealtimeTypeOK'
    BY <1>3 DEF RealtimeInv, RealtimeTypeOK, hub
<1>5. HubAgrees' /\ OnlyOpen' /\ NotYetOpen'
    BY <1>2, <1>3 DEF RealtimeInv, HubAgrees, OnlyOpen, NotYetOpen, hub
<1>6. ASSUME Connected', NEW x \in Topic PROVE LastWord(x)'
    <2>1. ws' = ws /\ ws \in Opened /\ ws # s
        BY <1>1, <1>3, <1>6 DEF Connected, RealtimeInv, RealtimeTypeOK
    <2>2. socket'[ws] = socket[ws] /\ Connected
        BY <1>3, <1>6, <2>1 DEF Connected
    <2> QED BY <2>1, <2>2 DEF RealtimeInv, LastWord, Followed, hub
<1> QED BY <1>4, <1>5, <1>6 DEF RealtimeInv

\* connect, and setAllowed when a page waits for it: a new socket is not connected yet
LEMMA DoConnectInv ==
    ASSUME RealtimeInv, NEW on, DoConnect(on), UNCHANGED <<subscriptions, hub>>
    PROVE  RealtimeInv'
<1>1. CASE MayConnect(on)
    <2>1. Len(socket) < MaxSockets /\ socket' = Append(socket, NewSocket) /\ ws' = Len(socket')
        BY <1>1 DEF DoConnect
    <2>2. NewSocket \in SocketState /\ NewSocket.near = "connecting" /\ NewSocket.far = "none"
        BY DEF NewSocket, SocketState
    <2>3. socket \in Seq(SocketState) /\ Len(socket) \in Nat /\ Opened = 1..Len(socket)
        BY OpenedFacts DEF RealtimeInv, RealtimeTypeOK
    <2>4. /\ socket' \in Seq(SocketState) /\ Len(socket') = Len(socket) + 1
          /\ socket'[Len(socket) + 1] = NewSocket /\ \A s \in Opened : socket'[s] = socket[s]
        BY <2>1, <2>2, <2>3, AppendProperties
    <2>5. Opened' = 1..(Len(socket) + 1) /\ Opened \subseteq Opened' /\ ws' = Len(socket) + 1
        BY <2>1, <2>3, <2>4 DEF Opened
    <2>6. RealtimeTypeOK'
        BY <2>1, <2>3, <2>4, <2>5, RealtimeAssumption DEF RealtimeInv, RealtimeTypeOK, hub
    <2>7. HubAgrees' /\ OnlyOpen' /\ NotYetOpen'
        BY <2>2, <2>3, <2>4, <2>5 DEF RealtimeInv, HubAgrees, OnlyOpen, NotYetOpen, hub
    <2>8. ~Connected'
        BY <2>2, <2>4, <2>5 DEF Connected
    <2> QED BY <2>6, <2>7, <2>8 DEF RealtimeInv
<1>2. CASE ~MayConnect(on)
    BY <1>2 DEF DoConnect, RealtimeInv, RealtimeTypeOK, HubAgrees, OnlyOpen, NotYetOpen, Connected, LastWord,
                Followed, hub, Opened
<1> QED BY <1>1, <1>2

\* What onopen replays: a subscription for each topic, and nothing else
LEMMA ReplayFacts ==
    ASSUME RealtimeTypeOK, NEW replay \in SetToSeqs({Subscribe(x) : x \in subscriptions})
    PROVE  /\ replay \in Seq(Message)
           /\ \A i \in 1..Len(replay) : replay[i].type = "subscribe" /\ replay[i].topic \in subscriptions
           /\ \A x \in subscriptions : \E i \in 1..Len(replay) : replay[i].topic = x
<1> DEFINE M == {Subscribe(x) : x \in subscriptions}
           n == Cardinality(M)
<1>1. \A x \in subscriptions : Subscribe(x) \in Message /\ Subscribe(x).type = "subscribe" /\ Subscribe(x).topic = x
    BY DEF RealtimeTypeOK, Subscribe, Message
<1>2. IsFiniteSet(M) /\ n \in Nat
    <2>1. IsFiniteSet(subscriptions)
        BY RealtimeAssumption, FS_Subset DEF RealtimeTypeOK
    <2> DEFINE f == [x \in subscriptions |-> Subscribe(x)]
    <2>2. f \in Surjection(subscriptions, M)
        BY DEF Surjection
    <2> HIDE DEF f
    <2>3. IsFiniteSet(M)
        BY <2>1, <2>2, FS_Surjection
    <2> QED BY <2>3, FS_CardinalityType
<1>3. replay \in [1..n -> M] /\ \A i, j \in 1..n : i # j => replay[i] # replay[j]
    BY DEF SetToSeqs
<1> HIDE DEF M, n
<1>4. IsFiniteSet(1..n) /\ Cardinality(1..n) = n
    BY <1>2, FS_Interval
<1>5. replay \in Injection(1..n, M)
    BY <1>3 DEF Injection, IsInjective
<1>6. replay \in Surjection(1..n, M)
    BY <1>2, <1>4, <1>5, FS_Injection DEF n
<1>7. Len(replay) = n /\ DOMAIN replay = 1..n
    BY <1>2, <1>3
<1>8. \A i \in 1..n : replay[i] \in M
    BY <1>3
<1>9. replay \in Seq(Message)
    BY <1>1, <1>2, <1>3 DEF M
<1>10. \A x \in subscriptions : \E i \in 1..n : replay[i] = Subscribe(x)
    BY <1>6 DEF Surjection, M
<1> QED BY <1>1, <1>7, <1>8, <1>9, <1>10 DEF M

\* onopen: the server has heard nothing of the socket, and is about to hear all
LEMMA OnOpenInv ==
    ASSUME RealtimeInv, NEW s \in Opened, OnOpen(s)
    PROVE  RealtimeInv'
<1>1. PICK replay \in SetToSeqs({Subscribe(x) : x \in subscriptions}) :
          socket' = [socket EXCEPT ![s].near = "open", ![s].far = "open", ![s].sent = replay]
    BY DEF OnOpen
<1>2. socket[s].near = "connecting" /\ UNCHANGED <<ws, subscriptions, follows, followers>>
    BY DEF OnOpen, client, hub
<1> DEFINE c == [socket[s] EXCEPT !.near = "open", !.far = "open", !.sent = replay]
<1>3. /\ replay \in Seq(Message)
      /\ \A i \in 1..Len(replay) : replay[i].type = "subscribe" /\ replay[i].topic \in subscriptions
      /\ \A x \in subscriptions : \E i \in 1..Len(replay) : replay[i].topic = x
    BY ReplayFacts DEF RealtimeInv
<1>4. socket[s] \in SocketState /\ s \in Socket /\ NoSocket \notin Opened
    BY OpenedFacts DEF RealtimeInv
<1>5. c \in SocketState /\ c.near = "open" /\ c.far = "open" /\ c.sent = replay /\ socket' = [socket EXCEPT ![s] = c]
    BY <1>1, <1>3, <1>4 DEF SocketState
<1> HIDE DEF c
<1>6. /\ socket' \in Seq(SocketState) /\ Len(socket') = Len(socket) /\ Opened' = Opened
      /\ socket'[s] = c /\ \A t \in Opened : t # s => socket'[t] = socket[t]
    BY <1>5, UpdatedSocket DEF RealtimeInv
<1>7. RealtimeTypeOK'
    BY <1>2, <1>6 DEF RealtimeInv, RealtimeTypeOK
<1>8. HubAgrees' /\ OnlyOpen' /\ NotYetOpen'
    BY <1>2, <1>5, <1>6 DEF RealtimeInv, HubAgrees, OnlyOpen, NotYetOpen
<1>9. ASSUME Connected', NEW x \in Topic PROVE LastWord(x)'
    <2>1. CASE ws = s
        <3>1. socket[s].far = "none" /\ s \notin followers[x]
            BY <1>2, <1>4 DEF RealtimeInv, NotYetOpen, OnlyOpen, HubAgrees
        <3>2. socket'[ws'].sent = replay /\ s \notin followers'[x] /\ ws' = s /\ subscriptions' = subscriptions
            BY <1>2, <1>5, <1>6, <2>1, <3>1
        <3>3. ASSUME NEW i \in 1..Len(replay), IsLast(replay, x, i)
              PROVE  replay[i].type = "subscribe" /\ x \in subscriptions
            BY <1>3, <3>3 DEF IsLast
        <3>4. ASSUME Silent(replay, x) PROVE x \notin subscriptions
            BY <1>3, <3>4 DEF Silent
        <3> QED BY <3>2, <3>3, <3>4 DEF LastWord, Followed
    <2>2. CASE ws # s
        <3>1. ws \in Opened /\ Connected /\ socket'[ws'] = socket[ws]
            BY <1>2, <1>6, <1>9, <2>2 DEF Connected, RealtimeInv, RealtimeTypeOK
        <3> QED BY <1>2, <3>1 DEF RealtimeInv, LastWord, Followed
    <2> QED BY <2>1, <2>2
<1> QED BY <1>7, <1>8, <1>9 DEF RealtimeInv

\* send: the last word on the topic is the new one, on the others as before
LEMMA SendInv ==
    ASSUME RealtimeInv, NEW type \in {"subscribe", "unsubscribe"}, NEW x \in Topic, Send(type, x)
    PROVE  RealtimeInv'
<1>1. /\ subscriptions' = IF type = "subscribe" THEN subscriptions \cup {x} ELSE subscriptions \ {x}
      /\ UNCHANGED <<ws, follows, followers>>
    BY DEF Send, hub
<1>2. CASE ws # NoSocket /\ socket[ws].near = "open"
    <2> DEFINE m == [type |-> type, topic |-> x]
               sent == socket[ws].sent
               c == [socket[ws] EXCEPT !.sent = Append(sent, m)]
    <2>1. ws \in Opened /\ socket[ws] \in SocketState /\ m \in Message /\ m.type = type /\ m.topic = x
        BY <1>2, OpenedFacts DEF RealtimeInv, RealtimeTypeOK, Message
    <2>2. sent \in Seq(Message) /\ Len(sent) \in Nat
        BY <2>1 DEF SocketState
    <2> HIDE DEF m
    <2>3. /\ Append(sent, m) \in Seq(Message) /\ Len(Append(sent, m)) = Len(sent) + 1
          /\ \A i \in 1..Len(sent) : Append(sent, m)[i] = sent[i]
          /\ Append(sent, m)[Len(sent) + 1] = m
        BY <2>1, <2>2, AppendProperties
    <2>4. /\ c \in SocketState /\ c.near = socket[ws].near /\ c.far = socket[ws].far /\ c.sent = Append(sent, m)
          /\ c.refused = socket[ws].refused
        BY <2>1, <2>3 DEF SocketState
    <2>5. socket' = [socket EXCEPT ![ws] = c]
        BY <1>2 DEF Send, m
    <2> HIDE DEF c
    <2>6. /\ socket' \in Seq(SocketState) /\ Len(socket') = Len(socket) /\ Opened' = Opened
          /\ socket'[ws] = c /\ \A t \in Opened : t # ws => socket'[t] = socket[t]
        BY <2>1, <2>4, <2>5, UpdatedSocket DEF RealtimeInv
    <2>7. RealtimeTypeOK'
        BY <1>1, <2>6 DEF RealtimeInv, RealtimeTypeOK
    <2>8. HubAgrees' /\ OnlyOpen' /\ NotYetOpen'
        BY ZenonT(60), <1>1, <2>4, <2>6 DEF RealtimeInv, HubAgrees, OnlyOpen, NotYetOpen
    <2>9. ASSUME Connected', NEW y \in Topic PROVE LastWord(y)'
        <3> DEFINE now == socket'[ws'].sent
        <3>1. Connected /\ now = Append(sent, m) /\ LastWord(y) /\ socket'[ws'].refused = socket[ws].refused
            BY <1>1, <2>4, <2>6, <2>9 DEF Connected, RealtimeInv
        <3>2. CASE y = x
            <4>1. ASSUME NEW i \in 1..Len(now), IsLast(now, y, i) PROVE i = Len(sent) + 1
                BY <2>1, <2>2, <2>3, <3>1, <3>2, <4>1 DEF IsLast
            <4>2. ~Silent(now, y)
                BY <2>1, <2>2, <2>3, <3>1, <3>2 DEF Silent
            <4>3. now[Len(sent) + 1].type = "subscribe" <=> y \in subscriptions'
                BY <1>1, <2>1, <2>3, <3>1, <3>2
            <4> QED BY <4>1, <4>2, <4>3 DEF LastWord
        <3>3. CASE y # x
            <4>1. ASSUME NEW i \in 1..Len(now), IsLast(now, y, i)
                  PROVE  i \in 1..Len(sent) /\ IsLast(sent, y, i) /\ now[i] = sent[i]
                BY <2>1, <2>2, <2>3, <3>1, <3>3, <4>1 DEF IsLast
            <4>2. Silent(now, y) => Silent(sent, y)
                BY <2>2, <2>3, <3>1 DEF Silent
            <4>3. y \in subscriptions' <=> y \in subscriptions
                BY <1>1, <3>3
            <4>4. Followed(y)' <=> Followed(y)
                BY <1>1, <3>1, <4>3 DEF Followed
            <4> QED BY <3>1, <4>1, <4>2, <4>3, <4>4 DEF LastWord
        <3> QED BY <3>2, <3>3
    <2> QED BY <2>7, <2>8, <2>9 DEF RealtimeInv
<1>3. CASE ~(ws # NoSocket /\ socket[ws].near = "open")
    <2>1. socket' = socket
        BY <1>3 DEF Send
    <2>2. ~Connected'
        BY <1>1, <1>3, <2>1 DEF Connected
    <2> QED BY <1>1, <2>1, <2>2 DEF RealtimeInv, RealtimeTypeOK, HubAgrees, OnlyOpen, NotYetOpen, Opened
<1> QED BY <1>2, <1>3

\* follow and unfollow: the message that is handled was the last word, or another one follows it
LEMMA HandleInv ==
    ASSUME RealtimeInv, NEW s \in Opened, Handle(s)
    PROVE  RealtimeInv'
<1> DEFINE sent == socket[s].sent
           m == Head(sent)
           refuse == m.type = "subscribe" /\ Full(s, m.topic)
           c == [socket[s] EXCEPT !.sent = Tail(sent), !.refused = @ \/ refuse]
<1>1. /\ socket[s].far = "open" /\ sent # <<>> /\ UNCHANGED <<ws, subscriptions>>
      /\ socket' = [socket EXCEPT ![s] = c]
    BY DEF Handle, client
<1>2. socket[s] \in SocketState /\ sent \in Seq(Message) /\ s \in Socket /\ NoSocket \notin Opened
    BY OpenedFacts DEF RealtimeInv, SocketState
<1>3. /\ m \in Message /\ m = sent[1] /\ Tail(sent) \in Seq(Message) /\ Len(Tail(sent)) = Len(sent) - 1
      /\ Len(sent) \in Nat /\ Len(sent) >= 1
      /\ \A i \in 1..Len(Tail(sent)) : Tail(sent)[i] = sent[i + 1]
    BY <1>1, <1>2, HeadTailProperties, EmptySeq
<1>4. \/ refuse /\ UNCHANGED <<follows, followers>>
      \/ /\ m.type = "subscribe" /\ ~refuse
         /\ follows' = [follows EXCEPT ![s] = @ \cup {m.topic}]
         /\ followers' = [followers EXCEPT ![m.topic] = @ \cup {s}]
      \/ /\ m.type = "unsubscribe"
         /\ follows' = [follows EXCEPT ![s] = @ \ {m.topic}]
         /\ followers' = [followers EXCEPT ![m.topic] = @ \ {s}]
    BY <1>3 DEF Handle, Message, hub
<1>5. c \in SocketState /\ c.near = socket[s].near /\ c.far = socket[s].far /\ c.sent = Tail(sent)
      /\ (c.refused <=> socket[s].refused \/ refuse)
    <2>1. refuse \in BOOLEAN
        OBVIOUS
    <2> QED BY <1>2, <1>3, <2>1 DEF SocketState
<1> HIDE DEF c
<1>6. /\ socket' \in Seq(SocketState) /\ Len(socket') = Len(socket) /\ Opened' = Opened
      /\ socket'[s] = c /\ \A t \in Opened : t # s => socket'[t] = socket[t]
    BY <1>1, <1>5, UpdatedSocket DEF RealtimeInv
<1>7. /\ follows \in [Socket -> SUBSET Topic] /\ followers \in [Topic -> SUBSET Socket] /\ m.topic \in Topic
    BY <1>3 DEF RealtimeInv, RealtimeTypeOK, Message
<1> HIDE DEF m, refuse
<1>8. /\ follows' \in [Socket -> SUBSET Topic] /\ followers' \in [Topic -> SUBSET Socket]
      /\ \A t \in Socket : t # s => follows'[t] = follows[t]
      /\ \A t \in Socket, x \in Topic : t # s \/ x # m.topic =>
            /\ t \in followers'[x] <=> t \in followers[x]
            /\ x \in follows'[t] <=> x \in follows[t]
      /\ s \in followers'[m.topic] <=> m.topic \in follows'[s]
      /\ refuse \/ (s \in followers'[m.topic] <=> m.type = "subscribe")
    <2>1. CASE refuse /\ UNCHANGED <<follows, followers>>
        BY <1>2, <1>7, <2>1 DEF RealtimeInv, HubAgrees
    <2>2. CASE /\ m.type = "subscribe" /\ ~refuse
               /\ follows' = [follows EXCEPT ![s] = @ \cup {m.topic}]
               /\ followers' = [followers EXCEPT ![m.topic] = @ \cup {s}]
        BY <1>2, <1>7, <2>2
    <2>3. CASE /\ m.type = "unsubscribe"
               /\ follows' = [follows EXCEPT ![s] = @ \ {m.topic}]
               /\ followers' = [followers EXCEPT ![m.topic] = @ \ {s}]
        BY <1>2, <1>7, <2>3
    <2> QED BY <1>4, <2>1, <2>2, <2>3
<1>9. RealtimeTypeOK'
    BY <1>1, <1>6, <1>8 DEF RealtimeInv, RealtimeTypeOK
<1>10. HubAgrees'
    BY <1>8 DEF RealtimeInv, HubAgrees
<1>11. OnlyOpen' /\ NotYetOpen'
    BY <1>1, <1>5, <1>6, <1>8 DEF RealtimeInv, OnlyOpen, NotYetOpen
<1>12. ASSUME Connected', NEW x \in Topic PROVE LastWord(x)'
    <2>1. ws \in Opened /\ ws' = ws /\ ws \in Socket
        BY <1>1, <1>12, OpenedFacts DEF Connected, RealtimeInv, RealtimeTypeOK
    <2>2. CASE ws # s
        <3>1. Connected /\ socket'[ws'] = socket[ws] /\ (ws \in followers'[x] <=> ws \in followers[x])
            BY <1>6, <1>8, <1>12, <2>1, <2>2 DEF Connected
        <3> QED BY <1>1, <3>1 DEF RealtimeInv, LastWord, Followed
    <2>3. CASE ws = s
        <3> DEFINE now == socket'[ws'].sent
        <3>1. Connected /\ now = Tail(sent) /\ (socket'[ws'].refused <=> socket[s].refused \/ refuse)
            BY <1>5, <1>6, <1>12, <2>1, <2>3 DEF Connected
        <3>2. /\ \A i \in 1..Len(sent) : IsLast(sent, x, i) => (sent[i].type = "subscribe" <=> x \in subscriptions)
              /\ Silent(sent, x) => Followed(x)
            BY <2>3, <3>1 DEF RealtimeInv, LastWord
        <3>3. ASSUME NEW i \in 1..Len(now), IsLast(now, x, i)
              PROVE  now[i].type = "subscribe" <=> x \in subscriptions
            <4>1. i + 1 \in 1..Len(sent) /\ now[i] = sent[i + 1]
                BY <1>3, <3>1
            <4>2. IsLast(sent, x, i + 1)
                <5>1. ASSUME NEW j \in 1..Len(sent), j > i + 1 PROVE sent[j].topic # x
                    <6>1. j - 1 \in 1..Len(now) /\ j - 1 > i /\ (j - 1) + 1 = j
                        BY <1>3, <3>1, <5>1
                    <6>2. now[j - 1] = sent[j]
                        BY <1>3, <3>1, <6>1
                    <6> QED BY <3>3, <6>1, <6>2 DEF IsLast
                <5> QED BY <3>3, <4>1, <5>1 DEF IsLast
            <4> QED BY <3>2, <4>1, <4>2
        <3>4. ASSUME Silent(now, x) PROVE Followed(x)'
            <4>1. \A j \in 1..Len(sent) : j > 1 => sent[j].topic # x
                <5> SUFFICES ASSUME NEW j \in 1..Len(sent), j > 1 PROVE sent[j].topic # x
                    OBVIOUS
                <5>1. j - 1 \in 1..Len(now) /\ (j - 1) + 1 = j
                    BY <1>3, <3>1
                <5>2. now[j - 1] = sent[j]
                    BY <1>3, <3>1, <5>1
                <5> QED BY <3>4, <5>1, <5>2 DEF Silent
            <4>2. CASE m.topic = x
                <5>1. IsLast(sent, x, 1) /\ 1 \in 1..Len(sent)
                    BY <1>3, <4>1, <4>2 DEF IsLast
                <5>2. m.type = "subscribe" <=> x \in subscriptions
                    BY <1>3, <3>2, <5>1
                <5>3. refuse => m.type = "subscribe"
                    BY DEF refuse
                <5> QED BY <1>1, <1>8, <2>3, <3>1, <4>2, <5>2, <5>3 DEF Followed
            <4>3. CASE m.topic # x
                <5>1. Silent(sent, x)
                    BY <1>3, <4>1, <4>3 DEF Silent
                <5>2. s \in followers'[x] <=> s \in followers[x]
                    BY <1>2, <1>8, <4>3
                <5> QED BY <1>1, <2>3, <3>1, <3>2, <5>1, <5>2 DEF Followed
            <4> QED BY <4>2, <4>3
        <3> QED BY <1>1, <3>3, <3>4 DEF LastWord
    <2> QED BY <2>2, <2>3
<1> QED BY <1>9, <1>10, <1>11, <1>12 DEF RealtimeInv

\* dropSocket: the hub forgets a socket in both maps
LEMMA FarClosedInv ==
    ASSUME RealtimeInv, NEW s \in Opened, FarClosed(s)
    PROVE  RealtimeInv'
<1> DEFINE c == [socket[s] EXCEPT !.far = "closed", !.sent = <<>>]
<1>1. /\ socket[s].far = "open" /\ UNCHANGED <<ws, subscriptions>>
      /\ followers' = DropSocket(s) /\ follows' = [follows EXCEPT ![s] = {}]
    BY DEF FarClosed, client
<1>2. socket[s] \in SocketState /\ s \in Socket /\ NoSocket \notin Opened
    BY OpenedFacts DEF RealtimeInv
<1>3. c \in SocketState /\ c.near = socket[s].near /\ c.far = "closed" /\ socket' = [socket EXCEPT ![s] = c]
    <2>1. socket' = [socket EXCEPT ![s].far = "closed", ![s].sent = <<>>] /\ <<>> \in Seq(Message)
        BY DEF FarClosed
    <2> QED BY <1>2, <2>1 DEF SocketState
<1> HIDE DEF c
<1>4. /\ socket' \in Seq(SocketState) /\ Len(socket') = Len(socket) /\ Opened' = Opened
      /\ socket'[s] = c /\ \A t \in Opened : t # s => socket'[t] = socket[t]
    BY <1>3, UpdatedSocket DEF RealtimeInv
<1>5. /\ follows' \in [Socket -> SUBSET Topic] /\ followers' \in [Topic -> SUBSET Socket]
      /\ follows'[s] = {} /\ \A t \in Socket : t # s => follows'[t] = follows[t]
      /\ \A x \in Topic : s \notin followers'[x]
      /\ \A x \in Topic, t \in Socket : t # s => (t \in followers'[x] <=> t \in followers[x])
    BY <1>1, <1>2 DEF RealtimeInv, RealtimeTypeOK, HubAgrees, DropSocket
<1>6. RealtimeTypeOK'
    BY <1>1, <1>4, <1>5 DEF RealtimeInv, RealtimeTypeOK
<1>7. HubAgrees' /\ OnlyOpen' /\ NotYetOpen'
    <2>1. HubAgrees'
        BY <1>5 DEF RealtimeInv, HubAgrees
    <2>2. OnlyOpen'
        BY <1>4, <1>5 DEF RealtimeInv, OnlyOpen
    <2>3. NotYetOpen'
        BY <1>1, <1>3, <1>4 DEF RealtimeInv, NotYetOpen
    <2> QED BY <2>1, <2>2, <2>3
<1>8. ASSUME Connected', NEW x \in Topic PROVE LastWord(x)'
    <2>1. ws' = ws /\ ws \in Opened /\ ws \in Socket /\ ws # s
        BY <1>1, <1>3, <1>4, <1>8, OpenedFacts DEF Connected, RealtimeInv, RealtimeTypeOK
    <2>2. Connected /\ socket'[ws'] = socket[ws] /\ (ws \in followers'[x] <=> ws \in followers[x])
        BY <1>4, <1>5, <1>8, <2>1 DEF Connected
    <2> QED BY <1>1, <2>2 DEF RealtimeInv, LastWord, Followed
<1> QED BY <1>6, <1>7, <1>8 DEF RealtimeInv

\* A tab that has no socket yet
LEMMA RealtimeInitInv == RealtimeInit => RealtimeInv
BY RealtimeAssumption
DEF RealtimeInit, RealtimeInv, RealtimeTypeOK, Opened, Socket, HubAgrees, OnlyOpen, NotYetOpen, Connected

\* Every step of the tab, the network or the server keeps the invariant
LEMMA RealtimeNextInv == RealtimeInv /\ [RealtimeNext]_realtimeVars => RealtimeInv'
<1> SUFFICES ASSUME RealtimeInv, [RealtimeNext]_realtimeVars PROVE RealtimeInv'
    OBVIOUS
<1>1. CASE Connect
    BY <1>1, DoConnectInv DEF Connect
<1>2. CASE Allow
    <2>1. CASE wanted
        BY <1>2, <2>1, DoConnectInv DEF Allow
    <2>2. CASE ~wanted
        BY <1>2, <2>2 DEF Allow, RealtimeInv, RealtimeTypeOK, HubAgrees, OnlyOpen, NotYetOpen, Connected, LastWord,
                          Followed, hub, Opened
    <2> QED BY <2>1, <2>2
<1>3. CASE Forbid
    <2>1. CASE ws = NoSocket
        BY <1>3, <2>1 DEF Forbid, RealtimeInv, RealtimeTypeOK, HubAgrees, OnlyOpen, NotYetOpen, Connected, hub, Opened
    <2>2. CASE ws # NoSocket
        <3>1. ws \in Opened
            BY <2>2 DEF RealtimeInv, RealtimeTypeOK
        <3> QED BY <1>3, <2>2, <3>1, LetsGo DEF Forbid
    <2> QED BY <2>1, <2>2
<1>4. CASE \E type \in {"subscribe", "unsubscribe"}, x \in Topic : Send(type, x)
    BY <1>4, SendInv
<1>5. CASE \E s \in Opened : OnOpen(s) \/ Handle(s) \/ FarClosed(s)
    BY <1>5, OnOpenInv, HandleInv, FarClosedInv
<1>6. CASE \E s \in Opened : OnClose(s, TRUE) \/ OnClose(s, FALSE)
    BY <1>6, LetsGo DEF OnClose
<1>7. CASE UNCHANGED realtimeVars
    BY <1>7 DEF realtimeVars, client, hub, RealtimeInv, RealtimeTypeOK, HubAgrees, OnlyOpen, NotYetOpen, Connected,
                LastWord, Followed, Opened
<1> QED BY <1>1, <1>2, <1>3, <1>4, <1>5, <1>6, <1>7 DEF RealtimeNext

\* However often the socket is lost and opened again, the last word on each topic is what the pages want
THEOREM RealtimeInvariance == RealtimeSpec => []RealtimeInv
BY RealtimeInitInv, RealtimeNextInv, PTL DEF RealtimeSpec

\* Once what was sent has arrived the server sends the tab what its pages follow, and nothing to a closed socket
THEOREM SubscriptionsCorrect == RealtimeSpec => []SubscriptionsKept
<1>1. RealtimeInv => SubscriptionsKept
    <2> SUFFICES ASSUME RealtimeInv, NEW x \in Topic
                 PROVE  /\ \A s \in followers[x] : socket[s].far = "open"
                        /\ (Connected /\ socket[ws].sent = <<>>) => Followed(x)
        BY DEF SubscriptionsKept, Connected, Followed
    <2>1. \A s \in followers[x] : socket[s].far = "open"
        BY DEF RealtimeInv, RealtimeTypeOK, HubAgrees, OnlyOpen
    <2>2. ASSUME Connected, socket[ws].sent = <<>> PROVE Followed(x)
        BY <2>2 DEF RealtimeInv, LastWord, Silent
    <2> QED BY <2>1, <2>2
<1> QED BY <1>1, RealtimeInvariance, PTL

(***************************************************************************)
(* A map of Rush                                                           *)
(***************************************************************************)

Commands == {"rooms", "applied", "rejected", "warmup_end"}
Wins == [Side -> Nat]
Winner == Side \cup {"none"}

ScriptType ==
    [forced : BOOLEAN, astray : Draws \cup {{}}, room : 0..6, convoy : BOOLEAN, wins : Wins, winner : Winner]
EngineType == [warmup : BOOLEAN, rounds : Nat, at : {"freeze", "play", "over"}, draws : Nat]
PluginType ==
    [phase : {"Warmup", "Live", "Ended"}, round : Nat, front : 0..6, wins : Wins, decided : Winner,
     confirmed : BOOLEAN, failedSent : BOOLEAN, mismatchSent : BOOLEAN, waiting : BOOLEAN, sent : BOOLEAN,
     resent : BOOLEAN, countdown : {"waiting", "running", "zero", "fired"}]
SavedType ==
    [phase : {"Warmup", "Live", "Ended"}, round : Nat, front : 0..6, wins : Wins, decided : Winner,
     confirmed : BOOLEAN, failedSent : BOOLEAN, mismatchSent : BOOLEAN]
PastType ==
    [told : {"nothing", "confirmed", "unconfirmed"}, unseen : BOOLEAN, strayed : BOOLEAN, ended : BOOLEAN, faults : Nat]

RushTypeOK ==
    /\ script \in ScriptType
    /\ engine \in EngineType
    /\ console \in Seq(Commands)
    /\ ready \in BOOLEAN
    /\ plugin \in PluginType
    /\ snapshot \in SavedType
    /\ mapStart \in BOOLEAN
    /\ past \in PastType

\* What the plugin would come back with
SavedAgrees ==
    /\ snapshot.phase = plugin.phase /\ snapshot.round = plugin.round
    /\ snapshot.front = plugin.front /\ snapshot.wins = plugin.wins /\ snapshot.decided = plugin.decided
    /\ snapshot.failedSent = plugin.failedSent /\ snapshot.mismatchSent = plugin.mismatchSent

\* The score of the plugin is the script's, from the first round on
ScoreAgrees ==
    /\ plugin.front = script.room /\ plugin.wins = script.wins /\ plugin.round = engine.rounds
    /\ engine.warmup => plugin.phase = "Warmup"
    /\ plugin.phase = "Warmup" => engine.rounds = 0 /\ engine.at = "freeze" /\ ~past.strayed /\ past.told = "nothing"
    /\ plugin.phase = "Ended" => engine.at = "over"

\* A map without rounds is as the script has reset it
Unplayed ==
    engine.rounds = 0 => script.room = StartRoom /\ script.wins = NoWins

\* While rounds are played nobody has won, and the front is where the wins have moved it
StillOpen ==
    engine.at # "over" =>
        /\ script.winner = "none" /\ plugin.decided = "none"
        /\ engine.rounds < MaxRounds
        /\ \A s \in Side : script.wins[s] < RoundsToWin
        /\ script.room = StartRoom + script.wins["T"] - script.wins["CT"]
        /\ script.convoy <=> Decider(script.wins)

WonByRounds ==
    engine.at = "over" =>
        /\ engine.rounds > 0
        /\ MapDecided(plugin)
        /\ PluginWinner(plugin) = ScriptWinner(script)

Says(q, command) == \E i \in 1..Len(q) : q[i] = command

\* What an answer says is still so
AnswerIsTrue == Says(console, "applied") => script.forced /\ script.astray = {}

Confirmed ==
    /\ (plugin.phase = "Warmup" /\ plugin.confirmed /\ ~mapStart) => script.astray = {}
    /\ (plugin.phase = "Warmup" /\ plugin.confirmed /\ past.faults = 0) => script.forced

FaultsReported == RoomsAsTold /\ AnswerAwaited

RushInv ==
    /\ RushTypeOK /\ SavedAgrees /\ ScoreAgrees /\ Unplayed /\ StillOpen /\ WonByRounds
    /\ AnswerIsTrue /\ Confirmed /\ FaultsReported

-----------------------------------------------------------------------------
\* UpdateCountdown changes the countdown alone, and ends a warmup only when the rooms are settled
LEMMA CountedKeeps ==
    ASSUME NEW p \in PluginType
    PROVE  /\ Counted(p) \in PluginType
           /\ Counted(p) = [p EXCEPT !.countdown = Counted(p).countdown]
           /\ EndsWarmup(p) => p.phase = "Warmup" /\ RushRoomsSettled(p)
  <1>1. Counted(p).countdown \in {"waiting", "running", "zero", "fired"}
    BY DEF Counted, PluginType
  <1>2. Counted(p) = [p EXCEPT !.countdown = Counted(p).countdown]
    BY DEF Counted, PluginType
  <1>3. EndsWarmup(p) => p.phase = "Warmup" /\ RushRoomsSettled(p)
    BY DEF Counted, PluginType, EndsWarmup
  <1> QED
    BY <1>1, <1>2, <1>3 DEF PluginType

\* What SaveState writes is a state that can be restored, and what is restored is a state of the plugin
LEMMA SnapshotType ==
    ASSUME NEW p \in PluginType
    PROVE  Snapshot(p) \in SavedType
  BY DEF Snapshot, PluginType, SavedType

LEMMA RestoredType ==
    ASSUME NEW s \in SavedType
    PROVE  Restored(s) \in PluginType
  BY DEF Restored, PluginType, SavedType

LEMMA FireType ==
    ASSUME NEW p \in PluginType
    PROVE  Fire(p) \in PluginType
  BY DEF Fire, PluginType

LEMMA FailType ==
    ASSUME NEW p \in PluginType
    PROVE  Fail(p) \in PluginType
  BY DEF Fail, PluginType

LEMMA LiveType ==
    ASSUME NEW p \in PluginType
    PROVE  GoLive(p) \in PluginType
  BY DEF GoLive, PluginType

LEMMA ResetType ==
    ASSUME NEW forced \in BOOLEAN, NEW drawn \in Draws
    PROVE  Reset(forced, drawn) \in ScriptType
  BY DEF Reset, ScriptType, Wins, NoWins, StartRoom, Winner

LEMMA SetRoomsType == Reset(TRUE, {}) \in ScriptType
  BY DEF Reset, ScriptType, Wins, NoWins, StartRoom, Winner

\* Commands leave the console in the order they entered it
LEMMA SaysTail ==
    ASSUME NEW q \in Seq(Commands), q # <<>>, NEW c
    PROVE  /\ Tail(q) \in Seq(Commands)
           /\ Says(Tail(q), c) => Says(q, c)
  BY DEF Says

LEMMA SaysConcat ==
    ASSUME NEW q \in Seq(Commands), NEW r \in Seq(Commands), NEW c
    PROVE  /\ q \o r \in Seq(Commands)
           /\ Says(q \o r, c) => Says(q, c) \/ Says(r, c)
  BY DEF Says

LEMMA SaysAppend ==
    ASSUME NEW q \in Seq(Commands), NEW e \in Commands, NEW c
    PROVE  /\ Append(q, e) \in Seq(Commands)
           /\ Says(Append(q, e), c) => Says(q, c) \/ e = c
  BY DEF Says

LEMMA SaysHead ==
    ASSUME NEW q \in Seq(Commands), q # <<>>
    PROVE  Says(q, Head(q))
  BY DEF Says

LEMMA EndingType ==
    ASSUME NEW p
    PROVE  Ending(p) \in Seq(Commands) /\ ~Says(Ending(p), "applied")
  <1>1. CASE EndsWarmup(p)
    <2>1. Ending(p) = <<"warmup_end">>
      BY <1>1 DEF Ending
    <2> QED
      BY <2>1 DEF Commands, Says
  <1>2. CASE ~EndsWarmup(p)
    <2>1. Ending(p) = <<>>
      BY <1>2 DEF Ending
    <2> QED
      BY <2>1 DEF Commands, Says
  <1> QED
    BY <1>1, <1>2

-----------------------------------------------------------------------------
\* The plugin starts by sending the rooms, with nothing played
LEMMA RushStarts == RushInit => RushInv
  <1> SUFFICES ASSUME RushInit PROVE RushInv
    OBVIOUS
  <1> USE DEF RushInit
  <1>1. /\ NewMatch \in PluginType /\ plugin \in PluginType
        /\ snapshot \in SavedType
    <2>1. NewMatch \in PluginType
      BY DEF NewMatch, PluginType, NoWins, Wins, StartRoom, Winner
    <2> QED
      BY <2>1, FireType, SnapshotType
  <1>2. script \in ScriptType
    BY ResetType
  <1>3. RushTypeOK
    <2>1. console \in Seq(Commands)
      BY DEF Commands
    <2>2. engine \in EngineType /\ past \in PastType /\ ready \in BOOLEAN /\ mapStart \in BOOLEAN
      BY DEF EngineType, PastType
    <2> QED
      BY <2>1, <2>2, <1>1, <1>2 DEF RushTypeOK
  <1>4. SavedAgrees
    BY DEF SavedAgrees, Snapshot
  <1>5. ScoreAgrees /\ Unplayed
    BY DEF ScoreAgrees, Unplayed, Fire, NewMatch, Reset, NoWins, StartRoom
  <1>6. StillOpen
    BY DEF StillOpen, Fire, NewMatch, Reset, NoWins, StartRoom, MaxRounds, RoundsToWin, Decider, Side
  <1>7. WonByRounds
    BY DEF WonByRounds
  <1>8. AnswerIsTrue
    BY DEF AnswerIsTrue, Says
  <1>9. Confirmed /\ FaultsReported
    BY DEF Confirmed, FaultsReported, RoomsAsTold, AnswerAwaited, Fire, NewMatch, RushRoomsSettled
  <1> QED
    BY <1>3, <1>4, <1>5, <1>6, <1>7, <1>8, <1>9 DEF RushInv

-----------------------------------------------------------------------------
\* What the invariant says of the plugin when it changes nothing but its waiting, its answer and its
\* countdown, and the map is left alone
SameScore(p) ==
    /\ p.phase = plugin.phase /\ p.round = plugin.round /\ p.front = plugin.front
    /\ p.wins = plugin.wins /\ p.decided = plugin.decided /\ p.mismatchSent = plugin.mismatchSent

LEMMA SameScoreKeeps ==
    ASSUME RushInv, SameScore(plugin'), UNCHANGED <<script, engine>>,
           past'.strayed = past.strayed, past'.told = past.told, past'.unseen = past.unseen
    PROVE  ScoreAgrees' /\ Unplayed' /\ StillOpen' /\ WonByRounds' /\ RoomsAsTold'
  BY DEF RushInv, SameScore, ScoreAgrees, Unplayed, StillOpen, WonByRounds, MapDecided, PluginWinner,
         FaultsReported, RoomsAsTold

\* Handlers that end in UpdateCountdown, with a plugin whose answers are true
LEMMA HandledInv ==
    ASSUME RushInv, NEW p \in PluginType, NEW saves \in BOOLEAN, NEW rest \in Seq(Commands),
           SameScore(p), Handled(p, saves), console' = rest \o Ending(p),
           UNCHANGED <<installed, script, engine, ready, mapStart>>,
           Says(rest, "applied") => Says(console, "applied"),
           (p.phase = "Warmup" /\ p.confirmed /\ ~mapStart) => script.astray = {},
           (p.phase = "Warmup" /\ p.confirmed /\ past.faults = 0) => script.forced,
           (p.phase = "Warmup" /\ ~RushRoomsSettled(p)) => p.waiting,
           p.failedSent # plugin.failedSent => saves,
           plugin.failedSent => p.failedSent
    PROVE  RushInv'
  <1> DEFINE c == Counted(p)
  <1>1. /\ c \in PluginType /\ plugin' = c
        /\ c = [p EXCEPT !.countdown = c.countdown]
        /\ EndsWarmup(p) => p.phase = "Warmup" /\ RushRoomsSettled(p)
    BY CountedKeeps DEF Handled
  <1> HIDE DEF c
  <1>2. /\ c.phase = p.phase /\ c.round = p.round /\ c.front = p.front /\ c.wins = p.wins
        /\ c.decided = p.decided /\ c.confirmed = p.confirmed /\ c.failedSent = p.failedSent
        /\ c.mismatchSent = p.mismatchSent /\ c.waiting = p.waiting
    BY <1>1 DEF PluginType
  <1>3. past' = [past EXCEPT !.ended = past.ended \/ EndsWarmup(p)]
    BY DEF Handled
  <1>4. /\ past' \in PastType /\ past'.strayed = past.strayed /\ past'.told = past.told
        /\ past'.unseen = past.unseen /\ past'.faults = past.faults
        /\ past'.ended = (past.ended \/ EndsWarmup(p))
    <2>1. past \in PastType
      BY DEF RushInv, RushTypeOK
    <2>2. EndsWarmup(p) \in BOOLEAN
      BY DEF EndsWarmup
    <2> QED
      BY <1>3, <2>1, <2>2 DEF PastType
  <1>5. snapshot' = snapshot \/ snapshot' = Snapshot(p)
    BY DEF Handled
  <1>6. SavedAgrees' /\ snapshot' \in SavedType
    <2>1. CASE snapshot' = Snapshot(p)
      BY <2>1, <1>1, <1>2, SnapshotType DEF SavedAgrees, Snapshot
    <2>2. CASE snapshot' = snapshot /\ p.failedSent = plugin.failedSent
      BY <2>2, <1>1, <1>2 DEF RushInv, SavedAgrees, SameScore, RushTypeOK
    <2> QED
      BY <2>1, <2>2, <1>5 DEF Handled
  <1>7. console' \in Seq(Commands) /\ AnswerIsTrue'
    BY EndingType, SaysConcat DEF RushInv, AnswerIsTrue
  <1>8. ScoreAgrees' /\ Unplayed' /\ StillOpen' /\ WonByRounds' /\ RoomsAsTold'
    <2>1. SameScore(plugin')
      BY <1>1, <1>2 DEF SameScore
    <2> QED
      BY <2>1, <1>4, SameScoreKeeps
  <1>9. Confirmed'
    BY <1>1, <1>2, <1>4 DEF Confirmed
  <1>10. AnswerAwaited'
    BY <1>1, <1>2, <1>4 DEF RushInv, FaultsReported, AnswerAwaited, RushRoomsSettled
  <1>11. RushTypeOK'
    BY <1>1, <1>4, <1>6, <1>7 DEF RushInv, RushTypeOK
  <1> QED
    BY <1>6, <1>7, <1>8, <1>9, <1>10, <1>11 DEF RushInv, FaultsReported

\* The rooms are sent once more, in warmup
LEMMA FiredInv ==
    ASSUME RushInv, NEW p \in PluginType, SameScore(p), p.failedSent = plugin.failedSent,
           plugin.phase = "Warmup", plugin' = Fire(p), console' = Append(console, "rooms"),
           UNCHANGED <<installed, script, engine>>, ready' \in BOOLEAN, mapStart' \in BOOLEAN,
           \/ snapshot' = snapshot
           \/ snapshot' = Snapshot(plugin'),
           \/ past' = past
           \/ past' = [past EXCEPT !.faults = past.faults + 1]
    PROVE  RushInv'
  <1>1. /\ plugin' \in PluginType
        /\ plugin'.phase = "Warmup" /\ plugin'.round = p.round /\ plugin'.front = p.front
        /\ plugin'.wins = p.wins /\ plugin'.decided = p.decided /\ plugin'.mismatchSent = p.mismatchSent
        /\ plugin'.failedSent = plugin.failedSent /\ plugin'.confirmed = FALSE /\ plugin'.waiting = TRUE
    <2>1. plugin' \in PluginType
      BY FireType
    <2> QED
      BY <2>1 DEF Fire, PluginType, SameScore
  <1>2. /\ past' \in PastType /\ past'.strayed = past.strayed /\ past'.told = past.told
        /\ past'.unseen = past.unseen /\ past'.ended = past.ended /\ (past'.faults = 0 => past.faults = 0)
    BY DEF RushInv, RushTypeOK, PastType
  <1>3. SavedAgrees' /\ snapshot' \in SavedType
    <2>1. CASE snapshot' = snapshot
      BY <2>1, <1>1 DEF RushInv, SavedAgrees, SameScore, RushTypeOK
    <2>2. CASE snapshot' = Snapshot(plugin')
      BY <2>2, <1>1, SnapshotType DEF SavedAgrees, Snapshot
    <2> QED
      BY <2>1, <2>2
  <1>4. console' \in Seq(Commands) /\ AnswerIsTrue'
    <2>1. console \in Seq(Commands) /\ "rooms" \in Commands
      BY DEF RushInv, RushTypeOK, Commands
    <2>2. Says(console', "applied") => Says(console, "applied")
      BY <2>1, SaysAppend
    <2> QED
      BY <2>1, <2>2, SaysAppend DEF RushInv, AnswerIsTrue
  <1>5. ScoreAgrees' /\ Unplayed' /\ StillOpen' /\ WonByRounds' /\ RoomsAsTold'
    <2>1. SameScore(plugin')
      BY <1>1 DEF SameScore
    <2> QED
      BY <2>1, <1>2, SameScoreKeeps
  <1>6. Confirmed' /\ AnswerAwaited'
    BY <1>1, <1>2 DEF RushInv, Confirmed, FaultsReported, AnswerAwaited, RushRoomsSettled
  <1>7. RushTypeOK'
    BY <1>1, <1>2, <1>3, <1>4 DEF RushInv, RushTypeOK
  <1> QED
    BY <1>3, <1>4, <1>5, <1>6, <1>7 DEF RushInv, FaultsReported

-----------------------------------------------------------------------------
\* Steps before the first round

LEMMA LineupChangesInv == RushInv /\ LineupChanges => RushInv'
  BY DEF RushInv, LineupChanges, RushTypeOK, SavedAgrees, ScoreAgrees, Unplayed, StillOpen, WonByRounds, MapDecided, PluginWinner,
         AnswerIsTrue, Confirmed, FaultsReported, RoomsAsTold, AnswerAwaited

LEMMA DeadlinePassesInv == RushInv /\ DeadlinePasses => RushInv'
  <1> SUFFICES ASSUME RushInv, DeadlinePasses PROVE RushInv'
    OBVIOUS
  <1>1. /\ plugin' \in PluginType /\ SameScore(plugin')
        /\ plugin'.confirmed = plugin.confirmed /\ plugin'.failedSent = plugin.failedSent
        /\ plugin'.waiting = plugin.waiting
    BY DEF DeadlinePasses, RushInv, RushTypeOK, PluginType, SameScore
  <1>2. UNCHANGED <<installed, script, engine, console, ready, snapshot, mapStart, past>>
    BY DEF DeadlinePasses
  <1>3. ScoreAgrees' /\ Unplayed' /\ StillOpen' /\ WonByRounds' /\ RoomsAsTold'
    BY <1>1, <1>2, SameScoreKeeps
  <1>4. RushTypeOK' /\ SavedAgrees' /\ AnswerIsTrue'
    BY <1>1, <1>2 DEF RushInv, RushTypeOK, SavedAgrees, SameScore, AnswerIsTrue
  <1>5. Confirmed' /\ AnswerAwaited'
    BY <1>1, <1>2 DEF RushInv, SameScore, Confirmed, FaultsReported, AnswerAwaited, RushRoomsSettled
  <1> QED
    BY <1>3, <1>4, <1>5 DEF RushInv, FaultsReported

LEMMA CheckLineupInv == RushInv /\ CheckLineup => RushInv'
  <1> SUFFICES ASSUME RushInv, CheckLineup PROVE RushInv'
    OBVIOUS
  <1>1. plugin \in PluginType /\ console \in Seq(Commands) /\ SameScore(plugin)
    BY DEF RushInv, RushTypeOK, SameScore
  <1>2. /\ (plugin.phase = "Warmup" /\ plugin.confirmed /\ ~mapStart) => script.astray = {}
        /\ (plugin.phase = "Warmup" /\ plugin.confirmed /\ past.faults = 0) => script.forced
        /\ (plugin.phase = "Warmup" /\ ~RushRoomsSettled(plugin)) => plugin.waiting
    BY DEF RushInv, Confirmed, FaultsReported, AnswerAwaited
  <1> QED
    BY <1>1, <1>2, HandledInv DEF CheckLineup

LEMMA ReplyOverdueInv == RushInv /\ ReplyOverdue => RushInv'
  <1> SUFFICES ASSUME RushInv, ReplyOverdue PROVE RushInv'
    OBVIOUS
  <1>1. plugin \in PluginType /\ console \in Seq(Commands) /\ SameScore(plugin)
        /\ ready \in BOOLEAN /\ mapStart \in BOOLEAN
    BY DEF RushInv, RushTypeOK, SameScore
  <1>2. UNCHANGED <<installed, script, engine, ready, mapStart>>
    BY DEF ReplyOverdue
  <1>3. CASE plugin.phase = "Warmup" /\ ~plugin.resent
    <2>1. plugin' = Fire(plugin) /\ console' = Append(console, "rooms") /\ UNCHANGED <<snapshot, past>>
      BY <1>3 DEF ReplyOverdue
    <2> QED
      BY <2>1, <1>1, <1>2, <1>3, FiredInv
  <1>4. CASE ~(plugin.phase = "Warmup" /\ ~plugin.resent)
    <2>1. Handled(Fail(plugin), TRUE) /\ console' = console \o Ending(Fail(plugin))
      BY <1>4 DEF ReplyOverdue
    <2>2. /\ Fail(plugin) \in PluginType /\ SameScore(Fail(plugin))
          /\ Fail(plugin).confirmed = FALSE /\ Fail(plugin).failedSent = TRUE
      BY <1>1, FailType DEF Fail, PluginType, SameScore
    <2>3. RushRoomsSettled(Fail(plugin))
      BY <2>2 DEF RushRoomsSettled
    <2> QED
      BY <2>1, <2>2, <2>3, <1>1, <1>2, HandledInv
  <1> QED
    BY <1>3, <1>4

LEMMA RunReplyInv == RushInv /\ RunReply => RushInv'
  <1> SUFFICES ASSUME RushInv, RunReply PROVE RushInv'
    OBVIOUS
  <1> DEFINE p == IF Head(console) = "applied" THEN [plugin EXCEPT !.waiting = FALSE, !.confirmed = TRUE]
                                               ELSE Fail(plugin)
  <1>1. /\ plugin \in PluginType /\ console \in Seq(Commands) /\ console # <<>>
        /\ Head(console) \in {"applied", "rejected"}
        /\ UNCHANGED <<installed, script, engine, ready, mapStart>>
    BY DEF RushInv, RushTypeOK, RunReply
  <1>2. /\ p \in PluginType /\ SameScore(p)
        /\ Head(console) = "applied" => p.confirmed = TRUE /\ p.failedSent = plugin.failedSent
        /\ Head(console) # "applied" => p.confirmed = FALSE /\ p.failedSent = TRUE
    <2>1. CASE Head(console) = "applied"
      BY <2>1, <1>1 DEF PluginType, SameScore
    <2>2. CASE Head(console) # "applied"
      <3>1. p = Fail(plugin) /\ p \in PluginType
        BY <2>2, <1>1, FailType
      <3> QED
        BY <2>2, <3>1, <1>1 DEF Fail, PluginType, SameScore
    <2> QED
      BY <2>1, <2>2
  <1>3. Head(console) = "applied" => script.forced /\ script.astray = {}
    BY <1>1, SaysHead DEF RushInv, AnswerIsTrue
  <1>4. /\ Tail(console) \in Seq(Commands)
        /\ Says(Tail(console), "applied") => Says(console, "applied")
    BY <1>1, SaysTail
  <1>5. RushRoomsSettled(p)
    BY <1>2 DEF RushRoomsSettled
  <1>6. CASE Handled(p, TRUE) /\ console' = Tail(console) \o Ending(p)
    <2> HIDE DEF p
    <2>1. p.confirmed => script.forced /\ script.astray = {}
      BY <1>2, <1>3
    <2>2. plugin.failedSent => p.failedSent
      BY <1>2
    <2> QED
      BY <2>1, <2>2, <1>1, <1>2, <1>4, <1>5, <1>6, HandledInv
  <1>7. CASE /\ Head(console) = "rejected" /\ plugin.failedSent /\ plugin' = p
             /\ console' = Tail(console) /\ UNCHANGED <<snapshot, past>>
    <2>1. /\ plugin' \in PluginType /\ SameScore(plugin')
          /\ plugin'.confirmed = FALSE /\ plugin'.failedSent = TRUE
      BY <1>2, <1>7
    <2>2. ScoreAgrees' /\ Unplayed' /\ StillOpen' /\ WonByRounds' /\ RoomsAsTold'
      BY <2>1, <1>1, <1>7, SameScoreKeeps
    <2>3. RushTypeOK' /\ SavedAgrees' /\ AnswerIsTrue'
      BY <2>1, <1>1, <1>4, <1>7 DEF RushInv, RushTypeOK, SavedAgrees, SameScore, AnswerIsTrue
    <2>4. Confirmed' /\ AnswerAwaited'
      BY <2>1, <1>1, <1>7 DEF RushInv, Confirmed, FaultsReported, AnswerAwaited, RushRoomsSettled
    <2> QED
      BY <2>2, <2>3, <2>4 DEF RushInv, FaultsReported
  <1> QED
    BY <1>6, <1>7 DEF RunReply

LEMMA RunRoomsInv == RushInv /\ RunRooms => RushInv'
  <1> SUFFICES ASSUME RushInv, RunRooms PROVE RushInv'
    OBVIOUS
  <1>1. /\ console \in Seq(Commands) /\ console # <<>>
        /\ UNCHANGED <<installed, engine, ready, plugin, snapshot, mapStart, past>>
    BY DEF RushInv, RushTypeOK, RunRooms
  <1>2. /\ Tail(console) \in Seq(Commands)
        /\ Says(Tail(console), "applied") => Says(console, "applied")
    BY <1>1, SaysTail
  <1>3. SavedAgrees'
    BY <1>1 DEF RushInv, SavedAgrees
  <1>4. CASE script' = script /\ console' \in {Tail(console) \o <<>>, Tail(console) \o <<"rejected">>}
    <2>1. console' \in Seq(Commands) /\ (Says(console', "applied") => Says(console, "applied"))
      <3>1. <<>> \in Seq(Commands) /\ ~Says(<<>>, "applied")
        BY DEF Says
      <3>2. <<"rejected">> \in Seq(Commands) /\ ~Says(<<"rejected">>, "applied")
        BY DEF Says, Commands
      <3>3. CASE console' = Tail(console) \o <<>>
        BY <3>1, <3>3, <1>2, SaysConcat
      <3>4. CASE console' = Tail(console) \o <<"rejected">>
        BY <3>2, <3>4, <1>2, SaysConcat
      <3> QED
        BY <3>3, <3>4, <1>4
    <2>2. SameScore(plugin')
      BY <1>1 DEF SameScore
    <2>3. ScoreAgrees' /\ Unplayed' /\ StillOpen' /\ WonByRounds' /\ RoomsAsTold'
      BY <2>2, <1>1, <1>4, SameScoreKeeps
    <2>4. Confirmed' /\ AnswerAwaited' /\ AnswerIsTrue' /\ RushTypeOK'
      BY <2>1, <1>1, <1>4 DEF RushInv, Confirmed, FaultsReported, AnswerAwaited, RushRoomsSettled, AnswerIsTrue, RushTypeOK
    <2> QED
      BY <2>3, <2>4, <1>3 DEF RushInv, FaultsReported
  <1>5. CASE /\ engine.warmup \/ engine.rounds = 0
             /\ script' = Reset(TRUE, {}) /\ console' = Tail(console) \o <<"applied">>
    <2>1. console' \in Seq(Commands)
      <3>1. <<"applied">> \in Seq(Commands)
        BY DEF Commands
      <3> QED
        BY <3>1, <1>2, <1>5
    <2>2. engine.rounds = 0 /\ engine.at # "over"
      BY <1>5 DEF RushInv, ScoreAgrees, WonByRounds
    <2>3. /\ script' \in ScriptType /\ script'.forced = TRUE /\ script'.astray = {}
          /\ script'.room = StartRoom /\ script'.wins = NoWins /\ script'.winner = "none"
          /\ script'.convoy = FALSE
      BY <1>5, SetRoomsType DEF Reset
    <2>4. ScoreAgrees' /\ Unplayed' /\ WonByRounds'
      BY <2>2, <2>3, <1>1 DEF RushInv, ScoreAgrees, Unplayed, WonByRounds
    <2>5. StillOpen'
      BY <2>2, <2>3, <1>1 DEF RushInv, StillOpen, Decider, NoWins, RoundsToWin, MaxRounds, Side, StartRoom
    <2>6. Confirmed' /\ FaultsReported' /\ AnswerIsTrue' /\ RushTypeOK'
      BY <2>1, <2>3, <1>1 DEF RushInv, Confirmed, FaultsReported, RoomsAsTold, AnswerAwaited, RushRoomsSettled, AnswerIsTrue, RushTypeOK
    <2> QED
      BY <2>4, <2>5, <2>6, <1>3 DEF RushInv
  <1> QED
    BY <1>4, <1>5 DEF RunRooms

LEMMA WarmupEndInv == RushInv /\ (RunWarmupEnd \/ EngineEndsWarmup) => RushInv'
  <1> SUFFICES ASSUME RushInv, RunWarmupEnd \/ EngineEndsWarmup PROVE RushInv'
    OBVIOUS
  <1>1. /\ engine' = [engine EXCEPT !.warmup = FALSE]
        /\ UNCHANGED <<installed, script, ready, plugin, snapshot, mapStart, past>>
    BY DEF RunWarmupEnd, EngineEndsWarmup
  <1>2. /\ console' \in Seq(Commands)
        /\ Says(console', "applied") => Says(console, "applied")
    <2>1. CASE RunWarmupEnd
      BY <2>1, SaysTail DEF RunWarmupEnd, RushInv, RushTypeOK
    <2>2. CASE EngineEndsWarmup
      BY <2>2 DEF EngineEndsWarmup, RushInv, RushTypeOK
    <2> QED
      BY <2>1, <2>2
  <1>3. /\ engine' \in EngineType /\ ~engine'.warmup /\ engine'.rounds = engine.rounds /\ engine'.at = engine.at
    BY <1>1 DEF RushInv, RushTypeOK, EngineType
  <1>4. SavedAgrees' /\ ScoreAgrees' /\ Unplayed' /\ StillOpen' /\ WonByRounds'
    BY <1>1, <1>3 DEF RushInv, SavedAgrees, ScoreAgrees, Unplayed, StillOpen, WonByRounds, MapDecided, PluginWinner
  <1>5. Confirmed' /\ FaultsReported' /\ AnswerIsTrue' /\ RushTypeOK'
    BY <1>1, <1>2, <1>3 DEF RushInv, Confirmed, FaultsReported, RoomsAsTold, AnswerAwaited, RushRoomsSettled, AnswerIsTrue, RushTypeOK
  <1> QED
    BY <1>4, <1>5 DEF RushInv

\* A map that is loaded again in warmup has no answer under way
LEMMA ReloadMapInv == RushInv /\ ReloadMap => RushInv'
  <1> SUFFICES ASSUME RushInv, ReloadMap PROVE RushInv'
    OBVIOUS
  <1>1. PICK drawn \in Draws : script' = Reset(FALSE, drawn)
    BY DEF ReloadMap
  <1>2. /\ plugin.phase = "Warmup" /\ mapStart' = TRUE /\ console = <<>>
        /\ past' = [past EXCEPT !.faults = past.faults + 1]
        /\ UNCHANGED <<installed, engine, console, ready, plugin, snapshot>>
    BY DEF ReloadMap
  <1>3. engine.rounds = 0 /\ engine.at = "freeze" /\ past.told = "nothing"
    BY <1>2 DEF RushInv, ScoreAgrees
  <1>4. /\ past' \in PastType /\ past'.faults # 0 /\ past'.told = past.told
        /\ past'.strayed = past.strayed /\ past'.ended = past.ended
    BY <1>2 DEF RushInv, RushTypeOK, PastType
  <1>5. /\ script' \in ScriptType /\ script'.room = StartRoom /\ script'.wins = NoWins
        /\ script'.winner = "none" /\ script'.convoy = FALSE
    BY <1>1, ResetType DEF Reset
  <1>6. ScoreAgrees' /\ Unplayed' /\ WonByRounds' /\ SavedAgrees'
    BY <1>2, <1>3, <1>4, <1>5 DEF RushInv, ScoreAgrees, Unplayed, WonByRounds, SavedAgrees
  <1>7. StillOpen'
    BY <1>2, <1>3, <1>5 DEF RushInv, StillOpen, Decider, NoWins, RoundsToWin, MaxRounds, Side, StartRoom
  <1>8. Confirmed' /\ FaultsReported' /\ AnswerIsTrue' /\ RushTypeOK'
    BY <1>2, <1>3, <1>4, <1>5 DEF RushInv, Confirmed, FaultsReported, RoomsAsTold, AnswerAwaited, RushRoomsSettled,
                                  AnswerIsTrue, Says, RushTypeOK
  <1> QED
    BY <1>6, <1>7, <1>8 DEF RushInv

LEMMA MapStartsInv == RushInv /\ MapStarts => RushInv'
  <1> SUFFICES ASSUME RushInv, MapStarts PROVE RushInv'
    OBVIOUS
  <1>1. mapStart' = FALSE /\ UNCHANGED <<installed, script, engine, ready, snapshot, past>>
    BY DEF MapStarts
  <1>2. CASE plugin.phase = "Warmup"
    <2>1. plugin' = Fire(plugin) /\ console' = Append(console, "rooms")
      BY <1>2 DEF MapStarts
    <2>2. plugin \in PluginType /\ SameScore(plugin) /\ ready' \in BOOLEAN /\ mapStart' \in BOOLEAN
      BY <1>1 DEF RushInv, RushTypeOK, SameScore
    <2> QED
      BY <2>1, <2>2, <1>1, <1>2, FiredInv
  <1>3. CASE plugin.phase # "Warmup"
    <2>1. UNCHANGED <<plugin, console>>
      BY <1>3 DEF MapStarts
    <2>2. SameScore(plugin')
      BY <2>1 DEF SameScore
    <2>3. ScoreAgrees' /\ Unplayed' /\ StillOpen' /\ WonByRounds' /\ RoomsAsTold'
      BY <2>2, <1>1, SameScoreKeeps
    <2>4. RushTypeOK' /\ SavedAgrees' /\ AnswerIsTrue' /\ Confirmed' /\ AnswerAwaited'
      BY <2>1, <1>1, <1>3 DEF RushInv, RushTypeOK, SavedAgrees, AnswerIsTrue, Confirmed, FaultsReported, AnswerAwaited, RushRoomsSettled
    <2> QED
      BY <2>3, <2>4 DEF RushInv, FaultsReported
  <1> QED
    BY <1>2, <1>3

\* What was saved is all the score that a plugin needs
LEMMA ReloadPluginInv == RushInv /\ ReloadPlugin => RushInv'
  <1> SUFFICES ASSUME RushInv, ReloadPlugin PROVE RushInv'
    OBVIOUS
  <1> DEFINE p == Restored(snapshot)
  <1>1. /\ mapStart' = FALSE /\ snapshot' = Snapshot(plugin')
        /\ past' = [past EXCEPT !.faults = past.faults + 1]
        /\ UNCHANGED <<installed, script, engine, ready>>
    BY DEF ReloadPlugin
  <1>2. p \in PluginType /\ ready \in BOOLEAN
    BY RestoredType DEF RushInv, RushTypeOK
  <1>3. SameScore(p) /\ p.failedSent = plugin.failedSent
    BY DEF RushInv, SavedAgrees, SameScore, Restored
  <1>4. snapshot.phase = plugin.phase
    BY DEF RushInv, SavedAgrees
  <1>5. CASE plugin.phase = "Warmup"
    <2>1. plugin' = Fire(p) /\ console' = Append(console, "rooms")
      BY <1>4, <1>5 DEF ReloadPlugin
    <2> HIDE DEF p
    <2> QED
      BY <2>1, <1>1, <1>2, <1>3, <1>5, FiredInv
  <1>6. CASE plugin.phase # "Warmup"
    <2>1. plugin' = p /\ console' = console
      BY <1>4, <1>6 DEF ReloadPlugin
    <2> HIDE DEF p
    <2>2. /\ past' \in PastType /\ past'.strayed = past.strayed /\ past'.told = past.told
          /\ past'.unseen = past.unseen /\ past'.faults # 0
      BY <1>1 DEF RushInv, RushTypeOK, PastType
    <2>3. ScoreAgrees' /\ Unplayed' /\ StillOpen' /\ WonByRounds' /\ RoomsAsTold'
      BY <2>1, <2>2, <1>1, <1>3, SameScoreKeeps
    <2>4. SavedAgrees' /\ snapshot' \in SavedType
      BY <2>1, <1>1, <1>2, SnapshotType DEF SavedAgrees, Snapshot
    <2>5. RushTypeOK' /\ AnswerIsTrue' /\ Confirmed' /\ AnswerAwaited'
      BY <2>1, <2>2, <2>4, <1>1, <1>2, <1>3, <1>6
      DEF RushInv, RushTypeOK, AnswerIsTrue, Confirmed, FaultsReported, AnswerAwaited, RushRoomsSettled, SameScore
    <2> QED
      BY <2>3, <2>4, <2>5 DEF RushInv, FaultsReported
  <1> QED
    BY <1>5, <1>6

-----------------------------------------------------------------------------
\* From the first round on

\* GoLive keeps the score, which is empty, and says whether the rooms were confirmed
LEMMA LiveFields ==
    ASSUME RushInv
    PROVE  /\ plugin.phase \in {"Warmup", "Live", "Ended"} /\ GoLive(plugin) \in PluginType
           /\ GoLive(plugin).phase = "Live" /\ GoLive(plugin).round = 0 /\ GoLive(plugin).front = plugin.front
           /\ GoLive(plugin).wins = plugin.wins /\ GoLive(plugin).decided = plugin.decided
           /\ GoLive(plugin).failedSent = plugin.failedSent /\ GoLive(plugin).mismatchSent = plugin.mismatchSent
  <1>1. plugin \in PluginType
    BY DEF RushInv, RushTypeOK
  <1>2. GoLive(plugin) \in PluginType
    BY <1>1, LiveType
  <1> QED
    BY <1>1, <1>2 DEF GoLive, PluginType

LEMMA StartSignalInv == RushInv /\ StartSignal => RushInv'
  <1> SUFFICES ASSUME RushInv, StartSignal PROVE RushInv'
    OBVIOUS
  <1>1. /\ ~engine.warmup /\ plugin.phase = "Warmup" /\ plugin' = GoLive(plugin)
        /\ snapshot' = Snapshot(plugin') /\ ready' = FALSE
        /\ past' = [past EXCEPT !.told = Told(plugin), !.unseen = mapStart]
        /\ UNCHANGED <<installed, script, engine, console, mapStart>>
    BY DEF StartSignal
  <1> DEFINE l == GoLive(plugin)
  <1>2. /\ l \in PluginType /\ l.phase = "Live" /\ l.round = 0 /\ l.front = plugin.front
        /\ l.wins = plugin.wins /\ l.decided = plugin.decided
        /\ l.failedSent = plugin.failedSent /\ l.mismatchSent = plugin.mismatchSent
    BY LiveFields
  <1> HIDE DEF l
  <1>3. plugin' = l /\ engine.rounds = 0 /\ engine.at = "freeze" /\ plugin.round = 0
    BY <1>1 DEF l, RushInv, ScoreAgrees
  <1>4. /\ past' \in PastType /\ past'.unseen = mapStart /\ past'.strayed = past.strayed
        /\ past'.ended = past.ended /\ past'.faults = past.faults
        /\ past'.told = "confirmed" => plugin.confirmed
    BY <1>1 DEF RushInv, RushTypeOK, PastType, Told
  <1>5. SavedAgrees' /\ snapshot' \in SavedType
    BY <1>1, <1>2, <1>3, SnapshotType DEF SavedAgrees, Snapshot
  <1>6. ScoreAgrees' /\ Unplayed' /\ StillOpen' /\ WonByRounds'
    BY <1>1, <1>2, <1>3 DEF RushInv, ScoreAgrees, Unplayed, StillOpen, WonByRounds
  <1>7. FaultsReported' /\ Confirmed'
    BY <1>1, <1>2, <1>3, <1>4 DEF RushInv, Confirmed, FaultsReported, RoomsAsTold, AnswerAwaited
  <1>8. RushTypeOK' /\ AnswerIsTrue'
    BY <1>1, <1>2, <1>3, <1>4, <1>5 DEF RushInv, RushTypeOK, AnswerIsTrue
  <1> QED
    BY <1>5, <1>6, <1>7, <1>8 DEF RushInv

\* The room that the plugin expects is the one the script has in play, up to what the veto says of its slot
LEMMA FreezeEndInv ==
    ASSUME NEW seen \in BOOLEAN
    PROVE  RushInv /\ FreezeEnd(seen) => RushInv'
  <1> SUFFICES ASSUME RushInv, FreezeEnd(seen) PROVE RushInv'
    OBVIOUS
  <1> DEFINE live == IF plugin.phase = "Warmup" THEN GoLive(plugin) ELSE plugin
             astray == script.room \in script.astray /\ ~script.convoy
             p == [live EXCEPT !.mismatchSent = live.mismatchSent \/ (seen /\ ExpectsOther(live, script))]
  <1>1. /\ ~engine.warmup /\ engine.at = "freeze" /\ engine' = [engine EXCEPT !.at = "play"]
        /\ plugin' = p /\ snapshot' = (IF p # plugin THEN Snapshot(p) ELSE snapshot) /\ ready' = FALSE
        /\ past' = [past EXCEPT !.told = IF plugin.phase = "Warmup" THEN Told(plugin) ELSE past.told,
                                !.unseen = IF plugin.phase = "Warmup" THEN mapStart ELSE past.unseen,
                                !.strayed = past.strayed \/ (seen /\ astray)]
        /\ UNCHANGED <<installed, script, console, mapStart>>
    BY DEF FreezeEnd
  <1>2. plugin.phase # "Ended" /\ (plugin.phase = "Warmup" => engine.rounds = 0 /\ past.told = "nothing")
    BY <1>1 DEF RushInv, ScoreAgrees
  <1>3. /\ live \in PluginType /\ live.phase = "Live" /\ live.round = engine.rounds /\ live.front = plugin.front
        /\ live.wins = plugin.wins /\ live.decided = plugin.decided
        /\ live.failedSent = plugin.failedSent /\ live.mismatchSent = plugin.mismatchSent
    BY <1>2, LiveFields DEF RushInv, ScoreAgrees, RushTypeOK
  <1>4. ExpectsOther(live, script) <=> astray
    BY <1>1, <1>3 DEF ExpectsOther, RushInv, ScoreAgrees, StillOpen
  <1> HIDE DEF live
  <1>5. ExpectsOther(live, script) \in BOOLEAN
    BY DEF ExpectsOther
  <1>6. /\ p \in PluginType /\ p.phase = "Live" /\ p.round = engine.rounds /\ p.front = plugin.front
        /\ p.wins = plugin.wins /\ p.decided = plugin.decided /\ p.failedSent = plugin.failedSent
        /\ p.mismatchSent = (plugin.mismatchSent \/ (seen /\ ExpectsOther(live, script)))
    BY <1>3, <1>5 DEF PluginType
  <1> HIDE DEF p
  <1>7. astray \in BOOLEAN
    OBVIOUS
  <1>8. /\ past' \in PastType /\ past'.strayed = (past.strayed \/ (seen /\ astray))
        /\ past'.ended = past.ended /\ past'.faults = past.faults
        /\ plugin.phase = "Warmup" => past'.unseen = mapStart /\ (past'.told = "confirmed" => plugin.confirmed)
        /\ plugin.phase # "Warmup" => past'.unseen = past.unseen /\ past'.told = past.told
    BY <1>1, <1>7 DEF RushInv, RushTypeOK, PastType, Told
  <1>9. /\ engine' \in EngineType /\ engine'.warmup = engine.warmup /\ engine'.rounds = engine.rounds
        /\ engine'.at = "play"
    BY <1>1 DEF RushInv, RushTypeOK, EngineType
  <1>10. SavedAgrees' /\ snapshot' \in SavedType
    <2>1. CASE p # plugin
      BY <2>1, <1>1, <1>6, SnapshotType DEF SavedAgrees, Snapshot
    <2>2. CASE p = plugin
      BY <2>2, <1>1 DEF RushInv, SavedAgrees, RushTypeOK
    <2> QED
      BY <2>1, <2>2
  <1>11. ScoreAgrees' /\ Unplayed' /\ StillOpen' /\ WonByRounds'
    BY <1>1, <1>2, <1>6, <1>9 DEF RushInv, ScoreAgrees, Unplayed, StillOpen, WonByRounds
  <1>12. RoomsAsTold'
    <2>1. plugin'.mismatchSent <=> past'.strayed
      BY <1>1, <1>4, <1>6, <1>8 DEF RushInv, FaultsReported, RoomsAsTold
    <2>2. (past'.told = "confirmed" /\ ~past'.unseen) => script.astray = {}
      BY <1>8 DEF RushInv, Confirmed, FaultsReported, RoomsAsTold
    <2> QED
      BY <2>1, <2>2, <1>1 DEF RoomsAsTold
  <1>13. AnswerAwaited' /\ Confirmed'
    BY <1>1, <1>6, <1>8 DEF RushInv, Confirmed, FaultsReported, AnswerAwaited
  <1>14. RushTypeOK' /\ AnswerIsTrue'
    BY <1>1, <1>6, <1>8, <1>9, <1>10 DEF RushInv, RushTypeOK, AnswerIsTrue
  <1> QED
    BY <1>10, <1>11, <1>12, <1>13, <1>14 DEF RushInv, FaultsReported

\* The map ends for the plugin when it has ended for the engine
LEMMA FinishMapInv == RushInv /\ FinishMap => RushInv'
  <1> SUFFICES ASSUME RushInv, FinishMap PROVE RushInv'
    OBVIOUS
  <1>1. /\ plugin.phase = "Live" /\ plugin' = [plugin EXCEPT !.phase = "Ended"] /\ snapshot' = Snapshot(plugin')
        /\ UNCHANGED <<installed, script, engine, console, ready, mapStart, past>>
    BY DEF FinishMap
  <1>2. engine.at = "over"
    BY DEF FinishMap, RushInv, StillOpen, ScoreAgrees, MapDecided, MaxRounds, RushTypeOK, EngineType
  <1>3. /\ plugin' \in PluginType /\ plugin'.phase = "Ended" /\ plugin'.round = plugin.round
        /\ plugin'.front = plugin.front /\ plugin'.wins = plugin.wins /\ plugin'.decided = plugin.decided
        /\ plugin'.failedSent = plugin.failedSent /\ plugin'.mismatchSent = plugin.mismatchSent
    BY <1>1 DEF RushInv, RushTypeOK, PluginType
  <1>4. SavedAgrees' /\ snapshot' \in SavedType
    BY <1>1, <1>3, SnapshotType DEF SavedAgrees, Snapshot
  <1>5. ScoreAgrees' /\ Unplayed' /\ StillOpen' /\ WonByRounds'
    BY <1>1, <1>2, <1>3 DEF RushInv, ScoreAgrees, Unplayed, StillOpen, WonByRounds, MapDecided, PluginWinner
  <1>6. FaultsReported' /\ Confirmed' /\ RushTypeOK' /\ AnswerIsTrue'
    BY <1>1, <1>3, <1>4 DEF RushInv, RushTypeOK, AnswerIsTrue, Confirmed, FaultsReported, RoomsAsTold, AnswerAwaited
  <1> QED
    BY <1>4, <1>5, <1>6 DEF RushInv

LEMMA NextRoundType ==
    ASSUME NEW e \in EngineType, NEW over \in BOOLEAN, NEW winner
    PROVE  /\ NextRound(e, over, winner) \in EngineType
           /\ NextRound(e, over, winner).rounds = e.rounds + 1
           /\ NextRound(e, over, winner).warmup = e.warmup
           /\ NextRound(e, over, winner).at = IF over THEN "over" ELSE "freeze"
  <1> DEFINE place == IF over THEN "over" ELSE "freeze"
             drawn == IF winner = "draw" THEN e.draws + 1 ELSE e.draws
             rounds == e.rounds + 1
  <1>1. place \in {"freeze", "play", "over"} /\ drawn \in Nat /\ rounds \in Nat
    BY DEF EngineType
  <1>2. NextRound(e, over, winner) = [e EXCEPT !.rounds = rounds, !.at = place, !.draws = drawn]
    BY DEF NextRound
  <1>3. place = (IF over THEN "over" ELSE "freeze") /\ rounds = e.rounds + 1
    OBVIOUS
  <1> HIDE DEF place, drawn, rounds
  <1>4. /\ NextRound(e, over, winner) \in EngineType
        /\ NextRound(e, over, winner).rounds = rounds
        /\ NextRound(e, over, winner).warmup = e.warmup
        /\ NextRound(e, over, winner).at = place
    BY <1>1, <1>2 DEF EngineType
  <1> QED
    BY <1>3, <1>4

\* What a round does to the engine
LEMMA RoundCounted ==
    ASSUME RushInv, NEW winner, RoundEnd(winner)
    PROVE  /\ engine' \in EngineType /\ engine'.rounds = engine.rounds + 1 /\ engine'.rounds # 0
           /\ engine'.warmup = engine.warmup
           /\ engine'.at = IF MapOver(script', engine.rounds + 1) THEN "over" ELSE "freeze"
  <1>1. engine \in EngineType /\ engine.rounds \in Nat
    BY DEF RushInv, RushTypeOK, EngineType
  <1>2. MapOver(script', engine.rounds + 1) \in BOOLEAN
    BY DEF MapOver
  <1>3. engine' = NextRound(engine, MapOver(script', engine.rounds + 1), winner)
    BY DEF RoundEnd
  <1> QED
    BY <1>1, <1>2, <1>3, NextRoundType

\* A round is drawn: both counts stay, and the map is over when it was the last
LEMMA DrawnScore ==
    ASSUME RushInv, RoundEnd("draw")
    PROVE  /\ ScoreAgrees' /\ StillOpen' /\ WonByRounds' /\ plugin' \in PluginType /\ script' \in ScriptType
           /\ engine' \in EngineType /\ engine'.rounds # 0
  <1>1. /\ engine.at = "play" /\ script' = script
        /\ plugin.phase = "Live" /\ plugin' = [plugin EXCEPT !.round = plugin.round + 1]
        /\ past' = past
    BY DEF RoundEnd, RoundScored, RecordRound, RushInv, ScoreAgrees, RushTypeOK, PluginType
  <1>2. /\ script.winner = "none" /\ plugin.decided = "none" /\ engine.rounds < MaxRounds /\ engine.rounds \in Nat
        /\ \A s \in Side : script.wins[s] < RoundsToWin /\ script.wins[s] \in Nat
        /\ script.room = StartRoom + script.wins["T"] - script.wins["CT"]
        /\ script.convoy <=> Decider(script.wins)
        /\ plugin.front = script.room /\ plugin.wins = script.wins /\ plugin.round = engine.rounds
    BY <1>1 DEF RushInv, StillOpen, ScoreAgrees, RushTypeOK, EngineType, ScriptType, Wins
  <1>3. /\ plugin' \in PluginType /\ plugin'.phase = "Live" /\ plugin'.round = plugin.round + 1
        /\ plugin'.front = plugin.front /\ plugin'.wins = plugin.wins /\ plugin'.decided = "none"
    BY <1>1, <1>2 DEF RushInv, RushTypeOK, PluginType
  <1>4. /\ engine' \in EngineType /\ engine'.rounds = engine.rounds + 1 /\ engine'.warmup = engine.warmup
        /\ engine'.at = IF engine.rounds + 1 = MaxRounds THEN "over" ELSE "freeze"
    BY <1>1, <1>2, RoundCounted DEF MapOver, RoundsToWin
  <1>5. ScoreAgrees'
    BY <1>1, <1>2, <1>3, <1>4 DEF RushInv, ScoreAgrees
  <1>6. StillOpen'
    BY <1>1, <1>2, <1>3, <1>4 DEF StillOpen, MaxRounds
  <1>7. WonByRounds'
    BY <1>1, <1>2, <1>3, <1>4 DEF WonByRounds, MapDecided, PluginWinner, ScriptWinner, MaxRounds, Side, StartRoom
  <1> QED
    BY <1>1, <1>2, <1>3, <1>4, <1>5, <1>6, <1>7 DEF RushInv, RushTypeOK

\* A side wins a round: both counts move the front alike, both give the map to the side that wins in the
\* enemy's castle or for the eighth time, and with neither the front still tells the wins apart
LEMMA WonScore ==
    ASSUME RushInv, NEW w \in Side, RoundEnd(w)
    PROVE  /\ ScoreAgrees' /\ StillOpen' /\ WonByRounds' /\ plugin' \in PluginType /\ script' \in ScriptType
           /\ engine' \in EngineType /\ engine'.rounds # 0
  <1> DEFINE wins == [script.wins EXCEPT ![w] = script.wins[w] + 1]
             castle == script.room = FinalRoom[w]
             q == [plugin EXCEPT !.round = plugin.round + 1]
  <1>1. /\ engine.at = "play" /\ plugin.phase = "Live" /\ past' = past
    BY DEF RoundEnd, RushInv, ScoreAgrees, RushTypeOK, PluginType
  <1>2. /\ script.winner = "none" /\ plugin.decided = "none" /\ engine.rounds < MaxRounds /\ engine.rounds \in Nat
        /\ script.wins \in [Side -> Nat] /\ script.room \in 0..6
        /\ \A s \in Side : script.wins[s] < RoundsToWin
        /\ script.room = StartRoom + script.wins["T"] - script.wins["CT"]
        /\ plugin.front = script.room /\ plugin.wins = script.wins /\ plugin.round = engine.rounds
        /\ w \in {"T", "CT"}
    BY <1>1 DEF RushInv, StillOpen, ScoreAgrees, RushTypeOK, EngineType, ScriptType, Wins, Side
  <1>3. /\ wins \in [Side -> Nat] /\ wins[w] = script.wins[w] + 1
        /\ \A s \in Side : s # w => wins[s] = script.wins[s]
    BY <1>2
  <1>4. /\ script' \in ScriptType /\ script'.wins = wins
        /\ script'.winner = IF castle THEN w ELSE "none"
        /\ script'.room = IF castle THEN script.room ELSE Forward(script.room, w)
        /\ ~castle => (script'.convoy <=> Decider(wins))
    <2>1. script \in ScriptType /\ w # "draw"
      BY <1>2 DEF RushInv, RushTypeOK
    <2>2. script' = RoundScored(script, w)
      BY DEF RoundEnd
    <2>3. CASE castle
      <3>1. script' = [script EXCEPT !.wins = wins, !.winner = w]
        BY <2>1, <2>2, <2>3 DEF RoundScored
      <3> QED
        BY <2>1, <2>3, <3>1, <1>3 DEF ScriptType, Wins, Winner
    <2>4. CASE ~castle
      <3>1. script' = [script EXCEPT !.wins = wins, !.room = Forward(script.room, w), !.convoy = Decider(wins)]
        BY <2>1, <2>2, <2>4 DEF RoundScored
      <3>2. Forward(script.room, w) \in 0..6
        BY <2>4, <1>2 DEF Forward, FinalRoom
      <3>3. Decider(wins) \in BOOLEAN
        BY DEF Decider
      <3> HIDE DEF wins
      <3> QED
        BY <2>1, <2>4, <3>1, <3>2, <3>3, <1>2, <1>3 DEF ScriptType, Wins, Winner
    <2> QED
      BY <2>3, <2>4
  <1>5. /\ plugin' \in PluginType /\ plugin'.phase = "Live" /\ plugin'.round = engine.rounds + 1
        /\ plugin'.wins = wins /\ plugin'.front = script'.room
        /\ plugin'.decided = IF castle \/ wins[w] >= RoundsToWin THEN w ELSE "none"
    <2>1. plugin \in PluginType /\ w # "draw"
      BY <1>2 DEF RushInv, RushTypeOK
    <2>2. /\ q \in PluginType /\ q.decided = "none" /\ q.phase = "Live" /\ q.round = engine.rounds + 1
          /\ q.wins = script.wins /\ q.front = script.room
      BY <2>1, <1>1, <1>2 DEF PluginType
    <2>3. plugin' = RecordRound(q, w)
      BY <1>1 DEF RoundEnd
    <2> HIDE DEF q
    <2>4. plugin' = [q EXCEPT !.wins = wins, !.front = script'.room,
                              !.decided = IF castle \/ wins[w] >= RoundsToWin THEN w ELSE "none"]
      BY <2>1, <2>2, <2>3, <1>4 DEF RecordRound
    <2>5. script'.room \in 0..6
      BY <1>4 DEF ScriptType
    <2> HIDE DEF wins, castle
    <2> QED
      BY <2>2, <2>4, <2>5, <1>3 DEF PluginType, Wins, Winner
  <1>6. /\ engine' \in EngineType /\ engine'.rounds = engine.rounds + 1 /\ engine'.warmup = engine.warmup
        /\ engine'.at = IF castle \/ engine.rounds + 1 = MaxRounds \/ wins[w] = RoundsToWin THEN "over" ELSE "freeze"
    <2>1. (\E s \in Side : wins[s] = RoundsToWin) <=> wins[w] = RoundsToWin
      BY <1>2, <1>3 DEF RoundsToWin
    <2>2. script'.winner # "none" <=> castle
      BY <1>2, <1>4
    <2> HIDE DEF wins, castle
    <2> QED
      BY <2>1, <2>2, <1>4, RoundCounted DEF MapOver
  <1> HIDE DEF wins, q
  <1>7. ScoreAgrees'
    BY <1>1, <1>2, <1>4, <1>5, <1>6 DEF RushInv, ScoreAgrees
  <1>8. StillOpen'
    <2> SUFFICES ASSUME engine'.at # "over" PROVE StillOpen'
      BY DEF StillOpen
    <2>1. ~castle /\ wins[w] # RoundsToWin /\ engine.rounds + 1 # MaxRounds
      BY <1>6
    <2>2. \A s \in Side : wins[s] < RoundsToWin
      BY <2>1, <1>2, <1>3 DEF RoundsToWin
    <2>3. script'.room = StartRoom + wins["T"] - wins["CT"]
      BY <2>1, <1>2, <1>3, <1>4 DEF Forward, StartRoom, Side
    <2> QED
      BY <2>1, <2>2, <2>3, <1>2, <1>3, <1>4, <1>5, <1>6 DEF StillOpen, MaxRounds, RoundsToWin
  <1>9. WonByRounds'
    <2> SUFFICES ASSUME engine'.at = "over" PROVE WonByRounds'
      BY DEF WonByRounds
    <2>1. CASE castle
      <3>1. plugin'.decided = w /\ script'.winner = w /\ w # "none"
        BY <2>1, <1>2, <1>4, <1>5
      <3>2. PluginWinner(plugin') = w
        BY <3>1 DEF PluginWinner
      <3>3. ScriptWinner(script') = w
        BY <3>1 DEF ScriptWinner
      <3> QED
        BY <3>1, <3>2, <3>3, <1>2, <1>6 DEF WonByRounds, MapDecided
    <2>2. CASE ~castle /\ wins[w] = RoundsToWin
      <3>1. plugin'.decided = w /\ script'.winner = "none"
        BY <2>2, <1>4, <1>5 DEF RoundsToWin
      <3>2. PluginWinner(plugin') = w
        BY <3>1, <1>2 DEF PluginWinner
      <3>3. ScriptWinner(script') = w
        BY <2>2, <3>1, <1>2, <1>3, <1>4 DEF ScriptWinner, RoundsToWin, Side
      <3> QED
        BY <3>1, <3>2, <3>3, <1>2, <1>6 DEF WonByRounds, MapDecided
    <2>3. CASE ~castle /\ wins[w] # RoundsToWin
      <3>1. plugin'.decided = "none" /\ script'.winner = "none" /\ engine.rounds + 1 = MaxRounds
        BY <2>3, <1>2, <1>3, <1>4, <1>5, <1>6 DEF RoundsToWin
      <3>2. script'.room = StartRoom + wins["T"] - wins["CT"]
        BY <2>3, <1>2, <1>3, <1>4 DEF Forward, StartRoom, Side
      <3>3. PluginWinner(plugin') = ScriptWinner(script')
        BY <3>1, <3>2, <1>3, <1>4, <1>5 DEF PluginWinner, ScriptWinner, StartRoom, Side
      <3> QED
        BY <3>1, <3>3, <1>2, <1>5, <1>6 DEF WonByRounds, MapDecided, MaxRounds
    <2> QED
      BY <2>1, <2>2, <2>3
  <1> QED
    BY <1>2, <1>4, <1>5, <1>6, <1>7, <1>8, <1>9

LEMMA RoundEndInv ==
    ASSUME NEW winner \in Side \cup {"draw"}
    PROVE  RushInv /\ RoundEnd(winner) => RushInv'
  <1> SUFFICES ASSUME RushInv, RoundEnd(winner) PROVE RushInv'
    OBVIOUS
  <1>1. /\ ScoreAgrees' /\ StillOpen' /\ WonByRounds' /\ plugin' \in PluginType /\ script' \in ScriptType
        /\ engine' \in EngineType /\ engine'.rounds # 0
    BY DrawnScore, WonScore
  <1>2. /\ engine.at = "play" /\ console = <<>> /\ plugin.phase = "Live" /\ snapshot' = Snapshot(plugin')
        /\ UNCHANGED <<installed, console, ready, mapStart, past>>
    BY DEF RoundEnd, RushInv, ScoreAgrees, RushTypeOK, PluginType
  <1>3. script'.astray = script.astray /\ script'.forced = script.forced
    BY DEF RoundEnd, RoundScored, RushInv, RushTypeOK, ScriptType
  <1>4. /\ plugin'.phase = "Live" /\ plugin'.failedSent = plugin.failedSent
        /\ plugin'.mismatchSent = plugin.mismatchSent
    BY <1>2 DEF RoundEnd, RecordRound, RushInv, RushTypeOK, PluginType
  <1>5. SavedAgrees' /\ snapshot' \in SavedType
    BY <1>1, <1>2, SnapshotType DEF SavedAgrees, Snapshot
  <1>6. Unplayed' /\ Confirmed' /\ FaultsReported'
    BY <1>1, <1>2, <1>3, <1>4 DEF RushInv, Unplayed, Confirmed, FaultsReported, RoomsAsTold, AnswerAwaited
  <1>7. RushTypeOK' /\ AnswerIsTrue'
    BY <1>1, <1>2, <1>5 DEF RushInv, RushTypeOK, AnswerIsTrue, Says
  <1> QED
    BY <1>1, <1>5, <1>6, <1>7 DEF RushInv

-----------------------------------------------------------------------------
\* Every step keeps the invariant
LEMMA RushKeeps == RushInv /\ [RushNext]_rushVars => RushInv'
  <1> SUFFICES ASSUME RushInv, [RushNext]_rushVars PROVE RushInv'
    OBVIOUS
  <1>1. CASE LineupChanges \/ DeadlinePasses \/ CheckLineup \/ ReplyOverdue
    BY <1>1, LineupChangesInv, DeadlinePassesInv, CheckLineupInv, ReplyOverdueInv
  <1>2. CASE RunRooms \/ RunReply \/ RunWarmupEnd \/ EngineEndsWarmup \/ StartSignal
    BY <1>2, RunRoomsInv, RunReplyInv, WarmupEndInv, StartSignalInv
  <1>3. CASE \E seen \in BOOLEAN : FreezeEnd(seen)
    BY <1>3, FreezeEndInv
  <1>4. CASE \E winner \in Side \cup {"draw"} : RoundEnd(winner)
    BY <1>4, RoundEndInv
  <1>5. CASE FinishMap \/ ReloadMap \/ MapStarts \/ ReloadPlugin
    BY <1>5, FinishMapInv, ReloadMapInv, MapStartsInv, ReloadPluginInv
  <1>6. CASE UNCHANGED rushVars
    BY <1>6 DEF rushVars, RushInv, RushTypeOK, SavedAgrees, ScoreAgrees, Unplayed, StillOpen, WonByRounds, MapDecided, PluginWinner,
                AnswerIsTrue, Confirmed, FaultsReported, RoomsAsTold, AnswerAwaited, RushRoomsSettled
  <1> QED
    BY <1>1, <1>2, <1>3, <1>4, <1>5, <1>6 DEF RushNext

\* The score of the plugin in the words of the property
LEMMA InvMirrors == RushInv => RushIsMirrored
  <1> SUFFICES ASSUME RushInv PROVE FrontAgrees
    BY DEF RushInv, FaultsReported, RushIsMirrored
  <1> SUFFICES ASSUME plugin.phase \in {"Live", "Ended"} PROVE FrontAgrees
    BY DEF FrontAgrees
  <1>1. engine.at = "freeze" => (Decider(plugin.wins) <=> script.convoy)
    BY DEF RushInv, ScoreAgrees, StillOpen
  <1>2. engine.at # "over" => ~MapDecided(plugin)
    BY DEF RushInv, ScoreAgrees, StillOpen, MapDecided, MaxRounds, RushTypeOK, EngineType
  <1> QED
    BY <1>1, <1>2 DEF FrontAgrees, RushInv, ScoreAgrees, WonByRounds

\* ScoreTracker.cs 94-96, docs/CONTRACTS.md 122-124, plugin/README.md 61: for any draws of the script, any
\* number of drawn rounds and of reloads of map and plugin, the plugin's count mirrors the script's, what it
\* tells of the rooms is so, and no warmup it ends leaves the rooms unanswered
THEOREM RushIsMirroredHolds == RushSpec => []RushIsMirrored
  <1>1. RushInit => RushInv
    BY RushStarts
  <1>2. RushInv /\ [RushNext]_rushVars => RushInv'
    BY RushKeeps
  <1>3. RushInv => RushIsMirrored
    BY InvMirrors
  <1> QED
    BY <1>1, <1>2, <1>3, PTL DEF RushSpec

(***************************************************************************)
(* Ratings and rollbacks                                                   *)
(***************************************************************************)

\* A rating and the history of a player

LedgerEntry == [game : Game, score : {"win", "loss", "draw"}, start : Seq(Game), voided : BOOLEAN]
RatingType == [results : Seq(Game), played : Nat, wins : Nat, losses : Nat]

Standing(h) == {i \in 1..Len(h) : ~h[i].voided}
OfScore(h, score) == {i \in Standing(h) : h[i].score = score}
Rank(C, i) == Cardinality({j \in C : j <= i})

\* The results are the games at the places C, in their order
Lists(results, h, C) ==
    /\ Len(results) = Cardinality(C)
    /\ \A i \in C : results[Rank(C, i)] = h[i].game

\* A rating is the replay of a history
Fits(r, h) ==
    /\ Lists(r.results, h, Standing(h))
    /\ r.played = Cardinality(Standing(h))
    /\ r.wins = Cardinality(OfScore(h, "win")) /\ r.losses = Cardinality(OfScore(h, "loss"))

\* A history is finite, and so are its parts
LEMMA Places ==
    ASSUME NEW n \in Nat, NEW C \in SUBSET (1..n)
    PROVE  /\ IsFiniteSet(C) /\ Cardinality(C) \in Nat
           /\ \A i \in 0..n : IsFiniteSet({j \in C : j <= i}) /\ Rank(C, i) \in Nat /\ Rank(C, i) <= Cardinality(C)
           /\ Rank(C, 0) = 0 /\ Rank(C, n) = Cardinality(C)
<1>1. IsFiniteSet(C) /\ Cardinality(C) \in Nat
    <2>1. IsFiniteSet(1..n)
        BY FS_Interval
    <2> QED BY <2>1, FS_Subset, FS_CardinalityType
<1>2. ASSUME NEW i \in 0..n
      PROVE  IsFiniteSet({j \in C : j <= i}) /\ Rank(C, i) \in Nat /\ Rank(C, i) <= Cardinality(C)
    <2>1. {j \in C : j <= i} \in SUBSET C
        OBVIOUS
    <2> HIDE DEF Rank
    <2> QED BY <1>1, <2>1, FS_Subset, FS_CardinalityType DEF Rank
<1>3. {j \in C : j <= 0} = {} /\ {j \in C : j <= n} = C
    <2>1. \A j \in C : j \in 1..n /\ ~(j <= 0) /\ j <= n
        OBVIOUS
    <2> QED BY <2>1
<1> QED BY <1>1, <1>2, <1>3, FS_EmptySet DEF Rank

\* The rank goes up by one at each place
LEMMA NextRank ==
    ASSUME NEW n \in Nat, NEW C \in SUBSET (1..n), NEW i \in 1..n
    PROVE  /\ Rank(C, i) = IF i \in C THEN Rank(C, i - 1) + 1 ELSE Rank(C, i - 1)
           /\ i \in C => Rank(C, i) \in 1..Cardinality(C)
<1> DEFINE D == {j \in C : j <= i - 1}
<1>0. i - 1 \in 0..n /\ ~(i <= i - 1) /\ i <= i /\ \A j \in C : j \in 1..n /\ (j <= i <=> j <= i - 1 \/ j = i)
    OBVIOUS
<1>1. IsFiniteSet(D) /\ Cardinality(D) \in Nat /\ i \notin D
    <2>1. IsFiniteSet(D) /\ Rank(C, i - 1) \in Nat
        BY <1>0, Places
    <2>2. i \notin D
        BY <1>0
    <2> QED BY <2>1, <2>2 DEF Rank
<1>2. {j \in C : j <= i} = IF i \in C THEN D \cup {i} ELSE D
    BY <1>0
<1>3. Rank(C, i - 1) = Cardinality(D)
    BY DEF Rank
<1>4. Rank(C, i) = IF i \in C THEN Cardinality(D) + 1 ELSE Cardinality(D)
    <2> HIDE DEF D
    <2> QED BY <1>1, <1>2, FS_AddElement DEF Rank
<1>5. Rank(C, i) \in Nat /\ Rank(C, i) <= Cardinality(C) /\ Cardinality(C) \in Nat
    <2>1. i \in 0..n
        OBVIOUS
    <2> QED BY <2>1, Places
<1> HIDE DEF D
<1> QED BY <1>1, <1>3, <1>4, <1>5

\* A match that is applied is counted once, after all others
LEMMA NewResult ==
    ASSUME NEW h \in Seq(LedgerEntry), NEW r \in RatingType, Fits(r, h), NEW e \in LedgerEntry, ~e.voided
    PROVE  Played(r, e.game, e.score) \in RatingType /\ Fits(Played(r, e.game, e.score), Append(h, e))
<1> DEFINE n == Len(h)
           k == Append(h, e)
           C == Standing(h)
           q == Played(r, e.game, e.score)
<1>1. /\ n \in Nat /\ k \in Seq(LedgerEntry) /\ Len(k) = n + 1 /\ k[n + 1] = e /\ \A i \in 1..n : k[i] = h[i]
      /\ \A i \in 1..(n + 1) : i \in 1..n \/ i = n + 1
    BY AppendProperties, LenProperties
<1>2. /\ r.results \in Seq(Game) /\ r.played \in Nat /\ r.wins \in Nat /\ r.losses \in Nat
      /\ e.game \in Game
    BY DEF RatingType, LedgerEntry
<1>3. C \in SUBSET (1..n) /\ n + 1 \notin C
    BY <1>1 DEF Standing
<1>4. Standing(k) = C \cup {n + 1}
    <2> HIDE DEF k, n
    <2>1. Standing(k) = {i \in 1..(n + 1) : ~k[i].voided}
        BY <1>1 DEF Standing
    <2>2. C = {i \in 1..n : ~h[i].voided}
        BY DEF Standing, n
    <2> QED BY <1>1, <2>1, <2>2
<1>5. ASSUME NEW score
      PROVE  /\ OfScore(h, score) \in SUBSET (1..n) /\ n + 1 \notin OfScore(h, score)
             /\ OfScore(k, score) = IF e.score = score THEN OfScore(h, score) \cup {n + 1} ELSE OfScore(h, score)
    <2> HIDE DEF k, n, C
    <2>1. OfScore(k, score) = {i \in C \cup {n + 1} : k[i].score = score}
        BY <1>4 DEF OfScore
    <2>2. OfScore(h, score) = {i \in C : h[i].score = score}
        BY DEF OfScore, C
    <2> QED BY <1>1, <1>3, <2>1, <2>2
<1>6. ASSUME NEW S \in SUBSET (1..n), n + 1 \notin S
      PROVE  Cardinality(S \cup {n + 1}) = Cardinality(S) + 1 /\ Cardinality(S) \in Nat
    <2> HIDE DEF n
    <2>1. IsFiniteSet(S) /\ Cardinality(S) \in Nat
        BY <1>1, Places
    <2> QED BY <1>6, <2>1, FS_AddElement
<1>7. /\ q.results = Append(r.results, e.game) /\ q.played = r.played + 1
      /\ q.wins = r.wins + One(e.score = "win") /\ q.losses = r.losses + One(e.score = "loss")
    BY DEF Played
<1>8. q \in RatingType
    <2>1. Append(r.results, e.game) \in Seq(Game)
        BY <1>2, AppendProperties
    <2>2. One(e.score = "win") \in Nat /\ One(e.score = "loss") \in Nat
        BY DEF One
    <2> QED BY <1>2, <2>1, <2>2 DEF Played, RatingType
<1>9. Lists(q.results, k, Standing(k))
    <2> HIDE DEF n, C, k, q
    <2>1. Len(r.results) = Cardinality(C) /\ \A i \in C : r.results[Rank(C, i)] = h[i].game
        BY DEF Fits, Lists, C
    <2>2. /\ Len(q.results) = Len(r.results) + 1 /\ q.results[Len(r.results) + 1] = e.game
          /\ \A i \in 1..Len(r.results) : q.results[i] = r.results[i]
        BY <1>2, <1>7, AppendProperties
    <2>3. Cardinality(Standing(k)) = Cardinality(C) + 1
        BY <1>3, <1>4, <1>6
    <2>4. ASSUME NEW i \in C
          PROVE  q.results[Rank(Standing(k), i)] = k[i].game
        <3>1. {j \in C \cup {n + 1} : j <= i} = {j \in C : j <= i}
            BY <1>1, <1>3
        <3>2. Rank(Standing(k), i) = Rank(C, i)
            BY <1>4, <3>1 DEF Rank
        <3>3. Rank(C, i) \in 1..Cardinality(C)
            BY <1>1, <1>3, NextRank
        <3> QED BY <1>1, <1>3, <2>1, <2>2, <3>2, <3>3
    <2>5. q.results[Rank(Standing(k), n + 1)] = k[n + 1].game
        <3>3. \A j \in C \cup {n + 1} : j <= n + 1
            BY <1>1, <1>3
        <3>1. {j \in C \cup {n + 1} : j <= n + 1} = C \cup {n + 1}
            BY <3>3
        <3>2. Rank(Standing(k), n + 1) = Cardinality(C) + 1
            BY <1>4, <2>3, <3>1 DEF Rank
        <3> QED BY <1>1, <2>1, <2>2, <3>2
    <2> QED BY <1>4, <2>1, <2>2, <2>3, <2>4, <2>5 DEF Lists
<1>10. q.played = Cardinality(Standing(k))
    <2> HIDE DEF n, C, k, q
    <2>1. r.played = Cardinality(C)
        BY DEF Fits, C
    <2> QED BY <1>3, <1>4, <1>6, <1>7, <2>1
<1>11. q.wins = Cardinality(OfScore(k, "win")) /\ q.losses = Cardinality(OfScore(k, "loss"))
    <2> HIDE DEF n, C, k, q
    <2>1. r.wins = Cardinality(OfScore(h, "win")) /\ r.losses = Cardinality(OfScore(h, "loss"))
        BY DEF Fits
    <2>2. \A score : Cardinality(OfScore(k, score)) = Cardinality(OfScore(h, score)) + One(e.score = score)
        <3>1. \A score : Cardinality(OfScore(h, score)) \in Nat
            BY <1>5, <1>6
        <3> QED BY <1>5, <1>6, <3>1 DEF One
    <2> QED BY <1>7, <2>1, <2>2
<1>12. Fits(q, k)
    <2> HIDE DEF q, k
    <2> QED BY <1>9, <1>10, <1>11 DEF Fits
<1> QED BY <1>8, <1>12

\* The places that are left
Remaining(h, void) == {i \in Standing(h) : h[i].game \notin void}

\* A replay returns the games of the entries that are neither void nor become so, in their order
LEMMA ReplayLists ==
    ASSUME NEW h \in Seq(LedgerEntry), NEW void, h # <<>> => h[1].start = <<>>
    PROVE  Replay(h, void) \in Seq(Game) /\ Lists(Replay(h, void), h, Remaining(h, void))
<1> DEFINE n == Len(h)
           B == Seq(Game)
           C == Remaining(h, void)
           Omitted(i) == h[i].voided \/ h[i].game \in void
           step == [i \in 1..n |-> [s \in B |-> IF Omitted(i) THEN s ELSE Append(s, h[i].game)]]
           start == IF h = <<>> THEN <<>> ELSE h[1].start
           Runs(f) == f = [i \in 0..n |-> IF i = 0 THEN start ELSE IF Omitted(i) THEN f[i - 1] ELSE Append(f[i - 1], h[i].game)]
<1>1. /\ n \in Nat /\ \A i \in 1..n : h[i] \in LedgerEntry /\ h[i].game \in Game /\ h[i].voided \in BOOLEAN
      /\ start = <<>> /\ <<>> \in B /\ Len(<<>>) = 0
    <2>1. n \in Nat /\ \A i \in 1..n : h[i] \in LedgerEntry
        BY LenProperties, ElementOfSeq
    <2>2. \A e \in LedgerEntry : e.game \in Game /\ e.voided \in BOOLEAN
        BY DEF LedgerEntry
    <2>3. start = <<>>
        OBVIOUS
    <2>4. <<>> \in B /\ Len(<<>>) = 0
        BY EmptySeq
    <2> HIDE DEF start, B, n
    <2> QED BY <2>1, <2>2, <2>3, <2>4
<1>2. C \in SUBSET (1..n) /\ \A i \in 1..n : i \in C <=> ~Omitted(i)
    BY DEF Remaining, Standing
<1>3. \E f : Runs(f)
    <2>1. step \in [1..n -> [B -> B]]
        <3>1. ASSUME NEW i \in 1..n, NEW s \in B
              PROVE  (IF Omitted(i) THEN s ELSE Append(s, h[i].game)) \in B
            <4> HIDE DEF Omitted
            <4> QED BY <1>1, AppendProperties
        <3> HIDE DEF B, n, Omitted
        <3> QED BY <3>1
    <2>2. PICK f \in [0..n -> B] : LoopOf(f, n, start, step)
        <3> HIDE DEF step, B, n, start
        <3> QED BY <1>1, <2>1, LoopSteps
    <2>3. ASSUME NEW i \in 0..n, i # 0
          PROVE  step[i][f[i - 1]] = IF Omitted(i) THEN f[i - 1] ELSE Append(f[i - 1], h[i].game)
        <3>1. i \in 1..n /\ i - 1 \in 0..n
            BY <2>3, <1>1
        <3>2. f[i - 1] \in B
            BY <2>2, <3>1
        <3> HIDE DEF B, n, Omitted
        <3> QED BY <3>1, <3>2
    <2>4. Runs(f)
        <3> HIDE DEF B, n, Omitted, step, start
        <3> QED BY <2>2, <2>3 DEF LoopOf
    <2> QED BY <2>4
<1>4. \E f : Runs(f) /\ Replay(h, void) = f[n]
    <2> DEFINE g == CHOOSE f : Runs(f)
    <2>1. Runs(g)
        <3> HIDE DEF Runs
        <3> QED BY <1>3
    <2>2. Replay(h, void) = g[n]
        BY Zenon DEF Replay
    <2> QED BY <2>1, <2>2
<1>5. PICK f : Runs(f) /\ Replay(h, void) = f[n]
    BY <1>4
<1> DEFINE Good(i) == /\ f[i] \in B /\ Len(f[i]) = Rank(C, i)
                      /\ \A j \in C : j <= i => f[i][Rank(C, j)] = h[j].game
           T == {i \in 0..n : Good(i)}
<1>6. 0 \in T
    <2>1. f[0] = <<>> /\ Rank(C, 0) = 0 /\ 0 \in 0..n
        BY <1>1, <1>2, <1>5, Places
    <2>2. \A j \in C : ~(j <= 0)
        BY <1>2
    <2> HIDE DEF n, B, C
    <2> QED BY <1>1, <2>1, <2>2
<1>7. ASSUME NEW i \in 0..n, i < n, i \in T
      PROVE  i + 1 \in T
    <2>1. i + 1 \in 1..n /\ i + 1 \in 0..n /\ i + 1 # 0 /\ (i + 1) - 1 = i
        BY <1>1, <1>7
    <2>2. f[i + 1] = IF Omitted(i + 1) THEN f[i] ELSE Append(f[i], h[i + 1].game)
        <3> HIDE DEF n, Omitted, start
        <3> QED BY <1>5, <2>1
    <2>3. Good(i) /\ Rank(C, i) \in Nat
        <3> HIDE DEF Good, C
        <3> QED BY <1>1, <1>2, <1>7, Places
    <2>4. Rank(C, i + 1) = IF i + 1 \in C THEN Rank(C, i) + 1 ELSE Rank(C, i)
        <3>1. \A x \in 1..n : Rank(C, x) = IF x \in C THEN Rank(C, x - 1) + 1 ELSE Rank(C, x - 1)
            <4>1. n \in Nat /\ C \in SUBSET (1..n)
                BY <1>1, <1>2
            <4> HIDE DEF n, C
            <4> QED BY <4>1, NextRank
        <3> HIDE DEF n, C
        <3> QED BY <2>1, <3>1
    <2>5. ASSUME NEW j \in C, j <= i
          PROVE  Rank(C, j) \in 1..Rank(C, i)
        <3>1. j \in 1..n /\ IsFiniteSet({x \in C : x <= i}) /\ {x \in C : x <= j} \in SUBSET {x \in C : x <= i}
            <4>1. IsFiniteSet({x \in C : x <= i})
                <5> HIDE DEF n, C
                <5> QED BY <1>1, <1>2, Places
            <4>2. j \in 1..n /\ \A x \in C : x \in 1..n
                BY <1>2
            <4>3. \A x \in C : x <= j => x <= i
                <5>1. i \in Nat /\ j \in Nat /\ \A x \in C : x \in Nat
                    BY <1>1, <4>2
                <5> HIDE DEF C, n
                <5> QED BY <2>5, <5>1
            <4> HIDE DEF C
            <4> QED BY <4>1, <4>2, <4>3
        <3>2. Rank(C, j) <= Rank(C, i)
            <4> HIDE DEF C
            <4> QED BY <3>1, FS_Subset DEF Rank
        <3>3. Rank(C, j) \in 1..Cardinality(C) /\ Cardinality(C) \in Nat
            <4> HIDE DEF n, C
            <4> QED BY <1>1, <1>2, <3>1, NextRank, Places
        <3> QED BY <2>3, <3>2, <3>3
    <2>6. CASE Omitted(i + 1)
        <3>1. i + 1 \notin C /\ f[i + 1] = f[i]
            BY <1>2, <2>1, <2>2, <2>6
        <3>2. \A j \in C : j <= i + 1 => j <= i
            <4>1. \A j \in C : j \in 1..n
                BY <1>2
            <4> HIDE DEF C
            <4> QED BY <2>1, <3>1, <4>1
        <3> HIDE DEF C, B, n
        <3> QED BY <2>1, <2>3, <2>4, <3>1, <3>2
    <2>7. CASE ~Omitted(i + 1)
        <3>1. i + 1 \in C /\ f[i + 1] = Append(f[i], h[i + 1].game) /\ h[i + 1].game \in Game
            BY <1>1, <1>2, <2>1, <2>2, <2>7
        <3>2. /\ f[i + 1] \in B /\ Len(f[i + 1]) = Rank(C, i) + 1 /\ f[i + 1][Rank(C, i) + 1] = h[i + 1].game
              /\ \A x \in 1..Rank(C, i) : f[i + 1][x] = f[i][x]
            <4> HIDE DEF C
            <4> QED BY <2>3, <3>1, AppendProperties
        <3>3. \A j \in C : j <= i + 1 => j <= i \/ j = i + 1
            <4>1. \A j \in C : j \in 1..n
                BY <1>2
            <4> HIDE DEF C
            <4> QED BY <2>1, <4>1
        <3>4. ASSUME NEW j \in C, j <= i + 1
              PROVE  f[i + 1][Rank(C, j)] = h[j].game
            <4>1. CASE j <= i
                <5> HIDE DEF C, B
                <5> QED BY <2>3, <2>5, <3>2, <4>1
            <4>2. CASE j = i + 1
                <5> HIDE DEF C, B
                <5> QED BY <2>4, <3>1, <3>2, <4>2
            <4> QED BY <3>3, <3>4, <4>1, <4>2
        <3> HIDE DEF C, B, n
        <3> QED BY <2>1, <2>4, <3>1, <3>2, <3>4
    <2> QED BY <2>6, <2>7
<1>8. n \in T
    <2>1. \A i \in 0..n : i \in T
        <3> HIDE DEF T, n
        <3> QED BY <1>1, <1>6, <1>7, UpTo
    <2> QED BY <1>1, <2>1
<1>9. Rank(C, n) = Cardinality(C) /\ \A j \in C : j <= n
    <2>1. \A j \in C : j \in 1..n
        BY <1>2
    <2> HIDE DEF C, n
    <2> QED BY <1>1, <1>2, <2>1, Places
<1>10. f[n] \in Seq(Game) /\ Lists(f[n], h, C)
    <2> HIDE DEF C, n
    <2> QED BY <1>8, <1>9 DEF Lists
<1> QED BY <1>5, <1>10

\* Taking places out of a set
LEMMA Without ==
    ASSUME NEW n \in Nat, NEW C \in SUBSET (1..n), NEW V \in SUBSET C
    PROVE  /\ Cardinality(C \ V) \in Nat /\ Cardinality(V) \in Nat
           /\ Cardinality(C) = Cardinality(C \ V) + Cardinality(V)
<1>1. V \in SUBSET (1..n) /\ C \ V \in SUBSET (1..n)
    OBVIOUS
<1>2. /\ IsFiniteSet(V) /\ Cardinality(V) \in Nat /\ IsFiniteSet(C \ V) /\ Cardinality(C \ V) \in Nat
    BY <1>1, Places
<1>3. (C \ V) \cup V = C /\ (C \ V) \cap V = {}
    OBVIOUS
<1>4. Cardinality((C \ V) \cup V) = Cardinality(C \ V) + Cardinality(V) - Cardinality((C \ V) \cap V)
    BY <1>2, FS_Union
<1>5. Cardinality({}) = 0
    BY FS_EmptySet
<1> QED BY <1>2, <1>3, <1>4, <1>5

\* Places of different games are as many as their games
LEMMA AsManyGames ==
    ASSUME NEW h, NEW V, IsFiniteSet(V), \A i, j \in V : h[i].game = h[j].game => i = j
    PROVE  Cardinality({h[i].game : i \in V}) = Cardinality(V)
<1> DEFINE T == {h[i].game : i \in V}
           f == [i \in V |-> h[i].game]
<1>1. f \in [V -> T] /\ \A i \in V : f[i] = h[i].game
    OBVIOUS
<1>2. DOMAIN f = V /\ \A i, j \in V : f[i] = f[j] => i = j
    BY <1>1
<1>3. \A g \in T : \E i \in V : f[i] = g
    BY <1>1
<1>4. ExistsBijection(V, T)
    <2> HIDE DEF f, T
    <2>1. f \in Injection(V, T)
        BY <1>1, <1>2 DEF Injection, IsInjective
    <2>2. f \in Surjection(V, T)
        BY <1>1, <1>3 DEF Surjection
    <2> QED BY <2>1, <2>2 DEF ExistsBijection, Bijection
<1> HIDE DEF T
<1>5. Cardinality(T) = Cardinality(V)
    BY <1>4, FS_Bijection
<1> QED BY <1>5 DEF T

\* What a rollback makes void in a history
Voided(h, void) == [i \in 1..Len(h) |-> [h[i] EXCEPT !.voided = @ \/ h[i].game \in void]]

\* A rollback changes no game, score or start, and leaves standing what remains
LEMMA VoidedIs ==
    ASSUME NEW h \in Seq(LedgerEntry), NEW void
    PROVE  /\ Voided(h, void) \in Seq(LedgerEntry) /\ Len(Voided(h, void)) = Len(h)
           /\ \A i \in 1..Len(h) : /\ Voided(h, void)[i].game = h[i].game
                                   /\ Voided(h, void)[i].score = h[i].score
                                   /\ Voided(h, void)[i].start = h[i].start
                                   /\ Voided(h, void)[i].voided <=> h[i].voided \/ h[i].game \in void
           /\ Standing(Voided(h, void)) = Remaining(h, void)
           /\ void = {} => Voided(h, void) = h
<1> DEFINE n == Len(h)
           k == Voided(h, void)
<1>1. n \in Nat /\ h \in [1..n -> LedgerEntry] /\ \A i \in 1..n : h[i] \in LedgerEntry
    BY LenProperties, ElementOfSeq
<1>2. ASSUME NEW i \in 1..n
      PROVE  /\ k[i] \in LedgerEntry /\ k[i].game = h[i].game /\ k[i].score = h[i].score /\ k[i].start = h[i].start
             /\ k[i].voided <=> h[i].voided \/ h[i].game \in void
             /\ void = {} => k[i] = h[i]
    <2> DEFINE flag == h[i].voided \/ h[i].game \in void
    <2>1. k[i] = [h[i] EXCEPT !.voided = flag]
        BY DEF Voided
    <2>2. flag \in BOOLEAN /\ h[i] \in LedgerEntry
        BY <1>1 DEF LedgerEntry
    <2>3. flag <=> h[i].voided \/ h[i].game \in void
        OBVIOUS
    <2>4. void = {} => flag = h[i].voided
        BY <2>2 DEF LedgerEntry
    <2> HIDE DEF flag, k
    <2>5. k[i] \in LedgerEntry
        BY <2>1, <2>2 DEF LedgerEntry
    <2>6. k[i].game = h[i].game /\ k[i].score = h[i].score /\ k[i].start = h[i].start /\ k[i].voided = flag
        BY <2>1, <2>2 DEF LedgerEntry
    <2>7. flag = h[i].voided => k[i] = h[i]
        BY <2>1, <2>2 DEF LedgerEntry
    <2> QED BY <2>3, <2>4, <2>5, <2>6, <2>7
<1>3. k \in [1..n -> LedgerEntry] /\ DOMAIN k = 1..n
    BY <1>2 DEF Voided
<1>4. k \in Seq(LedgerEntry) /\ Len(k) = n
    <2> HIDE DEF k, n
    <2> QED BY <1>1, <1>3, SeqDef, LenProperties
<1>5. Standing(k) = Remaining(h, void)
    <2> HIDE DEF k
    <2>1. Standing(k) = {i \in 1..n : ~k[i].voided}
        BY <1>4 DEF Standing
    <2>2. Remaining(h, void) = {i \in 1..n : ~h[i].voided /\ h[i].game \notin void}
        BY DEF Remaining, Standing
    <2> QED BY <1>2, <2>1, <2>2
<1>6. void = {} => k = h
    <2> HIDE DEF k, n
    <2> QED BY <1>1, <1>2, <1>3
<1> QED BY <1>2, <1>4, <1>5, <1>6

\* A history in which losses become void fits the rating that the rollback computes
LEMMA VoidFits ==
    ASSUME NEW p \in RatedPlayer, event[p] \in Seq(LedgerEntry), rating[p] \in RatingType, Fits(rating[p], event[p]),
           \A i, j \in 1..Len(event[p]) : event[p][i].game = event[p][j].game => i = j,
           event[p] # <<>> => event[p][1].start = <<>>,
           NEW V \in SUBSET OfScore(event[p], "loss"), NEW void, void = {event[p][i].game : i \in V}
    PROVE  WithoutVoid(p, void) \in RatingType /\ Fits(WithoutVoid(p, void), Voided(event[p], void))
<1> DEFINE h == event[p]
           r == rating[p]
           n == Len(h)
           C == Standing(h)
           k == Voided(h, void)
           q == WithoutVoid(p, void)
<1>1. n \in Nat /\ \A i \in 1..n : h[i] \in LedgerEntry
    BY LenProperties, ElementOfSeq
<1>2. /\ C \in SUBSET (1..n) /\ V \in SUBSET C /\ V \in SUBSET (1..n) /\ \A i \in V : h[i].score = "loss"
    BY DEF Standing, OfScore
<1>3. \A i \in 1..n : h[i].game \in void <=> i \in V
    BY <1>2
<1>4. Standing(k) = C \ V
    <2> HIDE DEF k, n, C, h
    <2>1. Standing(k) = Remaining(h, void)
        BY VoidedIs DEF h, k
    <2>2. Remaining(h, void) = {i \in C : h[i].game \notin void}
        BY DEF Remaining, C
    <2> QED BY <1>2, <1>3, <2>1, <2>2
<1>5. \A i \in 1..n : k[i].game = h[i].game /\ k[i].score = h[i].score
    BY VoidedIs
<1>6. Cardinality(void) = Cardinality(V)
    <2>1. IsFiniteSet(V)
        BY <1>1, <1>2, Places
    <2> QED BY <1>2, <2>1, AsManyGames
<1>7. q.results = Replay(h, void) /\ q.results \in Seq(Game) /\ Lists(q.results, k, Standing(k))
    <2>1. q.results = Replay(h, void)
        BY DEF WithoutVoid
    <2>2. Replay(h, void) \in Seq(Game) /\ Lists(Replay(h, void), h, Remaining(h, void))
        BY ReplayLists
    <2>3. Standing(k) = Remaining(h, void)
        BY VoidedIs
    <2> HIDE DEF q, k, h, n
    <2>4. Lists(q.results, k, Standing(k))
        BY <1>2, <1>4, <1>5, <2>1, <2>2, <2>3 DEF Lists
    <2> QED BY <2>1, <2>2, <2>4
<1>8. /\ Cardinality(C) = Cardinality(C \ V) + Cardinality(V)
      /\ Cardinality(C) \in Nat /\ Cardinality(C \ V) \in Nat /\ Cardinality(V) \in Nat
    <2> HIDE DEF C, n
    <2> QED BY <1>1, <1>2, Without, Places
<1>9. r.played = Cardinality(C) /\ r.wins = Cardinality(OfScore(h, "win")) /\ r.losses = Cardinality(OfScore(h, "loss"))
    BY DEF Fits
<1>10. q.played = Cardinality(Standing(k)) /\ q.played \in Nat
    <2>1. q.played = Minus(r.played, Cardinality(void))
        BY DEF WithoutVoid
    <2> HIDE DEF C, k, h, q, r
    <2> QED BY <1>4, <1>6, <1>8, <1>9, <2>1 DEF Minus
<1>11. /\ OfScore(k, "win") = OfScore(h, "win") /\ OfScore(k, "loss") = OfScore(h, "loss") \ V
    <2> HIDE DEF k, h, C, n
    <2>1. \A score : OfScore(k, score) = {i \in C \ V : k[i].score = score}
        BY <1>4 DEF OfScore
    <2>2. \A score : OfScore(h, score) = {i \in C : h[i].score = score}
        BY DEF OfScore, C
    <2>3. \A i \in C : k[i].score = h[i].score
        BY <1>2, <1>5
    <2>4. OfScore(k, "win") = OfScore(h, "win")
        <3>1. \A i \in C : h[i].score = "win" => i \notin V
            BY <1>2
        <3>2. {i \in C \ V : k[i].score = "win"} = {i \in C : h[i].score = "win"}
            BY <2>3, <3>1
        <3> HIDE DEF OfScore
        <3> QED BY <2>1, <2>2, <3>2
    <2>5. OfScore(k, "loss") = OfScore(h, "loss") \ V
        BY <2>1, <2>2, <2>3
    <2> QED BY <2>4, <2>5
<1>12. {g \in void : \E i \in 1..Len(event[p]) : event[p][i].game = g /\ event[p][i].score = "loss"} = void
    BY <1>2
<1>13. {g \in void : \E i \in 1..Len(event[p]) : event[p][i].game = g /\ event[p][i].score = "win"} = {}
    BY <1>2, <1>3
<1>14. q.wins = Cardinality(OfScore(k, "win")) /\ q.wins \in Nat
    <2>1. q.wins = Minus(r.wins, Cardinality({}))
        BY <1>13 DEF WithoutVoid
    <2>2. OfScore(h, "win") \in SUBSET (1..n)
        BY <1>2 DEF OfScore
    <2>3. Cardinality(OfScore(h, "win")) \in Nat
        <3> HIDE DEF n, h
        <3> QED BY <1>1, <2>2, Places
    <2> HIDE DEF k, h, q, r
    <2> QED BY <1>9, <1>11, <2>1, <2>3, FS_EmptySet DEF Minus
<1>15. q.losses = Cardinality(OfScore(k, "loss")) /\ q.losses \in Nat
    <2>1. q.losses = Minus(r.losses, Cardinality(void))
        BY <1>12 DEF WithoutVoid
    <2>2. OfScore(h, "loss") \in SUBSET (1..n)
        BY <1>2 DEF OfScore
    <2>3. /\ Cardinality(OfScore(h, "loss")) = Cardinality(OfScore(h, "loss") \ V) + Cardinality(V)
          /\ Cardinality(OfScore(h, "loss") \ V) \in Nat /\ Cardinality(V) \in Nat
        <3>1. V \in SUBSET OfScore(h, "loss")
            OBVIOUS
        <3> HIDE DEF n, h
        <3> QED BY <1>1, <2>2, <3>1, Without
    <2> HIDE DEF k, h, q, r
    <2>4. Cardinality(OfScore(k, "loss")) = Cardinality(OfScore(h, "loss") \ V)
        BY <1>11
    <2>5. q.losses = Minus(Cardinality(OfScore(h, "loss")), Cardinality(V))
        BY <1>6, <1>9, <2>1
    <2>6. \A x, y, z \in Nat : x = y + z => Minus(x, z) = y
        BY DEF Minus
    <2> QED BY <2>3, <2>4, <2>5, <2>6
<1>16. q \in RatingType
    <2>1. q = [results |-> q.results, played |-> q.played, wins |-> q.wins, losses |-> q.losses]
        BY DEF WithoutVoid
    <2> HIDE DEF q
    <2> QED BY <1>7, <1>10, <1>14, <1>15, <2>1 DEF RatingType
<1>17. Fits(q, k)
    <2> HIDE DEF q, k
    <2> QED BY <1>7, <1>10, <1>14, <1>15 DEF Fits
<1> QED BY <1>16, <1>17
-----------------------------------------------------------------------------
\* The invariant of the ledger

\* The games among these that are lost in a history and still count
LossesIn(h, games) == {h[i].game : i \in {j \in OfScore(h, "loss") : h[j].game \in games}}

LedgerType ==
    /\ event \in [RatedPlayer -> Seq(LedgerEntry)] /\ rating \in [RatedPlayer -> RatingType]
    /\ undone \in SUBSET Game /\ held \in [RatedPlayer -> Tx \cup {NoTx}]
    /\ tx = [t \in Tx |-> tx[t]]
    /\ \A t \in Tx : tx[t].step \in {"idle", "apply", "claim", "read", "replay"}

\* All entries of a game come from one result of it, and a player has one of each game at most
HistoryInv ==
    /\ \E result \in [Game -> 0..2] : \A p \in RatedPlayer : \A i \in 1..Len(event[p]) :
          /\ p \in PlayersOf(event[p][i].game)
          /\ event[p][i].score = ScoreOf(p, event[p][i].game, result[event[p][i].game])
    /\ \A p \in RatedPlayer : \A i, j \in 1..Len(event[p]) : event[p][i].game = event[p][j].game => i = j
    /\ \A p \in RatedPlayer : event[p] # <<>> => event[p][1].start = <<>>
    /\ \A g \in undone : Rated(g)

\* What RatingIsReplay says, player by player
RatingInv ==
    \A p \in RatedPlayer :
        /\ Fits(rating[p], event[p])
        /\ \A i \in 1..Len(event[p]) :
              event[p][i].voided <=> event[p][i].score = "loss" /\ event[p][i].game \in undone

\* A match is applied by one transaction, which holds the rows it has locked
ApplyInv(t) ==
    Doing(t, "apply") =>
        /\ tx[t] = [step |-> "apply", game |-> tx[t].game, winner |-> tx[t].winner, exclude |-> tx[t].exclude,
                    todo |-> tx[t].todo]
        /\ tx[t].game \in Game /\ tx[t].winner \in 0..2 /\ ~Rated(tx[t].game)
        /\ \A p \in PlayersOf(tx[t].game) \ tx[t].todo : held[p] = t

OneApply == \A t, u \in Tx : Doing(t, "apply") /\ Doing(u, "apply") /\ tx[t].game = tx[u].game => t = u

\* A rollback goes for games the cheater has won
CheaterInv(t) ==
    tx[t].step \in {"claim", "read"} =>
        /\ tx[t] = [step |-> tx[t].step, cheater |-> tx[t].cheater, games |-> tx[t].games]
        /\ tx[t].cheater \in RatedPlayer
        /\ \A g \in tx[t].games : \E i \in 1..Len(event[tx[t].cheater]) :
              event[tx[t].cheater][i].game = g /\ event[tx[t].cheater][i].score = "win"

\* What it has read of the victims is true until it commits, as is what it has computed for those it holds
ReplayInv(t) ==
    Doing(t, "replay") =>
        /\ tx[t] = [step |-> "replay", games |-> tx[t].games, void |-> tx[t].void, todo |-> tx[t].todo, new |-> tx[t].new]
        /\ \A g \in tx[t].games : Rated(g)
        /\ tx[t].void = [p \in RatedPlayer |-> LossesIn(event[p], tx[t].games)]
        /\ tx[t].todo \subseteq RatedPlayer /\ DOMAIN tx[t].new \subseteq RatedPlayer
        /\ \A p \in RatedPlayer : tx[t].void[p] # {} => p \in tx[t].todo \cup DOMAIN tx[t].new
        /\ \A p \in DOMAIN tx[t].new : held[p] = t /\ tx[t].new[p] = WithoutVoid(p, tx[t].void[p])

\* No game is claimed twice
OneClaim == \A t, u \in Tx : t # u => Claimed(t) \cap Claimed(u) = {}

WorkInv(t) == ApplyInv(t) /\ CheaterInv(t) /\ ReplayInv(t)

LedgerInv == LedgerType /\ HistoryInv /\ RatingInv /\ OneApply /\ OneClaim /\ \A t \in Tx : WorkInv(t)

-----------------------------------------------------------------------------
\* Initially there is no result
LEMMA LedgerStarts == LedgerInit => LedgerInv
<1> SUFFICES ASSUME LedgerInit PROVE LedgerInv
    OBVIOUS
<1>1. \A p \in RatedPlayer : /\ event[p] = <<>> /\ rating[p] = NewRating /\ held[p] = NoTx
                             /\ Len(event[p]) = 0 /\ event[p] \in Seq(LedgerEntry)
    BY EmptySeq DEF LedgerInit
<1>2. tx = [t \in Tx |-> NoWork] /\ \A t \in Tx : tx[t].step = "idle"
    BY DEF LedgerInit, NoWork
<1>3. NewRating \in RatingType /\ NewRating.results = <<>> /\ Len(NewRating.results) = 0
    BY EmptySeq DEF NewRating, RatingType
<1>4. LedgerType
    BY <1>1, <1>2, <1>3 DEF LedgerInit, LedgerType
<1>5. \A p \in RatedPlayer : Standing(event[p]) = {} /\ OfScore(event[p], "win") = {} /\ OfScore(event[p], "loss") = {}
    BY <1>1 DEF Standing, OfScore
<1>6. HistoryInv
    <2>1. [g \in Game |-> 0] \in [Game -> 0..2]
        OBVIOUS
    <2>2. \A p \in RatedPlayer : \A i \in 1..Len(event[p]) : FALSE
        BY <1>1
    <2>3. undone = {}
        BY DEF LedgerInit
    <2> QED BY <1>1, <2>1, <2>2, <2>3 DEF HistoryInv
<1>7. RatingInv
    <2>1. \A p \in RatedPlayer : \A i \in 1..Len(event[p]) : FALSE
        BY <1>1
    <2>2. \A p \in RatedPlayer : Fits(NewRating, event[p])
        <3>1. NewRating.played = 0 /\ NewRating.wins = 0 /\ NewRating.losses = 0 /\ Cardinality({}) = 0
            BY FS_EmptySet DEF NewRating
        <3> QED BY <1>3, <1>5, <3>1 DEF Fits, Lists
    <2> QED BY <1>1, <2>1, <2>2 DEF RatingInv
<1>8. OneApply /\ OneClaim /\ \A t \in Tx : WorkInv(t)
    BY <1>2 DEF OneApply, OneClaim, WorkInv, ApplyInv, CheaterInv, ReplayInv, Doing, Claimed
<1> QED BY <1>4, <1>6, <1>7, <1>8 DEF LedgerInv

\* The property is that of each player
LEMMA ReplayIsRating == RatingInv => RatingIsReplay
<1> SUFFICES ASSUME RatingInv, NEW p \in RatedPlayer
             PROVE  LET Count(score) == Cardinality({i \in Counts(p) : event[p][i].score = score})
                    IN  /\ Len(rating[p].results) = Cardinality(Counts(p))
                        /\ \A i \in Counts(p) :
                              rating[p].results[Cardinality({j \in Counts(p) : j <= i})] = event[p][i].game
                        /\ rating[p].played = Cardinality(Counts(p))
                        /\ rating[p].wins = Count("win") /\ rating[p].losses = Count("loss")
                        /\ \A i \in 1..Len(event[p]) :
                              event[p][i].voided <=> event[p][i].score = "loss" /\ event[p][i].game \in undone
    BY DEF RatingIsReplay
<1>1. Counts(p) = Standing(event[p])
    BY DEF Counts, Standing
<1>2. Fits(rating[p], event[p])
    BY DEF RatingInv
<1>3. \A i \in 1..Len(event[p]) : event[p][i].voided <=> event[p][i].score = "loss" /\ event[p][i].game \in undone
    BY DEF RatingInv
<1> QED BY <1>1, <1>2, <1>3 DEF Fits, Lists, Rank, OfScore

-----------------------------------------------------------------------------
\* Steps that write no result

\* What is rated is a game
LEMMA RatedIsGame ==
    ASSUME LedgerType, NEW g, Rated(g)
    PROVE  g \in Game
<1>1. PICK p \in RatedPlayer : \E i \in 1..Len(event[p]) : event[p][i].game = g
    BY DEF Rated
<1>2. event[p] \in Seq(LedgerEntry)
    BY DEF LedgerType
<1>3. PICK i \in 1..Len(event[p]) : event[p][i].game = g
    BY <1>1
<1>4. event[p][i] \in LedgerEntry
    BY <1>2, ElementOfSeq
<1> QED BY <1>3, <1>4 DEF LedgerEntry

\* A rollback keeps its view while nobody touches what it holds, or gives a loss to or takes one from its games
LEMMA ReplayKept ==
    ASSUME NEW u \in Tx, ReplayInv(u), tx'[u] = tx[u],
           \A g : Rated(g) => Rated(g)',
           \A p \in RatedPlayer : LossesIn(event'[p], tx[u].games) = LossesIn(event[p], tx[u].games),
           \A p \in RatedPlayer : held[p] = u => held'[p] = u /\ event'[p] = event[p] /\ rating'[p] = rating[p]
    PROVE  ReplayInv(u)'
<1> SUFFICES ASSUME Doing(u, "replay")
             PROVE  (/\ tx[u] = [step |-> "replay", games |-> tx[u].games, void |-> tx[u].void, todo |-> tx[u].todo, new |-> tx[u].new]
                     /\ \A g \in tx[u].games : Rated(g)
                     /\ tx[u].void = [p \in RatedPlayer |-> LossesIn(event[p], tx[u].games)]
                     /\ tx[u].todo \subseteq RatedPlayer /\ DOMAIN tx[u].new \subseteq RatedPlayer
                     /\ \A p \in RatedPlayer : tx[u].void[p] # {} => p \in tx[u].todo \cup DOMAIN tx[u].new
                     /\ \A p \in DOMAIN tx[u].new : held[p] = u /\ tx[u].new[p] = WithoutVoid(p, tx[u].void[p]))'
    BY DEF ReplayInv, Doing
<1>1. /\ tx[u] = [step |-> "replay", games |-> tx[u].games, void |-> tx[u].void, todo |-> tx[u].todo, new |-> tx[u].new]
      /\ \A g \in tx[u].games : Rated(g)
      /\ tx[u].void = [p \in RatedPlayer |-> LossesIn(event[p], tx[u].games)]
      /\ tx[u].todo \subseteq RatedPlayer /\ DOMAIN tx[u].new \subseteq RatedPlayer
      /\ \A p \in RatedPlayer : tx[u].void[p] # {} => p \in tx[u].todo \cup DOMAIN tx[u].new
      /\ \A p \in DOMAIN tx[u].new : held[p] = u /\ tx[u].new[p] = WithoutVoid(p, tx[u].void[p])
    BY DEF ReplayInv
<1>2. [p \in RatedPlayer |-> LossesIn(event[p], tx[u].games)] = [p \in RatedPlayer |-> LossesIn(event'[p], tx[u].games)]
    OBVIOUS
<1>3. ASSUME NEW p \in DOMAIN tx[u].new
      PROVE  held'[p] = u /\ tx[u].new[p] = WithoutVoid(p, tx[u].void[p])'
    <2>1. p \in RatedPlayer /\ held[p] = u /\ tx[u].new[p] = WithoutVoid(p, tx[u].void[p])
        BY <1>1
    <2>2. held'[p] = u /\ event'[p] = event[p] /\ rating'[p] = rating[p]
        BY <2>1
    <2>3. WithoutVoid(p, tx[u].void[p])' = WithoutVoid(p, tx[u].void[p])
        BY <2>2 DEF WithoutVoid
    <2> QED BY <2>1, <2>2, <2>3
<1> QED BY <1>1, <1>2, <1>3

\* Nor does any other transaction lose anything when one works on
LEMMA OthersKeep ==
    ASSUME LedgerInv, NEW t \in Tx, UNCHANGED <<event, rating>>,
           \A u \in Tx \ {t} : tx'[u] = tx[u],
           \A p \in RatedPlayer : held[p] \in Tx \ {t} => held'[p] = held[p]
    PROVE  \A u \in Tx \ {t} : WorkInv(u)'
<1> SUFFICES ASSUME NEW u \in Tx \ {t} PROVE WorkInv(u)'
    OBVIOUS
<1>1. tx'[u] = tx[u] /\ WorkInv(u)
    BY DEF LedgerInv
<1>2. \A g : Rated(g)' <=> Rated(g)
    BY DEF Rated
<1>3. \A p \in RatedPlayer : held[p] = u => held'[p] = u
    OBVIOUS
<1>4. ApplyInv(u)'
    <2>1. \A p \in PlayersOf(tx[u].game) : ApplyInv(u) /\ Doing(u, "apply") => p \in RatedPlayer
        BY LineupAssumption DEF ApplyInv, PlayersOf
    <2> QED BY <1>1, <1>2, <1>3, <2>1 DEF WorkInv, ApplyInv, Doing, PlayersOf
<1>5. CheaterInv(u)'
    BY <1>1 DEF WorkInv, CheaterInv
<1>6. ReplayInv(u)'
    BY <1>1, <1>2, <1>3, ReplayKept DEF WorkInv
<1> QED BY <1>4, <1>5, <1>6 DEF WorkInv

\* A step that writes no result keeps the invariant when it keeps what is about its own transaction
LEMMA WorkKeeps ==
    ASSUME LedgerInv, NEW t \in Tx, UNCHANGED <<event, rating, undone>>,
           NEW w, tx' = [tx EXCEPT ![t] = w], w.step \in {"idle", "apply", "claim", "read", "replay"},
           held' \in [RatedPlayer -> Tx \cup {NoTx}],
           \A p \in RatedPlayer : held[p] \in Tx \ {t} => held'[p] = held[p],
           WorkInv(t)',
           w.step = "apply" => \A u \in Tx \ {t} : Doing(u, "apply") => tx[u].game # w.game,
           w.step \in {"read", "replay"} => \A u \in Tx \ {t} : Claimed(u) \cap w.games = {}
    PROVE  LedgerInv'
<1>1. tx'[t] = w /\ \A u \in Tx \ {t} : tx'[u] = tx[u]
    BY DEF LedgerInv, LedgerType
<1>2. LedgerType'
    <2>1. tx' = [u \in Tx |-> tx'[u]]
        BY DEF LedgerInv, LedgerType
    <2>2. \A u \in Tx : tx'[u].step \in {"idle", "apply", "claim", "read", "replay"}
        BY <1>1 DEF LedgerInv, LedgerType
    <2> QED BY <2>1, <2>2 DEF LedgerInv, LedgerType
<1>3. HistoryInv'
    <2>1. \A g \in undone : Rated(g)'
        BY DEF LedgerInv, HistoryInv, Rated
    <2> QED BY <2>1 DEF LedgerInv, HistoryInv
<1>4. RatingInv'
    BY DEF LedgerInv, RatingInv
<1>5. OneApply'
    <2>1. \A u, v \in Tx : u = v \/ (u # t /\ v # t) \/ (u = t /\ v # t) \/ (u # t /\ v = t)
        OBVIOUS
    <2>2. ASSUME NEW u \in Tx \ {t} PROVE ~(Doing(t, "apply")' /\ Doing(u, "apply")' /\ tx'[t].game = tx'[u].game)
        BY <1>1 DEF Doing
    <2>3. ASSUME NEW u \in Tx \ {t}, NEW v \in Tx \ {t}, Doing(u, "apply")', Doing(v, "apply")', tx'[u].game = tx'[v].game
          PROVE  u = v
        BY <1>1, <2>3 DEF LedgerInv, OneApply, Doing
    <2> QED BY <2>1, <2>2, <2>3 DEF OneApply
<1>6. OneClaim'
    <2>1. \A u \in Tx \ {t} : Claimed(u)' = Claimed(u)
        BY <1>1 DEF Claimed
    <2>2. \A u \in Tx \ {t} : Claimed(u)' \cap Claimed(t)' = {}
        BY <1>1, <2>1 DEF Claimed
    <2>3. \A u, v \in Tx \ {t} : u # v => Claimed(u)' \cap Claimed(v)' = {}
        BY <2>1 DEF LedgerInv, OneClaim
    <2> QED BY <2>2, <2>3 DEF OneClaim
<1>7. \A u \in Tx : WorkInv(u)'
    BY <1>1, OthersKeep
<1> QED BY <1>2, <1>3, <1>4, <1>5, <1>6, <1>7 DEF LedgerInv

\* Who stops or has nothing to do is bound by nothing
LEMMA NoWorkInv ==
    ASSUME NEW t \in Tx, tx[t].step = "idle"
    PROVE  WorkInv(t)
BY DEF WorkInv, ApplyInv, CheaterInv, ReplayInv, Doing

\* applyMatch begins
LEMMA BeginApplyKeeps ==
    ASSUME LedgerInv, NEW t \in Tx, NEW g \in Game, NEW winner \in 0..2, NEW exclude \in Excluded,
           BeginApply(t, g, winner, exclude)
    PROVE  LedgerInv'
<1> DEFINE w == [step |-> "apply", game |-> g, winner |-> winner, exclude |-> exclude, todo |-> PlayersOf(g)]
<1>1. /\ tx' = [tx EXCEPT ![t] = w] /\ UNCHANGED <<event, rating, undone, held>> /\ ~Rated(g)
      /\ \A u \in Tx : ~(Doing(u, "apply") /\ tx[u].game = g)
    BY DEF BeginApply
<1>2. tx'[t] = w /\ w.step = "apply" /\ w.game = g
    BY <1>1 DEF LedgerInv, LedgerType
<1>3. WorkInv(t)'
    <2>1. ~Rated(g)'
        BY <1>1 DEF Rated
    <2> QED BY <1>2, <2>1 DEF WorkInv, ApplyInv, CheaterInv, ReplayInv, Doing
<1>4. held' \in [RatedPlayer -> Tx \cup {NoTx}]
    BY <1>1 DEF LedgerInv, LedgerType
<1> HIDE DEF w
<1> QED BY <1>1, <1>2, <1>3, <1>4, WorkKeeps

\* lockRows takes the next row
LEMMA LockNextKeeps ==
    ASSUME LedgerInv, NEW t \in Tx, LockNext(t)
    PROVE  LedgerInv'
<1>1. PICK p \in tx[t].todo : /\ held[p] = NoTx /\ held' = [held EXCEPT ![p] = t]
                              /\ tx' = [tx EXCEPT ![t].todo = @ \ {p}]
    BY DEF LockNext
<1>2. Doing(t, "apply") /\ UNCHANGED <<event, rating, undone>>
    BY DEF LockNext
<1>3. /\ tx[t] = [step |-> "apply", game |-> tx[t].game, winner |-> tx[t].winner, exclude |-> tx[t].exclude,
                  todo |-> tx[t].todo]
      /\ tx[t].game \in Game /\ tx[t].winner \in 0..2 /\ ~Rated(tx[t].game)
      /\ \A q \in PlayersOf(tx[t].game) \ tx[t].todo : held[q] = t
    BY <1>2 DEF LedgerInv, WorkInv, ApplyInv
<1> DEFINE w == [step |-> "apply", game |-> tx[t].game, winner |-> tx[t].winner, exclude |-> tx[t].exclude,
                 todo |-> tx[t].todo \ {p}]
<1>4. tx' = [tx EXCEPT ![t] = w] /\ tx'[t] = w
    <2>1. [tx[t] EXCEPT !.todo = @ \ {p}] = w
        BY <1>3
    <2> HIDE DEF w
    <2> QED BY <1>1, <2>1 DEF LedgerInv, LedgerType
<1>5. /\ held' \in [RatedPlayer -> Tx \cup {NoTx}] /\ \A q \in RatedPlayer : q # p => held'[q] = held[q]
      /\ p \in RatedPlayer => held'[p] = t
    BY <1>1 DEF LedgerInv, LedgerType
<1>6. PlayersOf(tx[t].game) \subseteq RatedPlayer
    BY <1>3, LineupAssumption DEF PlayersOf
<1>7. WorkInv(t)'
    <2>1. \A g : Rated(g)' <=> Rated(g)
        BY <1>2 DEF Rated
    <2>2. \A q \in PlayersOf(tx[t].game) \ w.todo : held'[q] = t
        BY <1>3, <1>5, <1>6
    <2> QED BY <1>3, <1>4, <2>1, <2>2 DEF WorkInv, ApplyInv, CheaterInv, ReplayInv, Doing, PlayersOf
<1>8. \A q \in RatedPlayer : held[q] \in Tx \ {t} => held'[q] = held[q]
    BY <1>1, <1>5, LineupAssumption
<1>9. \A u \in Tx \ {t} : Doing(u, "apply") => tx[u].game # w.game
    BY <1>2 DEF LedgerInv, OneApply
<1>10. w.step = "apply"
    OBVIOUS
<1> HIDE DEF w
<1> QED BY <1>2, <1>4, <1>5, <1>7, <1>8, <1>9, <1>10, WorkKeeps

\* rollbackCheater begins
LEMMA BeginRollbackKeeps ==
    ASSUME LedgerInv, NEW t \in Tx, NEW c \in RatedPlayer, BeginRollback(t, c)
    PROVE  LedgerInv'
<1> DEFINE w == [step |-> "claim", cheater |-> c, games |-> WonBy(c) \ undone]
<1>1. tx' = [tx EXCEPT ![t] = w] /\ UNCHANGED <<event, rating, undone, held>>
    BY DEF BeginRollback
<1>2. tx'[t] = w /\ w.step = "claim"
    BY <1>1 DEF LedgerInv, LedgerType
<1>3. WorkInv(t)'
    <2>1. \A g \in w.games : \E i \in 1..Len(event[c]) : event[c][i].game = g /\ event[c][i].score = "win"
        BY DEF WonBy, Counting
    <2> QED BY <1>1, <1>2, <2>1 DEF WorkInv, ApplyInv, CheaterInv, ReplayInv, Doing
<1>4. held' \in [RatedPlayer -> Tx \cup {NoTx}]
    BY <1>1 DEF LedgerInv, LedgerType
<1> HIDE DEF w
<1> QED BY <1>1, <1>2, <1>3, <1>4, WorkKeeps

\* The insert into rating_rollbacks
LEMMA ClaimGamesKeeps ==
    ASSUME LedgerInv, NEW t \in Tx, ClaimGames(t)
    PROVE  LedgerInv'
<1> DEFINE w == [step |-> "read", cheater |-> tx[t].cheater, games |-> tx[t].games]
<1>1. /\ tx' = [tx EXCEPT ![t].step = "read"] /\ UNCHANGED <<event, rating, undone, held>> /\ tx[t].step = "claim"
      /\ \A u \in Tx \ {t} : Claimed(u) \cap tx[t].games = {}
    BY DEF ClaimGames, Doing
<1>2. /\ tx[t] = [step |-> tx[t].step, cheater |-> tx[t].cheater, games |-> tx[t].games]
      /\ tx[t].cheater \in RatedPlayer
      /\ \A g \in tx[t].games : \E i \in 1..Len(event[tx[t].cheater]) :
              event[tx[t].cheater][i].game = g /\ event[tx[t].cheater][i].score = "win"
    BY <1>1 DEF LedgerInv, WorkInv, CheaterInv
<1>3. tx' = [tx EXCEPT ![t] = w] /\ tx'[t] = w
    <2>1. [tx[t] EXCEPT !.step = "read"] = w
        BY <1>2
    <2> HIDE DEF w
    <2> QED BY <1>1, <2>1 DEF LedgerInv, LedgerType
<1>4. WorkInv(t)'
    BY <1>1, <1>2, <1>3 DEF WorkInv, ApplyInv, CheaterInv, ReplayInv, Doing
<1>5. held' \in [RatedPlayer -> Tx \cup {NoTx}]
    BY <1>1 DEF LedgerInv, LedgerType
<1>6. w.step = "read" /\ w.games = tx[t].games
    OBVIOUS
<1> HIDE DEF w
<1> QED BY <1>1, <1>3, <1>4, <1>5, <1>6, WorkKeeps

\* Who lost a game to the cheater, and has an entry of it that counts, is who has a loss of it that counts
LEMMA VictimsLost ==
    ASSUME LedgerType, HistoryInv, RatingInv, NEW c \in RatedPlayer, NEW games,
           \A g \in games : \E i \in 1..Len(event[c]) : event[c][i].game = g /\ event[c][i].score = "win",
           NEW p \in RatedPlayer
    PROVE  LostTo(p, c, games) = LossesIn(event[p], games)
<1> DEFINE h == event[p]
<1>1. PICK result \in [Game -> 0..2] : \A q \in RatedPlayer : \A i \in 1..Len(event[q]) :
          /\ q \in PlayersOf(event[q][i].game)
          /\ event[q][i].score = ScoreOf(q, event[q][i].game, result[event[q][i].game])
    BY DEF HistoryInv
<1>2. LostTo(p, c, games) = {g \in games : p \in Victims(c, g) /\ \E i \in Standing(h) : h[i].game = g}
    BY DEF LostTo, Counting, Standing
<1>3. LossesIn(h, games) = {g \in games : \E i \in Standing(h) : h[i].game = g /\ h[i].score = "loss"}
    BY DEF LossesIn, OfScore
<1>4. ASSUME NEW g \in games, NEW i \in Standing(h), h[i].game = g
      PROVE  p \in Victims(c, g) <=> h[i].score = "loss"
    <2>1. PICK j \in 1..Len(event[c]) : event[c][j].game = g /\ event[c][j].score = "win"
        OBVIOUS
    <2>2. c \in PlayersOf(g) /\ ScoreOf(c, g, result[g]) = "win"
        BY <1>1, <2>1
    <2>3. p \in PlayersOf(g) /\ h[i].score = ScoreOf(p, g, result[g])
        BY <1>1, <1>4 DEF Standing
    <2>4. g \in Game
        <3>1. event[c] \in Seq(LedgerEntry)
            BY DEF LedgerType
        <3>2. event[c][j] \in LedgerEntry
            BY <3>1, ElementOfSeq
        <3> QED BY <2>1, <3>2 DEF LedgerEntry
    <2>5. result[g] \in {1, 2} /\ SideIn(c, g) = result[g]
        <3>1. result[g] \in 0..2
            BY <2>4
        <3> QED BY <2>2, <3>1 DEF ScoreOf
    <2>6. h[i].score = "loss" <=> SideIn(p, g) # result[g]
        BY <2>3, <2>5 DEF ScoreOf
    <2>7. Lineup[g][1] \cap Lineup[g][2] = {}
        BY <2>4, LineupAssumption
    <2>8. SideIn(p, g) # SideIn(c, g) <=> p \in Lineup[g][3 - SideIn(c, g)]
        <3>1. CASE SideIn(c, g) = 1
            BY <2>3, <2>7, <3>1 DEF SideIn, PlayersOf
        <3>2. CASE SideIn(c, g) = 2
            BY <2>3, <2>7, <3>2 DEF SideIn, PlayersOf
        <3> QED BY <3>1, <3>2 DEF SideIn
    <2> QED BY <2>5, <2>6, <2>8 DEF Victims
<1> HIDE DEF h
<1>5. \A g \in games : (p \in Victims(c, g) /\ \E i \in Standing(h) : h[i].game = g)
                       <=> \E i \in Standing(h) : h[i].game = g /\ h[i].score = "loss"
    BY <1>4
<1>6. LostTo(p, c, games) = LossesIn(h, games)
    BY <1>2, <1>3, <1>5
<1> QED BY <1>6 DEF h

\* It reads whom they were won from
LEMMA ReadVictimsKeeps ==
    ASSUME LedgerInv, NEW t \in Tx, ReadVictims(t)
    PROVE  LedgerInv'
<1> DEFINE games == tx[t].games
           void == [p \in RatedPlayer |-> LostTo(p, tx[t].cheater, games)]
           w == [step |-> "replay", games |-> games, void |-> void,
                 todo |-> {p \in RatedPlayer : void[p] # {}}, new |-> <<>>]
<1>1. tx' = [tx EXCEPT ![t] = w] /\ UNCHANGED <<event, rating, undone, held>> /\ tx[t].step = "read"
    BY DEF ReadVictims, Doing
<1>2. tx'[t] = w /\ w.step = "replay" /\ w.games = games
    BY <1>1 DEF LedgerInv, LedgerType
<1>3. /\ tx[t].cheater \in RatedPlayer
      /\ \A g \in games : \E i \in 1..Len(event[tx[t].cheater]) :
              event[tx[t].cheater][i].game = g /\ event[tx[t].cheater][i].score = "win"
    BY <1>1 DEF LedgerInv, WorkInv, CheaterInv
<1>4. void = [p \in RatedPlayer |-> LossesIn(event[p], games)]
    <2>1. \A p \in RatedPlayer : LostTo(p, tx[t].cheater, games) = LossesIn(event[p], games)
        <3> HIDE DEF games
        <3> QED BY <1>3, VictimsLost DEF LedgerInv
    <2> QED BY <2>1
<1>5. WorkInv(t)'
    <2>1. \A g \in games : Rated(g)'
        BY <1>1, <1>3 DEF Rated
    <2>2. w = [step |-> "replay", games |-> w.games, void |-> w.void, todo |-> w.todo, new |-> w.new]
        OBVIOUS
    <2>3. /\ w.void = [p \in RatedPlayer |-> LossesIn(event'[p], w.games)]
          /\ w.todo = {p \in RatedPlayer : w.void[p] # {}} /\ DOMAIN w.new = {}
        <3>1. w.void = void /\ w.todo = {p \in RatedPlayer : void[p] # {}} /\ w.new = <<>>
            OBVIOUS
        <3> HIDE DEF w, void
        <3> QED BY <1>1, <1>2, <1>4, <3>1
    <2> HIDE DEF w, games
    <2>4. ReplayInv(t)'
        BY <1>2, <2>1, <2>2, <2>3 DEF ReplayInv
    <2> QED BY <1>2, <2>4 DEF WorkInv, ApplyInv, CheaterInv, Doing
<1>6. held' \in [RatedPlayer -> Tx \cup {NoTx}]
    BY <1>1 DEF LedgerInv, LedgerType
<1>7. \A u \in Tx \ {t} : Claimed(u) \cap w.games = {}
    <2>1. Claimed(t) = games
        BY <1>1 DEF Claimed
    <2> HIDE DEF w, games
    <2> QED BY <1>2, <2>1 DEF LedgerInv, OneClaim
<1> HIDE DEF w
<1> QED BY <1>1, <1>2, <1>5, <1>6, <1>7, WorkKeeps

\* It locks the row of a victim, and replays the history
LEMMA ReplayVictimKeeps ==
    ASSUME LedgerInv, NEW t \in Tx, NEW p \in RatedPlayer, ReplayVictim(t, p)
    PROVE  LedgerInv'
<1> DEFINE v == tx[t]
           new == [q \in DOMAIN v.new \cup {p} |-> IF q = p THEN WithoutVoid(p, v.void[p]) ELSE v.new[q]]
           w == [step |-> "replay", games |-> v.games, void |-> v.void, todo |-> v.todo \ {p}, new |-> new]
<1>1. /\ tx' = [tx EXCEPT ![t].todo = @ \ {p},
                          ![t].new = [q \in DOMAIN @ \cup {p} |-> IF q = p THEN WithoutVoid(p, tx[t].void[p]) ELSE @[q]]]
      /\ held[p] = NoTx /\ held' = [held EXCEPT ![p] = t]
      /\ UNCHANGED <<event, rating, undone>> /\ Doing(t, "replay") /\ v.step = "replay"
    BY DEF ReplayVictim, Doing
<1>2. /\ v = [step |-> "replay", games |-> v.games, void |-> v.void, todo |-> v.todo, new |-> v.new]
      /\ \A g \in v.games : Rated(g)
      /\ v.void = [q \in RatedPlayer |-> LossesIn(event[q], v.games)]
      /\ v.todo \subseteq RatedPlayer /\ DOMAIN v.new \subseteq RatedPlayer
      /\ \A q \in RatedPlayer : v.void[q] # {} => q \in v.todo \cup DOMAIN v.new
      /\ \A q \in DOMAIN v.new : held[q] = t /\ v.new[q] = WithoutVoid(q, v.void[q])
    <2>1. ReplayInv(t) /\ Doing(t, "replay")
        BY <1>1 DEF LedgerInv, WorkInv
    <2> QED BY <2>1, Zenon DEF ReplayInv
<1>3. tx' = [tx EXCEPT ![t] = w] /\ tx'[t] = w
    <2>1. [v EXCEPT !.todo = @ \ {p}, !.new = new] = w
        <3> DEFINE z == [v EXCEPT !.todo = @ \ {p}]
        <3>1. z = [step |-> "replay", games |-> v.games, void |-> v.void, todo |-> v.todo \ {p}, new |-> v.new]
            <4>1. v = [step |-> "replay", games |-> v.games, void |-> v.void, todo |-> v.todo, new |-> v.new]
                BY <1>2
            <4> HIDE DEF v
            <4> QED BY <4>1
        <3>2. [v EXCEPT !.todo = @ \ {p}, !.new = new] = [z EXCEPT !.new = new]
            <4> HIDE DEF new, v
            <4> QED OBVIOUS
        <3>3. [z EXCEPT !.new = new] = [step |-> "replay", games |-> z.games, void |-> z.void, todo |-> z.todo, new |-> new]
            <4>1. z = [step |-> "replay", games |-> z.games, void |-> z.void, todo |-> z.todo, new |-> z.new]
                BY <3>1
            <4> HIDE DEF z, new, v
            <4> QED BY <4>1
        <3>4. z.games = v.games /\ z.void = v.void /\ z.todo = v.todo \ {p}
            BY <3>1
        <3> HIDE DEF z, new, v
        <3> QED BY <3>2, <3>3, <3>4
    <2>2. tx' = [tx EXCEPT ![t] = [v EXCEPT !.todo = @ \ {p}, !.new = new]]
        BY <1>1 DEF LedgerInv, LedgerType
    <2> HIDE DEF w, new, v
    <2> QED BY <2>1, <2>2 DEF LedgerInv, LedgerType
<1>4. /\ held' \in [RatedPlayer -> Tx \cup {NoTx}] /\ \A q \in RatedPlayer : q # p => held'[q] = held[q]
      /\ held'[p] = t
    BY <1>1 DEF LedgerInv, LedgerType
<1>5. ReplayInv(t)'
    <2>1. w = [step |-> "replay", games |-> w.games, void |-> w.void, todo |-> w.todo, new |-> w.new]
        OBVIOUS
    <2>2. \A g \in v.games : Rated(g)'
        BY <1>1, <1>2 DEF Rated
    <2>3. /\ w.games = v.games /\ w.void = v.void /\ w.todo = v.todo \ {p} /\ w.new = new
          /\ DOMAIN new = DOMAIN v.new \cup {p}
        OBVIOUS
    <2>4. ASSUME NEW q \in DOMAIN new
          PROVE  held'[q] = t /\ new[q] = WithoutVoid(q, v.void[q])
        <3>1. new[q] = IF q = p THEN WithoutVoid(p, v.void[p]) ELSE v.new[q]
            OBVIOUS
        <3>2. q = p \/ q \in DOMAIN v.new
            BY <2>3
        <3> HIDE DEF w, new, v
        <3> QED BY <1>2, <1>4, <3>1, <3>2
    <2>5. \A q, void : WithoutVoid(q, void)' = WithoutVoid(q, void')
        BY <1>1 DEF WithoutVoid
    <2> HIDE DEF w, new, v
    <2>6. /\ w.void = [q \in RatedPlayer |-> LossesIn(event'[q], w.games)]
          /\ w.todo \subseteq RatedPlayer /\ DOMAIN w.new \subseteq RatedPlayer
          /\ \A q \in RatedPlayer : w.void[q] # {} => q \in w.todo \cup DOMAIN w.new
        BY <1>1, <1>2, <2>3
    <2> QED BY <1>3, <2>1, <2>2, <2>3, <2>4, <2>5, <2>6 DEF ReplayInv
<1>6. WorkInv(t)'
    <2>1. tx'[t].step = "replay"
        BY <1>3
    <2> QED BY <1>5, <2>1 DEF WorkInv, ApplyInv, CheaterInv, Doing
<1>7. \A q \in RatedPlayer : held[q] \in Tx \ {t} => held'[q] = held[q]
    BY <1>1, <1>4, LineupAssumption
<1>8. w.step = "replay" /\ w.games = tx[t].games
    OBVIOUS
<1>9. \A u \in Tx \ {t} : Claimed(u) \cap w.games = {}
    BY <1>1, <1>8 DEF LedgerInv, OneClaim, Claimed
<1> HIDE DEF w
<1> QED BY <1>1, <1>3, <1>4, <1>6, <1>7, <1>8, <1>9, WorkKeeps

\* A deadlock ends one of the two
LEMMA AbortKeeps ==
    ASSUME LedgerInv, NEW t \in Tx, Abort(t)
    PROVE  LedgerInv'
<1>1. tx' = [tx EXCEPT ![t] = NoWork] /\ held' = Unlocked(t) /\ UNCHANGED <<event, rating, undone>>
    BY DEF Abort
<1>2. tx'[t] = NoWork /\ NoWork.step = "idle"
    BY <1>1 DEF LedgerInv, LedgerType, NoWork
<1>3. WorkInv(t)'
    BY <1>2, NoWorkInv DEF WorkInv, ApplyInv, CheaterInv, ReplayInv, Doing
<1>4. /\ held' \in [RatedPlayer -> Tx \cup {NoTx}]
      /\ \A q \in RatedPlayer : held[q] \in Tx \ {t} => held'[q] = held[q]
    BY <1>1 DEF LedgerInv, LedgerType, Unlocked
<1> QED BY <1>1, <1>2, <1>3, <1>4, WorkKeeps

-----------------------------------------------------------------------------
\* Steps that write results

\* A commit keeps what the other transactions rely on
LEMMA CommitKeeps ==
    ASSUME LedgerInv, NEW t \in Tx, tx' = [tx EXCEPT ![t] = NoWork], held' = Unlocked(t),
           event' \in [RatedPlayer -> Seq(LedgerEntry)], rating' \in [RatedPlayer -> RatingType], undone' \in SUBSET Game,
           HistoryInv', RatingInv',
           \A u \in Tx \ {t} : Doing(u, "apply") => ~Rated(tx[u].game)',
           \A g : Rated(g) => Rated(g)',
           \A p \in RatedPlayer : \A i \in 1..Len(event[p]) : \E j \in 1..Len(event'[p]) :
               event'[p][j].game = event[p][i].game /\ event'[p][j].score = event[p][i].score,
           \A u \in Tx \ {t} : \A p \in RatedPlayer :
               Doing(u, "replay") => LossesIn(event'[p], tx[u].games) = LossesIn(event[p], tx[u].games),
           \A p \in RatedPlayer : held[p] \in Tx \ {t} => event'[p] = event[p] /\ rating'[p] = rating[p]
    PROVE  LedgerInv'
<1>1. tx'[t].step = "idle" /\ \A u \in Tx \ {t} : tx'[u] = tx[u]
    BY DEF LedgerInv, LedgerType, NoWork
<1>2. held' \in [RatedPlayer -> Tx \cup {NoTx}] /\ \A p \in RatedPlayer : held[p] \in Tx \ {t} => held'[p] = held[p]
    BY DEF LedgerInv, LedgerType, Unlocked
<1>3. LedgerType'
    <2>1. tx' = [u \in Tx |-> tx'[u]] /\ \A u \in Tx : tx'[u].step \in {"idle", "apply", "claim", "read", "replay"}
        BY <1>1 DEF LedgerInv, LedgerType
    <2> QED BY <1>2, <2>1 DEF LedgerType
<1>4. OneApply'
    BY <1>1 DEF LedgerInv, OneApply, Doing
<1>5. OneClaim'
    <2>1. Claimed(t)' = {} /\ \A u \in Tx \ {t} : Claimed(u)' = Claimed(u)
        BY <1>1 DEF Claimed
    <2> QED BY <2>1 DEF LedgerInv, OneClaim
<1>6. ASSUME NEW u \in Tx \ {t} PROVE WorkInv(u)'
    <2>1. WorkInv(u) /\ tx'[u] = tx[u]
        BY <1>1 DEF LedgerInv
    <2>2. ApplyInv(u)'
        <3>1. ASSUME Doing(u, "apply")
              PROVE  ~Rated(tx[u].game)' /\ PlayersOf(tx[u].game) \subseteq RatedPlayer
            BY <2>1, <3>1, LineupAssumption DEF WorkInv, ApplyInv, PlayersOf
        <3>2. (~Rated(tx[u].game))' <=> ~Rated(tx[u].game)'
            OBVIOUS
        <3>3. \A p \in RatedPlayer : held[p] = u => held'[p] = u
            BY <1>2
        <3> QED BY <2>1, <3>1, <3>2, <3>3 DEF WorkInv, ApplyInv, Doing, PlayersOf
    <2>3. CheaterInv(u)'
        <3>1. ASSUME tx[u].step \in {"claim", "read"}, NEW g \in tx[u].games
              PROVE  \E j \in 1..Len(event'[tx[u].cheater]) :
                        event'[tx[u].cheater][j].game = g /\ event'[tx[u].cheater][j].score = "win"
            <4>1. tx[u].cheater \in RatedPlayer
                BY <2>1, <3>1 DEF WorkInv, CheaterInv
            <4>2. PICK i \in 1..Len(event[tx[u].cheater]) :
                        event[tx[u].cheater][i].game = g /\ event[tx[u].cheater][i].score = "win"
                BY <2>1, <3>1 DEF WorkInv, CheaterInv
            <4>3. PICK j \in 1..Len(event'[tx[u].cheater]) :
                        /\ event'[tx[u].cheater][j].game = event[tx[u].cheater][i].game
                        /\ event'[tx[u].cheater][j].score = event[tx[u].cheater][i].score
                BY <4>1
            <4> QED BY <4>2, <4>3
        <3> QED BY <2>1, <3>1 DEF WorkInv, CheaterInv
    <2>4. ReplayInv(u)'
        <3>1. CASE Doing(u, "replay")
            <4>1. \A p \in RatedPlayer : LossesIn(event'[p], tx[u].games) = LossesIn(event[p], tx[u].games)
                BY <3>1
            <4>2. \A p \in RatedPlayer : held[p] = u => held'[p] = u /\ event'[p] = event[p] /\ rating'[p] = rating[p]
                BY <1>2
            <4> QED BY <2>1, <4>1, <4>2, ReplayKept DEF WorkInv
        <3>2. CASE ~Doing(u, "replay")
            BY <2>1, <3>2 DEF ReplayInv, Doing
        <3> QED BY <3>1, <3>2
    <2> QED BY <2>2, <2>3, <2>4 DEF WorkInv
<1>7. WorkInv(t)'
    BY <1>1 DEF WorkInv, ApplyInv, CheaterInv, ReplayInv, Doing
<1> QED BY <1>3, <1>4, <1>5, <1>6, <1>7 DEF LedgerInv

\* A history with one more result
LEMMA OneMoreGame ==
    ASSUME NEW h \in Seq(LedgerEntry), NEW e \in LedgerEntry
    PROVE  /\ Append(h, e) \in Seq(LedgerEntry) /\ Len(Append(h, e)) = Len(h) + 1 /\ Len(h) \in Nat
           /\ Append(h, e)[Len(h) + 1] = e /\ \A i \in 1..Len(h) : Append(h, e)[i] = h[i]
           /\ \A i \in 1..Len(Append(h, e)) : i \in 1..Len(h) \/ i = Len(h) + 1
           /\ \A games : e.game \notin games => LossesIn(Append(h, e), games) = LossesIn(h, games)
<1> DEFINE k == Append(h, e)
           n == Len(h)
<1>1. /\ n \in Nat /\ k \in Seq(LedgerEntry) /\ Len(k) = n + 1 /\ k[n + 1] = e /\ \A i \in 1..n : k[i] = h[i]
      /\ \A i \in 1..(n + 1) : i \in 1..n \/ i = n + 1
    BY AppendProperties, LenProperties
<1>2. ASSUME NEW games, e.game \notin games
      PROVE  LossesIn(k, games) = LossesIn(h, games)
    <2> HIDE DEF k, n
    <2>1. {j \in OfScore(k, "loss") : k[j].game \in games}
          = {j \in 1..(n + 1) : ~k[j].voided /\ k[j].score = "loss" /\ k[j].game \in games}
        BY <1>1 DEF OfScore, Standing
    <2>2. {j \in OfScore(h, "loss") : h[j].game \in games}
          = {j \in 1..n : ~h[j].voided /\ h[j].score = "loss" /\ h[j].game \in games}
        BY DEF OfScore, Standing, n
    <2>3. 1..n \subseteq 1..(n + 1)
        BY <1>1
    <2>4. {j \in OfScore(k, "loss") : k[j].game \in games} = {j \in OfScore(h, "loss") : h[j].game \in games}
        BY <1>1, <1>2, <2>1, <2>2, <2>3
    <2>5. \A j \in {x \in OfScore(h, "loss") : h[x].game \in games} : k[j].game = h[j].game
        BY <1>1, <2>2
    <2> QED BY <2>4, <2>5 DEF LossesIn
<1> QED BY <1>1, <1>2

\* A match that ends writes its results
LEMMA CommitApplyKeeps ==
    ASSUME LedgerInv, NEW t \in Tx, CommitApply(t)
    PROVE  LedgerInv'
<1> DEFINE g == tx[t].game
           rated == PlayersOf(g) \ tx[t].exclude
           S(p) == ScoreOf(p, g, tx[t].winner)
           e(p) == [game |-> g, score |-> S(p), start |-> rating[p].results, voided |-> FALSE]
<1>1. /\ tx' = [tx EXCEPT ![t] = NoWork] /\ held' = Unlocked(t) /\ undone' = undone
      /\ Doing(t, "apply") /\ tx[t].todo = {}
      /\ event' = [p \in RatedPlayer |-> IF p \in rated THEN Append(event[p], e(p)) ELSE event[p]]
      /\ rating' = [p \in RatedPlayer |-> IF p \in rated THEN Played(rating[p], g, S(p)) ELSE rating[p]]
    BY DEF CommitApply
<1>2. /\ g \in Game /\ tx[t].winner \in 0..2 /\ ~Rated(g)
      /\ \A p \in PlayersOf(g) : held[p] = t
    BY <1>1 DEF LedgerInv, WorkInv, ApplyInv
<1>3. rated \subseteq RatedPlayer /\ \A p \in rated : p \in PlayersOf(g) /\ held[p] = t
    BY <1>2, LineupAssumption DEF PlayersOf
<1>4. /\ event \in [RatedPlayer -> Seq(LedgerEntry)] /\ rating \in [RatedPlayer -> RatingType] /\ undone \in SUBSET Game
      /\ HistoryInv /\ RatingInv
    BY DEF LedgerInv, LedgerType
<1>5. ASSUME NEW p \in RatedPlayer
      PROVE  /\ event[p] \in Seq(LedgerEntry) /\ rating[p] \in RatingType /\ Fits(rating[p], event[p])
             /\ \A i \in 1..Len(event[p]) : event[p][i].game # g
             /\ e(p) \in LedgerEntry /\ e(p).game = g /\ e(p).score = S(p) /\ e(p).start = rating[p].results /\ ~e(p).voided
    <2>1. event[p] \in Seq(LedgerEntry) /\ rating[p] \in RatingType /\ Fits(rating[p], event[p])
        BY <1>4 DEF RatingInv
    <2>2. S(p) \in {"win", "loss", "draw"}
        BY DEF ScoreOf
    <2>3. rating[p].results \in Seq(Game)
        BY <2>1 DEF RatingType
    <2>4. \A i \in 1..Len(event[p]) : event[p][i].game # g
        BY <1>2 DEF Rated
    <2> HIDE DEF g, S
    <2>5. e(p) \in LedgerEntry
        BY <1>2, <2>2, <2>3 DEF LedgerEntry
    <2> QED BY <2>1, <2>4, <2>5
<1>6. ASSUME NEW p \in rated
      PROVE  /\ event'[p] \in Seq(LedgerEntry) /\ Len(event'[p]) = Len(event[p]) + 1 /\ Len(event[p]) \in Nat
             /\ event'[p][Len(event[p]) + 1] = e(p) /\ \A i \in 1..Len(event[p]) : event'[p][i] = event[p][i]
             /\ \A i \in 1..Len(event'[p]) : i \in 1..Len(event[p]) \/ i = Len(event[p]) + 1
             /\ \A games : g \notin games => LossesIn(event'[p], games) = LossesIn(event[p], games)
             /\ rating'[p] \in RatingType /\ Fits(rating'[p], event'[p])
    <2>1. p \in RatedPlayer
        BY <1>3
    <2>2. event'[p] = Append(event[p], e(p)) /\ rating'[p] = Played(rating[p], g, S(p))
        BY <1>1, <2>1
    <2>3. /\ event[p] \in Seq(LedgerEntry) /\ rating[p] \in RatingType /\ Fits(rating[p], event[p])
          /\ e(p) \in LedgerEntry /\ e(p).game = g /\ e(p).score = S(p) /\ ~e(p).voided
        BY <1>5, <2>1
    <2> HIDE DEF e, g, S
    <2>4. rating'[p] \in RatingType /\ Fits(rating'[p], event'[p])
        BY <2>2, <2>3, NewResult
    <2> QED BY <2>2, <2>3, <2>4, OneMoreGame
<1>7. \A p \in RatedPlayer : p \notin rated => event'[p] = event[p] /\ rating'[p] = rating[p]
    BY <1>1
<1>8. \A p \in RatedPlayer : \A i \in 1..Len(event[p]) :
          i \in 1..Len(event'[p]) /\ event'[p][i] = event[p][i]
    <2>1. ASSUME NEW p \in rated, NEW i \in 1..Len(event[p])
          PROVE  i \in 1..Len(event'[p]) /\ event'[p][i] = event[p][i]
        <3>1. /\ Len(event'[p]) = Len(event[p]) + 1 /\ Len(event[p]) \in Nat
              /\ \A x \in 1..Len(event[p]) : event'[p][x] = event[p][x]
            <4> HIDE DEF rated, e
            <4> QED BY <1>6
        <3> QED BY <3>1
    <2> QED BY <1>7, <2>1
<1>9. \A p \in RatedPlayer : \A i \in 1..Len(event'[p]) :
          \/ i \in 1..Len(event[p]) /\ event'[p][i] = event[p][i]
          \/ p \in rated /\ i = Len(event[p]) + 1 /\ event'[p][i] = e(p)
    <2> HIDE DEF rated, e
    <2> QED BY <1>6, <1>7
<1>10. event' \in [RatedPlayer -> Seq(LedgerEntry)] /\ rating' \in [RatedPlayer -> RatingType]
    <2>1. \A p \in RatedPlayer : event'[p] \in Seq(LedgerEntry) /\ rating'[p] \in RatingType
        <3> HIDE DEF rated, e
        <3> QED BY <1>5, <1>6, <1>7
    <2>2. event' = [p \in RatedPlayer |-> event'[p]] /\ rating' = [p \in RatedPlayer |-> rating'[p]]
        BY <1>1
    <2> QED BY <2>1, <2>2
<1>11. \A x : Rated(x) => Rated(x)'
    BY <1>8 DEF Rated
<1>12. HistoryInv'
    <2>1. PICK result \in [Game -> 0..2] : \A q \in RatedPlayer : \A i \in 1..Len(event[q]) :
              /\ q \in PlayersOf(event[q][i].game)
              /\ event[q][i].score = ScoreOf(q, event[q][i].game, result[event[q][i].game])
        BY <1>4 DEF HistoryInv
    <2> DEFINE now == [result EXCEPT ![g] = tx[t].winner]
    <2>2. now \in [Game -> 0..2] /\ now[g] = tx[t].winner /\ \A x \in Game : x # g => now[x] = result[x]
        BY <1>2
    <2>3. ASSUME NEW p \in RatedPlayer, NEW i \in 1..Len(event'[p])
          PROVE  /\ p \in PlayersOf(event'[p][i].game)
                 /\ event'[p][i].score = ScoreOf(p, event'[p][i].game, now[event'[p][i].game])
        <3>1. CASE i \in 1..Len(event[p]) /\ event'[p][i] = event[p][i]
            <4>1. event[p][i] \in LedgerEntry /\ event[p][i].game # g
                BY <1>5, <3>1, ElementOfSeq
            <4>2. event[p][i].game \in Game
                BY <4>1 DEF LedgerEntry
            <4> HIDE DEF now, g
            <4> QED BY <2>1, <2>2, <3>1, <4>1, <4>2
        <3>2. CASE p \in rated /\ event'[p][i] = e(p)
            <4>1. e(p).game = g /\ e(p).score = ScoreOf(p, g, tx[t].winner) /\ p \in PlayersOf(g)
                BY <1>3, <3>2
            <4> HIDE DEF now, g, e
            <4> QED BY <2>2, <3>2, <4>1
        <3> QED BY <1>9, <3>1, <3>2
    <2>4. \E r \in [Game -> 0..2] : \A p \in RatedPlayer : \A i \in 1..Len(event'[p]) :
              /\ p \in PlayersOf(event'[p][i].game)
              /\ event'[p][i].score = ScoreOf(p, event'[p][i].game, r[event'[p][i].game])
        <3> HIDE DEF now
        <3> QED BY <2>2, <2>3
    <2>5. ASSUME NEW p \in RatedPlayer, NEW i \in 1..Len(event'[p]), NEW j \in 1..Len(event'[p]),
                 event'[p][i].game = event'[p][j].game
          PROVE  i = j
        <3>1. e(p).game = g /\ \A x \in 1..Len(event[p]) : event[p][x].game # g
            BY <1>5
        <3>2. \A x, y \in 1..Len(event[p]) : event[p][x].game = event[p][y].game => x = y
            BY <1>4 DEF HistoryInv
        <3> HIDE DEF e, g, rated
        <3>3. \/ i \in 1..Len(event[p]) /\ event'[p][i] = event[p][i]
              \/ i = Len(event[p]) + 1 /\ event'[p][i] = e(p)
            BY <1>9
        <3>4. \/ j \in 1..Len(event[p]) /\ event'[p][j] = event[p][j]
              \/ j = Len(event[p]) + 1 /\ event'[p][j] = e(p)
            BY <1>9
        <3> QED BY <2>5, <3>1, <3>2, <3>3, <3>4
    <2>6. ASSUME NEW p \in RatedPlayer, event'[p] # <<>>
          PROVE  event'[p][1].start = <<>>
        <3>1. CASE event[p] # <<>>
            <4>1. event[p] \in Seq(LedgerEntry)
                BY <1>5
            <4>2. 1 \in 1..Len(event[p])
                BY <3>1, <4>1, EmptySeq, LenProperties
            <4> QED BY <1>4, <1>8, <3>1, <4>2 DEF HistoryInv
        <3>2. CASE event[p] = <<>>
            <4>1. p \in rated /\ Len(event[p]) = 0
                BY <1>7, <2>6, <3>2, EmptySeq
            <4>2. event'[p][1] = e(p)
                <5> HIDE DEF e, rated
                <5> QED BY <1>6, <4>1
            <4>3. Standing(event[p]) = {}
                BY <4>1 DEF Standing
            <4>4. Len(rating[p].results) = 0 /\ rating[p].results \in Seq(Game)
                BY <1>5, <4>3, FS_EmptySet DEF Fits, Lists, RatingType
            <4>5. rating[p].results = <<>>
                BY <4>4, EmptySeq
            <4>6. e(p).start = rating[p].results
                BY <1>5
            <4> HIDE DEF e
            <4> QED BY <4>2, <4>5, <4>6
        <3> QED BY <3>1, <3>2
    <2>7. \A x \in undone' : Rated(x)'
        BY <1>1, <1>4, <1>11 DEF HistoryInv
    <2> HIDE DEF g, rated, e
    <2> QED BY <2>4, <2>5, <2>6, <2>7 DEF HistoryInv, PlayersOf, ScoreOf, SideIn
<1>13. RatingInv'
    <2>1. ASSUME NEW p \in RatedPlayer
          PROVE  Fits(rating'[p], event'[p])
        <3> HIDE DEF rated, g, e
        <3> QED BY <1>5, <1>6, <1>7
    <2>2. ASSUME NEW p \in RatedPlayer, NEW i \in 1..Len(event'[p])
          PROVE  event'[p][i].voided <=> event'[p][i].score = "loss" /\ event'[p][i].game \in undone'
        <3>1. ~e(p).voided /\ e(p).game = g /\ g \notin undone'
            BY <1>1, <1>2, <1>4, <1>5 DEF HistoryInv
        <3> HIDE DEF rated, g, e
        <3> QED BY <1>1, <1>4, <1>9, <3>1 DEF RatingInv
    <2> QED BY <2>1, <2>2 DEF RatingInv, Fits, Lists, Standing, OfScore, Rank
<1>14. ASSUME NEW u \in Tx \ {t}, Doing(u, "apply") PROVE ~Rated(tx[u].game)'
    <2>1. tx[u].game # g /\ ~Rated(tx[u].game)
        BY <1>1, <1>14 DEF LedgerInv, OneApply, WorkInv, ApplyInv
    <2>2. tx'[u] = tx[u]
        BY <1>1, <1>4 DEF LedgerInv, LedgerType
    <2>3. \A p \in RatedPlayer : \A i \in 1..Len(event'[p]) : event'[p][i].game # tx[u].game
        <3>1. \A p \in RatedPlayer : e(p).game = g
            BY <1>5
        <3> HIDE DEF e, g, rated
        <3> QED BY <1>9, <2>1, <3>1 DEF Rated
    <2> QED BY <2>2, <2>3 DEF Rated
<1>15. ASSUME NEW u \in Tx \ {t}, NEW p \in RatedPlayer, Doing(u, "replay")
       PROVE  LossesIn(event'[p], tx[u].games) = LossesIn(event[p], tx[u].games)
    <2>1. g \notin tx[u].games
        BY <1>2, <1>15 DEF LedgerInv, WorkInv, ReplayInv
    <2> HIDE DEF g, rated, e
    <2> QED BY <1>6, <1>7, <2>1
<1>16. \A p \in RatedPlayer : held[p] \in Tx \ {t} => event'[p] = event[p] /\ rating'[p] = rating[p]
    BY <1>3, <1>7
<1> HIDE DEF g, rated, S, e
<1> QED BY <1>1, <1>4, <1>8, <1>10, <1>11, <1>12, <1>13, <1>14, <1>15, <1>16, CommitKeeps

\* Making the games of one rollback void takes nothing from the games of another
LEMMA OtherLosses ==
    ASSUME NEW h \in Seq(LedgerEntry), NEW mine, NEW other, mine \cap other = {}
    PROVE  LossesIn(Voided(h, LossesIn(h, mine)), other) = LossesIn(h, other)
<1> DEFINE void == LossesIn(h, mine)
           k == Voided(h, void)
           n == Len(h)
<1>1. void \subseteq mine
    BY DEF LossesIn
<1>2. /\ Len(k) = n
      /\ \A i \in 1..n : k[i].game = h[i].game /\ k[i].score = h[i].score /\ (k[i].voided <=> h[i].voided \/ h[i].game \in void)
    BY VoidedIs
<1> HIDE DEF k, n, void
<1>3. {j \in OfScore(k, "loss") : k[j].game \in other} = {j \in 1..n : ~k[j].voided /\ k[j].score = "loss" /\ k[j].game \in other}
    BY <1>2 DEF OfScore, Standing
<1>4. {j \in OfScore(h, "loss") : h[j].game \in other} = {j \in 1..n : ~h[j].voided /\ h[j].score = "loss" /\ h[j].game \in other}
    BY DEF OfScore, Standing, n
<1>5. {j \in OfScore(k, "loss") : k[j].game \in other} = {j \in OfScore(h, "loss") : h[j].game \in other}
    BY <1>1, <1>2, <1>3, <1>4
<1>6. \A j \in {x \in OfScore(h, "loss") : h[x].game \in other} : k[j].game = h[j].game
    BY <1>2, <1>4
<1>7. LossesIn(k, other) = LossesIn(h, other)
    BY <1>5, <1>6 DEF LossesIn
<1> QED BY <1>7 DEF k, void

\* A rollback writes what it has computed
LEMMA CommitRollbackKeeps ==
    ASSUME LedgerInv, NEW t \in Tx, CommitRollback(t)
    PROVE  LedgerInv'
<1> DEFINE games == tx[t].games
           void == tx[t].void
           new == tx[t].new
<1>1. /\ tx' = [tx EXCEPT ![t] = NoWork] /\ held' = Unlocked(t) /\ undone' = undone \cup games
      /\ Doing(t, "replay") /\ tx[t].todo = {}
      /\ event' = [p \in RatedPlayer |-> Voided(event[p], void[p])]
      /\ rating' = [p \in RatedPlayer |-> IF p \in DOMAIN new THEN new[p] ELSE rating[p]]
    BY DEF CommitRollback, Voided
<1>2. /\ \A g \in games : Rated(g)
      /\ void = [p \in RatedPlayer |-> LossesIn(event[p], games)]
      /\ \A p \in RatedPlayer : void[p] # {} => p \in DOMAIN new
      /\ \A p \in DOMAIN new : p \in RatedPlayer /\ held[p] = t /\ new[p] = WithoutVoid(p, void[p])
    <2>1. ReplayInv(t) /\ Doing(t, "replay") /\ tx[t].todo = {}
        BY <1>1 DEF LedgerInv, WorkInv
    <2>2. /\ \A g \in games : Rated(g)
          /\ void = [p \in RatedPlayer |-> LossesIn(event[p], games)]
          /\ DOMAIN new \subseteq RatedPlayer
          /\ \A p \in RatedPlayer : void[p] # {} => p \in tx[t].todo \cup DOMAIN new
          /\ \A p \in DOMAIN new : held[p] = t /\ new[p] = WithoutVoid(p, void[p])
        BY <2>1, Zenon DEF ReplayInv
    <2> HIDE DEF games, void, new
    <2> QED BY <2>1, <2>2
<1>3. /\ event \in [RatedPlayer -> Seq(LedgerEntry)] /\ rating \in [RatedPlayer -> RatingType] /\ undone \in SUBSET Game
      /\ HistoryInv /\ RatingInv
    BY DEF LedgerInv, LedgerType
<1>4. games \subseteq Game
    BY <1>2, RatedIsGame DEF LedgerInv
<1>5. ASSUME NEW p \in RatedPlayer
      PROVE  /\ event[p] \in Seq(LedgerEntry) /\ rating[p] \in RatingType /\ Fits(rating[p], event[p])
             /\ void[p] = LossesIn(event[p], games)
             /\ event'[p] = Voided(event[p], void[p])
             /\ event'[p] \in Seq(LedgerEntry) /\ Len(event'[p]) = Len(event[p])
             /\ \A i \in 1..Len(event[p]) : /\ event'[p][i].game = event[p][i].game
                                            /\ event'[p][i].score = event[p][i].score
                                            /\ event'[p][i].start = event[p][i].start
                                            /\ event'[p][i].voided <=> event[p][i].voided \/ event[p][i].game \in void[p]
             /\ void[p] = {} => event'[p] = event[p]
    <2>1. event[p] \in Seq(LedgerEntry) /\ rating[p] \in RatingType /\ Fits(rating[p], event[p])
        BY <1>3 DEF RatingInv
    <2>2. void[p] = LossesIn(event[p], games) /\ event'[p] = Voided(event[p], void[p])
        <3> HIDE DEF void, games
        <3> QED BY <1>1, <1>2
    <2> HIDE DEF void, games
    <2> QED BY <2>1, <2>2, VoidedIs
<1>6. ASSUME NEW p \in RatedPlayer
      PROVE  rating'[p] \in RatingType /\ Fits(rating'[p], event'[p])
    <2>1. CASE p \in DOMAIN new
        <3> DEFINE V == {j \in OfScore(event[p], "loss") : event[p][j].game \in games}
        <3>1. V \in SUBSET OfScore(event[p], "loss") /\ void[p] = {event[p][i].game : i \in V}
            BY <1>5 DEF LossesIn
        <3>2. /\ \A i, j \in 1..Len(event[p]) : event[p][i].game = event[p][j].game => i = j
              /\ event[p] # <<>> => event[p][1].start = <<>>
            BY <1>3 DEF HistoryInv
        <3>3. rating'[p] = WithoutVoid(p, void[p])
            <4> HIDE DEF new, void
            <4> QED BY <1>1, <1>2, <2>1
        <3>4. ASSUME NEW W \in SUBSET OfScore(event[p], "loss"), NEW x, x = {event[p][i].game : i \in W}
              PROVE  WithoutVoid(p, x) \in RatingType /\ Fits(WithoutVoid(p, x), Voided(event[p], x))
            <4>1. event[p] \in Seq(LedgerEntry) /\ rating[p] \in RatingType /\ Fits(rating[p], event[p])
                BY <1>5
            <4> QED BY <3>2, <3>4, <4>1, VoidFits
        <3> HIDE DEF V, void, games
        <3>5. WithoutVoid(p, void[p]) \in RatingType /\ Fits(WithoutVoid(p, void[p]), Voided(event[p], void[p]))
            BY <3>1, <3>4
        <3> QED BY <1>5, <3>3, <3>5
    <2>2. CASE p \notin DOMAIN new
        <3> HIDE DEF new, void, games
        <3> QED BY <1>1, <1>2, <1>5, <2>2
    <2> QED BY <2>1, <2>2
<1>7. event' \in [RatedPlayer -> Seq(LedgerEntry)] /\ rating' \in [RatedPlayer -> RatingType] /\ undone' \in SUBSET Game
    <2>1. event' = [p \in RatedPlayer |-> event'[p]] /\ rating' = [p \in RatedPlayer |-> rating'[p]]
        BY <1>1
    <2> HIDE DEF games, void, new
    <2> QED BY <1>1, <1>3, <1>4, <1>5, <1>6, <2>1
<1>8. \A g : Rated(g)' <=> Rated(g)
    <2>1. \A p \in RatedPlayer : /\ Len(event'[p]) = Len(event[p])
                                 /\ \A i \in 1..Len(event[p]) : event'[p][i].game = event[p][i].game
        BY <1>5
    <2> QED BY <2>1 DEF Rated
<1>9. HistoryInv'
    <2>1. PICK result \in [Game -> 0..2] : \A p \in RatedPlayer : \A i \in 1..Len(event[p]) :
              /\ p \in PlayersOf(event[p][i].game)
              /\ event[p][i].score = ScoreOf(p, event[p][i].game, result[event[p][i].game])
        BY <1>3 DEF HistoryInv
    <2>2. \A p \in RatedPlayer : \A i \in 1..Len(event'[p]) :
              /\ p \in PlayersOf(event'[p][i].game)
              /\ event'[p][i].score = ScoreOf(p, event'[p][i].game, result[event'[p][i].game])
        <3> HIDE DEF games, void, new
        <3> QED BY <1>5, <2>1
    <2>3. \A p \in RatedPlayer : \A i, j \in 1..Len(event'[p]) : event'[p][i].game = event'[p][j].game => i = j
        <3>1. \A p \in RatedPlayer : \A i, j \in 1..Len(event[p]) : event[p][i].game = event[p][j].game => i = j
            BY <1>3 DEF HistoryInv
        <3> HIDE DEF games, void, new
        <3> QED BY <1>5, <3>1
    <2>4. ASSUME NEW p \in RatedPlayer, event'[p] # <<>>
          PROVE  event'[p][1].start = <<>>
        <3>1. event[p] \in Seq(LedgerEntry) /\ event'[p] \in Seq(LedgerEntry) /\ Len(event'[p]) = Len(event[p])
            BY <1>5
        <3>2. 1 \in 1..Len(event[p]) /\ event[p] # <<>>
            BY <2>4, <3>1, EmptySeq, LenProperties
        <3>3. event'[p][1].start = event[p][1].start
            BY <1>5, <3>2
        <3> QED BY <1>3, <3>2, <3>3 DEF HistoryInv
    <2>5. \A g \in undone' : Rated(g)'
        <3> HIDE DEF games
        <3> QED BY <1>1, <1>2, <1>3, <1>8 DEF HistoryInv
    <2> HIDE DEF games, void, new
    <2> QED BY <2>1, <2>2, <2>3, <2>4, <2>5 DEF HistoryInv, PlayersOf, ScoreOf, SideIn
<1>10. RatingInv'
    <2>1. ASSUME NEW p \in RatedPlayer, NEW i \in 1..Len(event'[p])
          PROVE  event'[p][i].voided <=> event'[p][i].score = "loss" /\ event'[p][i].game \in undone'
        <3> DEFINE h == event[p]
        <3>1. /\ i \in 1..Len(h) /\ event'[p][i].game = h[i].game /\ event'[p][i].score = h[i].score
              /\ event'[p][i].voided <=> h[i].voided \/ h[i].game \in void[p]
            BY <1>5
        <3>2. h[i].voided <=> h[i].score = "loss" /\ h[i].game \in undone
            BY <1>3, <3>1 DEF RatingInv
        <3>3. \A x, y \in 1..Len(h) : h[x].game = h[y].game => x = y
            BY <1>3 DEF HistoryInv
        <3>4. \A g : g \in void[p] <=> \E j \in 1..Len(h) : ~h[j].voided /\ h[j].score = "loss" /\ h[j].game \in games /\ h[j].game = g
            <4>1. void[p] = LossesIn(h, games)
                BY <1>5
            <4> HIDE DEF h, games, void
            <4> QED BY <4>1 DEF LossesIn, OfScore, Standing
        <3>5. h[i].game \in void[p] <=> ~h[i].voided /\ h[i].score = "loss" /\ h[i].game \in games
            <4> HIDE DEF h, games, void
            <4> QED BY <3>1, <3>3, <3>4
        <3> HIDE DEF h, games, void
        <3> QED BY <1>1, <3>1, <3>2, <3>5
    <2> HIDE DEF games, void, new
    <2> QED BY <1>6, <2>1 DEF RatingInv, Fits, Lists, Standing, OfScore, Rank
<1>11. ASSUME NEW u \in Tx \ {t}, Doing(u, "apply") PROVE ~Rated(tx[u].game)'
    <2>1. ~Rated(tx[u].game) /\ tx'[u] = tx[u]
        BY <1>1, <1>11 DEF LedgerInv, LedgerType, WorkInv, ApplyInv
    <2>2. \A g : ~Rated(g) => \A p \in RatedPlayer : \A i \in 1..Len(event'[p]) : event'[p][i].game # g
        <3> HIDE DEF games, void, new
        <3> QED BY <1>5 DEF Rated
    <2>3. \A p \in RatedPlayer : \A i \in 1..Len(event'[p]) : event'[p][i].game # tx[u].game
        BY <2>1, <2>2
    <2> QED BY <2>1, <2>3 DEF Rated
<1>12. ASSUME NEW p \in RatedPlayer, NEW i \in 1..Len(event[p])
       PROVE  \E j \in 1..Len(event'[p]) : event'[p][j].game = event[p][i].game /\ event'[p][j].score = event[p][i].score
    <2>1. i \in 1..Len(event'[p]) /\ event'[p][i].game = event[p][i].game /\ event'[p][i].score = event[p][i].score
        BY <1>5
    <2> QED BY <2>1
<1>13. ASSUME NEW u \in Tx \ {t}, NEW p \in RatedPlayer, Doing(u, "replay")
       PROVE  LossesIn(event'[p], tx[u].games) = LossesIn(event[p], tx[u].games)
    <2>1. games \cap tx[u].games = {}
        BY <1>1, <1>13 DEF LedgerInv, OneClaim, Claimed, Doing
    <2>2. event'[p] = Voided(event[p], LossesIn(event[p], games)) /\ event[p] \in Seq(LedgerEntry)
        BY <1>5
    <2> HIDE DEF games
    <2> QED BY <2>1, <2>2, OtherLosses
<1>14. ASSUME NEW p \in RatedPlayer, held[p] \in Tx \ {t}
       PROVE  event'[p] = event[p] /\ rating'[p] = rating[p]
    <2>1. p \notin DOMAIN new
        BY <1>2, <1>14
    <2> HIDE DEF games, void, new
    <2> QED BY <1>1, <1>2, <1>5, <2>1
<1> HIDE DEF games, void, new
<1> QED BY <1>1, <1>7, <1>8, <1>9, <1>10, <1>11, <1>12, <1>13, <1>14, CommitKeeps

-----------------------------------------------------------------------------
\* Every step of the ledger keeps the invariant
LEMMA LedgerKeeps == LedgerInv /\ [LedgerNext]_ledgerVars => LedgerInv'
<1> SUFFICES ASSUME LedgerInv, [LedgerNext]_ledgerVars PROVE LedgerInv'
    OBVIOUS
<1>1. ASSUME NEW t \in Tx, NEW g \in Game, NEW winner \in 0..2, NEW exclude \in Excluded, BeginApply(t, g, winner, exclude)
      PROVE  LedgerInv'
    BY <1>1, BeginApplyKeeps
<1>2. ASSUME NEW t \in Tx, LockNext(t) PROVE LedgerInv'
    BY <1>2, LockNextKeeps
<1>3. ASSUME NEW t \in Tx, CommitApply(t) PROVE LedgerInv'
    BY <1>3, CommitApplyKeeps
<1>4. ASSUME NEW t \in Tx, NEW c \in RatedPlayer, BeginRollback(t, c) PROVE LedgerInv'
    BY <1>4, BeginRollbackKeeps
<1>5. ASSUME NEW t \in Tx, ClaimGames(t) PROVE LedgerInv'
    BY <1>5, ClaimGamesKeeps
<1>6. ASSUME NEW t \in Tx, ReadVictims(t) PROVE LedgerInv'
    BY <1>6, ReadVictimsKeeps
<1>7. ASSUME NEW t \in Tx, NEW p \in RatedPlayer, ReplayVictim(t, p) PROVE LedgerInv'
    BY <1>7, ReplayVictimKeeps
<1>8. ASSUME NEW t \in Tx, CommitRollback(t) PROVE LedgerInv'
    BY <1>8, CommitRollbackKeeps
<1>9. ASSUME NEW t \in Tx, Abort(t) PROVE LedgerInv'
    BY <1>9, AbortKeeps
<1>10. CASE UNCHANGED ledgerVars
    <2>1. UNCHANGED <<event, rating, undone, held, tx>>
        BY <1>10 DEF ledgerVars
    <2>2. LedgerType' /\ HistoryInv' /\ RatingInv'
        <3>1. LedgerType'
            BY <2>1 DEF LedgerInv, LedgerType
        <3>2. HistoryInv'
            BY <2>1 DEF LedgerInv, HistoryInv, Rated
        <3>3. RatingInv'
            BY <2>1 DEF LedgerInv, RatingInv
        <3> QED BY <3>1, <3>2, <3>3
    <2>3. OneApply' /\ OneClaim'
        BY <2>1 DEF LedgerInv, OneApply, OneClaim, Doing, Claimed
    <2>4. ASSUME NEW t \in Tx PROVE WorkInv(t)'
        <3>1. \A g : Rated(g)' <=> Rated(g)
            BY <2>1 DEF Rated
        <3>2. WorkInv(t) /\ tx'[t] = tx[t]
            BY <2>1 DEF LedgerInv
        <3>3. ApplyInv(t)' /\ CheaterInv(t)'
            BY <2>1, <3>1, <3>2 DEF WorkInv, ApplyInv, CheaterInv, Doing
        <3>4. ReplayInv(t)'
            BY <2>1, <3>1, <3>2, ReplayKept DEF WorkInv
        <3> QED BY <3>3, <3>4 DEF WorkInv
    <2> QED BY <2>2, <2>3, <2>4 DEF LedgerInv
<1> QED BY <1>1, <1>2, <1>3, <1>4, <1>5, <1>6, <1>7, <1>8, <1>9, <1>10 DEF LedgerNext

\* Whatever matches end and rollbacks run at once, for any players, games and number of transactions and rollbacks,
\* a rating is the replay of the results that count, its counters count them, and exactly the losses of the matches
\* rolled back are void (rating/service.ts 146-148)
THEOREM RatingsCorrect == LedgerSpec => []RatingIsReplay
<1>1. LedgerInv => RatingIsReplay
    BY ReplayIsRating DEF LedgerInv
<1> QED BY <1>1, LedgerStarts, LedgerKeeps, PTL DEF LedgerSpec

-----------------------------------------------------------------------------
(***************************************************************************)
(* The agent of a host. None of its three properties is inductive.         *)
(* AgentInv says how the map, the slots, the processes and the state file  *)
(* hang together, also between the death of an agent and the recovery of   *)
(* the next one.                                                           *)
(***************************************************************************)

\* Servers that hold a slot of a running agent
Owned == {s \in Server : entry[s] \in {"starting", "launched", "watched"}}

\* The map, the slots and the servers name each other
MapInv ==
    up => /\ \A m \in Match : servers[m] # NoServer =>
                 /\ servers[m] \in Owned
                 /\ info[servers[m]].match = m
                 /\ info[servers[m]].port \in Port
                 /\ used[info[servers[m]].port] = m
          /\ \A s \in Owned : info[s].match \in Match /\ servers[info[s].match] = s
          /\ \A p \in Port : used[p] # NoMatch =>
                 servers[used[p]] # NoServer /\ info[servers[used[p]]].port = p

DownInv ==
    ~up => \A s \in Server : entry[s] \in {"none", "done"}

\* A process the agent does not own was launched by an agent that died before it had the pid
ProcessInv ==
    /\ \A s \in running : entry[s] # "none" /\ info[s].port \in Port
    /\ \A s \in running, t \in running \cup Owned : s # t => info[s].port # info[t].port
    /\ up => \A s \in running : entry[s] \in {"launched", "watched"} \/ s \in lost
    /\ ~up => running \subseteq saved \cup lost

\* What the next agent will find in the state file is unambiguous
FileInv ==
    /\ up => saved = {s \in Server : entry[s] = "watched"}
    /\ \A s \in saved : entry[s] # "none" /\ info[s].match \in Match /\ info[s].port \in Port
    /\ \A s, t \in saved : s # t => info[s].match # info[t].match /\ info[s].port # info[t].port

StopInv ==
    \A s \in asked : /\ entry[s] # "none"
                     /\ s \in stopping \/ s \in adopted \/ entry[s] = "done"

\* Closed from the moment the goroutine decides to drain, empty from the moment it decides to update
UpdaterInv ==
    /\ ~up => loop = "wait" /\ crashes # 0
    /\ (state # "idle" \/ loop \in {"drain", "begin", "update"}) => ~accepting
    /\ loop \in {"begin", "update"} => Live = {}
    /\ crashes = 0 => lost = {} /\ "left" \notin steamcmd /\ (steamcmd # {} => loop = "update")

ServersInv == ServersTypeOK /\ MapInv /\ DownInv /\ ProcessInv /\ FileInv /\ StopInv

AgentInv == TypeOK /\ ServersInv /\ UpdaterInv

-----------------------------------------------------------------------------
\* In the initial state of manager.go and update.go nothing is started and nothing is closed
LEMMA AgentInit == Init => AgentInv
BY AgentAssumption, CrashesAssumption
   DEF Init, ServersInit, UpdateInit, AgentInv, TypeOK, ServersInv, ServersTypeOK, Entries, MapInv, DownInv, ProcessInv,
       FileInv, StopInv, UpdaterInv, Owned, Live

\* The servers do not depend on the variables of the updater
LEMMA ServersFrame == ServersInv /\ UNCHANGED serverVars => ServersInv'
BY DEF ServersInv, ServersTypeOK, MapInv, DownInv, ProcessInv, FileInv, StopInv, Owned, Entries, serverVars, memoryVars

\* Nor do the guarantees about updates depend on more than this of the servers
LEMMA UpdateFrame ==
    TypeOK /\ UpdaterInv /\ UNCHANGED <<up, servers, lost, crashes, updateVars>> /\ ServersTypeOK'
        => TypeOK' /\ UpdaterInv'
BY DEF TypeOK, UpdaterInv, Live, updateVars

\* The keys of the map that hold a server are the matches of the servers that are owned
LEMMA LiveOwned == ServersTypeOK /\ MapInv /\ up => Live = Owned
BY AgentAssumption DEF ServersTypeOK, MapInv, Live, Owned

-----------------------------------------------------------------------------
\* Start, manager.go 146: the slot is taken with the key, and the probe keeps off forgotten processes
LEMMA StartInv ==
    ASSUME NEW s \in Server, NEW m \in Match, ServersInv, Start(s, m, accepting)
    PROVE  ServersInv'
<1>1. PICK p \in Port :
        /\ used[p] = NoMatch /\ \A t \in running : info[t].port # p
        /\ used' = [used EXCEPT ![p] = m]
        /\ info' = [info EXCEPT ![s] = [match |-> m, port |-> p]]
    BY DEF Start, Free
<1>2. /\ up /\ entry[s] = "none" /\ servers[m] = NoServer
      /\ entry' = [entry EXCEPT ![s] = "starting"]
      /\ servers' = [servers EXCEPT ![m] = s]
      /\ UNCHANGED <<up, stopping, adopted, saved, running, toSignal, asked, lost, reported, crashes>>
    BY DEF Start
<1>3. ServersTypeOK
    BY DEF ServersInv
<1>4. ServersTypeOK'
    BY <1>1, <1>2, <1>3 DEF ServersTypeOK, Entries
<1>5. Owned' = Owned \cup {s} /\ s \notin Owned
    BY <1>2, <1>3 DEF ServersTypeOK, Owned
<1>6. s \notin running /\ s \notin saved /\ s \notin asked
    BY <1>2 DEF ServersInv, ProcessInv, FileInv, StopInv
<1>7. /\ info'[s] = [match |-> m, port |-> p]
      /\ \A t \in Server \ {s} : info'[t] = info[t] /\ entry'[t] = entry[t]
      /\ servers'[m] = s /\ \A n \in Match \ {m} : servers'[n] = servers[n]
      /\ used'[p] = m /\ \A q \in Port \ {p} : used'[q] = used[q]
      /\ entry'[s] = "starting"
    BY <1>1, <1>2, <1>3 DEF ServersTypeOK
<1>8. MapInv'
    <2>1. ASSUME NEW n \in Match, servers'[n] # NoServer
          PROVE  /\ servers'[n] \in Owned' /\ info'[servers'[n]].match = n
                 /\ info'[servers'[n]].port \in Port /\ used'[info'[servers'[n]].port] = n
        BY <2>1, <1>1, <1>2, <1>3, <1>5, <1>7, AgentAssumption DEF ServersInv, ServersTypeOK, MapInv
    <2>2. ASSUME NEW t \in Owned'
          PROVE  info'[t].match \in Match /\ servers'[info'[t].match] = t
        BY <2>2, <1>2, <1>3, <1>5, <1>7, AgentAssumption DEF ServersInv, ServersTypeOK, MapInv, Owned
    <2>3. ASSUME NEW q \in Port, used'[q] # NoMatch
          PROVE  servers'[used'[q]] # NoServer /\ info'[servers'[used'[q]]].port = q
        BY <2>3, <1>2, <1>3, <1>5, <1>7, AgentAssumption DEF ServersInv, ServersTypeOK, MapInv, Owned
    <2> QED BY <2>1, <2>2, <2>3 DEF MapInv
<1>9. DownInv' /\ StopInv'
    BY <1>2, <1>3, <1>6, <1>7 DEF ServersInv, ServersTypeOK, DownInv, StopInv
<1>10. ProcessInv'
    BY <1>1, <1>2, <1>3, <1>5, <1>6, <1>7 DEF ServersInv, ServersTypeOK, ProcessInv, Owned
<1>11. FileInv'
    BY <1>2, <1>3, <1>6, <1>7 DEF ServersInv, ServersTypeOK, FileInv
<1> QED BY <1>4, <1>8, <1>9, <1>10, <1>11 DEF ServersInv

\* The process starts without the mutex, manager.go 185
LEMMA LaunchInv ==
    ASSUME NEW s \in Server, ServersInv, Launch(s)
    PROVE  ServersInv'
<1>1. /\ up /\ entry[s] = "starting"
      /\ entry' = [entry EXCEPT ![s] = "launched"]
      /\ running' = running \cup {s}
      /\ UNCHANGED <<up, info, stopping, adopted, servers, used, saved, toSignal, asked, lost, reported, crashes>>
    BY DEF Launch
<1>2. ServersTypeOK
    BY DEF ServersInv
<1>3. ServersTypeOK'
    BY <1>1, <1>2 DEF ServersTypeOK, Entries
<1>4. entry'[s] = "launched" /\ \A t \in Server \ {s} : entry'[t] = entry[t]
    BY <1>1, <1>2 DEF ServersTypeOK
<1>5. Owned' = Owned /\ s \in Owned
    BY <1>1, <1>4 DEF Owned
<1>6. MapInv'
    BY <1>1, <1>5 DEF ServersInv, MapInv
<1>7. DownInv' /\ StopInv'
    BY <1>1, <1>2, <1>4 DEF ServersInv, ServersTypeOK, DownInv, StopInv
<1>8. \A t \in Owned : t # s => info[t].port # info[s].port
    BY <1>1, <1>2, <1>5, AgentAssumption DEF ServersInv, ServersTypeOK, MapInv, Owned
<1>9. info[s].port \in Port
    BY <1>1, <1>2, <1>5, AgentAssumption DEF ServersInv, ServersTypeOK, MapInv, Owned
<1>10. ProcessInv'
    <2>1. \A t \in running' : entry'[t] # "none" /\ info'[t].port \in Port
        BY <1>1, <1>2, <1>4, <1>9 DEF ServersInv, ServersTypeOK, ProcessInv
    <2>2. \A t \in running', r \in running' \cup Owned' : t # r => info'[t].port # info'[r].port
        BY <1>1, <1>5, <1>8 DEF ServersInv, ProcessInv
    <2>3. \A t \in running' : entry'[t] \in {"launched", "watched"} \/ t \in lost'
        BY <1>1, <1>2, <1>4 DEF ServersInv, ServersTypeOK, ProcessInv
    <2> QED BY <1>1, <2>1, <2>2, <2>3 DEF ProcessInv
<1>11. FileInv'
    BY <1>1, <1>2, <1>4 DEF ServersInv, ServersTypeOK, FileInv
<1> QED BY <1>3, <1>6, <1>7, <1>10, <1>11 DEF ServersInv

\* A server leaves the map with its slot: failed launches and ended processes, manager.go 187-193, 293-297
LEMMA GoneInv ==
    ASSUME NEW s \in Server, ServersInv, up, s \in Owned, MapInv, ServersTypeOK,
           entry'[s] \notin {"starting", "launched", "watched"},
           \A t \in Server \ {s} : entry'[t] = entry[t],
           servers' = [servers EXCEPT ![info[s].match] = NoServer],
           Release(info[s].port), UNCHANGED <<up, info>>
    PROVE  MapInv' /\ Owned' = Owned \ {s}
<1>1. Owned' = Owned \ {s}
    BY DEF Owned
<1>2. info[s].match \in Match /\ servers[info[s].match] = s /\ info[s].port \in Port /\ used[info[s].port] = info[s].match
    BY AgentAssumption DEF MapInv
<1>3. /\ servers'[info[s].match] = NoServer /\ \A n \in Match \ {info[s].match} : servers'[n] = servers[n]
      /\ used'[info[s].port] = NoMatch /\ \A q \in Port \ {info[s].port} : used'[q] = used[q]
    BY <1>2 DEF Release, ServersTypeOK
<1>4. ASSUME NEW n \in Match, servers'[n] # NoServer
      PROVE  /\ servers'[n] \in Owned' /\ info'[servers'[n]].match = n
             /\ info'[servers'[n]].port \in Port /\ used'[info'[servers'[n]].port] = n
    BY <1>4, <1>1, <1>2, <1>3 DEF MapInv
<1>5. ASSUME NEW t \in Owned'
      PROVE  info'[t].match \in Match /\ servers'[info'[t].match] = t
    BY <1>5, <1>1, <1>2, <1>3 DEF MapInv
<1>6. ASSUME NEW q \in Port, used'[q] # NoMatch
      PROVE  servers'[used'[q]] # NoServer /\ info'[servers'[used'[q]]].port = q
    BY <1>6, <1>1, <1>2, <1>3, AgentAssumption DEF MapInv, ServersTypeOK
<1> QED BY <1>1, <1>4, <1>5, <1>6 DEF MapInv

\* The launch failed, manager.go 187
LEMMA LaunchFailsInv ==
    ASSUME NEW s \in Server, ServersInv, LaunchFails(s)
    PROVE  ServersInv'
<1>1. /\ up /\ entry[s] = "starting"
      /\ entry' = [entry EXCEPT ![s] = "done"]
      /\ servers' = [servers EXCEPT ![info[s].match] = NoServer]
      /\ Release(info[s].port)
      /\ UNCHANGED <<up, info, stopping, adopted, saved, running, toSignal, asked, lost, reported, crashes>>
    BY DEF LaunchFails
<1>2. ServersTypeOK /\ MapInv
    BY DEF ServersInv
<1>3. ServersTypeOK'
    BY <1>1, <1>2 DEF ServersTypeOK, Entries, Release
<1>4. entry'[s] = "done" /\ \A t \in Server \ {s} : entry'[t] = entry[t]
    BY <1>1, <1>2 DEF ServersTypeOK
<1>5. s \in Owned
    BY <1>1 DEF Owned
<1>6. MapInv' /\ Owned' = Owned \ {s}
    BY <1>1, <1>2, <1>4, <1>5, GoneInv
<1>7. DownInv' /\ StopInv'
    BY <1>1, <1>2, <1>4 DEF ServersInv, ServersTypeOK, DownInv, StopInv
<1>8. ProcessInv'
    BY <1>1, <1>2, <1>4, <1>6 DEF ServersInv, ServersTypeOK, ProcessInv
<1>9. FileInv'
    BY <1>1, <1>2, <1>4 DEF ServersInv, ServersTypeOK, FileInv
<1> QED BY <1>3, <1>6, <1>7, <1>8, <1>9 DEF ServersInv

\* The pid is known and the server goes into the state file, manager.go 195-204
LEMMA StartedInv ==
    ASSUME NEW s \in Server, ServersInv, Started(s)
    PROVE  ServersInv'
<1>1. /\ up /\ entry[s] = "launched"
      /\ entry' = [entry EXCEPT ![s] = "watched"]
      /\ saved' = Persisted
      /\ toSignal' = toSignal \cup ({s} \cap stopping)
      /\ UNCHANGED <<up, info, stopping, adopted, servers, used, running, asked, lost, reported, crashes>>
    BY DEF Started
<1>2. ServersTypeOK /\ MapInv
    BY DEF ServersInv
<1>3. entry'[s] = "watched" /\ \A t \in Server \ {s} : entry'[t] = entry[t]
    BY <1>1, <1>2 DEF ServersTypeOK
<1>4. Owned' = Owned /\ Owned = Live
    BY <1>1, <1>2, <1>3, LiveOwned DEF Owned
<1>5. saved' = {t \in Server : entry'[t] = "watched"}
    BY <1>1, <1>4 DEF Persisted, Owned
<1>6. ServersTypeOK'
    BY <1>1, <1>2, <1>5 DEF ServersTypeOK, Entries
<1>7. MapInv'
    BY <1>1, <1>2, <1>4 DEF MapInv
<1>8. DownInv' /\ StopInv'
    BY <1>1, <1>2, <1>3 DEF ServersInv, ServersTypeOK, DownInv, StopInv
<1>9. ProcessInv'
    BY <1>1, <1>2, <1>3, <1>4 DEF ServersInv, ServersTypeOK, ProcessInv
<1>10. FileInv'
    <2>1. saved' \subseteq Owned
        BY <1>4, <1>5 DEF Owned
    <2>2. \A t \in Owned : info[t].match \in Match /\ info[t].port \in Port
        BY <1>1, <1>2, AgentAssumption DEF MapInv, ServersTypeOK, Owned
    <2>3. \A t, r \in Owned : t # r => info[t].match # info[r].match /\ info[t].port # info[r].port
        BY <1>1, <1>2, <2>2, AgentAssumption DEF MapInv, ServersTypeOK, Owned
    <2> QED BY <1>1, <1>5, <2>1, <2>2, <2>3 DEF FileInv
<1> QED BY <1>6, <1>7, <1>8, <1>9, <1>10 DEF ServersInv

\* A stop marks the server and waits for its process, manager.go 258
LEMMA StopsInv ==
    ASSUME NEW m \in Match, ServersInv, Stop(m)
    PROVE  ServersInv'
<1> DEFINE s == servers[m]
<1>1. /\ up /\ s # NoServer
      /\ stopping' = stopping \cup {s} /\ asked' = asked \cup {s}
      /\ toSignal' \subseteq toSignal \cup {s}
      /\ UNCHANGED <<up, info, entry, adopted, servers, used, saved, running, lost, reported, crashes>>
    BY DEF Stop
<1>2. ServersTypeOK
    BY DEF ServersInv
<1>3. s \in Server /\ entry[s] # "none"
    BY <1>1, <1>2 DEF ServersInv, ServersTypeOK, MapInv, Owned
<1>4. ServersTypeOK'
    BY <1>1, <1>2, <1>3 DEF ServersTypeOK
<1>5. MapInv' /\ DownInv' /\ ProcessInv' /\ FileInv'
    BY <1>1 DEF ServersInv, MapInv, DownInv, ProcessInv, FileInv, Owned
<1>6. StopInv'
    BY <1>1, <1>2, <1>3 DEF ServersInv, StopInv
<1> QED BY <1>4, <1>5, <1>6 DEF ServersInv

\* A process ends, signalled or not, procrun.go; the agent learns of it later
LEMMA EndsInv ==
    ASSUME NEW s \in Server, ServersInv, Signal(s) \/ ProcessEnds(s)
    PROVE  ServersInv'
<1>1. /\ running' = running \ {s} /\ toSignal' \subseteq toSignal
      /\ UNCHANGED <<up, info, entry, stopping, adopted, servers, used, saved, asked, lost, reported, crashes>>
    BY DEF Signal, ProcessEnds, memoryVars
<1>2. ServersTypeOK'
    BY <1>1 DEF ServersInv, ServersTypeOK
<1>3. MapInv' /\ DownInv' /\ StopInv' /\ FileInv'
    BY <1>1 DEF ServersInv, MapInv, DownInv, StopInv, FileInv, Owned
<1>4. ProcessInv'
    BY <1>1 DEF ServersInv, ProcessInv, Owned
<1> QED BY <1>2, <1>3, <1>4 DEF ServersInv

\* The agent learns that a process ended, manager.go 289-300
LEMMA WatchEndsInv ==
    ASSUME NEW s \in Server, ServersInv, WatchEnds(s)
    PROVE  ServersInv'
<1>1. /\ up /\ entry[s] = "watched" /\ s \notin running
      /\ entry' = [entry EXCEPT ![s] = "ended"]
      /\ servers' = [m \in Match |-> IF servers[m] = s THEN NoServer ELSE servers[m]]
      /\ Release(info[s].port)
      /\ saved' = {t \in Live \ {s} : entry[t] = "watched"}
      /\ UNCHANGED <<up, info, stopping, adopted, running, toSignal, asked, lost, reported, crashes>>
    BY DEF WatchEnds
<1>2. ServersTypeOK /\ MapInv
    BY DEF ServersInv
<1>3. entry'[s] = "ended" /\ \A t \in Server \ {s} : entry'[t] = entry[t]
    BY <1>1, <1>2 DEF ServersTypeOK
<1>4. s \in Owned /\ Owned = Live
    BY <1>1, <1>2, LiveOwned DEF Owned
<1>5. servers' = [servers EXCEPT ![info[s].match] = NoServer]
    <2>1. info[s].match \in Match /\ servers[info[s].match] = s
        BY <1>1, <1>2, <1>4 DEF MapInv
    <2>2. \A m \in Match : servers[m] = s => m = info[s].match
        BY <1>1, <1>2, AgentAssumption DEF MapInv
    <2>3. \A m \in Match : servers'[m] = IF m = info[s].match THEN NoServer ELSE servers[m]
        BY <1>1, <2>1, <2>2
    <2> QED BY <1>1, <1>2, <2>1, <2>3 DEF ServersTypeOK
<1>6. MapInv' /\ Owned' = Owned \ {s}
    BY <1>1, <1>2, <1>3, <1>4, <1>5, GoneInv
<1>7. saved' = saved \ {s} /\ saved' = {t \in Server : entry'[t] = "watched"}
    <2>1. saved = {t \in Server : entry[t] = "watched"}
        BY <1>1 DEF ServersInv, FileInv
    <2> QED BY <1>1, <1>3, <1>4, <2>1 DEF Owned
<1>8. ServersTypeOK'
    BY <1>1, <1>2, <1>7 DEF ServersTypeOK, Entries, Release
<1>9. DownInv' /\ StopInv'
    BY <1>1, <1>2, <1>3 DEF ServersInv, ServersTypeOK, DownInv, StopInv
<1>10. ProcessInv'
    BY <1>1, <1>2, <1>3, <1>6 DEF ServersInv, ServersTypeOK, ProcessInv
<1>11. FileInv'
    BY <1>1, <1>2, <1>3, <1>7 DEF ServersInv, ServersTypeOK, FileInv
<1> QED BY <1>6, <1>8, <1>9, <1>10, <1>11 DEF ServersInv

\* The rest of watch, manager.go 302-325
LEMMA FinishInv ==
    ASSUME NEW s \in Server, ServersInv, Finish(s)
    PROVE  ServersInv'
<1>1. /\ up /\ entry[s] = "ended"
      /\ entry' = [entry EXCEPT ![s] = "done"]
      /\ reported' \subseteq reported \cup {s}
      /\ UNCHANGED <<up, info, stopping, adopted, servers, used, saved, running, toSignal, asked, lost, crashes>>
    BY DEF Finish
<1>2. ServersTypeOK
    BY DEF ServersInv
<1>3. entry'[s] = "done" /\ \A t \in Server \ {s} : entry'[t] = entry[t]
    BY <1>1, <1>2 DEF ServersTypeOK
<1>4. Owned' = Owned
    BY <1>1, <1>3 DEF Owned
<1>5. ServersTypeOK'
    BY <1>1, <1>2 DEF ServersTypeOK, Entries
<1>6. MapInv'
    BY <1>1, <1>4 DEF ServersInv, MapInv
<1>7. DownInv' /\ StopInv'
    BY <1>1, <1>2, <1>3 DEF ServersInv, ServersTypeOK, DownInv, StopInv
<1>8. ProcessInv'
    BY <1>1, <1>2, <1>3, <1>4 DEF ServersInv, ServersTypeOK, ProcessInv
<1>9. FileInv'
    BY <1>1, <1>2, <1>3 DEF ServersInv, ServersTypeOK, FileInv
<1> QED BY <1>5, <1>6, <1>7, <1>8, <1>9 DEF ServersInv

-----------------------------------------------------------------------------
\* The memory of the agent is lost, the state file and the processes are not
LEMMA DiesInv ==
    ASSUME ServersInv, AgentDies
    PROVE  ServersInv' /\ crashes' # 0 /\ ~up'
<1>1. /\ up /\ crashes < MaxCrashes /\ crashes' = crashes + 1 /\ up' = FALSE
      /\ lost' = lost \cup {s \in running : entry[s] = "launched"}
      /\ entry' = [s \in Server |-> IF entry[s] = "none" THEN "none" ELSE "done"]
      /\ stopping' = {} /\ adopted' = {} /\ toSignal' = {}
      /\ servers' = [m \in Match |-> NoServer]
      /\ used' = [p \in Port |-> NoMatch]
      /\ UNCHANGED <<info, saved, running, asked, reported>>
    BY DEF AgentDies
<1>2. ServersTypeOK
    BY DEF ServersInv
<1>3. crashes' \in 0..MaxCrashes /\ crashes' # 0
    BY <1>1, <1>2, CrashesAssumption DEF ServersTypeOK
<1>4. ServersTypeOK'
    BY <1>1, <1>2, <1>3 DEF ServersTypeOK, Entries
<1>5. Owned' = {}
    BY <1>1 DEF Owned
<1>6. MapInv' /\ DownInv'
    BY <1>1 DEF MapInv, DownInv
<1>7. ProcessInv'
    <2>1. \A s \in running' : entry'[s] # "none" /\ info'[s].port \in Port
        BY <1>1, <1>2 DEF ServersInv, ServersTypeOK, ProcessInv
    <2>2. \A s \in running', t \in running' \cup Owned' : s # t => info'[s].port # info'[t].port
        BY <1>1, <1>5 DEF ServersInv, ProcessInv
    <2>3. running' \subseteq saved' \cup lost'
        BY <1>1, <1>2 DEF ServersInv, ServersTypeOK, ProcessInv, FileInv
    <2> QED BY <1>1, <2>1, <2>2, <2>3 DEF ProcessInv
<1>8. FileInv'
    BY <1>1, <1>2 DEF ServersInv, ServersTypeOK, FileInv
<1>9. StopInv'
    BY <1>1, <1>2 DEF ServersInv, ServersTypeOK, StopInv
<1> QED BY <1>1, <1>3, <1>4, <1>6, <1>7, <1>8, <1>9 DEF ServersInv

\* recover, manager.go 100-143: what the file names and still runs is adopted with its key and its slot
LEMMA RecoverInv ==
    ASSUME ServersInv, Recover
    PROVE  ServersInv'
<1> DEFINE alive == saved \cap running
<1>1. /\ ~up /\ up' = TRUE
      /\ entry' = [s \in Server |-> IF s \in alive THEN "watched" ELSE entry[s]]
      /\ adopted' = alive /\ saved' = alive
      /\ servers' = [m \in Match |-> IF \E s \in alive : info[s].match = m
                                     THEN CHOOSE s \in alive : info[s].match = m ELSE NoServer]
      /\ used' = [p \in Port |-> IF \E s \in alive : info[s].port = p
                                 THEN info[CHOOSE s \in alive : info[s].port = p].match ELSE NoMatch]
      /\ UNCHANGED <<info, stopping, running, toSignal, asked, lost, reported, crashes>>
    BY DEF Recover
<1>2. ServersTypeOK
    BY DEF ServersInv
<1>3. /\ alive \subseteq Server
      /\ \A s \in alive : info[s].match \in Match /\ info[s].port \in Port
      /\ \A s, t \in alive : s # t => info[s].match # info[t].match /\ info[s].port # info[t].port
    BY <1>2 DEF ServersInv, ServersTypeOK, FileInv
<1> HIDE DEF alive
<1>4. \A m \in Match : /\ (\E s \in alive : info[s].match = m) => servers'[m] \in alive /\ info[servers'[m]].match = m
                       /\ (~ \E s \in alive : info[s].match = m) => servers'[m] = NoServer
    BY <1>1
<1>5. \A p \in Port : /\ (\E s \in alive : info[s].port = p) =>
                             \E s \in alive : info[s].port = p /\ used'[p] = info[s].match
                      /\ (~ \E s \in alive : info[s].port = p) => used'[p] = NoMatch
    BY <1>1
<1>6. \A s \in alive : servers'[info[s].match] = s /\ used'[info[s].port] = info[s].match
    BY <1>3, <1>4, <1>5
<1>7. Owned' = alive /\ alive = {s \in Server : entry'[s] = "watched"}
    BY <1>1, <1>3 DEF ServersInv, DownInv, Owned
<1>8. ServersTypeOK'
    <2>1. entry' \in [Server -> Entries]
        BY <1>1, <1>2 DEF ServersTypeOK, Entries
    <2>2. servers' \in [Match -> Server \cup {NoServer}]
        <3>1. \A m \in Match : servers'[m] \in Server \cup {NoServer}
            BY <1>3, <1>4
        <3> QED BY <1>1, <3>1
    <2>3. used' \in [Port -> Match \cup {NoMatch}]
        <3>1. \A p \in Port : used'[p] \in Match \cup {NoMatch}
            BY <1>3, <1>5
        <3> QED BY <1>1, <3>1
    <2> QED BY <1>1, <1>2, <1>3, <2>1, <2>2, <2>3 DEF ServersTypeOK
<1>9. MapInv'
    <2>1. ASSUME NEW m \in Match, servers'[m] # NoServer
          PROVE  /\ servers'[m] \in Owned' /\ info'[servers'[m]].match = m
                 /\ info'[servers'[m]].port \in Port /\ used'[info'[servers'[m]].port] = m
        <3>1. servers'[m] \in alive /\ info[servers'[m]].match = m
            BY <2>1, <1>4
        <3>2. used'[info[servers'[m]].port] = m
            BY <3>1, <1>6
        <3> QED BY <3>1, <3>2, <1>1, <1>3, <1>7
    <2>2. ASSUME NEW s \in Owned'
          PROVE  info'[s].match \in Match /\ servers'[info'[s].match] = s
        BY <2>2, <1>1, <1>3, <1>6, <1>7
    <2>3. ASSUME NEW p \in Port, used'[p] # NoMatch
          PROVE  servers'[used'[p]] # NoServer /\ info'[servers'[used'[p]]].port = p
        <3>1. PICK s \in alive : info[s].port = p /\ used'[p] = info[s].match
            BY <2>3, <1>5
        <3> QED BY <3>1, <1>1, <1>3, <1>6, AgentAssumption
    <2> QED BY SMTT(30), <2>1, <2>2, <2>3 DEF MapInv
<1>10. DownInv'
    BY <1>1 DEF DownInv
<1>11. ProcessInv'
    <2>1. alive \subseteq running
        BY DEF alive
    <2>2. \A s \in running' : entry'[s] # "none" /\ info'[s].port \in Port
        BY <1>1, <1>2, <1>3 DEF ServersInv, ServersTypeOK, ProcessInv
    <2>3. \A s \in running', t \in running' \cup Owned' : s # t => info'[s].port # info'[t].port
        BY <1>1, <1>7, <2>1 DEF ServersInv, ProcessInv
    <2>4. \A s \in running' : entry'[s] \in {"launched", "watched"} \/ s \in lost'
        <3>1. running \subseteq alive \cup lost
            BY <1>1 DEF ServersInv, ProcessInv, alive
        <3> QED BY <1>1, <1>7, <3>1
    <2> QED BY <1>1, <2>2, <2>3, <2>4 DEF ProcessInv
<1>12. FileInv'
    BY <1>1, <1>3, <1>7 DEF FileInv
<1>13. StopInv'
    BY <1>1, <1>2, <1>7 DEF ServersInv, ServersTypeOK, StopInv, DownInv
<1> QED BY <1>8, <1>9, <1>10, <1>11, <1>12, <1>13 DEF ServersInv

-----------------------------------------------------------------------------
\* No step of the servers disturbs an update: a start needs an open manager, and a map that is empty stays empty
LEMMA ServerStepUpdate ==
    ASSUME AgentInv, ServerStep, ServersInv'
    PROVE  TypeOK' /\ UpdaterInv'
<1>1. TypeOK /\ UpdaterInv /\ ServersTypeOK /\ ServersTypeOK'
    BY DEF AgentInv, ServersInv
<1>2. UNCHANGED updateVars
    BY DEF ServerStep
<1>3. TypeOK'
    BY <1>1, <1>2 DEF TypeOK, updateVars
<1>4. UNCHANGED <<lost, crashes>> /\ (up => up')
    BY DEF ServerStep, Start, Launch, LaunchFails, Started, Signal, ProcessEnds, WatchEnds, Finish, Stop, Recover
<1>5. CASE \E s \in Server, m \in Match : Start(s, m, accepting)
    BY <1>1, <1>2, <1>4, <1>5 DEF UpdaterInv, TypeOK, updateVars, Start
<1>6. CASE Recover
    BY <1>1, <1>2, <1>4, <1>6 DEF UpdaterInv, TypeOK, updateVars, Recover
<1>7. CASE Live' \subseteq Live
    BY <1>1, <1>2, <1>4, <1>7 DEF UpdaterInv, TypeOK, updateVars
<1>8. ASSUME ~ \E s \in Server, m \in Match : Start(s, m, accepting), ~Recover
      PROVE  Live' \subseteq Live
    <2>1. CASE UNCHANGED servers
        BY <2>1 DEF Live
    <2>2. ASSUME NEW s \in Server, LaunchFails(s)
          PROVE  Live' \subseteq Live
        BY <2>2, <1>1 DEF LaunchFails, Live, ServersTypeOK
    <2>3. ASSUME NEW s \in Server, WatchEnds(s)
          PROVE  Live' \subseteq Live
        BY <2>3, <1>1 DEF WatchEnds, Live, ServersTypeOK
    <2> QED BY <1>8, <2>1, <2>2, <2>3 DEF ServerStep, Launch, Started, Signal, ProcessEnds, Finish, Stop, memoryVars
<1> QED BY <1>5, <1>6, <1>7, <1>8

\* Every step of a server keeps the invariant
LEMMA ServerStepInv == AgentInv /\ ServerStep => AgentInv'
<1> SUFFICES ASSUME AgentInv, ServerStep PROVE AgentInv'
    OBVIOUS
<1>1. ServersInv'
    BY StartInv, LaunchInv, LaunchFailsInv, StartedInv, StopsInv, EndsInv, WatchEndsInv, FinishInv, RecoverInv
       DEF ServerStep, AgentInv
<1>2. TypeOK' /\ UpdaterInv'
    BY <1>1, ServerStepUpdate
<1> QED BY <1>1, <1>2 DEF AgentInv

\* The updater closes before it counts and begins only when it counted nothing, update.go 160-240
LEMMA UpdateStepInv == AgentInv /\ UpdateStep => AgentInv'
<1> SUFFICES ASSUME AgentInv, UpdateStep PROVE AgentInv'
    OBVIOUS
<1>1. UNCHANGED serverVars
    BY DEF UpdateStep, Trigger, Step, UpToDate, Outdated, Drain, BeginUpdate, EndUpdate, LeftoverEnds
<1>2. ServersInv' /\ ServersTypeOK'
    BY <1>1, ServersFrame DEF AgentInv, ServersInv
<1>3. Live' = Live /\ UNCHANGED <<up, lost, crashes>>
    BY <1>1 DEF serverVars, memoryVars, Live
<1>4. TypeOK /\ UpdaterInv
    BY DEF AgentInv
<1> SUFFICES TypeOK' /\ UpdaterInv'
    BY <1>2 DEF AgentInv
<1>5. CASE Trigger
    BY <1>2, <1>3, <1>4, <1>5 DEF Trigger, TypeOK, UpdaterInv
<1>6. CASE Step
    BY <1>2, <1>3, <1>4, <1>6 DEF Step, TypeOK, UpdaterInv
<1>7. CASE UpToDate
    BY <1>2, <1>3, <1>4, <1>7 DEF UpToDate, TypeOK, UpdaterInv
<1>12. CASE Outdated
    BY <1>2, <1>3, <1>4, <1>12 DEF Outdated, TypeOK, UpdaterInv
<1>8. CASE Drain
    BY <1>2, <1>3, <1>4, <1>8 DEF Drain, TypeOK, UpdaterInv
<1>9. CASE BeginUpdate
    BY <1>2, <1>3, <1>4, <1>9 DEF BeginUpdate, TypeOK, UpdaterInv
<1>10. ASSUME NEW ok \in BOOLEAN, EndUpdate(ok)
       PROVE  TypeOK' /\ UpdaterInv'
    <2>1. /\ up /\ loop = "update" /\ loop' = "wait"
          /\ state' = IF ok THEN "idle" ELSE "draining"
          /\ steamcmd' = steamcmd \ {"own"}
        BY <1>10 DEF EndUpdate
    <2>2. ~accepting
        BY <1>4, <2>1 DEF UpdaterInv
    <2>3. accepting' = ok
        BY <1>10, <2>2 DEF EndUpdate
    <2>4. crashes = 0 => lost = {} /\ steamcmd' = {}
        BY <1>4, <2>1 DEF TypeOK, UpdaterInv
    <2>5. TypeOK'
        BY <1>2, <1>4, <2>1, <2>3 DEF TypeOK
    <2>6. UpdaterInv'
        BY <1>3, <1>4, <2>1, <2>3, <2>4 DEF UpdaterInv
    <2> QED BY <2>5, <2>6
<1>11. CASE LeftoverEnds
    BY <1>2, <1>3, <1>4, <1>11 DEF LeftoverEnds, TypeOK, UpdaterInv
<1> QED BY <1>5, <1>6, <1>7, <1>8, <1>9, <1>10, <1>11, <1>12 DEF UpdateStep

\* Every step keeps the invariant, the death of the agent included
LEMMA AgentNext == AgentInv /\ [Next]_vars => AgentInv'
<1> SUFFICES ASSUME AgentInv, [Next]_vars PROVE AgentInv'
    OBVIOUS
<1>1. CASE ServerStep
    BY <1>1, ServerStepInv
<1>2. CASE UpdateStep
    BY <1>2, UpdateStepInv
<1>3. CASE Dies
    <2>1. ServersInv' /\ crashes' # 0 /\ ~up'
        BY <1>3, DiesInv DEF Dies, AgentInv
    <2>2. state' = "idle" /\ accepting' = TRUE /\ loop' = "wait" /\ steamcmd' \subseteq {"own", "left"}
        BY <1>3 DEF Dies
    <2> QED BY <2>1, <2>2 DEF AgentInv, ServersInv, TypeOK, UpdaterInv
<1>4. CASE UNCHANGED vars
    <2>1. UNCHANGED serverVars /\ UNCHANGED updateVars
        BY <1>4 DEF vars
    <2>2. ServersInv' /\ ServersTypeOK'
        BY <2>1, ServersFrame DEF AgentInv, ServersInv
    <2> QED BY <2>1, <2>2, UpdateFrame DEF AgentInv, serverVars, memoryVars
<1> QED BY <1>1, <1>2, <1>3, <1>4 DEF Next

-----------------------------------------------------------------------------
\* The invariant holds in every state of the agent
THEOREM AgentInvariance == Spec => []AgentInv
BY AgentInit, AgentNext, PTL DEF Spec

\* The variables of manager.go and update.go keep their types
THEOREM TypeCorrect == Spec => []TypeOK
<1>1. AgentInv => TypeOK
    BY DEF AgentInv
<1> QED BY <1>1, AgentInvariance, PTL

\* Slots, map entries and processes belong together, through starts, failed launches, stops, exits and restarts
THEOREM SlotsCorrect == Spec => []SlotsAreServers
<1>1. AgentInv => SlotsAreServers
    <2> SUFFICES ASSUME AgentInv PROVE SlotsAreServers
        OBVIOUS
    <2>1. ServersTypeOK /\ MapInv /\ ProcessInv
        BY DEF AgentInv, ServersInv
    <2>2. PortsAreServers
        <3> SUFFICES ASSUME up, NEW p \in Port, NEW m \in Match
                     PROVE  (used[p] = m) <=>
                                (servers[m] # NoServer /\ info[servers[m]].match = m /\ info[servers[m]].port = p)
            BY DEF PortsAreServers
        <3>1. used[p] = m => servers[m] # NoServer /\ info[servers[m]].match = m /\ info[servers[m]].port = p
            BY <2>1, AgentAssumption DEF MapInv
        <3>2. servers[m] # NoServer /\ info[servers[m]].port = p => used[p] = m
            BY <2>1 DEF MapInv
        <3> QED BY <3>1, <3>2
    <2>3. \A s, t \in running : s # t => info[s].port # info[t].port
        BY <2>1 DEF ProcessInv
    <2>4. up => running \subseteq Live \cup lost
        BY <2>1, LiveOwned DEF ProcessInv, ServersTypeOK, Owned
    <2> QED BY <2>2, <2>3, <2>4 DEF SlotsAreServers
<1> QED BY <1>1, AgentInvariance, PTL

\* Until the agent first dies, nothing runs from the install while SteamCMD changes it
THEOREM UpdatesAlone == Spec => []UpdateRunsAlone
<1>1. AgentInv => UpdateRunsAlone
    <2> SUFFICES ASSUME AgentInv, crashes = 0, steamcmd # {} PROVE running = {}
        BY DEF UpdateRunsAlone
    <2>1. up /\ lost = {} /\ Live = {}
        BY DEF AgentInv, TypeOK, ServersTypeOK, UpdaterInv
    <2>2. ServersTypeOK /\ MapInv /\ ProcessInv
        BY DEF AgentInv, ServersInv
    <2>3. Owned = {}
        BY <2>1, <2>2, LiveOwned
    <2> QED BY <2>1, <2>2, <2>3 DEF ProcessInv, ServersTypeOK, Owned
<1> QED BY <1>1, AgentInvariance, PTL

\* No stop is reported as a crash, whenever in the life of the server it came
THEOREM CrashesReal == Spec => CrashIsReal
<1>1. AgentInv /\ [Next]_vars => [\A s \in reported' \ reported : s \in asked => s \in adopted]_vars
    <2> SUFFICES ASSUME AgentInv, Next, NEW t \in reported' \ reported, t \in asked
                 PROVE  t \in adopted
        BY DEF vars
    <2>1. PICK s \in Server : Finish(s)
        BY DEF Next, ServerStep, UpdateStep, Trigger, Step, UpToDate, Outdated, Drain, BeginUpdate, EndUpdate,
               LeftoverEnds, Dies, AgentDies, Start, Launch, LaunchFails, Started, Signal, ProcessEnds, WatchEnds,
               Stop, Recover, serverVars
    <2>2. t = s /\ entry[s] = "ended" /\ s \notin stopping
        BY <2>1 DEF Finish
    <2> QED BY <2>2 DEF AgentInv, ServersInv, StopInv
<1> QED BY <1>1, AgentInvariance, PTL DEF Spec, CrashIsReal
=============================================================================
