----------------------------- MODULE ReviewCases -----------------------------
(***************************************************************************)
(* Reports on a player of one match, the cases they open, and the admins   *)
(* who claim, release and decide them: review/service.ts of the API, with  *)
(* the report route of match/extras-routes.ts.                             *)
(*                                                                         *)
(* Requests run next to each other, and none of them holds a transaction:  *)
(* each SQL statement is a step, and what an earlier one has read may be   *)
(* out of date. Left out: the list of cases and the queries of the views,  *)
(* the audit, the training example a ruling stores, and the ban, rollback  *)
(* and trust level that a confirmed case leads to (RatingLedger, MCParts). *)
(* Bounds: MaxCases, MaxClaims.                                            *)
(***************************************************************************)
EXTENDS Naturals, Sequences, FiniteSets

CONSTANTS Reporter, Admin,
          Trusted,          \* the reporters of trust level "trusted"
          Suspect,          \* the player the reports are about; may be an admin
          MaxCases, MaxClaims,
          None

AnyOutcome == {"received", "reviewed", "actioned", "dismissed"}

ASSUME ReviewAssumption ==
    /\ IsFiniteSet(Reporter)
    /\ None \notin [outcome : AnyOutcome, rulings : Nat]

VARIABLES
    report,     \* reports: outcome, and createdAt as the number of rulings before it; or None
    case,       \* flags of the player in the match, oldest first
    keep,       \* demos.keep of the match
    call,       \* the request each reporter or admin has under way
    claims

reviewVars == <<report, case, keep, call, claims>>
tables == <<report, case, keep>>

Idle == [step |-> "idle"]
At(a, step) == call[a].step = step
Go(a, next) == call' = [call EXCEPT ![a] = next]

Decided == {"cleared", "confirmed"}
Undecided(c) == c.status \notin Decided
Latest == case[Len(case)]
Numbers == DOMAIN case

ReviewInit ==
    /\ report = [r \in Reporter |-> None]
    /\ case = <<>>
    /\ keep = FALSE
    /\ call = [a \in Reporter \cup Admin |-> Idle]
    /\ claims = 0

Reported == {r \in Reporter : report[r] # None}
Rulings == Cardinality({i \in Numbers : ~Undecided(case[i])})

\* setReportOutcome: the reports with an outcome in `from` move to `outcome`
MoveReports(from, outcome) ==
    report' = [r \in Reporter |->
        IF r \in Reported /\ report[r].outcome \in from THEN [report[r] EXCEPT !.outcome = outcome] ELSE report[r]]

OutcomeFor(status) ==
    CASE status = "confirmed" -> "actioned" [] status = "cleared" -> "dismissed"
      [] status = "reviewing" -> "reviewed" [] status = "open" -> "received"

-----------------------------------------------------------------------------
\* The report route stores the report, once per reporter
FileReport(r) ==
    /\ At(r, "idle") /\ report[r] = None
    /\ report' = [report EXCEPT ![r] = [outcome |-> "received", rulings |-> Rulings]]
    /\ Go(r, [step |-> "filed"])
    /\ UNCHANGED <<case, keep, claims>>

\* onReport reads the cases: join the latest one, reopen it if it was cleared, or count the reports
ReopenedBefore(r) == \E i \in Numbers : case[i].reopenedBy = r
JoinCase(r) ==
    /\ At(r, "filed")
    /\ IF case = <<>> THEN Go(r, [step |-> "count"])
       ELSE IF Latest.status = "cleared" /\ r \in Trusted /\ ~ReopenedBefore(r)
            THEN Go(r, [step |-> "insert", reopenedBy |-> r])
       ELSE IF Latest.status = "open" THEN Go(r, Idle)
       ELSE Go(r, [step |-> "follow", outcome |-> OutcomeFor(Latest.status)])
    /\ UNCHANGED <<tables, claims>>

\* Late reports follow the case they join
FollowCase(r) ==
    /\ At(r, "follow")
    /\ MoveReports({"received"}, call[r].outcome)
    /\ Go(r, Idle)
    /\ UNCHANGED <<case, keep, claims>>

\* Two reports open a case, one is enough from a trusted player
CountReports(r) ==
    /\ At(r, "count")
    /\ Go(r, IF Cardinality(Reported) >= 2 \/ r \in Trusted
             THEN [step |-> "insert", reopenedBy |-> None] ELSE Idle)
    /\ UNCHANGED <<tables, claims>>

\* openFlag: the unique index refuses a second open case
SomeOpen == \E i \in Numbers : case[i].status = "open"
OpenCase(r) ==
    /\ At(r, "insert")
    /\ \/ /\ SomeOpen
          /\ Go(r, Idle)
          /\ UNCHANGED case
       \/ /\ ~SomeOpen /\ Len(case) < MaxCases
          /\ case' = Append(case, [status |-> "open", reviewer |-> None, stale |-> FALSE,
                                   reopenedBy |-> call[r].reopenedBy])
          /\ Go(r, [step |-> "keep"])
    /\ UNCHANGED <<report, keep, claims>>

KeepDemo(r) ==
    /\ At(r, "keep")
    /\ keep' = TRUE
    /\ Go(r, Idle)
    /\ UNCHANGED <<report, case, claims>>

-----------------------------------------------------------------------------
\* claim, unclaim and decide read the case, and refuse what is not the admin's to do ...
Mine(c, a) == c.reviewer \in {None, a} \/ c.stale

Read(a, i, step, allowed) ==
    /\ At(a, "idle") /\ allowed
    /\ Go(a, [step |-> step, flag |-> i])
    /\ UNCHANGED <<tables, claims>>

ReadToClaim(a, i) == Read(a, i, "claim", a # Suspect /\ case[i].status = "open")
ReadToUnclaim(a, i) ==
    Read(a, i, "unclaim", case[i].status = "reviewing" /\ (case[i].reviewer = a \/ case[i].stale))
ReadToDecide(a, i) == Read(a, i, "decide", a # Suspect /\ Undecided(case[i]) /\ Mine(case[i], a))

\* ... then update it if it is still in a status they know, or refuse as well
Refuse(a, step, known) ==
    /\ At(a, step) /\ ~known
    /\ Go(a, Idle)
    /\ UNCHANGED <<tables, claims>>

UpdateCase(a, c, next) ==
    /\ case' = [case EXCEPT ![call[a].flag] = c]
    /\ Go(a, next)
    /\ UNCHANGED <<report, keep>>

CaseOf(a) == case[call[a].flag]

Claim(a) ==
    \/ /\ At(a, "claim") /\ CaseOf(a).status = "open"
       /\ claims < MaxClaims /\ claims' = claims + 1
       /\ UpdateCase(a, [CaseOf(a) EXCEPT !.status = "reviewing", !.reviewer = a, !.stale = FALSE], [step |-> "claimed"])
    \/ Refuse(a, "claim", CaseOf(a).status = "open")

MarkReviewed(a) ==
    /\ At(a, "claimed")
    /\ MoveReports({"received"}, "reviewed")
    /\ Go(a, Idle)
    /\ UNCHANGED <<case, keep, claims>>

\* A case does not become the second open one
MayReopen(a) == CaseOf(a).status = "reviewing" /\ ~SomeOpen
Unclaim(a) ==
    \/ /\ At(a, "unclaim") /\ MayReopen(a)
       /\ UpdateCase(a, [CaseOf(a) EXCEPT !.status = "open", !.reviewer = None, !.stale = FALSE], [step |-> "unclaimed"])
       /\ UNCHANGED claims
    \/ Refuse(a, "unclaim", MayReopen(a))

\* Whatever their outcome
MarkReceived_All(a) ==
    /\ At(a, "unclaimed")
    /\ MoveReports(AnyOutcome, "received")
    /\ Go(a, Idle)
    /\ UNCHANGED <<case, keep, claims>>

MarkReceived(a) ==
    /\ At(a, "unclaimed")
    /\ MoveReports({"reviewed"}, "received")
    /\ Go(a, Idle)
    /\ UNCHANGED <<case, keep, claims>>

\* Trusts what was read of the claim
MayRule_AsRead(a) == Undecided(CaseOf(a))

MayRule(a) == Undecided(CaseOf(a)) /\ Mine(CaseOf(a), a)
Decide(a, outcome) ==
    \/ /\ At(a, "decide") /\ MayRule(a)
       /\ UpdateCase(a, [CaseOf(a) EXCEPT !.status = outcome, !.reviewer = a], [step |-> "decided", outcome |-> outcome])
       /\ UNCHANGED claims
    \/ Refuse(a, "decide", MayRule(a))

\* Leaves out the reports of a case that has been claimed
RuleReports_Unread(a) ==
    /\ At(a, "decided")
    /\ MoveReports({"received"}, OutcomeFor(call[a].outcome))
    /\ Go(a, IF call[a].outcome = "cleared" THEN [step |-> "unkeep?"] ELSE Idle)
    /\ UNCHANGED <<case, keep, claims>>

\* Every report on the player follows the ruling, whatever it was before
RuleReports(a) ==
    /\ At(a, "decided")
    /\ MoveReports(AnyOutcome, OutcomeFor(call[a].outcome))
    /\ Go(a, IF call[a].outcome = "cleared" THEN [step |-> "unkeep?"] ELSE Idle)
    /\ UNCHANGED <<case, keep, claims>>

\* The demo of a cleared case goes back to normal retention unless another case needs it
CountOthers(a) ==
    /\ At(a, "unkeep?")
    /\ Go(a, IF \E i \in Numbers : case[i].status # "cleared" THEN Idle ELSE [step |-> "unkeep"])
    /\ UNCHANGED <<tables, claims>>

ReleaseDemo(a) ==
    /\ At(a, "unkeep")
    /\ keep' = FALSE
    /\ Go(a, Idle)
    /\ UNCHANGED <<report, case, claims>>

\* CLAIM_TIMEOUT_MINUTES pass
ClaimTimesOut(i) ==
    /\ case[i].status = "reviewing" /\ ~case[i].stale
    /\ case' = [case EXCEPT ![i].stale = TRUE]
    /\ UNCHANGED <<report, keep, call, claims>>

-----------------------------------------------------------------------------
ReviewNext ==
    \/ \E r \in Reporter : FileReport(r) \/ JoinCase(r) \/ FollowCase(r) \/ CountReports(r) \/ OpenCase(r) \/ KeepDemo(r)
    \/ \E a \in Admin :
        \/ \E i \in Numbers : ReadToClaim(a, i) \/ ReadToUnclaim(a, i) \/ ReadToDecide(a, i)
        \/ Claim(a) \/ MarkReviewed(a) \/ Unclaim(a) \/ MarkReceived(a)
        \/ \E outcome \in Decided : Decide(a, outcome)
        \/ RuleReports(a) \/ CountOthers(a) \/ ReleaseDemo(a)
    \/ \E i \in Numbers : ClaimTimesOut(i)

ReviewSpec == ReviewInit /\ [][ReviewNext]_reviewVars

-----------------------------------------------------------------------------
\* extras-routes.ts 35-46, review/service.ts 45-46, 69-74, 206-207: however reports, claims and rulings
\* interleave, once no request is under way two reports, or one of a trusted player, have a case; and when
\* none is left to decide, each report filed before the last ruling has the outcome of a ruling
NoReportForgotten ==
    (\A a \in Reporter \cup Admin : At(a, "idle")) =>
        /\ (Cardinality(Reported) >= 2 \/ Trusted \cap Reported # {}) => case # <<>>
        /\ (\A i \in Numbers : ~Undecided(case[i])) =>
              \A r \in Reported : report[r].rulings < Rulings =>
                  \E i \in Numbers : report[r].outcome = OutcomeFor(case[i].status)

\* review/service.ts 182-207: whatever a request read before, a ruling is made once for all, never by the
\* player it is about, and by nobody but the claimer as long as the claim is not stale; and a report it has
\* settled stays settled, whatever claim or release comes late
Settled(r) == r \in Reported /\ report[r].outcome \in {"actioned", "dismissed"}
RulingStands ==
    [][/\ \A i \in Numbers : case'[i] # case[i] =>
            /\ Undecided(case[i])
            /\ ~Undecided(case'[i]) => Mine(case[i], case'[i].reviewer) /\ case'[i].reviewer # Suspect
       /\ \A r \in Reporter : Settled(r) => Settled(r)']_reviewVars
=============================================================================
