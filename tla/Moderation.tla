----------------------------- MODULE Moderation -----------------------------
(***************************************************************************)
(* Bans composed with reports: Bans.Create closes the report a ban is      *)
(* attached to by calling Reports.SetReportStatus from its own goroutine,  *)
(* while moderators and authors go on using the report.                    *)
(*                                                                         *)
(* The history variable "parted" collects the bans that somebody has taken *)
(* apart from their report: a failure or a restart before the report was   *)
(* closed, or a later request that gave the report another status.  No     *)
(* guard reads it.                                                         *)
(***************************************************************************)
EXTENDS Bans, Reports

VARIABLE parted

mvars == <<vars, rvars, parted>>

\* One set of goroutines serves both kinds of request, and the reports a ban
\* can be attached to are those of the report table.
ASSUME SharedAssumption == Callers = Handlers /\ Reports = ReportIds

ModerationInit == Init /\ ReportsInit /\ parted = {}

\* Bans.Create is waiting for SetReportStatus to answer.
Closing(p) == h[p].pc = "report"

BansFor(r) == {id \in BanIds : Stored(id) /\ rows[id].report = r}

\* The bans that the end of a report request takes apart from the report.
PartedBy(c) ==
    IF /\ SaveReport(c) /\ rh[c].copy.status # ClosedWithAction
       /\ rh[c].op = "status" \/ ~rh[c].fresh
    THEN BansFor(rh[c].id) ELSE {}

\* The call: the same goroutine enters SetReportStatus.
CloseReport(p) ==
    /\ Closing(p)
    /\ rh[p].result = "none"
    /\ SetReportStatus(p, h[p].copy.report, ClosedWithAction) \/ ReportRefused(p)
    /\ UNCHANGED <<vars, parted>>

\* The return: Create goes on, or gives up with the ban already stored.
CloseReturns(p) ==
    /\ Closing(p)
    /\ rh[p].pc = "idle" /\ rh[p].result # "none"
    /\ ReportReturns(p, rh[p].result = "ok")
    /\ RFinish(p, "none")
    /\ parted' = IF rh[p].result = "ok" THEN parted ELSE parted \cup {h[p].id}
    /\ UNCHANGED <<reports, nextReport>>

\* A ban request needs a goroutine that is not serving a report request; while
\* Create waits for SetReportStatus it is the call that can fail, not Create.
BanRequest(p) ==
    /\ rh[p].pc = "idle" /\ ~Closing(p)
    /\ HandlerStep(p)
    /\ RFinish(p, "none")
    /\ UNCHANGED <<reports, nextReport, parted>>

ReportRequest(p) ==
    /\ \/ h[p].pc = "idle" /\ CallerBegins(p)
       \/ CallerContinues(p)
    /\ parted' = parted \cup PartedBy(p)
    /\ UNCHANGED vars

ModerationRestart ==
    /\ Restart /\ ReportsRestart
    /\ parted' = parted \cup {h[p].id : p \in {q \in Handlers : Closing(q)}}

ModerationNext ==
    \/ (Tick \/ MonitorStep) /\ UNCHANGED <<rvars, parted>>
    \/ ModerationRestart
    \/ \E p \in Handlers : CloseReport(p) \/ CloseReturns(p) \/ BanRequest(p) \/ ReportRequest(p)

ModerationSpec == ModerationInit /\ [][ModerationNext]_mvars

-----------------------------------------------------------------------------
(* Properties.                                                             *)

\* Create stores the ban before it closes the report, so no failure leaves a
\* report closed with action for which no ban was ever written.
ClosedForABan ==
    \A p \in Handlers : Closing(p) =>
        \E id \in BanIds : Stored(id) /\ rows[id].report = h[p].copy.report

\* A ban that is answered as created has closed its report, unless another
\* request has written the report since: with one request at a time it always has.
CreatedClosesReport ==
    [][\A p \in Handlers :
          /\ CreateFinish(p) /\ h'[p].result = "created"
          /\ h[p].copy.report # NoReport
          => /\ Filed(h[p].copy.report)
             /\ reports[h[p].copy.report].status = ClosedWithAction]_mvars

\* A ban and the report it was created for stay in step: the report is closed with
\* action, or Create is still closing it, or somebody has parted the two.  Nothing
\* repairs a parted pair, and nothing but a failure, a restart, a status request or a
\* reply saved from an overtaken copy parts one.
PairedUnlessParted ==
    \A id \in BanIds : Stored(id) /\ rows[id].report # NoReport =>
        \/ /\ Filed(rows[id].report)
           /\ reports[rows[id].report].status = ClosedWithAction
        \/ \E p \in Handlers : Closing(p) /\ h[p].id = id
        \/ id \in parted
=============================================================================
