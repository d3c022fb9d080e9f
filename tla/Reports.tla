------------------------------- MODULE Reports -------------------------------
(***************************************************************************)
(* Player reports and the requests that change them:                       *)
(* internal/ban/{report,report_repo,report_service}.go.                    *)
(*                                                                         *)
(* As with bans, each database statement is a step and a save writes back  *)
(* the whole row a handler read earlier.  The columns a request can change *)
(* are the status alone; the rest of a row is fixed at its insertion.      *)
(***************************************************************************)
EXTENDS Naturals

CONSTANTS Authors,    \* people who report
          Subjects,   \* people who are reported
          Callers,    \* goroutines serving report requests
          MaxReports, \* bound: rows ever inserted
          NoEntry

ASSUME ReportsAssumption == MaxReports \in Nat

VARIABLES reports,    \* the report table, by report_id
          nextReport, \* the value the report_id sequence gives out next
          rh          \* the handlers

rvars == <<reports, nextReport, rh>>

ReportIds == 1..MaxReports

\* In the order of the Go constants, which GetReportBySteamID compares.
Opened == 0
NeedMoreInfo == 1
ClosedWithoutAction == 2
ClosedWithAction == 3
Statuses == Opened..ClosedWithAction

Entry == [author : Authors, subject : Subjects, status : Statuses, demo : BOOLEAN]

ASSUME NoEntryAssumption == NoEntry \notin Entry

RSteps == {"idle", "insert", "stored", "message", "save"}
ROps == {"none", "create", "status", "message"}
RResults == {"none", "ok", "exists", "failed", "panicked"}

Caller == [pc : RSteps, op : ROps, id : ReportIds \cup {0}, copy : Entry \cup {NoEntry},
           fresh : BOOLEAN, result : RResults]

ReportsTypeOK ==
    /\ reports \in [ReportIds -> Entry \cup {NoEntry}]
    /\ nextReport \in 1..(MaxReports + 1)
    /\ rh \in [Callers -> Caller]

Filed(r) == reports[r] # NoEntry

\* ReportRepository.GetReportBySteamID: any open report of the pair.
OpenBy(a, s) == {r \in ReportIds : /\ Filed(r)
                                   /\ reports[r].author = a
                                   /\ reports[r].subject = s
                                   /\ reports[r].status <= NeedMoreInfo}

RDone(res) == [pc |-> "idle", op |-> "none", id |-> 0, copy |-> NoEntry,
               fresh |-> FALSE, result |-> res]
RAt(pc, op, r, copy) == [pc |-> pc, op |-> op, id |-> r, copy |-> copy,
                         fresh |-> TRUE, result |-> "none"]
RFinish(c, res) == rh' = [rh EXCEPT ![c] = RDone(res)]
RGoto(c, rec) == rh' = [rh EXCEPT ![c] = rec]

\* What the request k read is overtaken once report r is written as row: k has a
\* copy of r, or is about to insert a report of a pair that row leaves open.
Overtaken(k, r, row) ==
    \/ k.id = r
    \/ /\ k.pc = "insert"
       /\ row.status <= NeedMoreInfo
       /\ row.author = k.copy.author /\ row.subject = k.copy.subject

StaleCallers(cs, r, row) ==
    [d \in Callers |-> IF Overtaken(cs[d], r, row) THEN [cs[d] EXCEPT !.fresh = FALSE] ELSE cs[d]]

ReportsInit ==
    /\ reports = [r \in ReportIds |-> NoEntry]
    /\ nextReport = 1
    /\ rh = [c \in Callers |-> RDone("none")]

\* Mutant of ReportCreate: a report waiting for information does not count as open.
ReportCreateForgetsInfo(c, a, s, demo) ==
    /\ rh[c].pc = "idle"
    /\ a # s
    /\ IF \E r \in OpenBy(a, s) : reports[r].status = Opened
       THEN RFinish(c, "exists")
       ELSE RGoto(c, RAt("insert", "create", 0,
                 [author |-> a, subject |-> s, status |-> Opened, demo |-> demo]))
    /\ UNCHANGED <<reports, nextReport>>

\* Reports.Save: refused while the author has an open report on the subject.
ReportCreate(c, a, s, demo) ==
    /\ rh[c].pc = "idle"
    /\ a # s
    /\ IF OpenBy(a, s) # {}
       THEN RFinish(c, "exists")
       ELSE RGoto(c, RAt("insert", "create", 0,
                 [author |-> a, subject |-> s, status |-> Opened, demo |-> demo]))
    /\ UNCHANGED <<reports, nextReport>>

ReportInsert(c) ==
    /\ rh[c].pc = "insert"
    /\ nextReport <= MaxReports
    /\ reports' = [reports EXCEPT ![nextReport] = rh[c].copy]
    /\ nextReport' = nextReport + 1
    /\ rh' = [StaleCallers(rh, nextReport, rh[c].copy) EXCEPT
                 ![c] = [rh[c] EXCEPT !.pc = "stored", !.id = nextReport]]

\* After the insertion Save looks at demo.DemoID; for a report without a demo
\* that pointer is nil, the goroutine panics and the server drops the request.
ReportStored(c) ==
    /\ rh[c].pc = "stored"
    /\ RFinish(c, IF rh[c].copy.demo THEN "ok" ELSE "panicked")
    /\ UNCHANGED <<reports, nextReport>>

\* Mutant of SetReportStatus: a report that is closed is left alone, however it was closed.
SetReportStatusOnce(c, r, s) ==
    /\ rh[c].pc = "idle"
    /\ IF ~Filed(r) THEN RFinish(c, "failed")
       ELSE IF reports[r].status = s \/ (s > NeedMoreInfo /\ reports[r].status > NeedMoreInfo)
            THEN RFinish(c, "ok")
       ELSE RGoto(c, RAt("save", "status", r, [reports[r] EXCEPT !.status = s]))
    /\ UNCHANGED <<reports, nextReport>>

\* Reports.SetReportStatus: a row that has the status already is left alone.
SetReportStatus(c, r, s) ==
    /\ rh[c].pc = "idle"
    /\ IF ~Filed(r) THEN RFinish(c, "failed")
       ELSE IF reports[r].status = s THEN RFinish(c, "ok")
       ELSE RGoto(c, RAt("save", "status", r, [reports[r] EXCEPT !.status = s]))
    /\ UNCHANGED <<reports, nextReport>>

\* Mutant of CreateMessage: a reply opens the report again.
MessageReopensReport(c, r) ==
    /\ rh[c].pc = "idle"
    /\ IF Filed(r) THEN RGoto(c, RAt("message", "message", r, [reports[r] EXCEPT !.status = Opened]))
                   ELSE RFinish(c, "failed")
    /\ UNCHANGED <<reports, nextReport>>

\* Reports.CreateMessage reads the report, inserts the message, then saves the
\* report back for its updated_on.
CreateMessage(c, r) ==
    /\ rh[c].pc = "idle"
    /\ IF Filed(r) THEN RGoto(c, RAt("message", "message", r, reports[r]))
                   ELSE RFinish(c, "failed")
    /\ UNCHANGED <<reports, nextReport>>

MessageInsert(c) ==
    /\ rh[c].pc = "message"
    /\ RGoto(c, [rh[c] EXCEPT !.pc = "save"])
    /\ UNCHANGED <<reports, nextReport>>

\* ReportRepository.updateReport: every column of the copy goes to the row.
SaveReport(c) ==
    /\ rh[c].pc = "save"
    /\ reports' = [reports EXCEPT ![rh[c].id] = rh[c].copy]
    /\ rh' = [StaleCallers(rh, rh[c].id, rh[c].copy) EXCEPT ![c] = RDone("ok")]
    /\ UNCHANGED nextReport

\* A later statement fails, or the client goes away.
ReportFail(c) ==
    /\ rh[c].pc # "idle"
    /\ rh[c].pc = "stored" => rh[c].copy.demo
    /\ RFinish(c, "failed")
    /\ UNCHANGED <<reports, nextReport>>

\* The first read fails, or the reader may not see the report.
ReportRefused(c) ==
    /\ rh[c].pc = "idle"
    /\ RFinish(c, "failed")
    /\ UNCHANGED <<reports, nextReport>>

\* What a request does once it has begun, and the requests themselves.
CallerContinues(c) ==
    ReportInsert(c) \/ ReportStored(c) \/ MessageInsert(c) \/ SaveReport(c) \/ ReportFail(c)

CallerBegins(c) ==
    \/ \E a \in Authors, s \in Subjects, demo \in BOOLEAN : ReportCreate(c, a, s, demo)
    \/ \E r \in ReportIds, s \in Statuses : SetReportStatus(c, r, s)
    \/ \E r \in ReportIds : CreateMessage(c, r)
    \/ ReportRefused(c)

ReportsRestart ==
    /\ rh' = [c \in Callers |-> RDone("none")]
    /\ UNCHANGED <<reports, nextReport>>

ReportsNext == ReportsRestart \/ \E c \in Callers : CallerBegins(c) \/ CallerContinues(c)

ReportsSpec == ReportsInit /\ [][ReportsNext]_rvars

-----------------------------------------------------------------------------
(* Properties.                                                             *)

\* The status of a report changes only through a status request, or through a
\* message whose copy of the row somebody has overtaken (whole-row saves).
OnlyStatusRequestsMoveStatus ==
    [][\A c \in Callers : SaveReport(c) /\ rh[c].fresh /\ rh[c].op # "status"
          => reports' = reports]_rvars

\* While an author has an open report on a subject, another one joins it only by
\* a report whose check somebody has overtaken, by a status request, or by a reply
\* saved from an overtaken copy: check and insertion of Reports.Save are two
\* statements, and opening a report again checks nothing.
SecondOpenOnlyOvertaken ==
    [][\A c \in Callers, a \in Authors, s \in Subjects :
          /\ ReportInsert(c) \/ SaveReport(c)
          /\ OpenBy(a, s) # {} /\ ~(OpenBy(a, s)' \subseteq OpenBy(a, s))
          => ~rh[c].fresh \/ rh[c].op = "status"]_rvars
=============================================================================
