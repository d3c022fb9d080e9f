-------------------------- MODULE ModerationProofs --------------------------
(***************************************************************************)
(* Theorems about Reports and about Moderation, for any people, goroutines,*)
(* bans, reports and clock readings.                                       *)
(*                                                                         *)
(* Reports by itself: the types, that only status requests move the status *)
(* of a report they have a fresh copy of, and every way to a second open   *)
(* report of a pair.                                                       *)
(*                                                                         *)
(* Moderation: its steps are steps of Bans and of Reports, so that their   *)
(* invariants hold of it, and how a ban and the report it closes stay in   *)
(* step, with any number of goroutines and with one.                       *)
(***************************************************************************)
EXTENDS Moderation, BansProofs

\* Rows are numbered in order.
EntriesInv == \A r \in ReportIds : Filed(r) => r < nextReport

\* What a request has in hand, as far as nobody has overtaken it.
CallerInv(k) ==
    /\ k.pc = "insert" => /\ k.op = "create" /\ k.id = 0
                          /\ k.copy \in Entry /\ k.copy.status = Opened
                          /\ k.fresh => OpenBy(k.copy.author, k.copy.subject) = {}
    /\ k.pc = "stored" => k.copy \in Entry
    /\ k.pc \in {"message", "save"} =>
          /\ k.id \in ReportIds /\ Filed(k.id) /\ k.copy \in Entry
          /\ k.op \in {"status", "message"}
          /\ k.fresh /\ k.op = "message" => k.copy = reports[k.id]

RInv == ReportsTypeOK /\ EntriesInv /\ \A c \in Callers : CallerInv(rh[c])

LEMMA DoneTyped ==
    ASSUME NEW res \in RResults
    PROVE  RDone(res) \in Caller /\ CallerInv(RDone(res))
BY DEF RDone, Caller, RSteps, ROps, CallerInv

\* A step of one caller that leaves the table alone.
LEMMA CallerMoves ==
    ASSUME RInv, UNCHANGED <<reports, nextReport>>, NEW c \in Callers, NEW k \in Caller,
           CallerInv(k), rh' = [rh EXCEPT ![c] = k]
    PROVE  RInv'
<1>1. \A d \in Callers : rh'[d] = IF d = c THEN k ELSE rh[d]
  BY DEF RInv, ReportsTypeOK
<1>2. \A d \in Callers : CallerInv(rh[d])' <=> CallerInv(rh'[d])
  BY DEF CallerInv, Filed, OpenBy
<1>3. \A d \in Callers : CallerInv(rh'[d])
  BY <1>1 DEF RInv
<1>4. ReportsTypeOK' /\ EntriesInv'
  BY DEF RInv, ReportsTypeOK, EntriesInv, Filed
<1> QED BY <1>2, <1>3, <1>4 DEF RInv

LEMMA CallerDone ==
    ASSUME RInv, UNCHANGED <<reports, nextReport>>, NEW c \in Callers, NEW res \in RResults,
           RFinish(c, res)
    PROVE  RInv'
BY CallerMoves, DoneTyped DEF RFinish

\* A request that has read the row r and goes on with a copy of it.
LEMMA CallerReads ==
    ASSUME RInv, UNCHANGED <<reports, nextReport>>, NEW c \in Callers, NEW r \in ReportIds, Filed(r),
           NEW pc \in {"message", "save"}, NEW op \in {"status", "message"}, NEW copy \in Entry,
           op = "message" => copy = reports[r], RGoto(c, RAt(pc, op, r, copy))
    PROVE  RInv'
<1>1. RAt(pc, op, r, copy) \in Caller
  BY DEF RAt, Caller, RSteps, ROps, RResults
<1>2. CallerInv(RAt(pc, op, r, copy))
  BY DEF CallerInv, RAt
<1> QED BY <1>1, <1>2, CallerMoves DEF RGoto

LEMMA RowTyped == ASSUME RInv, NEW r \in ReportIds, Filed(r) PROVE reports[r] \in Entry
BY DEF RInv, ReportsTypeOK, Filed

LEMMA BeginsKeeps == ASSUME RInv, NEW c \in Callers, CallerBegins(c) PROVE RInv'
<1>1. CASE \E a \in Authors, s \in Subjects, demo \in BOOLEAN : ReportCreate(c, a, s, demo)
  <2>1. PICK a \in Authors, s \in Subjects, demo \in BOOLEAN : ReportCreate(c, a, s, demo)
    BY <1>1
  <2> DEFINE copy == [author |-> a, subject |-> s, status |-> Opened, demo |-> demo]
  <2>2. CASE OpenBy(a, s) # {}
    BY <2>1, <2>2, CallerDone DEF ReportCreate, RResults
  <2>3. CASE OpenBy(a, s) = {}
    <3>1. /\ copy \in Entry /\ copy.status = Opened
          /\ OpenBy(copy.author, copy.subject) = {}
      BY <2>3 DEF Entry, Statuses, Opened, ClosedWithAction
    <3>2. rh' = [rh EXCEPT ![c] = RAt("insert", "create", 0, copy)] /\ UNCHANGED <<reports, nextReport>>
      BY <2>1, <2>3 DEF ReportCreate, RGoto
    <3> HIDE DEF copy
    <3>3. RAt("insert", "create", 0, copy) \in Caller /\ CallerInv(RAt("insert", "create", 0, copy))
      BY <3>1 DEF RAt, Caller, RSteps, ROps, RResults, CallerInv
    <3> QED BY <3>2, <3>3, CallerMoves
  <2> QED BY <2>2, <2>3
<1>2. CASE \E r \in ReportIds, s \in Statuses : SetReportStatus(c, r, s)
  <2>1. PICK r \in ReportIds, s \in Statuses : SetReportStatus(c, r, s)
    BY <1>2
  <2>2. CASE ~Filed(r) \/ reports[r].status = s
    BY <2>1, <2>2, CallerDone DEF SetReportStatus, RResults
  <2>3. CASE Filed(r) /\ reports[r].status # s
    <3>1. [reports[r] EXCEPT !.status = s] \in Entry
      BY <2>3, RowTyped DEF Entry
    <3> QED BY <2>1, <2>3, <3>1, CallerReads DEF SetReportStatus
  <2> QED BY <2>2, <2>3
<1>3. CASE \E r \in ReportIds : CreateMessage(c, r)
  <2>1. PICK r \in ReportIds : CreateMessage(c, r)
    BY <1>3
  <2>2. CASE Filed(r)
    BY <2>1, <2>2, RowTyped, CallerReads DEF CreateMessage
  <2>3. CASE ~Filed(r)
    BY <2>1, <2>3, CallerDone DEF CreateMessage, RResults
  <2> QED BY <2>2, <2>3
<1>4. CASE ReportRefused(c)
  BY <1>4, CallerDone DEF ReportRefused, RResults
<1> QED BY <1>1, <1>2, <1>3, <1>4 DEF CallerBegins

\* A row that is not an open report of the pair (a, s) adds none.
LEMMA NotOfThePair ==
    ASSUME RInv, NEW r \in ReportIds, NEW row \in Entry, reports' = [reports EXCEPT ![r] = row],
           NEW a, NEW s, ~(row.status <= NeedMoreInfo /\ row.author = a /\ row.subject = s)
    PROVE  OpenBy(a, s)' \subseteq OpenBy(a, s)
<1> SUFFICES ASSUME NEW i \in OpenBy(a, s)' PROVE i \in OpenBy(a, s)
  OBVIOUS
<1>1. i \in ReportIds /\ i # r
  BY DEF OpenBy, RInv, ReportsTypeOK
<1>2. reports'[i] = reports[i]
  BY <1>1
<1> QED BY <1>1, <1>2 DEF OpenBy, Filed

\* A caller that did not write the row is marked when the write overtakes it.
LEMMA OthersKeep ==
    ASSUME RInv, NEW r \in ReportIds, NEW row \in Entry, reports' = [reports EXCEPT ![r] = row],
           NEW d \in Callers, rh'[d] = StaleCallers(rh, r, row)[d]
    PROVE  CallerInv(rh[d])'
<1>1. rh[d] \in Caller /\ CallerInv(rh[d])
  BY DEF RInv, ReportsTypeOK
<1>2. \A i \in ReportIds : Filed(i) => Filed(i)'
  BY NoEntryAssumption DEF RInv, ReportsTypeOK, Filed
<1>3. CASE Overtaken(rh[d], r, row)
  <2>1. rh'[d] = [rh[d] EXCEPT !.fresh = FALSE]
    BY <1>3 DEF StaleCallers
  <2> QED BY <1>1, <1>2, <2>1 DEF CallerInv, Caller
<1>4. CASE ~Overtaken(rh[d], r, row)
  <2>1. rh'[d] = rh[d] /\ rh[d].id # r
    BY <1>4 DEF StaleCallers, Overtaken
  <2>2. rh[d].pc = "insert" => OpenBy(rh[d].copy.author, rh[d].copy.subject)'
                                 \subseteq OpenBy(rh[d].copy.author, rh[d].copy.subject)
    <3> SUFFICES ASSUME rh[d].pc = "insert"
                 PROVE  ~(/\ row.status <= NeedMoreInfo /\ row.author = rh[d].copy.author
                          /\ row.subject = rh[d].copy.subject)
      BY NotOfThePair, <2>1 DEF OpenBy, Filed
    <3> QED BY <1>4 DEF Overtaken
  <2>3. rh[d].pc \in {"message", "save"} => reports'[rh[d].id] = reports[rh[d].id]
    BY <1>1, <2>1 DEF CallerInv, RInv, ReportsTypeOK
  <2> QED BY <1>1, <1>2, <2>1, <2>2, <2>3 DEF CallerInv, OpenBy, Filed
<1> QED BY <1>3, <1>4

LEMMA StaleTyped ==
    ASSUME RInv, NEW r, NEW row PROVE StaleCallers(rh, r, row) \in [Callers -> Caller]
<1> SUFFICES ASSUME NEW d \in Callers
             PROVE  (IF Overtaken(rh[d], r, row) THEN [rh[d] EXCEPT !.fresh = FALSE] ELSE rh[d]) \in Caller
  BY DEF StaleCallers
<1> QED BY DEF RInv, ReportsTypeOK, Caller

LEMMA ContinuesKeeps == ASSUME RInv, NEW c \in Callers, CallerContinues(c) PROVE RInv'
<1>1. CASE ReportInsert(c)
  <2> DEFINE k  == [rh[c] EXCEPT !.pc = "stored", !.id = nextReport]
             cs == StaleCallers(rh, nextReport, rh[c].copy)
  <2>1. /\ nextReport \in ReportIds /\ nextReport' = nextReport + 1
        /\ reports' = [reports EXCEPT ![nextReport] = rh[c].copy] /\ rh' = [cs EXCEPT ![c] = k]
        /\ cs \in [Callers -> Caller]
    BY <1>1, StaleTyped, ReportsAssumption DEF ReportInsert, RInv, ReportsTypeOK, ReportIds
  <2>2. rh[c].copy \in Entry /\ rh[c].copy # NoEntry /\ rh[c] \in Caller
    BY <1>1, NoEntryAssumption DEF ReportInsert, RInv, CallerInv, ReportsTypeOK
  <2>3. k \in Caller /\ k.pc = "stored" /\ k.copy \in Entry
    BY <2>1, <2>2 DEF Caller, RSteps
  <2> HIDE DEF k
  <2>4. ReportsTypeOK'
    BY <2>1, <2>2, <2>3, ReportsAssumption DEF RInv, ReportsTypeOK, ReportIds
  <2>5. EntriesInv'
    <3> SUFFICES ASSUME NEW r \in ReportIds, Filed(r)' PROVE r < nextReport'
      BY DEF EntriesInv
    <3>1. CASE r = nextReport
      BY <2>1, <3>1 DEF ReportIds
    <3>2. CASE r # nextReport
      BY <2>1, <3>2 DEF RInv, EntriesInv, Filed, ReportsTypeOK, ReportIds
    <3> QED BY <3>1, <3>2
  <2>6. ASSUME NEW d \in Callers PROVE CallerInv(rh[d])'
    <3>1. CASE d = c
      <4>1. rh'[d] = k
        BY <2>1, <3>1
      <4> QED BY <2>3, <4>1 DEF CallerInv
    <3>2. CASE d # c
      BY <2>1, <2>2, <3>2, OthersKeep
    <3> QED BY <3>1, <3>2
  <2> QED BY <2>4, <2>5, <2>6 DEF RInv
<1>2. CASE ReportStored(c)
  BY <1>2, CallerDone DEF ReportStored, RResults
<1>3. CASE MessageInsert(c)
  <2> DEFINE k == [rh[c] EXCEPT !.pc = "save"]
  <2>1. rh[c] \in Caller /\ rh[c].pc = "message" /\ CallerInv(rh[c])
    BY <1>3 DEF MessageInsert, RInv, ReportsTypeOK
  <2>2. k \in Caller /\ CallerInv(k)
    BY <2>1 DEF Caller, RSteps, CallerInv
  <2> QED BY <1>3, <2>2, CallerMoves DEF MessageInsert, RGoto
<1>4. CASE SaveReport(c)
  <2> DEFINE id == rh[c].id
             cs == StaleCallers(rh, id, rh[c].copy)
  <2>1. /\ reports' = [reports EXCEPT ![id] = rh[c].copy] /\ UNCHANGED nextReport
        /\ rh' = [cs EXCEPT ![c] = RDone("ok")]
        /\ id \in ReportIds /\ Filed(id) /\ rh[c].copy \in Entry /\ rh[c].copy # NoEntry
    BY <1>4, NoEntryAssumption DEF SaveReport, RInv, CallerInv
  <2>2. RDone("ok") \in Caller /\ "ok" \in RResults
    BY DoneTyped DEF RResults
  <2>3. cs \in [Callers -> Caller]
    BY StaleTyped
  <2>4. ReportsTypeOK'
    BY <2>1, <2>2, <2>3 DEF RInv, ReportsTypeOK
  <2>5. \A r \in ReportIds : /\ Filed(r)' <=> Filed(r)
                             /\ r # id => reports'[r] = reports[r]
    BY <2>1 DEF RInv, ReportsTypeOK, Filed
  <2>6. EntriesInv'
    BY <2>1, <2>5 DEF RInv, EntriesInv
  <2>7. ASSUME NEW d \in Callers PROVE CallerInv(rh[d])'
    <3>1. CASE d = c
      <4>1. rh'[d] = RDone("ok")
        BY <2>1, <2>3, <3>1
      <4> QED BY <4>1 DEF CallerInv, RDone
    <3>2. CASE d # c
      <4>1. rh'[d] = cs[d]
        BY <2>1, <2>3, <3>2
      <4> QED BY <2>1, <4>1, OthersKeep
    <3> QED BY <3>1, <3>2
  <2> QED BY <2>4, <2>6, <2>7 DEF RInv
<1>5. CASE ReportFail(c)
  BY <1>5, CallerDone DEF ReportFail, RResults
<1> QED BY <1>1, <1>2, <1>3, <1>4, <1>5 DEF CallerContinues

LEMMA ResetKeeps ==
    ASSUME RInv, ReportsRestart PROVE RInv'
<1>1. RDone("none") \in Caller /\ "none" \in RResults
  BY DoneTyped DEF RResults
<1>2. \A c \in Callers : rh'[c] = RDone("none")
  BY DEF ReportsRestart
<1>3. \A c \in Callers : CallerInv(rh[c])'
  BY <1>2 DEF CallerInv, RDone
<1>4. ReportsTypeOK' /\ EntriesInv'
  BY <1>1 DEF ReportsRestart, RInv, ReportsTypeOK, EntriesInv, Filed
<1> QED BY <1>3, <1>4 DEF RInv

LEMMA InitRInv == ReportsInit => RInv
<1> SUFFICES ASSUME ReportsInit PROVE RInv
  OBVIOUS
<1>1. RDone("none") \in Caller
  BY DoneTyped DEF RResults
<1>2. ReportsTypeOK
  BY <1>1, ReportsAssumption DEF ReportsInit, ReportsTypeOK
<1>3. \A c \in Callers : CallerInv(rh[c])
  BY DEF ReportsInit, CallerInv, RDone
<1>4. EntriesInv
  BY DEF ReportsInit, EntriesInv, Filed
<1> QED BY <1>2, <1>3, <1>4 DEF RInv

LEMMA StepRInv == RInv /\ [ReportsNext]_rvars => RInv'
<1> SUFFICES ASSUME RInv, [ReportsNext]_rvars PROVE RInv'
  OBVIOUS
<1>1. CASE UNCHANGED rvars
  BY <1>1 DEF rvars, RInv, ReportsTypeOK, EntriesInv, CallerInv, Filed, OpenBy
<1> QED BY <1>1, BeginsKeeps, ContinuesKeeps, ResetKeeps DEF ReportsNext

\* Every variable of the reports keeps its type (report.go, report_repo.go).
THEOREM ReportsTyped == ReportsSpec => []ReportsTypeOK
<1>1. RInv => ReportsTypeOK
  BY DEF RInv
<1> QED BY <1>1, InitRInv, StepRInv, PTL DEF ReportsSpec

LEMMA FreshReplyKeeps ==
    ASSUME RInv, NEW c \in Callers, SaveReport(c), rh[c].fresh, rh[c].op # "status"
    PROVE  reports' = reports
<1>1. rh[c].copy = reports[rh[c].id] /\ rh[c].id \in ReportIds
  BY DEF RInv, CallerInv, SaveReport
<1> QED BY <1>1 DEF SaveReport, RInv, ReportsTypeOK

\* A reply saves the whole row it read: from a copy nobody has overtaken that changes
\* nothing (Reports.CreateMessage), however many callers there are.
THEOREM StatusMoves == ReportsSpec => OnlyStatusRequestsMoveStatus
<1>1. RInv /\ [ReportsNext]_rvars
        => [\A c \in Callers : SaveReport(c) /\ rh[c].fresh /\ rh[c].op # "status" => reports' = reports]_rvars
  BY FreshReplyKeeps
<1> QED BY <1>1, InitRInv, StepRInv, PTL DEF ReportsSpec, OnlyStatusRequestsMoveStatus

SecondOpenStep ==
    [\A c \in Callers, a \in Authors, s \in Subjects :
        /\ ReportInsert(c) \/ SaveReport(c)
        /\ OpenBy(a, s) # {} /\ ~(OpenBy(a, s)' \subseteq OpenBy(a, s))
        => ~rh[c].fresh \/ rh[c].op = "status"]_rvars

LEMMA SecondOpen == ASSUME RInv PROVE SecondOpenStep
<1> SUFFICES ASSUME NEW c \in Callers, NEW a \in Authors, NEW s \in Subjects,
                    ReportInsert(c) \/ SaveReport(c), rh[c].fresh, rh[c].op # "status",
                    OpenBy(a, s) # {}
             PROVE  OpenBy(a, s)' \subseteq OpenBy(a, s)
  BY DEF SecondOpenStep
<1>1. CASE SaveReport(c)
  BY <1>1, FreshReplyKeeps DEF OpenBy, Filed
<1>2. CASE ReportInsert(c)
  <2>1. rh[c].copy \in Entry /\ OpenBy(rh[c].copy.author, rh[c].copy.subject) = {}
    BY <1>2 DEF ReportInsert, RInv, CallerInv
  <2>2. nextReport \in ReportIds /\ reports' = [reports EXCEPT ![nextReport] = rh[c].copy]
    BY <1>2, ReportsAssumption DEF ReportInsert, RInv, ReportsTypeOK, ReportIds
  <2> QED BY <2>1, <2>2, NotOfThePair
<1> QED BY <1>1, <1>2

\* Of a pair with an open report, a save that nobody has overtaken opens another only
\* when its request sets a status (Reports.Save, SetReportStatus and CreateMessage),
\* however many callers there are.
THEOREM SecondOpenOvertaken == ReportsSpec => SecondOpenOnlyOvertaken
<1>1. RInv => SecondOpenStep
  BY SecondOpen
<1> QED BY <1>1, InitRInv, StepRInv, PTL DEF ReportsSpec, SecondOpenOnlyOvertaken, SecondOpenStep

-----------------------------------------------------------------------------
(* Whatever reports do, each step of the composed system is one of Bans or *)
(* leaves its variables alone: its invariants hold of Moderation.          *)

LEMMA StepIsBanStep == [ModerationNext]_mvars => [Next]_vars
<1> SUFFICES ASSUME [ModerationNext]_mvars PROVE [Next]_vars
  OBVIOUS
<1>1. CASE UNCHANGED mvars
  BY <1>1 DEF mvars
<1>2. CASE (Tick \/ MonitorStep) /\ UNCHANGED <<rvars, parted>>
  BY <1>2 DEF Next, BanStep
<1>3. CASE ModerationRestart
  BY <1>3 DEF ModerationRestart, Next, BanStep
<1>4. ASSUME NEW p \in Handlers, CloseReport(p) \/ ReportRequest(p) PROVE UNCHANGED vars
  BY <1>4 DEF CloseReport, ReportRequest
<1>5. ASSUME NEW p \in Handlers, CloseReturns(p) PROVE Next
  <2>1. (rh[p].result = "ok") \in BOOLEAN
    OBVIOUS
  <2> QED BY <1>5, <2>1 DEF CloseReturns, Next
<1>6. ASSUME NEW p \in Handlers, BanRequest(p) PROVE Next
  BY <1>6 DEF BanRequest, Next, BanStep
<1> QED BY <1>1, <1>2, <1>3, <1>4, <1>5, <1>6 DEF ModerationNext

LEMMA ImplementsBans == ModerationSpec => Spec
<1>1. ModerationInit => Init
  BY DEF ModerationInit
<1> QED BY <1>1, StepIsBanStep, PTL DEF ModerationSpec, Spec

\* Create stores the ban before it closes the report, and nobody takes the ban or its
\* report away in between (Bans.Create, ban.go).
THEOREM ClosesForABan == ModerationSpec => []ClosedForABan
<1>1. CreatedStored => ClosedForABan
  BY DEF CreatedStored, CreatedInv, ClosedForABan, Closing
<1> QED BY <1>1, ImplementsBans, CreatedInvariance, PTL

-----------------------------------------------------------------------------
(* What the composition promises of reports.                               *)

\* The only step on reports that Reports does not have: a goroutine forgets the answer
\* of its last report request as it goes on with a ban.
Forgets(p) == rh[p].pc = "idle" /\ RFinish(p, "none") /\ UNCHANGED <<reports, nextReport>>

LEMMA ClosingStatus == ClosedWithAction \in Statuses
BY DEF ClosedWithAction, Statuses, Opened

LEMMA CloseReportIsRequest ==
    ASSUME CreatedStored, NEW p \in Handlers, CloseReport(p)
    PROVE  CallerBegins(p) /\ h[p].copy.report \in ReportIds
<1>1. h[p].copy.report \in ReportIds
  BY SharedAssumption DEF CloseReport, Closing, CreatedStored, CreatedInv, Row
<1> QED BY <1>1, ClosingStatus DEF CloseReport, CallerBegins

LEMMA StepOnReports ==
    ASSUME CreatedStored, [ModerationNext]_mvars
    PROVE  [ReportsNext]_rvars \/ \E p \in Callers : Forgets(p)
<1>1. CASE UNCHANGED mvars
  BY <1>1 DEF mvars
<1>2. CASE (Tick \/ MonitorStep) /\ UNCHANGED <<rvars, parted>>
  BY <1>2
<1>3. CASE ModerationRestart
  BY <1>3 DEF ModerationRestart, ReportsNext
<1>4. ASSUME NEW p \in Handlers, CloseReport(p) \/ ReportRequest(p) PROVE ReportsNext
  BY <1>4, CloseReportIsRequest, SharedAssumption DEF ReportRequest, ReportsNext
<1>5. ASSUME NEW p \in Handlers, CloseReturns(p) \/ BanRequest(p) PROVE Forgets(p)
  BY <1>5 DEF CloseReturns, BanRequest, Forgets
<1> QED BY <1>1, <1>2, <1>3, <1>4, <1>5, SharedAssumption DEF ModerationNext

LEMMA ForgetsKeeps == ASSUME RInv, NEW p \in Callers, Forgets(p) PROVE RInv'
BY CallerDone DEF Forgets, RResults

MInv == IInv /\ CreatedStored /\ RInv

LEMMA MInvariance == ModerationSpec => []MInv
<1>1. ModerationInit => RInv
  BY InitRInv DEF ModerationInit
<1>2. CreatedStored /\ RInv /\ [ModerationNext]_mvars => RInv'
  BY StepOnReports, ForgetsKeeps, StepRInv
<1>3. ModerationSpec => []IInv /\ []CreatedStored
  BY ImplementsBans, Invariance, CreatedInvariance, PTL
<1>4. ModerationSpec => []RInv
  BY <1>1, <1>2, <1>3, PTL DEF ModerationSpec
<1> QED BY <1>3, <1>4, PTL DEF MInv

\* Bans and reports keep their types when their requests share goroutines.
THEOREM ModerationTyped == ModerationSpec => [](TypeOK /\ ReportsTypeOK)
<1>1. MInv => TypeOK /\ ReportsTypeOK
  BY DEF MInv, IInv, RInv
<1> QED BY <1>1, MInvariance, PTL

\* The ban that closes a report does not change what a reply may do: one saved from a
\* copy nobody has overtaken leaves the status alone.
THEOREM RepliesMoveNothing == ModerationSpec => OnlyStatusRequestsMoveStatus
<1>1. MInv /\ [ModerationNext]_mvars
        => [\A c \in Callers : SaveReport(c) /\ rh[c].fresh /\ rh[c].op # "status" => reports' = reports]_rvars
  BY FreshReplyKeeps DEF MInv
<1> QED BY <1>1, MInvariance, PTL DEF ModerationSpec, OnlyStatusRequestsMoveStatus

\* Nor do the goroutines that close reports for bans find another way to a second open
\* report of a pair.
THEOREM SecondOpenBesideBans == ModerationSpec => SecondOpenOnlyOvertaken
<1>1. MInv => SecondOpenStep
  BY SecondOpen DEF MInv
<1> QED BY <1>1, MInvariance, PTL DEF SecondOpenOnlyOvertaken, SecondOpenStep

-----------------------------------------------------------------------------
(* A ban and the report it closes, with any number of goroutines.          *)

Closed(r) == Filed(r) /\ reports[r].status = ClosedWithAction

\* The ban id and its report r are in step, or known to be parted.
Settled(id, r) == Closed(r) \/ id \in parted

\* What a goroutine knows of the report its ban is to close, or has closed.
CloseInv(hp, k) ==
    /\ hp.pc \notin {"idle", "report"} => k.pc = "idle"
    /\ hp.pc = "report" =>
          /\ k.pc \in {"idle", "save"}
          /\ k.pc = "save" => k.id = hp.copy.report /\ k.copy.status = ClosedWithAction
          /\ k.pc = "idle" /\ k.result = "ok" => Settled(hp.id, hp.copy.report)
    /\ hp.pc = "finish" /\ hp.copy.report # NoReport => Settled(hp.id, hp.copy.report)

Closes == \A p \in Handlers : CloseInv(h[p], rh[p])

PartedStored == parted \subseteq {id \in BanIds : Stored(id)}

PInv == MInv /\ Closes /\ PartedStored

\* What a step of the composed system may do to the report table and to parted.
LEMMA WritesOfReports ==
    ASSUME MInv, [ModerationNext]_mvars
    PROVE  /\ parted \subseteq parted'
           /\ \/ reports' = reports
              \/ \E c \in Callers : ReportInsert(c)
              \/ \E c \in Callers : SaveReport(c) /\ parted' = parted \cup PartedBy(c)
<1>1. CASE UNCHANGED mvars \/ (UNCHANGED <<rvars, parted>>)
  BY <1>1 DEF mvars, rvars
<1>2. CASE ModerationRestart
  BY <1>2 DEF ModerationRestart, ReportsRestart
<1>3. ASSUME NEW p \in Handlers, CloseReport(p) \/ CloseReturns(p) \/ BanRequest(p)
      PROVE  parted \subseteq parted' /\ reports' = reports
  BY <1>3 DEF CloseReport, CloseReturns, BanRequest, SetReportStatus, ReportRefused
<1>4. ASSUME NEW p \in Handlers, ReportRequest(p)
      PROVE  /\ parted' = parted \cup PartedBy(p)
             /\ reports' = reports \/ ReportInsert(p) \/ SaveReport(p)
  BY <1>4 DEF ReportRequest, CallerBegins, CallerContinues, ReportCreate, SetReportStatus, CreateMessage,
     ReportRefused, ReportStored, MessageInsert, ReportFail
<1> QED BY <1>1, <1>2, <1>3, <1>4, SharedAssumption DEF ModerationNext

\* A settled pair stays settled: a request that gives the report another status parts it.
LEMMA SettledStays ==
    ASSUME MInv, [ModerationNext]_mvars, NEW id \in BanIds, Stored(id), rows[id].report \in ReportIds,
           Settled(id, rows[id].report)
    PROVE  Settled(id, rows[id].report)'
<1> DEFINE r == rows[id].report
<1>1. rows'[id].report = r
  <2>1. CASE Next
    BY <2>1, StepKeepsRows DEF MInv, RowKept
  <2> QED BY <2>1, StepIsBanStep DEF vars
<1>2. id \in parted => id \in parted'
  BY WritesOfReports
<1>3. ASSUME reports'[r] = reports[r], Closed(r) PROVE Settled(id, rows[id].report)'
  BY <1>1, <1>3 DEF Settled, Closed, Filed
<1>4. ASSUME NEW c \in Callers, ReportInsert(c), Closed(r) PROVE reports'[r] = reports[r]
  BY <1>4 DEF Closed, ReportInsert, MInv, RInv, EntriesInv, Filed, ReportsTypeOK, ReportIds
<1>5. ASSUME NEW c \in Callers, SaveReport(c), parted' = parted \cup PartedBy(c), Closed(r)
      PROVE  Settled(id, rows[id].report)'
  <2>1. /\ rh[c].id \in ReportIds /\ rh[c].copy \in Entry /\ rh[c].copy # NoEntry
        /\ rh[c].op \in {"status", "message"}
        /\ rh[c].fresh /\ rh[c].op = "message" => rh[c].copy = reports[rh[c].id]
        /\ reports' = [reports EXCEPT ![rh[c].id] = rh[c].copy]
    BY <1>5, NoEntryAssumption DEF SaveReport, MInv, RInv, CallerInv
  <2>2. CASE rh[c].id # r
    BY <1>3, <1>5, <2>1, <2>2 DEF MInv, RInv, ReportsTypeOK
  <2>3. CASE rh[c].id = r /\ rh[c].copy.status = ClosedWithAction
    <3>1. reports'[r] = rh[c].copy
      BY <2>1, <2>3 DEF MInv, RInv, ReportsTypeOK
    <3> QED BY <1>1, <2>1, <2>3, <3>1 DEF Settled, Closed, Filed
  <2>4. CASE rh[c].id = r /\ rh[c].copy.status # ClosedWithAction
    <3>1. rh[c].op = "status" \/ ~rh[c].fresh
      BY <1>5, <2>1, <2>4 DEF Closed
    <3>2. id \in PartedBy(c)
      BY <1>5, <2>4, <3>1 DEF PartedBy, BansFor
    <3> QED BY <1>5, <3>2 DEF Settled
  <2> QED BY <2>2, <2>3, <2>4
<1> QED BY <1>2, <1>3, <1>4, <1>5, WritesOfReports DEF Settled

\* The same of a ban whose Create is waiting for its report, or has it.
LEMMA SettledInHand ==
    ASSUME MInv, [ModerationNext]_mvars, NEW p \in Handlers, h[p].pc \in {"report", "finish"},
           h[p].copy.report # NoReport, Settled(h[p].id, h[p].copy.report),
           h'[p].id = h[p].id, h'[p].copy = h[p].copy
    PROVE  Settled(h[p].id, h[p].copy.report)'
<1>1. /\ h[p].id \in BanIds /\ Stored(h[p].id) /\ rows[h[p].id].report = h[p].copy.report
      /\ h[p].copy.report \in ReportIds
  BY SharedAssumption DEF MInv, CreatedStored, CreatedInv, Row
<1>2. rows'[h[p].id].report = rows[h[p].id].report
  <2>1. CASE Next
    BY <1>1, <2>1, StepKeepsRows DEF MInv, RowKept
  <2> QED BY <2>1, StepIsBanStep DEF vars
<1>3. Settled(h[p].id, rows[h[p].id].report)'
  <2>1. PICK id \in BanIds : id = h[p].id
    BY <1>1
  <2>2. Settled(id, rows[id].report)'
    BY <1>1, <2>1, SettledStays
  <2> QED BY <1>1, <1>2, <2>1, <2>2
<1> QED BY <1>1, <1>2, <1>3

LEMMA CloseReportCloses ==
    ASSUME MInv, Closes, NEW p \in Handlers, CloseReport(p)
    PROVE  CloseInv(h[p], rh[p])'
<1> DEFINE r == h[p].copy.report
<1>1. r \in ReportIds /\ h'[p] = h[p] /\ h[p].pc = "report" /\ reports' = reports /\ p \in Callers
  BY CloseReportIsRequest, SharedAssumption DEF MInv, CloseReport, Closing, vars, SetReportStatus, ReportRefused
<1>2. ASSUME RFinish(p, "failed") PROVE rh'[p].pc = "idle" /\ rh'[p].result = "failed"
  BY <1>1, <1>2 DEF RFinish, RDone, MInv, RInv, ReportsTypeOK
<1>3. CASE ReportRefused(p) \/ (SetReportStatus(p, r, ClosedWithAction) /\ ~Filed(r))
  BY <1>1, <1>2, <1>3 DEF ReportRefused, SetReportStatus, CloseInv
<1>4. CASE SetReportStatus(p, r, ClosedWithAction) /\ Closed(r)
  <2>1. rh'[p].pc = "idle"
    BY <1>1, <1>4 DEF SetReportStatus, Closed, RFinish, RDone, MInv, RInv, ReportsTypeOK
  <2> QED BY <1>1, <1>4, <2>1 DEF CloseInv, Settled, Closed, Filed
<1>5. CASE SetReportStatus(p, r, ClosedWithAction) /\ Filed(r) /\ ~Closed(r)
  <2> DEFINE copy == [reports[r] EXCEPT !.status = ClosedWithAction]
  <2>1. copy.status = ClosedWithAction
    BY <1>1, <1>5, RowTyped DEF MInv, Entry
  <2>2. rh'[p] = RAt("save", "status", r, copy)
    BY <1>1, <1>5 DEF SetReportStatus, Closed, RGoto, MInv, RInv, ReportsTypeOK
  <2>3. rh'[p].pc = "save" /\ rh'[p].id = r /\ rh'[p].copy = copy
    BY <2>2 DEF RAt
  <2> HIDE DEF copy
  <2> QED BY <1>1, <2>1, <2>3 DEF CloseInv
<1> QED BY <1>3, <1>4, <1>5 DEF CloseReport

LEMMA ReportRequestCloses ==
    ASSUME MInv, Closes, NEW p \in Handlers, ReportRequest(p)
    PROVE  CloseInv(h[p], rh[p])'
<1>1. h'[p] = h[p] /\ p \in Callers /\ CloseInv(h[p], rh[p])
  BY SharedAssumption DEF ReportRequest, vars, Closes
<1>2. CASE h[p].pc = "idle"
  BY <1>1, <1>2 DEF CloseInv
<1>3. CASE h[p].pc # "idle"
  <2>1. CallerContinues(p) /\ rh[p].pc # "idle"
    BY <1>3 DEF ReportRequest, CallerContinues, ReportInsert, ReportStored, MessageInsert, SaveReport, ReportFail
  <2>2. h[p].pc = "report" /\ rh[p].pc = "save" /\ rh[p].id = h[p].copy.report
        /\ rh[p].copy.status = ClosedWithAction
    BY <1>1, <1>3, <2>1 DEF CloseInv
  <2>3. CASE SaveReport(p)
    <3>1. rh[p].id \in ReportIds /\ rh[p].copy \in Entry /\ rh[p].copy # NoEntry
      BY <1>1, <2>2, NoEntryAssumption DEF MInv, RInv, CallerInv
    <3>2. reports'[rh[p].id] = rh[p].copy
      BY <2>3, <3>1 DEF SaveReport, MInv, RInv, ReportsTypeOK
    <3>3. rh'[p].pc = "idle"
      BY <1>1, <2>3 DEF SaveReport, StaleCallers, RDone
    <3> QED BY <1>1, <2>2, <3>1, <3>2, <3>3 DEF CloseInv, Settled, Closed, Filed
  <2>4. CASE ReportFail(p)
    <3>1. rh'[p].pc = "idle" /\ rh'[p].result = "failed"
      BY <1>1, <2>4 DEF ReportFail, RFinish, RDone, MInv, RInv, ReportsTypeOK
    <3> QED BY <1>1, <2>2, <3>1 DEF CloseInv
  <2> QED BY <2>1, <2>2, <2>3, <2>4 DEF CallerContinues, ReportInsert, ReportStored, MessageInsert
<1> QED BY <1>2, <1>3

LEMMA CloseReturnsCloses ==
    ASSUME MInv, Closes, NEW p \in Handlers, CloseReturns(p)
    PROVE  CloseInv(h[p], rh[p])'
<1>1. /\ h[p].pc = "report" /\ rh[p].pc = "idle" /\ CloseInv(h[p], rh[p]) /\ p \in Callers
      /\ reports' = reports /\ h[p] \in Handler
  BY SharedAssumption DEF CloseReturns, Closing, Closes, MInv, IInv, TypeOK
<1>2. rh'[p].pc = "idle"
  BY <1>1 DEF CloseReturns, RFinish, RDone, MInv, RInv, ReportsTypeOK
<1>3. CASE rh[p].result = "ok"
  <2>1. h'[p] = [h[p] EXCEPT !.pc = "finish"]
    BY <1>3 DEF CloseReturns, ReportReturns, Goto, MInv, IInv, TypeOK
  <2>2. h'[p].pc = "finish" /\ h'[p].copy = h[p].copy /\ h'[p].id = h[p].id
    BY <1>1, <2>1 DEF Handler
  <2>3. parted' = parted
    BY <1>3 DEF CloseReturns
  <2> QED BY <1>1, <1>2, <1>3, <2>2, <2>3 DEF CloseInv, Settled, Closed, Filed
<1>4. CASE rh[p].result # "ok"
  <2>1. h'[p].pc = "idle"
    BY <1>4 DEF CloseReturns, ReportReturns, Finish, Done, MInv, IInv, TypeOK
  <2> QED BY <2>1 DEF CloseInv
<1> QED BY <1>3, <1>4

LEMMA BanRequestCloses ==
    ASSUME MInv, Closes, NEW p \in Handlers, BanRequest(p)
    PROVE  CloseInv(h[p], rh[p])'
<1>1. /\ h[p].pc # "report" /\ p \in Callers /\ h[p] \in Handler /\ UNCHANGED <<reports, nextReport>>
      /\ HandlerStep(p)
  BY SharedAssumption DEF BanRequest, Closing, MInv, IInv, TypeOK
<1>2. rh'[p].pc = "idle" /\ rh'[p].result = "none"
  BY <1>1 DEF BanRequest, RFinish, RDone, MInv, RInv, ReportsTypeOK
<1>3. h'[p].pc = "finish" => h'[p].copy.report = NoReport
  <2>1. CASE CreateInsert(p)
    BY <1>1, <2>1 DEF CreateInsert, Goto, Handler, MInv, IInv, TypeOK
  <2>2. CASE ~CreateInsert(p)
    BY <1>1, <2>2, RequestsAnswer DEF MInv
  <2> QED BY <2>1, <2>2
<1> QED BY <1>2, <1>3 DEF CloseInv

\* The report request of a goroutine leaves those of the others where they are.
LEMMA OtherCallersStay ==
    ASSUME RInv, NEW p \in Callers, NEW q \in Callers \ {p},
           CallerBegins(q) \/ CallerContinues(q) \/ \E res : RFinish(q, res)
    PROVE  /\ rh'[p].pc = rh[p].pc /\ rh'[p].id = rh[p].id
           /\ rh'[p].copy = rh[p].copy /\ rh'[p].result = rh[p].result
<1> rh \in [Callers -> Caller]
  BY DEF RInv, ReportsTypeOK
<1>1. ASSUME NEW k, RGoto(q, k) PROVE rh'[p] = rh[p]
  BY <1>1 DEF RGoto
<1>2. ASSUME NEW res, RFinish(q, res) PROVE rh'[p] = rh[p]
  BY <1>2 DEF RFinish
<1>3. ASSUME NEW r, NEW row, NEW k, rh' = [StaleCallers(rh, r, row) EXCEPT ![q] = k]
      PROVE  rh'[p] = rh[p] \/ rh'[p] = [rh[p] EXCEPT !.fresh = FALSE]
  BY <1>3 DEF StaleCallers
<1>4. CASE CallerBegins(q)
  BY <1>1, <1>2, <1>4 DEF CallerBegins, ReportCreate, SetReportStatus, CreateMessage, ReportRefused
<1>5. CASE ReportInsert(q) \/ SaveReport(q)
  <2>1. rh'[p] = rh[p] \/ rh'[p] = [rh[p] EXCEPT !.fresh = FALSE]
    <3>1. PICK r, row, k : rh' = [StaleCallers(rh, r, row) EXCEPT ![q] = k]
      BY <1>5 DEF ReportInsert, SaveReport
    <3> QED BY <3>1, <1>3
  <2> QED BY <2>1 DEF Caller
<1>6. CASE CallerContinues(q) /\ ~(ReportInsert(q) \/ SaveReport(q))
  BY <1>1, <1>2, <1>6 DEF CallerContinues, ReportStored, MessageInsert, ReportFail
<1> QED BY <1>2, <1>4, <1>5, <1>6

\* Somebody else's step leaves the goroutine waiting, and a settled pair settled.
LEMMA OthersClose ==
    ASSUME MInv, Closes, [ModerationNext]_mvars, NEW p \in Handlers,
           h'[p].pc = h[p].pc, h'[p].id = h[p].id, h'[p].copy = h[p].copy,
           rh'[p].pc = rh[p].pc, rh'[p].id = rh[p].id,
           rh'[p].copy = rh[p].copy, rh'[p].result = rh[p].result
    PROVE  CloseInv(h[p], rh[p])'
<1>1. CloseInv(h[p], rh[p])
  BY DEF Closes
<1>2. h[p].pc = "report" => h[p].copy.report # NoReport
  BY DEF MInv, CreatedStored, CreatedInv
<1>3. h[p].pc \in {"report", "finish"} /\ h[p].copy.report # NoReport /\ Settled(h[p].id, h[p].copy.report)
        => Settled(h[p].id, h[p].copy.report)'
  BY SettledInHand
<1> QED BY <1>1, <1>2, <1>3 DEF CloseInv

LEMMA StepCloses == ASSUME MInv, Closes, [ModerationNext]_mvars PROVE Closes'
<1> SUFFICES ASSUME NEW p \in Handlers PROVE CloseInv(h[p], rh[p])'
  BY DEF Closes
<1> p \in Callers /\ h \in [Handlers -> Handler] /\ rh \in [Callers -> Caller]
  BY SharedAssumption DEF MInv, IInv, TypeOK, RInv, ReportsTypeOK
<1>1. CASE UNCHANGED mvars \/ ((Tick \/ MonitorStep) /\ UNCHANGED <<rvars, parted>>)
  <2>1. h'[p].pc = h[p].pc /\ h'[p].id = h[p].id /\ h'[p].copy = h[p].copy
    BY <1>1 DEF Tick, MonitorStep, SweepQuery, SweepDelete, SweepSkip, StaleHandlers, vars, mvars, Handler
  <2> QED BY <1>1, <2>1, OthersClose DEF rvars, mvars
<1>2. CASE ModerationRestart
  <2>1. h'[p].pc = "idle"
    BY <1>2 DEF ModerationRestart, Restart, Done
  <2> QED BY <2>1 DEF CloseInv
<1>3. ASSUME NEW q \in Handlers \ {p}, CloseReport(q) \/ CloseReturns(q) \/ BanRequest(q) \/ ReportRequest(q)
      PROVE  CloseInv(h[p], rh[p])'
  <2>1. h'[p].pc = h[p].pc /\ h'[p].id = h[p].id /\ h'[p].copy = h[p].copy
    <3>1. CASE UNCHANGED vars
      BY <3>1 DEF vars
    <3>2. CASE HandlerStep(q) \/ \E ok \in BOOLEAN : ReportReturns(q, ok)
      BY <3>2, OthersStay DEF MInv
    <3>3. CloseReturns(q) => \E ok \in BOOLEAN : ReportReturns(q, ok)
      BY DEF CloseReturns
    <3> QED BY <1>3, <3>1, <3>2, <3>3 DEF CloseReport, BanRequest, ReportRequest
  <2>2. q \in Callers \ {p} /\ (CallerBegins(q) \/ CallerContinues(q) \/ \E res : RFinish(q, res))
    BY <1>3, CloseReportIsRequest, SharedAssumption DEF MInv, CloseReturns, BanRequest, ReportRequest
  <2> QED BY <2>1, <2>2, OtherCallersStay, OthersClose DEF MInv
<1> QED
  BY <1>1, <1>2, <1>3, CloseReportCloses, CloseReturnsCloses, BanRequestCloses, ReportRequestCloses
  DEF ModerationNext

LEMMA StepParted == ASSUME MInv, PartedStored, [ModerationNext]_mvars PROVE PartedStored'
<1> DEFINE Kept == {id \in BanIds : Stored(id)}
           Ours == {h[p].id : p \in {q \in Handlers : Closing(q)}}
<1>1. Kept \subseteq Kept'
  <2>1. CASE Next
    BY <2>1, StepKeepsRows DEF MInv, RowKept, Stored
  <2> QED BY <2>1, StepIsBanStep DEF vars, Stored
<1>2. Ours \subseteq Kept
  BY DEF Closing, MInv, CreatedStored, CreatedInv
<1>3. \A c \in Callers : PartedBy(c) \subseteq Kept
  BY DEF PartedBy, BansFor
<1>4. parted' \subseteq parted \cup Kept
  <2>1. CASE ModerationRestart
    BY <1>2, <2>1 DEF ModerationRestart
  <2>2. ASSUME NEW p \in Handlers, CloseReturns(p) PROVE parted' \subseteq parted \cup Ours
    BY <2>2 DEF CloseReturns
  <2>3. ASSUME NEW p \in Handlers, CloseReport(p) \/ BanRequest(p) PROVE parted' = parted
    BY <2>3 DEF CloseReport, BanRequest
  <2>4. ASSUME NEW p \in Handlers, ReportRequest(p) PROVE parted' \subseteq parted \cup Kept
    BY <1>3, <2>4, SharedAssumption DEF ReportRequest
  <2> QED BY <1>2, <2>1, <2>2, <2>3, <2>4 DEF ModerationNext, mvars
<1> QED BY <1>1, <1>4 DEF PartedStored

LEMMA PInvariance == ModerationSpec => []PInv
<1>1. ModerationInit => Closes /\ PartedStored
  BY SharedAssumption DEF ModerationInit, Init, ReportsInit, Done, RDone, Closes, CloseInv, PartedStored
<1>2. MInv /\ Closes /\ PartedStored /\ [ModerationNext]_mvars => Closes' /\ PartedStored'
  BY StepCloses, StepParted
<1> QED BY <1>1, <1>2, MInvariance, PTL DEF ModerationSpec, PInv

\* A row that was not there before is the one a Create has just inserted.
LEMMA NewRowIsCreated ==
    ASSUME MInv, [ModerationNext]_mvars, NEW id \in BanIds, ~Stored(id), Stored(id)'
    PROVE  \E p \in Handlers : CreateInsert(p) /\ nextBan = id
<1>1. IInv' /\ [Next]_vars
  BY StepIsBanStep, NextInv DEF MInv
<1>2. ~(id < nextBan) /\ id < nextBan'
  BY <1>1 DEF MInv, IInv, RowsInv
<1>3. nextBan' = nextBan \/ \E p \in Handlers : CreateInsert(p)
  BY <1>1 DEF vars, Next, BanStep, Tick, MonitorStep, SweepQuery, SweepDelete, SweepSkip, Restart,
     HandlerStep, Create, CreateCheck, CreateFinish, DeleteRPC, MessageCheck, UnbanCommand,
     UnbanOfDelete, Update, MessageRead, WriteBack, Fail, ReportReturns
<1>4. ASSUME NEW p \in Handlers, CreateInsert(p) PROVE nextBan = id
  BY <1>2, <1>4, BansAssumption DEF CreateInsert, MInv, IInv, TypeOK, BanIds
<1> QED BY <1>2, <1>3, <1>4

\* Where a Create that waits for its report can be after a step.
LEMMA ClosingGoesOn ==
    ASSUME PInv, [ModerationNext]_mvars, NEW p \in Handlers, Closing(p)
    PROVE  \/ Closing(p)' /\ h'[p].id = h[p].id
           \/ Settled(h[p].id, h[p].copy.report)
           \/ h[p].id \in parted'
<1> h \in [Handlers -> Handler] /\ Closes /\ MInv
  BY DEF PInv, MInv, IInv, TypeOK
<1>1. CASE h'[p].pc = h[p].pc /\ h'[p].id = h[p].id
  BY <1>1 DEF Closing
<1>2. CASE UNCHANGED vars
  BY <1>1, <1>2 DEF vars
<1>3. CASE Tick \/ MonitorStep
  BY <1>1, <1>3 DEF Tick, MonitorStep, SweepQuery, SweepDelete, SweepSkip, StaleHandlers, Handler
<1>4. CASE ModerationRestart
  BY <1>4 DEF ModerationRestart
<1>5. CASE CloseReturns(p)
  BY <1>5 DEF CloseReturns, Closing, Closes, CloseInv
<1>6. ASSUME NEW q \in Handlers \ {p}, CloseReturns(q) PROVE h'[p].pc = h[p].pc /\ h'[p].id = h[p].id
  <2>1. \E ok \in BOOLEAN : ReportReturns(q, ok)
    BY <1>6 DEF CloseReturns
  <2> QED BY <2>1, OthersStay DEF MInv
<1>7. ASSUME NEW q \in Handlers, BanRequest(q) PROVE h'[p].pc = h[p].pc /\ h'[p].id = h[p].id
  <2>1. q # p /\ HandlerStep(q)
    BY <1>7 DEF BanRequest
  <2> QED BY <2>1, OthersStay DEF MInv
<1>8. ASSUME NEW q \in Handlers, CloseReport(q) \/ ReportRequest(q) PROVE UNCHANGED vars
  BY <1>8 DEF CloseReport, ReportRequest, vars
<1> QED BY <1>1, <1>2, <1>3, <1>4, <1>5, <1>6, <1>7, <1>8 DEF ModerationNext, mvars

InStep(id) ==
    \/ Settled(id, rows[id].report)
    \/ \E p \in Handlers : Closing(p) /\ h[p].id = id

LEMMA StepPaired == ASSUME PInv, PairedUnlessParted, [ModerationNext]_mvars PROVE PairedUnlessParted'
<1> SUFFICES ASSUME NEW id \in BanIds, Stored(id)', rows'[id].report # NoReport PROVE InStep(id)'
  BY DEF PairedUnlessParted, InStep, Settled, Closed
<1> MInv
  BY DEF PInv
<1>1. CASE ~Stored(id)
  <2>1. PICK p \in Handlers : CreateInsert(p) /\ nextBan = id
    BY <1>1, NewRowIsCreated
  <2>2. rows'[id] = h[p].copy
    BY <2>1 DEF CreateInsert, MInv, IInv, TypeOK
  <2>3. h'[p].id = id /\ h'[p].pc = "report"
    BY <2>1, <2>2 DEF CreateInsert, Goto, MInv, IInv, TypeOK, Handler
  <2> QED BY <2>3 DEF InStep, Closing
<1>2. CASE Stored(id)
  <2>1. rows'[id].report = rows[id].report
    <3>1. CASE Next
      BY <1>2, <3>1, StepKeepsRows DEF MInv, RowKept
    <3> QED BY <3>1, StepIsBanStep DEF vars
  <2>2. rows[id].report \in ReportIds
    BY <1>2, <2>1, SharedAssumption DEF MInv, IInv, TypeOK, Row, Stored
  <2>3. CASE Settled(id, rows[id].report)
    BY <1>2, <2>2, <2>3, SettledStays DEF InStep
  <2>4. CASE ~Settled(id, rows[id].report)
    <3>1. PICK p \in Handlers : Closing(p) /\ h[p].id = id
      BY <1>2, <2>1, <2>4 DEF PairedUnlessParted, Settled, Closed
    <3>2. h[p].copy.report = rows[id].report
      BY <3>1 DEF Closing, MInv, CreatedStored, CreatedInv
    <3> QED BY <2>4, <3>1, <3>2, ClosingGoesOn DEF InStep, Settled
  <2> QED BY <2>3, <2>4
<1> QED BY <1>1, <1>2

\* A stored ban and the report it was created for: Bans.Create stores the one, then closes
\* the other, in separate statements of any number of goroutines.  The pair is in step, or
\* being brought in step, until somebody parts it.
THEOREM Paired == ModerationSpec => []PairedUnlessParted
<1>1. ModerationInit => PairedUnlessParted
  BY DEF ModerationInit, Init, PairedUnlessParted, Stored
<1>2. PInv /\ PairedUnlessParted /\ [ModerationNext]_mvars => PairedUnlessParted'
  BY StepPaired
<1> QED BY <1>1, <1>2, PInvariance, PTL DEF ModerationSpec

-----------------------------------------------------------------------------
(* One goroutine, for bans and reports together.                           *)

OneCaller == \A c, d \in Callers : c = d

\* Nobody else is there to part a ban from its report while Create works on it.
Unparted == \A p \in Handlers : h[p].pc \in {"report", "finish"} => h[p].id \notin parted

LEMMA StepUnparted == ASSUME OneCaller, PInv, Unparted, [ModerationNext]_mvars PROVE Unparted'
<1> SUFFICES ASSUME NEW p \in Handlers, h'[p].pc \in {"report", "finish"} PROVE h'[p].id \notin parted'
  BY DEF Unparted
<1> h \in [Handlers -> Handler] /\ Closes /\ MInv /\ p \in Callers
  BY SharedAssumption DEF PInv, MInv, IInv, TypeOK
<1>1. \A q \in Handlers : q = p
  BY SharedAssumption DEF OneCaller
<1>2. CASE parted' = parted /\ h'[p].pc = h[p].pc /\ h'[p].id = h[p].id
  BY <1>2 DEF Unparted
<1>3. CASE UNCHANGED mvars \/ ((Tick \/ MonitorStep) /\ UNCHANGED <<rvars, parted>>)
  BY <1>2, <1>3 DEF Tick, MonitorStep, SweepQuery, SweepDelete, SweepSkip, StaleHandlers, vars, mvars, Handler
<1>4. CASE ModerationRestart
  BY <1>4 DEF ModerationRestart, Restart, Done
<1>5. CASE CloseReport(p)
  BY <1>2, <1>5 DEF CloseReport, vars
<1>6. CASE CloseReturns(p)
  BY <1>6 DEF CloseReturns, Closing, ReportReturns, Goto, Finish, Done, Handler, Unparted
<1>7. CASE BanRequest(p)
  <2>1. CASE CreateInsert(p)
    <3>1. nextBan \notin parted
      BY BansAssumption DEF PInv, PartedStored, MInv, IInv, RowsInv, TypeOK, BanIds
    <3> QED BY <1>7, <2>1, <3>1 DEF BanRequest, CreateInsert, Goto, Handler
  <2> QED BY <1>7, <2>1, RequestsAnswer DEF BanRequest, MInv
<1>8. CASE ReportRequest(p)
  <2>1. CloseInv(h[p], rh[p]) /\ h'[p] = h[p] /\ parted' = parted \cup PartedBy(p)
    BY <1>8 DEF ReportRequest, vars, Closes
  <2>2. PartedBy(p) = {}
    <3>1. SaveReport(p) => rh[p].pc = "save"
      BY DEF SaveReport
    <3> QED BY <2>1, <3>1 DEF CloseInv, PartedBy
  <2> QED BY <1>2, <2>1, <2>2
<1> QED BY <1>1, <1>3, <1>4, <1>5, <1>6, <1>7, <1>8 DEF ModerationNext

\* Served one at a time, a request whose ban is answered as created has closed the report
\* it was attached to: the answer of SetReportStatus is awaited, and its error ends Create
\* (Bans.Create).  Nobody else can have written the report in between.
THEOREM CreatedCloses == ASSUME OneCaller PROVE ModerationSpec => CreatedClosesReport
<1>1. ModerationInit => Unparted
  BY DEF ModerationInit, Init, Done, Unparted
<1>2. PInv /\ Unparted /\ [ModerationNext]_mvars => Unparted'
  BY StepUnparted
<1>3. PInv /\ Unparted
        => [\A p \in Handlers :
              /\ CreateFinish(p) /\ h'[p].result = "created"
              /\ h[p].copy.report # NoReport
              => /\ Filed(h[p].copy.report)
                 /\ reports[h[p].copy.report].status = ClosedWithAction]_mvars
  BY DEF PInv, Unparted, Closes, CloseInv, Settled, Closed, CreateFinish
<1> QED BY <1>1, <1>2, <1>3, PInvariance, PTL DEF ModerationSpec, CreatedClosesReport
=============================================================================
