-------------------------------- MODULE Bans --------------------------------
(***************************************************************************)
(* The ban table and the goroutines that read and write it:                *)
(* internal/ban/{ban,ban_repo,ban_service,ban_expirations,appeal}.go.      *)
(*                                                                         *)
(* Every request runs in a goroutine of its own (a handler) and talks to   *)
(* the database in separate statements, with no transaction and no version *)
(* column: it reads a row, works on its copy and writes every column back. *)
(* The model keeps each statement a step, so that other handlers and the   *)
(* expiration monitor run between a read and the write that relies on it.  *)
(*                                                                         *)
(* The only history variable is the flag "fresh" of a copy: TRUE until     *)
(* somebody else writes the row it was read from.                          *)
(***************************************************************************)
EXTENDS Naturals

CONSTANTS Players,      \* steam ids below steamid.BaseGID
          Groups,       \* steam group ids, at or above steamid.BaseGID
          Reports,      \* ids of reports a ban can be attached to
          Handlers,     \* goroutines serving RPCs and discord commands
          BanTypes,     \* NoComm = 1, Banned = 2, Network = 3
          AppealStates, \* the states a moderator can set on an appeal
          Open,         \* the state a new ban starts in
          MaxBans,      \* bound: rows ever inserted
          MaxTime,      \* bound: clock readings
          NoReport, NoRow

ASSUME BansAssumption ==
    /\ Players \cap Groups = {}
    /\ BanTypes \subseteq Nat
    /\ Open \in AppealStates
    /\ NoReport \notin Reports
    /\ MaxBans \in Nat /\ MaxTime \in Nat

VARIABLES rows,     \* the ban table, by ban_id
          nextBan,  \* the value the ban_id sequence gives out next
          now,      \* the clock
          h,        \* the handlers
          sweep     \* the copies the expiration monitor has yet to delete

vars == <<rows, nextBan, now, h, sweep>>

Targets == Players \cup Groups
BanIds  == 1..MaxBans
Times   == 0..(MaxTime + 1)   \* MaxTime + 1 stands for "after the run"

Row == [target  : Targets,
        type    : BanTypes,
        until   : Times,
        appeal  : AppealStates,
        deleted : BOOLEAN,
        report  : Reports \cup {NoReport}]

ASSUME NoRowAssumption == NoRow \notin Row

Steps   == {"idle", "check", "insert", "report", "finish", "unban", "appeal", "write"}
Ops     == {"none", "create", "unban", "update", "message"}
Results == {"none", "created", "duplicate", "unbanned", "notbanned", "missing", "failed"}

Handler == [pc     : Steps,
            op     : Ops,
            id     : BanIds \cup {0},
            copy   : Row \cup {NoRow},
            fresh  : BOOLEAN,
            result : Results]

Pending == [id : BanIds, copy : Row, fresh : BOOLEAN]

TypeOK ==
    /\ rows \in [BanIds -> Row \cup {NoRow}]
    /\ nextBan \in 1..(MaxBans + 1)
    /\ now \in 0..MaxTime
    /\ h \in [Handlers -> Handler]
    /\ sweep \subseteq Pending

-----------------------------------------------------------------------------
(* Repository.Query.  No caller in the code modelled here sets             *)
(* IncludeGroups, so every query carries target_id < BaseGID.              *)

Stored(id) == rows[id] # NoRow
Visible(id) == Stored(id) /\ rows[id].target \in Players
Live(id) == Visible(id) /\ ~rows[id].deleted
LiveBansOf(t) == {id \in BanIds : Live(id) /\ rows[id].target = t}
Lapsed(id) == Live(id) /\ rows[id].until < now

-----------------------------------------------------------------------------
(* Handler bookkeeping.                                                    *)

Done(r) == [pc |-> "idle", op |-> "none", id |-> 0, copy |-> NoRow,
            fresh |-> FALSE, result |-> r]

At(pc, op, id, copy) == [pc |-> pc, op |-> op, id |-> id, copy |-> copy,
                         fresh |-> TRUE, result |-> "none"]

Finish(p, r) == h' = [h EXCEPT ![p] = Done(r)]
Goto(p, rec) == h' = [h EXCEPT ![p] = rec]

\* Copies of row id held by handlers other than the writer go stale.
StaleHandlers(hs, id) ==
    [q \in Handlers |-> IF hs[q].id = id THEN [hs[q] EXCEPT !.fresh = FALSE] ELSE hs[q]]
StaleSweep(pend, id) ==
    {[e EXCEPT !.fresh = IF e.id = id THEN FALSE ELSE e.fresh] : e \in pend}

\* Mutant of NewRow: the clock is added to an expiry that is absolute already.
RelativeExpiry(t, ty, u, r) == [target |-> t, type |-> ty, until |-> now + u, appeal |-> Open,
                                deleted |-> FALSE, report |-> r]

NewRow(t, ty, u, r) == [target |-> t, type |-> ty, until |-> u, appeal |-> Open,
                        deleted |-> FALSE, report |-> r]

-----------------------------------------------------------------------------
Init ==
    /\ rows = [id \in BanIds |-> NoRow]
    /\ nextBan = 1
    /\ now = 0
    /\ h = [p \in Handlers |-> Done("none")]
    /\ sweep = {}

Tick == /\ now < MaxTime
        /\ now' = now + 1
        /\ UNCHANGED <<rows, nextBan, h, sweep>>

\* Opts.Validate refuses an expiry in the past and Bans.Create returns.
Validate(u) == ~(u < now)

Create(p, t, ty, u, r) ==
    /\ h[p].pc = "idle"
    /\ IF Validate(u) THEN Goto(p, At("check", "create", 0, NewRow(t, ty, u, r)))
                      ELSE Finish(p, "failed")
    /\ UNCHANGED <<rows, nextBan, now, sweep>>

\* Repository.Save of a new ban asks for the live bans of the target and
\* compares with existing[0] only; the query has no ORDER BY, so that is any
\* one of them.
\* Mutant of Supersedes: the comparison is off by one.
SupersedesEqual(ty, id) == ~(ty < rows[id].type)

Supersedes(ty, id) == ~(ty <= rows[id].type)

\* Mutant of CreateCheck: the report is closed before the ban is stored.
ReportBeforeInsert(p) ==
    /\ h[p].pc = "check"
    /\ Goto(p, [h[p] EXCEPT !.pc = IF h[p].copy.report = NoReport THEN "insert" ELSE "report"])
    /\ UNCHANGED <<rows, nextBan, now, sweep>>

CreateCheck(p) ==
    /\ h[p].pc = "check"
    /\ LET existing == LiveBansOf(h[p].copy.target)
           insert   == Goto(p, [h[p] EXCEPT !.pc = "insert"])
       IN  \/ existing = {} /\ insert
           \/ \E id \in existing : IF Supersedes(h[p].copy.type, id)
                                   THEN insert ELSE Finish(p, "duplicate")
    /\ UNCHANGED <<rows, nextBan, now, sweep>>

CreateInsert(p) ==
    /\ h[p].pc = "insert"
    /\ nextBan <= MaxBans
    /\ rows' = [rows EXCEPT ![nextBan] = h[p].copy]
    /\ nextBan' = nextBan + 1
    /\ Goto(p, [h[p] EXCEPT !.id = nextBan,
                            !.pc = IF h[p].copy.report = NoReport THEN "finish" ELSE "report"])
    /\ UNCHANGED <<now, sweep>>

\* The call Reports.SetReportStatus(ClosedWithAction) returns, with or without
\* an error; an error ends Create, whose row stays behind.
ReportReturns(p, ok) ==
    /\ h[p].pc = "report"
    /\ IF ok THEN Goto(p, [h[p] EXCEPT !.pc = "finish"]) ELSE Finish(p, "failed")
    /\ UNCHANGED <<rows, nextBan, now, sweep>>

\* Create answers with a fresh QueryOne of its own ban.
CreateFinish(p) ==
    /\ h[p].pc = "finish"
    /\ Finish(p, IF Live(h[p].id) THEN "created" ELSE "failed")
    /\ UNCHANGED <<rows, nextBan, now, sweep>>

\* Service.Delete looks the ban up by id, then unbans its target.
DeleteRPC(p, id) ==
    /\ h[p].pc = "idle"
    /\ IF Live(id) THEN Goto(p, At("unban", "unban", 0, rows[id]))
                   ELSE Finish(p, "failed")
    /\ UNCHANGED <<rows, nextBan, now, sweep>>

\* Mutant of UnbanRead: any ban of the target is taken, ended ones included.
UnbanAnyRow(p, t) ==
    \/ /\ LiveBansOf(t) = {}
       /\ Finish(p, "missing")
    \/ \E id \in BanIds :
          /\ Visible(id) /\ rows[id].target = t
          /\ Goto(p, At("write", "unban", id, [rows[id] EXCEPT !.deleted = TRUE]))

\* Bans.Unban reads one live ban of the target, whichever comes first.  For
\* none QueryOne returns ErrBanDoesNotExist, Unban asks for ErrNoResult and so
\* returns an error.
UnbanRead(p, t) ==
    \/ /\ LiveBansOf(t) = {}
       /\ Finish(p, "missing")
    \/ \E id \in LiveBansOf(t) :
          Goto(p, At("write", "unban", id, [rows[id] EXCEPT !.deleted = TRUE]))

UnbanCommand(p, t) == /\ h[p].pc = "idle"
                      /\ UnbanRead(p, t)
                      /\ UNCHANGED <<rows, nextBan, now, sweep>>

UnbanOfDelete(p) == /\ h[p].pc = "unban"
                    /\ UnbanRead(p, h[p].copy.target)
                    /\ UNCHANGED <<rows, nextBan, now, sweep>>

\* Mutant of Update: the row is built from the request, as one that is not deleted.
UpdateRevives(p, id, ty, u, a) ==
    /\ h[p].pc = "idle"
    /\ IF Visible(id)
       THEN /\ u > now \/ u = rows[id].until
            /\ Goto(p, At("write", "update", id,
                          [rows[id] EXCEPT !.type = ty, !.until = u, !.appeal = a, !.deleted = FALSE]))
       ELSE Finish(p, "failed")
    /\ UNCHANGED <<rows, nextBan, now, sweep>>

\* Service.Update reads the row, deleted or not, and overwrites the columns
\* of the request in its copy; a request without valid_until keeps the old one
\* (u = rows[id].until).  The request's valid_until is after now.
Update(p, id, ty, u, a) ==
    /\ h[p].pc = "idle"
    /\ IF Visible(id)
       THEN /\ u > now \/ u = rows[id].until
            /\ Goto(p, At("write", "update", id,
                          [rows[id] EXCEPT !.type = ty, !.until = u, !.appeal = a]))
       ELSE Finish(p, "failed")
    /\ UNCHANGED <<rows, nextBan, now, sweep>>

\* Appeals.CreateBanMessage: the ban must be live ...
MessageCheck(p, id) ==
    /\ h[p].pc = "idle"
    /\ IF Live(id) THEN Goto(p, At("appeal", "message", id, rows[id])) ELSE Finish(p, "failed")
    /\ UNCHANGED <<rows, nextBan, now, sweep>>

\* ... is read again, deleted or not, and only a moderator may write to an
\* appeal that is no longer open.  The whole row is then saved back.
MessageRead(p, moderator) ==
    /\ h[p].pc = "appeal"
    /\ LET row == rows[h[p].id] IN
       IF row.appeal # Open /\ ~moderator
       THEN Finish(p, "failed")
       ELSE Goto(p, At("write", "message", h[p].id, row))
    /\ UNCHANGED <<rows, nextBan, now, sweep>>

\* Repository.updateBan: every column of the copy goes to the row.
WriteBack(p) ==
    /\ h[p].pc = "write"
    /\ rows' = [rows EXCEPT ![h[p].id] = h[p].copy]
    /\ h' = [StaleHandlers(h, h[p].id) EXCEPT
                ![p] = Done(IF h[p].op = "unban" THEN "unbanned" ELSE "none")]
    /\ sweep' = StaleSweep(sweep, h[p].id)
    /\ UNCHANGED <<nextBan, now>>

\* A statement fails, or the client goes away: the handler returns an error.
Fail(p) == /\ h[p].pc # "idle"
           /\ Finish(p, "failed")
           /\ UNCHANGED <<rows, nextBan, now, sweep>>

\* Mutant of SweepQuery: a ban that ends at this very moment counts as lapsed.
SweepQueryEarly ==
    /\ sweep = {}
    /\ sweep' = {[id |-> id, copy |-> [rows[id] EXCEPT !.deleted = TRUE], fresh |-> TRUE]
                    : id \in {i \in BanIds : Live(i) /\ rows[i].until <= now}}
    /\ UNCHANGED <<rows, nextBan, now, h>>

\* Mutant of SweepQuery: the copies are saved without the deleted flag.
SweepQueryKeepsFlag ==
    /\ sweep = {}
    /\ sweep' = {[id |-> id, copy |-> rows[id], fresh |-> TRUE] : id \in {i \in BanIds : Lapsed(i)}}
    /\ UNCHANGED <<rows, nextBan, now, h>>

\* ExpirationMonitor.Update: one query for the lapsed bans, then one soft
\* delete of each copy; a delete that fails is logged and skipped.
SweepQuery ==
    /\ sweep = {}
    /\ sweep' = {[id |-> id, copy |-> [rows[id] EXCEPT !.deleted = TRUE], fresh |-> TRUE]
                    : id \in {i \in BanIds : Lapsed(i)}}
    /\ UNCHANGED <<rows, nextBan, now, h>>

\* Mutant of SweepDelete: the row is removed, not marked.
SweepDeleteHard(e) ==
    /\ rows' = [rows EXCEPT ![e.id] = NoRow]
    /\ h' = StaleHandlers(h, e.id)
    /\ sweep' = sweep \ {e}
    /\ UNCHANGED <<nextBan, now>>

SweepDelete(e) ==
    /\ rows' = [rows EXCEPT ![e.id] = e.copy]
    /\ h' = StaleHandlers(h, e.id)
    /\ sweep' = sweep \ {e}
    /\ UNCHANGED <<nextBan, now>>

SweepSkip(e) ==
    /\ sweep' = sweep \ {e}
    /\ UNCHANGED <<rows, nextBan, now, h>>

\* The process dies and is started again: only the table survives.
Restart ==
    /\ h' = [p \in Handlers |-> Done("none")]
    /\ sweep' = {}
    /\ UNCHANGED <<rows, nextBan, now>>

HandlerStep(p) ==
    \/ \E t \in Targets, ty \in BanTypes, u \in Times, r \in Reports \cup {NoReport} :
          Create(p, t, ty, u, r)
    \/ CreateCheck(p) \/ CreateInsert(p) \/ CreateFinish(p)
    \/ \E id \in BanIds : DeleteRPC(p, id) \/ MessageCheck(p, id)
    \/ \E t \in Targets : UnbanCommand(p, t)
    \/ UnbanOfDelete(p)
    \/ \E id \in BanIds, ty \in BanTypes, u \in Times, a \in AppealStates : Update(p, id, ty, u, a)
    \/ \E m \in BOOLEAN : MessageRead(p, m)
    \/ WriteBack(p)
    \/ Fail(p)

MonitorStep == SweepQuery \/ \E e \in sweep : SweepDelete(e) \/ SweepSkip(e)

BanStep == Tick \/ MonitorStep \/ Restart \/ \E p \in Handlers : HandlerStep(p)

Next == BanStep \/ \E p \in Handlers, ok \in BOOLEAN : ReportReturns(p, ok)

Spec == Init /\ [][Next]_vars

-----------------------------------------------------------------------------
(* Properties.                                                             *)

Columns == {"target", "type", "until", "appeal", "deleted", "report"}

\* The columns each operation is there to change.
Owned(op) == CASE op = "unban"   -> {"deleted"}
               [] op = "update"  -> {"type", "until", "appeal"}
               [] OTHER          -> {}

SameExcept(a, b, owned) == \A c \in Columns \ owned : a[c] = b[c]

\* A write from a copy nobody has overtaken changes no column that does not
\* belong to the operation: in particular only a stale copy can bring a
\* deleted ban back or put an appeal back to an earlier state.  Whole-row
\* updates from copies are how every handler of bans saves (updateBan).
FreshWriteKeepsOtherColumns ==
    [][\A p \in Handlers :
          h[p].fresh /\ h[p].pc = "write" /\ WriteBack(p)
             => SameExcept(rows'[h[p].id], rows[h[p].id], Owned(h[p].op))]_vars

\* Neither a whole-row update nor the monitor ever moves a ban to another
\* player or another report, or loses a row.
BansKeepIdentity ==
    [][\A id \in BanIds : Stored(id) =>
          /\ rows'[id] # NoRow
          /\ rows'[id].target = rows[id].target
          /\ rows'[id].report = rows[id].report]_vars

\* The monitor ends a ban early only when it works from a copy that somebody
\* has overtaken; a ban of a group it never ends.
MonitorDeletesOnlyLapsed ==
    [][\A e \in sweep : SweepDelete(e) /\ e.fresh /\ ~rows[e.id].deleted
          => Lapsed(e.id)]_vars

\* With one handler, one kind of ban and the monitor beside it, a player never
\* has two live bans (the duplicate check of Repository.Save).
OneLiveBanPerPlayer ==
    \A i, j \in BanIds : Live(i) /\ Live(j) /\ rows[i].target = rows[j].target => i = j

\* With one handler and one kind of ban, a player whose unban is answered with
\* success has no live ban left (Bans.Unban takes the first one only).
UnbannedMeansFree ==
    [][\A p \in Handlers, t \in Players :
          WriteBack(p) /\ h[p].op = "unban" /\ h[p].copy.target = t
             => (LiveBansOf(t) = {})']_vars

\* The answer "duplicate ban" keeps a ban away from a player who has one of
\* the same type or a harsher one.  No run checks it, for it does not hold:
\* Repository.Save looks at existing[0] only, and another handler may have
\* inserted a ban since that list was read.
InsertSupersedes ==
    [][\A p \in Handlers : CreateInsert(p)
          => \A id \in LiveBansOf(h[p].copy.target) : Supersedes(h[p].copy.type, id)]_vars

\* A player's ban that lapses is deleted, or given a later expiry.
LapsedBansEnd == \A id \in BanIds : Lapsed(id) ~> ~Lapsed(id)

\* The monitor runs every minute and does not fail on one row for ever.
MonitorFairness ==
    /\ WF_vars(SweepQuery)
    /\ \A id \in BanIds : SF_vars(\E e \in sweep : e.id = id /\ SweepDelete(e))

FairSpec == Spec /\ MonitorFairness
=============================================================================
