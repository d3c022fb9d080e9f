----------------------------- MODULE BansProofs -----------------------------
(***************************************************************************)
(* Theorems about Bans, for any number of players, handlers, bans and      *)
(* clock readings.                                                         *)
(*                                                                         *)
(* The invariant says what every copy a goroutine is about to write owes   *)
(* to the row it was read from.  It is needed because the three action     *)
(* properties speak of a write, whose read is several steps of anybody     *)
(* back.                                                                   *)
(***************************************************************************)
EXTENDS Bans, TLAPS

\* Ids are given out in order and a row, once stored, stays.
RowsInv == \A id \in BanIds : Stored(id) <=> id < nextBan

\* A copy on its way to the table is a row of the same player and report; not
\* overtaken, it differs from the stored row in the columns of its operation.
CopyInv(hp) ==
    /\ hp.pc \in {"check", "insert"} => hp.copy # NoRow
    /\ hp.pc \in {"appeal", "write"} => hp.id \in BanIds /\ Stored(hp.id)
    /\ hp.pc = "write" =>
          /\ hp.copy # NoRow
          /\ hp.copy.target = rows[hp.id].target
          /\ hp.copy.report = rows[hp.id].report
          /\ hp.fresh => SameExcept(hp.copy, rows[hp.id], Owned(hp.op))

\* The same for the copies of the monitor, which are lapsed bans of players.
EntryInv(e) ==
    /\ Stored(e.id)
    /\ e.copy.target = rows[e.id].target
    /\ e.copy.report = rows[e.id].report
    /\ e.copy.target \in Players
    /\ e.copy.until < now
    /\ e.copy.deleted
    /\ e.fresh => SameExcept(e.copy, rows[e.id], {"deleted"})

\* The monitor holds one copy of a row at most.
OneEntryPerBan == \A d, e \in sweep : d.id = e.id => d = e

IInv == /\ TypeOK
        /\ RowsInv
        /\ \A p \in Handlers : CopyInv(h[p])
        /\ \A e \in sweep : EntryInv(e)
        /\ OneEntryPerBan

-----------------------------------------------------------------------------
(* Rows and handler records.                                               *)

LEMMA StoredIsRow ==
    ASSUME TypeOK, NEW id \in BanIds, Stored(id)
    PROVE  rows[id] \in Row
BY DEF TypeOK, Stored

LEMMA DoneIsHandler ==
    ASSUME NEW r \in Results
    PROVE  Done(r) \in Handler /\ CopyInv(Done(r))
BY DEF Done, Handler, Steps, Ops, CopyInv

LEMMA AtIsHandler ==
    ASSUME NEW pc \in Steps, NEW op \in Ops, NEW id \in BanIds \cup {0},
           NEW copy \in Row
    PROVE  At(pc, op, id, copy) \in Handler
BY DEF At, Handler, Results

\* A step of one handler that touches nothing shared.
LEMMA OneHandlerMoves ==
    ASSUME IInv, NEW p \in Handlers, NEW rec \in Handler, CopyInv(rec),
           Goto(p, rec), UNCHANGED <<rows, nextBan, now, sweep>>
    PROVE  IInv'
<1>1. TypeOK'
  BY DEF IInv, TypeOK, Goto
<1>2. RowsInv'
  BY DEF IInv, RowsInv, Stored
<1>3. ASSUME NEW q \in Handlers PROVE CopyInv(h[q])'
  <2>1. CASE q = p
    <3>1. h'[q] = rec
      BY <2>1 DEF IInv, TypeOK, Goto
    <3> QED
      BY <3>1 DEF CopyInv, Stored
  <2>2. CASE q # p
    <3>1. h'[q] = h[q] /\ CopyInv(h[q])
      BY <2>2 DEF IInv, TypeOK, Goto
    <3> QED
      BY <3>1 DEF CopyInv, Stored
  <2> QED
    BY <2>1, <2>2
<1>4. ASSUME NEW e \in sweep' PROVE EntryInv(e)'
  BY DEF IInv, EntryInv, Stored
<1> QED
  BY <1>1, <1>2, <1>3, <1>4 DEF IInv, OneEntryPerBan

LEMMA OneHandlerFinishes ==
    ASSUME IInv, NEW p \in Handlers, NEW r \in Results, Finish(p, r),
           UNCHANGED <<rows, nextBan, now, sweep>>
    PROVE  IInv'
BY DoneIsHandler, OneHandlerMoves DEF Finish, Goto

-----------------------------------------------------------------------------
(* The steps of a handler that leave the table alone.                      *)

LEMMA NewRowIsRow ==
    ASSUME NEW t \in Targets, NEW ty \in BanTypes, NEW u \in Times,
           NEW r \in Reports \cup {NoReport}
    PROVE  NewRow(t, ty, u, r) \in Row
BY BansAssumption DEF NewRow, Row

LEMMA CreateKeeps ==
    ASSUME IInv, NEW p \in Handlers, NEW t \in Targets, NEW ty \in BanTypes,
           NEW u \in Times, NEW r \in Reports \cup {NoReport}, Create(p, t, ty, u, r)
    PROVE  IInv'
<1> DEFINE rec == At("check", "create", 0, NewRow(t, ty, u, r))
<1>1. CASE Finish(p, "failed")
  BY <1>1, OneHandlerFinishes DEF Create, Results
<1>2. CASE Goto(p, rec)
  <2>1. rec \in Handler
    BY NewRowIsRow, AtIsHandler DEF Steps, Ops
  <2>2. CopyInv(rec)
    BY NewRowIsRow, NoRowAssumption DEF At, CopyInv
  <2> QED
    BY <1>2, <2>1, <2>2, OneHandlerMoves DEF Create
<1> QED
  BY <1>1, <1>2 DEF Create

LEMMA CreateCheckKeeps ==
    ASSUME IInv, NEW p \in Handlers, CreateCheck(p)
    PROVE  IInv'
<1> DEFINE rec == [h[p] EXCEPT !.pc = "insert"]
<1>1. CASE Finish(p, "duplicate")
  BY <1>1, OneHandlerFinishes DEF CreateCheck, Results
<1>2. CASE Goto(p, rec)
  <2>1. h[p] \in Handler /\ CopyInv(h[p]) /\ h[p].pc = "check"
    BY DEF IInv, TypeOK, CreateCheck
  <2>2. rec \in Handler
    BY <2>1 DEF Handler, Steps
  <2>3. CopyInv(rec)
    BY <2>1 DEF CopyInv, Handler
  <2> QED
    BY <1>2, <2>2, <2>3, OneHandlerMoves DEF CreateCheck
<1> QED
  BY <1>1, <1>2 DEF CreateCheck

LEMMA ReportReturnsKeeps ==
    ASSUME IInv, NEW p \in Handlers, NEW ok \in BOOLEAN, ReportReturns(p, ok)
    PROVE  IInv'
<1> DEFINE rec == [h[p] EXCEPT !.pc = "finish"]
<1>1. CASE Finish(p, "failed")
  BY <1>1, OneHandlerFinishes DEF ReportReturns, Results
<1>2. CASE Goto(p, rec)
  <2>1. h[p] \in Handler
    BY DEF IInv, TypeOK
  <2>2. rec \in Handler /\ CopyInv(rec)
    BY <2>1 DEF Handler, Steps, CopyInv
  <2> QED
    BY <1>2, <2>2, OneHandlerMoves DEF ReportReturns
<1> QED
  BY <1>1, <1>2 DEF ReportReturns

LEMMA CreateFinishKeeps ==
    ASSUME IInv, NEW p \in Handlers, CreateFinish(p)
    PROVE  IInv'
<1>1. (IF Live(h[p].id) THEN "created" ELSE "failed") \in Results
  BY DEF Results
<1> QED
  BY <1>1, OneHandlerFinishes DEF CreateFinish

LEMMA DeleteRPCKeeps ==
    ASSUME IInv, NEW p \in Handlers, NEW id \in BanIds, DeleteRPC(p, id)
    PROVE  IInv'
<1> DEFINE rec == At("unban", "unban", 0, rows[id])
<1>1. CASE Finish(p, "failed")
  BY <1>1, OneHandlerFinishes DEF DeleteRPC, Results
<1>2. CASE Live(id) /\ Goto(p, rec)
  <2>1. rows[id] \in Row
    BY <1>2, StoredIsRow DEF Live, Visible, IInv
  <2>2. rec \in Handler
    BY <2>1, AtIsHandler DEF Steps, Ops
  <2>3. CopyInv(rec)
    BY DEF At, CopyInv
  <2> QED
    BY <1>2, <2>2, <2>3, OneHandlerMoves DEF DeleteRPC
<1> QED
  BY <1>1, <1>2 DEF DeleteRPC

\* A copy of row id that differs from it in the operation's own columns.
LEMMA ReadCopyKeeps ==
    ASSUME IInv, NEW p \in Handlers, NEW id \in BanIds, Stored(id),
           NEW op \in Ops, NEW copy \in Row,
           copy.target = rows[id].target, copy.report = rows[id].report,
           SameExcept(copy, rows[id], Owned(op)),
           Goto(p, At("write", op, id, copy)),
           UNCHANGED <<rows, nextBan, now, sweep>>
    PROVE  IInv'
<1> DEFINE rec == At("write", op, id, copy)
<1>1. rec \in Handler
  BY AtIsHandler DEF Steps
<1>2. CopyInv(rec)
  BY NoRowAssumption DEF At, CopyInv
<1> QED
  BY <1>1, <1>2, OneHandlerMoves

LEMMA UnbanReadKeeps ==
    ASSUME IInv, NEW p \in Handlers, NEW t, UnbanRead(p, t),
           UNCHANGED <<rows, nextBan, now, sweep>>
    PROVE  IInv'
<1>1. CASE Finish(p, "missing")
  BY <1>1, OneHandlerFinishes DEF Results
<1>2. ASSUME NEW id \in LiveBansOf(t),
             Goto(p, At("write", "unban", id, [rows[id] EXCEPT !.deleted = TRUE]))
      PROVE  IInv'
  <2> DEFINE copy == [rows[id] EXCEPT !.deleted = TRUE]
  <2>1. id \in BanIds /\ Stored(id)
    BY DEF LiveBansOf, Live, Visible
  <2>2. rows[id] \in Row
    BY <2>1, StoredIsRow DEF IInv
  <2>3. /\ copy \in Row
        /\ copy.target = rows[id].target /\ copy.report = rows[id].report
    BY <2>2 DEF Row
  <2>4. SameExcept(copy, rows[id], Owned("unban"))
    BY <2>2 DEF Row, SameExcept, Columns, Owned
  <2> QED
    BY <1>2, <2>1, <2>3, <2>4, ReadCopyKeeps DEF Ops
<1> QED
  BY <1>1, <1>2 DEF UnbanRead

LEMMA UpdateKeeps ==
    ASSUME IInv, NEW p \in Handlers, NEW id \in BanIds, NEW ty \in BanTypes,
           NEW u \in Times, NEW a \in AppealStates, Update(p, id, ty, u, a)
    PROVE  IInv'
<1> DEFINE copy == [rows[id] EXCEPT !.type = ty, !.until = u, !.appeal = a]
<1>1. CASE Finish(p, "failed")
  BY <1>1, OneHandlerFinishes DEF Update, Results
<1>2. CASE Visible(id) /\ Goto(p, At("write", "update", id, copy))
  <2>1. Stored(id)
    BY <1>2 DEF Visible
  <2>2. rows[id] \in Row
    BY <2>1, StoredIsRow DEF IInv
  <2>3. /\ copy \in Row
        /\ copy.target = rows[id].target /\ copy.report = rows[id].report
    BY <2>2 DEF Row
  <2>4. SameExcept(copy, rows[id], Owned("update"))
    BY <2>2 DEF Row, SameExcept, Columns, Owned
  <2> QED
    BY <1>2, <2>1, <2>3, <2>4, ReadCopyKeeps DEF Ops, Update
<1> QED
  BY <1>1, <1>2 DEF Update

LEMMA MessageCheckKeeps ==
    ASSUME IInv, NEW p \in Handlers, NEW id \in BanIds, MessageCheck(p, id)
    PROVE  IInv'
<1> DEFINE rec == At("appeal", "message", id, rows[id])
<1>1. CASE Finish(p, "failed")
  BY <1>1, OneHandlerFinishes DEF MessageCheck, Results
<1>2. CASE Live(id) /\ Goto(p, rec)
  <2>1. Stored(id) /\ rows[id] \in Row
    BY <1>2, StoredIsRow DEF Live, Visible, IInv
  <2>2. rec \in Handler
    BY <2>1, AtIsHandler DEF Steps, Ops
  <2>3. CopyInv(rec)
    BY <2>1 DEF At, CopyInv
  <2> QED
    BY <1>2, <2>2, <2>3, OneHandlerMoves DEF MessageCheck
<1> QED
  BY <1>1, <1>2 DEF MessageCheck

LEMMA MessageReadKeeps ==
    ASSUME IInv, NEW p \in Handlers, NEW m \in BOOLEAN, MessageRead(p, m)
    PROVE  IInv'
<1> DEFINE id == h[p].id
<1>1. CASE Finish(p, "failed")
  BY <1>1, OneHandlerFinishes DEF MessageRead, Results
<1>2. CASE Goto(p, At("write", "message", id, rows[id]))
  <2>1. id \in BanIds /\ Stored(id)
    BY DEF IInv, CopyInv, MessageRead
  <2>2. rows[id] \in Row
    BY <2>1, StoredIsRow DEF IInv
  <2>3. SameExcept(rows[id], rows[id], Owned("message"))
    BY DEF SameExcept
  <2> QED
    BY <1>2, <2>1, <2>2, <2>3, ReadCopyKeeps DEF Ops, MessageRead
<1> QED
  BY <1>1, <1>2 DEF MessageRead

-----------------------------------------------------------------------------
(* The steps that write to the table, and those of the clock and monitor.  *)


\* What a write owes to the copies: the row keeps its player and report, and
\* the copies of it that remain no longer count as fresh.
RowWritten(id, copy) ==
    /\ id \in BanIds /\ Stored(id)
    /\ copy \in Row
    /\ copy.target = rows[id].target
    /\ copy.report = rows[id].report
    /\ rows' = [rows EXCEPT ![id] = copy]
    /\ UNCHANGED <<nextBan, now>>

LEMMA WriteKeepsRows ==
    ASSUME IInv, NEW id, NEW copy, RowWritten(id, copy)
    PROVE  /\ RowsInv'
           /\ rows' \in [BanIds -> Row \cup {NoRow}]
           /\ \A i \in BanIds : Stored(i) <=> Stored(i)'
<1> USE DEF RowWritten
<1>1. rows' \in [BanIds -> Row \cup {NoRow}]
  BY DEF IInv, TypeOK
<1>2. \A i \in BanIds : Stored(i) <=> Stored(i)'
  BY NoRowAssumption DEF IInv, TypeOK, Stored
<1> QED
  BY <1>1, <1>2 DEF IInv, RowsInv

LEMMA WriteKeepsCopies ==
    ASSUME IInv, NEW id, NEW copy, RowWritten(id, copy), NEW q \in Handlers,
           h'[q] = StaleHandlers(h, id)[q]
    PROVE  h'[q] \in Handler /\ CopyInv(h[q])'
<1> DEFINE hq == h[q]
<1>1. hq \in Handler /\ CopyInv(hq)
  BY DEF IInv, TypeOK
<1>2. CASE hq.id = id
  <2>1. h'[q] = [hq EXCEPT !.fresh = FALSE]
    BY <1>2 DEF StaleHandlers
  <2>2. /\ h'[q] \in Handler
        /\ h'[q].pc = hq.pc /\ h'[q].copy = hq.copy /\ h'[q].id = id
        /\ ~h'[q].fresh
    BY <1>1, <1>2, <2>1 DEF Handler
  <2>3. rows'[id] = copy
    BY DEF RowWritten, IInv, TypeOK
  <2> QED
    BY <1>1, <1>2, <2>2, <2>3, NoRowAssumption DEF CopyInv, RowWritten, Stored
<1>3. CASE hq.id # id
  <2>1. h'[q] = hq
    BY <1>3 DEF StaleHandlers
  <2>2. hq.id \in BanIds => rows'[hq.id] = rows[hq.id]
    BY <1>3 DEF RowWritten, IInv, TypeOK
  <2> QED
    BY <1>1, <2>1, <2>2 DEF CopyInv, Stored
<1> QED
  BY <1>2, <1>3

LEMMA WriteKeepsEntries ==
    ASSUME IInv, NEW id, NEW copy, RowWritten(id, copy),
           NEW e \in StaleSweep(sweep, id)
    PROVE  e \in Pending /\ EntryInv(e)'
<1>1. PICK d \in sweep : e = [d EXCEPT !.fresh = IF d.id = id THEN FALSE ELSE d.fresh]
  BY DEF StaleSweep
<1>2. d \in Pending /\ EntryInv(d)
  BY DEF IInv, TypeOK
<1>3. /\ e \in Pending /\ e.id = d.id /\ e.copy = d.copy
      /\ e.fresh => d.fresh /\ d.id # id
  BY <1>1, <1>2 DEF Pending
<1>4. Stored(e.id)'
  BY <1>2, <1>3, WriteKeepsRows DEF EntryInv, Pending
<1>5. CASE d.id = id
  <2>1. rows'[id] = copy
    BY DEF RowWritten, IInv, TypeOK
  <2> QED
    BY <1>2, <1>3, <1>4, <1>5, <2>1 DEF EntryInv, RowWritten
<1>6. CASE d.id # id
  <2>1. rows'[d.id] = rows[d.id]
    BY <1>2, <1>6 DEF RowWritten, IInv, TypeOK, Pending
  <2> QED
    BY <1>2, <1>3, <1>4, <2>1 DEF EntryInv, RowWritten
<1> QED
  BY <1>5, <1>6

LEMMA WriteBackKeeps ==
    ASSUME IInv, NEW p \in Handlers, WriteBack(p)
    PROVE  IInv'
<1> DEFINE id == h[p].id
           copy == h[p].copy
           r == IF h[p].op = "unban" THEN "unbanned" ELSE "none"
<1>1. RowWritten(id, copy)
  BY DEF IInv, TypeOK, CopyInv, Handler, WriteBack, RowWritten
<1>2. Done(r) \in Handler /\ Done(r).pc = "idle"
  <2>1. r \in Results
    BY DEF Results
  <2> QED
    BY <2>1 DEF Done, Handler, Steps, Ops
<1>3. ASSUME NEW q \in Handlers PROVE h'[q] \in Handler /\ CopyInv(h[q])'
  <2>1. CASE q = p
    <3>1. h'[q] = Done(r)
      BY <2>1 DEF WriteBack, StaleHandlers
    <3> QED
      BY <1>2, <3>1 DEF CopyInv
  <2>2. CASE q # p
    <3>1. h'[q] = StaleHandlers(h, id)[q]
      BY <2>2 DEF WriteBack, StaleHandlers
    <3> QED
      BY <1>1, <3>1, WriteKeepsCopies
  <2> QED
    BY <2>1, <2>2
<1>4. h' \in [Handlers -> Handler]
  BY <1>3 DEF WriteBack, StaleHandlers
<1>5. \A e \in sweep' : e \in Pending /\ EntryInv(e)'
  BY <1>1, WriteKeepsEntries DEF WriteBack
<1>6. RowsInv' /\ rows' \in [BanIds -> Row \cup {NoRow}]
  BY <1>1, WriteKeepsRows
<1>7. TypeOK'
  BY <1>1, <1>4, <1>5, <1>6 DEF IInv, TypeOK, RowWritten
<1>8. OneEntryPerBan'
  <2>1. ASSUME NEW d \in sweep', NEW e \in sweep', d.id = e.id PROVE d = e
    <3>1. PICK d0 \in sweep : d = [d0 EXCEPT !.fresh = IF d0.id = id THEN FALSE ELSE d0.fresh]
      BY DEF WriteBack, StaleSweep
    <3>2. PICK e0 \in sweep : e = [e0 EXCEPT !.fresh = IF e0.id = id THEN FALSE ELSE e0.fresh]
      BY DEF WriteBack, StaleSweep
    <3>3. d.id = d0.id /\ e.id = e0.id
      BY <3>1, <3>2 DEF IInv, TypeOK, Pending
    <3> QED
      BY <2>1, <3>1, <3>2, <3>3 DEF IInv, OneEntryPerBan
  <2> QED
    BY <2>1 DEF OneEntryPerBan
<1> QED
  BY <1>3, <1>5, <1>6, <1>7, <1>8 DEF IInv

LEMMA SweepDeleteKeeps ==
    ASSUME IInv, NEW e \in sweep, SweepDelete(e)
    PROVE  IInv'
<1>1. e \in Pending /\ EntryInv(e)
  BY DEF IInv, TypeOK
<1>2. RowWritten(e.id, e.copy)
  BY <1>1 DEF Pending, EntryInv, SweepDelete, RowWritten
<1>3. ASSUME NEW q \in Handlers PROVE h'[q] \in Handler /\ CopyInv(h[q])'
  BY <1>2, WriteKeepsCopies DEF SweepDelete
<1>4. h' \in [Handlers -> Handler]
  BY <1>3 DEF SweepDelete, StaleHandlers
<1>5. ASSUME NEW d \in sweep' PROVE d \in Pending /\ EntryInv(d)'
  <2>1. d \in sweep /\ d.id # e.id
    BY DEF SweepDelete, IInv, OneEntryPerBan
  <2>2. d \in Pending /\ EntryInv(d)
    BY <2>1 DEF IInv, TypeOK
  <2>3. rows'[d.id] = rows[d.id]
    BY <2>1, <2>2 DEF SweepDelete, IInv, TypeOK, Pending
  <2> QED
    BY <1>2, <2>2, <2>3 DEF EntryInv, Stored, RowWritten
<1>6. RowsInv' /\ rows' \in [BanIds -> Row \cup {NoRow}]
  BY <1>2, WriteKeepsRows
<1>7. TypeOK'
  BY <1>2, <1>4, <1>5, <1>6 DEF IInv, TypeOK, RowWritten
<1>8. OneEntryPerBan'
  BY DEF SweepDelete, IInv, OneEntryPerBan
<1> QED
  BY <1>3, <1>5, <1>6, <1>7, <1>8 DEF IInv

LEMMA CreateInsertKeeps ==
    ASSUME IInv, NEW p \in Handlers, CreateInsert(p)
    PROVE  IInv'
<1> DEFINE rec == [h[p] EXCEPT !.id = nextBan,
                      !.pc = IF h[p].copy.report = NoReport THEN "finish" ELSE "report"]
<1>1. h[p] \in Handler /\ h[p].copy \in Row /\ h[p].pc = "insert"
  BY DEF IInv, TypeOK, CopyInv, CreateInsert, Handler
<1>2. nextBan \in BanIds /\ nextBan + 1 \in 1..(MaxBans + 1)
  BY BansAssumption DEF IInv, TypeOK, CreateInsert, BanIds
<1>3. /\ rows' \in [BanIds -> Row \cup {NoRow}]
      /\ rows'[nextBan] = h[p].copy
      /\ \A id \in BanIds : id # nextBan => rows'[id] = rows[id]
  BY <1>1, <1>2 DEF IInv, TypeOK, CreateInsert
<1>4. RowsInv'
  BY <1>1, <1>2, <1>3, BansAssumption, NoRowAssumption
  DEF IInv, RowsInv, TypeOK, Stored, BanIds, CreateInsert
<1>5. ~Stored(nextBan)
  BY <1>2, BansAssumption DEF IInv, RowsInv, BanIds
<1>6. rec \in Handler /\ rec.pc \in {"finish", "report"}
  BY <1>1, <1>2 DEF Handler, Steps
<1>7. ASSUME NEW q \in Handlers PROVE h'[q] \in Handler /\ CopyInv(h[q])'
  <2>1. CASE q = p
    <3>1. h'[q] = rec
      BY <2>1 DEF CreateInsert, Goto, IInv, TypeOK
    <3> QED
      BY <1>6, <3>1 DEF CopyInv
  <2>2. CASE q # p
    <3>1. h'[q] = h[q] /\ CopyInv(h[q]) /\ h[q] \in Handler
      BY <2>2 DEF CreateInsert, Goto, IInv, TypeOK
    <3> QED
      BY <1>3, <1>5, <3>1 DEF CopyInv, Stored
  <2> QED
    BY <2>1, <2>2
<1>8. TypeOK'
  BY <1>2, <1>3, <1>7 DEF IInv, TypeOK, CreateInsert, Goto
<1>9. ASSUME NEW e \in sweep' PROVE EntryInv(e)'
  <2>1. e \in Pending /\ EntryInv(e)
    BY DEF IInv, TypeOK, CreateInsert
  <2>2. rows'[e.id] = rows[e.id]
    BY <1>3, <1>5, <2>1 DEF EntryInv, Pending
  <2> QED
    BY <2>1, <2>2 DEF EntryInv, Stored, CreateInsert
<1> QED
  BY <1>4, <1>7, <1>8, <1>9 DEF IInv, OneEntryPerBan, CreateInsert

LEMMA TickKeeps ==
    ASSUME IInv, Tick
    PROVE  IInv'
<1>1. TypeOK' /\ now' = now + 1 /\ now \in Nat
  BY BansAssumption DEF IInv, TypeOK, Tick
<1>2. ASSUME NEW e \in sweep' PROVE EntryInv(e)'
  <2>1. e \in Pending /\ EntryInv(e)
    BY DEF IInv, TypeOK, Tick
  <2>2. e.copy.until \in Nat
    BY <2>1, BansAssumption DEF Pending, Row, Times
  <2> QED
    BY <1>1, <2>1, <2>2 DEF EntryInv, Stored, Tick
<1> QED
  BY <1>1, <1>2 DEF IInv, RowsInv, CopyInv, Stored, OneEntryPerBan, Tick

LEMMA SweepQueryKeeps ==
    ASSUME IInv, SweepQuery
    PROVE  IInv'
<1>1. ASSUME NEW e \in sweep' PROVE e \in Pending /\ EntryInv(e)'
  <2>1. PICK id \in BanIds :
           /\ Lapsed(id)
           /\ e = [id |-> id, copy |-> [rows[id] EXCEPT !.deleted = TRUE], fresh |-> TRUE]
    BY DEF SweepQuery
  <2>2. Stored(id) /\ rows[id] \in Row
    BY <2>1, StoredIsRow DEF Lapsed, Live, Visible, IInv
  <2>3. e.copy \in Row /\ e.id = id /\ e.fresh \in BOOLEAN /\ e \in Pending
    BY <2>1, <2>2 DEF Row, Pending
  <2>4. /\ e.copy.target = rows[id].target /\ e.copy.report = rows[id].report
        /\ e.copy.until = rows[id].until /\ e.copy.deleted
        /\ SameExcept(e.copy, rows[id], {"deleted"})
    BY <2>1, <2>2 DEF Row, SameExcept, Columns
  <2> QED
    BY <2>1, <2>2, <2>3, <2>4
    DEF EntryInv, Lapsed, Live, Visible, Stored, SweepQuery, SameExcept
<1>2. OneEntryPerBan'
  <2> DEFINE E(id) == [id |-> id, copy |-> [rows[id] EXCEPT !.deleted = TRUE], fresh |-> TRUE]
  <2>1. \A e \in sweep' : \E id \in BanIds : e = E(id)
    BY DEF SweepQuery
  <2>2. \A id \in BanIds : E(id).id = id
    OBVIOUS
  <2>3. \A d, e \in sweep' : d.id = e.id => d = e
    <3> HIDE DEF E
    <3> QED
      BY <2>1, <2>2
  <2> QED
    BY <2>3 DEF OneEntryPerBan
<1> QED
  BY <1>1, <1>2 DEF IInv, TypeOK, RowsInv, CopyInv, Stored, SweepQuery

LEMMA SweepSkipKeeps ==
    ASSUME IInv, NEW e \in sweep, SweepSkip(e)
    PROVE  IInv'
BY DEF IInv, TypeOK, RowsInv, CopyInv, EntryInv, Stored, OneEntryPerBan, SweepSkip

LEMMA RestartKeeps ==
    ASSUME IInv, Restart
    PROVE  IInv'
<1>1. Done("none") \in Handler /\ CopyInv(Done("none"))'
  BY DEF Done, Handler, Steps, Ops, Results, CopyInv
<1> QED
  BY <1>1 DEF IInv, TypeOK, RowsInv, Stored, OneEntryPerBan, Restart

LEMMA FailKeeps ==
    ASSUME IInv, NEW p \in Handlers, Fail(p)
    PROVE  IInv'
BY OneHandlerFinishes DEF Fail, Results

-----------------------------------------------------------------------------
LEMMA InitInv == Init => IInv
<1> SUFFICES ASSUME Init PROVE IInv
  OBVIOUS
<1>1. Done("none") \in Handler /\ CopyInv(Done("none"))
  BY DoneIsHandler DEF Results
<1>2. TypeOK
  BY <1>1, BansAssumption DEF Init, TypeOK
<1>3. RowsInv
  BY DEF Init, RowsInv, Stored, BanIds
<1> QED
  BY <1>1, <1>2, <1>3 DEF Init, IInv, OneEntryPerBan

LEMMA NextInv == IInv /\ [Next]_vars => IInv'
<1> SUFFICES ASSUME IInv, [Next]_vars PROVE IInv'
  OBVIOUS
<1>1. CASE UNCHANGED vars
  BY <1>1 DEF vars, IInv, TypeOK, RowsInv, CopyInv, EntryInv, Stored, OneEntryPerBan
<1>2. CASE Tick
  BY <1>2, TickKeeps
<1>3. CASE MonitorStep
  BY <1>3, SweepQueryKeeps, SweepDeleteKeeps, SweepSkipKeeps DEF MonitorStep
<1>4. CASE Restart
  BY <1>4, RestartKeeps
<1>5. ASSUME NEW p \in Handlers, HandlerStep(p) PROVE IInv'
  BY <1>5, CreateKeeps, CreateCheckKeeps, CreateInsertKeeps, CreateFinishKeeps,
     DeleteRPCKeeps, MessageCheckKeeps, UnbanReadKeeps, UpdateKeeps, MessageReadKeeps,
     WriteBackKeeps, FailKeeps
  DEF HandlerStep, UnbanCommand, UnbanOfDelete
<1>6. ASSUME NEW p \in Handlers, NEW ok \in BOOLEAN, ReportReturns(p, ok) PROVE IInv'
  BY <1>6, ReportReturnsKeeps
<1> QED
  BY <1>1, <1>2, <1>3, <1>4, <1>5, <1>6 DEF Next, BanStep

LEMMA Invariance == Spec => []IInv
BY InitInv, NextInv, PTL DEF Spec

\* Every row, copy and clock reading stays what its type says, for any number
\* of handlers (the ban table of internal/ban/ban_repo.go).
THEOREM TypeCorrect == Spec => []TypeOK
<1>1. IInv => TypeOK
  BY DEF IInv
<1> QED
  BY <1>1, Invariance, PTL

\* A whole-row update from a copy nobody has overtaken changes the columns of
\* its own operation only (updateBan).
THEOREM FreshWrites == Spec => FreshWriteKeepsOtherColumns
<1> DEFINE A == \A p \in Handlers :
                  h[p].fresh /\ h[p].pc = "write" /\ WriteBack(p)
                     => SameExcept(rows'[h[p].id], rows[h[p].id], Owned(h[p].op))
<1>1. IInv /\ [Next]_vars => [A]_vars
  <2> SUFFICES ASSUME IInv, NEW p \in Handlers,
                      h[p].fresh, h[p].pc = "write", WriteBack(p)
               PROVE  SameExcept(rows'[h[p].id], rows[h[p].id], Owned(h[p].op))
    OBVIOUS
  <2>1. /\ h[p].id \in BanIds
        /\ SameExcept(h[p].copy, rows[h[p].id], Owned(h[p].op))
    BY DEF IInv, CopyInv
  <2>2. rows'[h[p].id] = h[p].copy
    BY <2>1 DEF WriteBack, IInv, TypeOK
  <2> QED
    BY <2>1, <2>2
<1> QED
  BY <1>1, Invariance, PTL DEF Spec, FreshWriteKeepsOtherColumns

RowKept(id) == /\ rows'[id] # NoRow
               /\ rows'[id].target = rows[id].target
               /\ rows'[id].report = rows[id].report

LEMMA StepKeepsRows == ASSUME IInv, Next, NEW id \in BanIds, Stored(id) PROVE RowKept(id)
<1> DEFINE Same == rows'[id] = rows[id]
<1>1. CASE Same
  BY <1>1 DEF Stored, RowKept
<1>2. ASSUME NEW i, NEW copy, RowWritten(i, copy) PROVE RowKept(id)
  BY <1>2, NoRowAssumption DEF RowWritten, RowKept, IInv, TypeOK, Stored
<1>3. ASSUME NEW p \in Handlers, WriteBack(p) PROVE RowWritten(h[p].id, h[p].copy)
  BY <1>3 DEF IInv, TypeOK, CopyInv, Handler, WriteBack, RowWritten
<1>4. ASSUME NEW e \in sweep, SweepDelete(e) PROVE RowWritten(e.id, e.copy)
  BY <1>4 DEF IInv, TypeOK, Pending, EntryInv, SweepDelete, RowWritten
<1>5. ASSUME NEW p \in Handlers, CreateInsert(p) PROVE Same
  <2>1. nextBan # id
    BY BansAssumption DEF IInv, TypeOK, RowsInv, BanIds
  <2> QED
    BY <1>5, <2>1 DEF CreateInsert, IInv, TypeOK
<1>6. CASE Tick \/ Restart
  BY <1>1, <1>6 DEF Tick, Restart
<1>7. CASE MonitorStep
  BY <1>1, <1>2, <1>4, <1>7 DEF MonitorStep, SweepQuery, SweepSkip
<1>8. ASSUME NEW p \in Handlers, HandlerStep(p)
      PROVE  Same \/ CreateInsert(p) \/ WriteBack(p)
  BY <1>8 DEF HandlerStep, Create, CreateCheck, CreateFinish, DeleteRPC, MessageCheck,
     UnbanCommand, UnbanOfDelete, Update, MessageRead, Fail
<1>9. ASSUME NEW p \in Handlers, NEW ok \in BOOLEAN, ReportReturns(p, ok) PROVE Same
  BY <1>9 DEF ReportReturns
<1> QED
  BY <1>1, <1>2, <1>3, <1>5, <1>6, <1>7, <1>8, <1>9 DEF Next, BanStep

\* A row never moves to another player or report and never vanishes.
THEOREM Identity == Spec => BansKeepIdentity
<1> DEFINE A == \A id \in BanIds : Stored(id) =>
                  /\ rows'[id] # NoRow
                  /\ rows'[id].target = rows[id].target
                  /\ rows'[id].report = rows[id].report
<1>1. IInv /\ [Next]_vars => [A]_vars
  BY StepKeepsRows DEF RowKept
<1> QED
  BY <1>1, Invariance, PTL DEF Spec, BansKeepIdentity

\* A ban that Create goes on to close a report for has been stored with that report.
CreatedInv(hp) ==
    hp.pc \in {"report", "finish"} =>
        /\ hp.id \in BanIds /\ Stored(hp.id)
        /\ hp.copy \in Row /\ rows[hp.id].report = hp.copy.report
        /\ hp.pc = "report" => hp.copy.report # NoReport

CreatedStored == \A p \in Handlers : CreatedInv(h[p])

\* The only step of a request that leads on to the report is the insertion of the ban.
LEMMA RequestsAnswer ==
    ASSUME IInv, NEW p \in Handlers, HandlerStep(p), ~CreateInsert(p)
    PROVE  h'[p].pc \notin {"report", "finish"}
<1>1. ASSUME NEW r, Finish(p, r) PROVE h'[p].pc = "idle"
  BY <1>1 DEF Finish, Done, IInv, TypeOK
<1>2. ASSUME NEW pc, NEW op, NEW id, NEW copy, Goto(p, At(pc, op, id, copy)) PROVE h'[p].pc = pc
  BY <1>2 DEF Goto, At, IInv, TypeOK
<1>3. ASSUME CreateCheck(p) PROVE h'[p].pc \in {"insert", "idle"}
  BY <1>1, <1>3 DEF CreateCheck, Goto, IInv, TypeOK, Handler
<1>4. CASE WriteBack(p)
  BY <1>4 DEF WriteBack, StaleHandlers, Done
<1>5. ASSUME NEW t, UnbanRead(p, t) PROVE h'[p].pc \in {"write", "idle"}
  BY <1>1, <1>2, <1>5 DEF UnbanRead
<1>6. CASE \E t \in Targets, ty \in BanTypes, u \in Times, r \in Reports \cup {NoReport} : Create(p, t, ty, u, r)
  BY <1>1, <1>2, <1>6 DEF Create
<1>7. CASE \E id \in BanIds : DeleteRPC(p, id) \/ MessageCheck(p, id)
  BY <1>1, <1>2, <1>7 DEF DeleteRPC, MessageCheck
<1>8. CASE \E id \in BanIds, ty \in BanTypes, u \in Times, a \in AppealStates : Update(p, id, ty, u, a)
  BY <1>1, <1>2, <1>8 DEF Update
<1>9. CASE \E m \in BOOLEAN : MessageRead(p, m)
  BY <1>1, <1>2, <1>9 DEF MessageRead
<1>10. CASE CreateFinish(p) \/ Fail(p)
  BY <1>1, <1>10 DEF CreateFinish, Fail
<1> QED
  BY <1>3, <1>4, <1>5, <1>6, <1>7, <1>8, <1>9, <1>10 DEF HandlerStep, UnbanCommand, UnbanOfDelete

\* A request leaves the others where they are; at most their copies go stale.
LEMMA OthersStay ==
    ASSUME IInv, NEW p \in Handlers, NEW q \in Handlers \ {p},
           HandlerStep(q) \/ \E ok \in BOOLEAN : ReportReturns(q, ok)
    PROVE  h'[p].pc = h[p].pc /\ h'[p].id = h[p].id /\ h'[p].copy = h[p].copy
<1>1. ASSUME NEW k, Goto(q, k) PROVE h'[p] = h[p]
  BY <1>1 DEF Goto, IInv, TypeOK
<1>2. ASSUME NEW r, Finish(q, r) PROVE h'[p] = h[p]
  BY <1>2 DEF Finish, IInv, TypeOK
<1>3. CASE WriteBack(q)
  BY <1>3 DEF WriteBack, StaleHandlers, IInv, TypeOK, Handler
<1>4. HandlerStep(q) => WriteBack(q) \/ (\E k : Goto(q, k)) \/ (\E r : Finish(q, r))
  BY DEF HandlerStep, Create, CreateCheck, CreateInsert, CreateFinish, DeleteRPC, MessageCheck,
     UnbanCommand, UnbanRead, UnbanOfDelete, Update, MessageRead, Fail
<1>5. ASSUME NEW ok \in BOOLEAN, ReportReturns(q, ok) PROVE (\E k : Goto(q, k)) \/ (\E r : Finish(q, r))
  BY <1>5 DEF ReportReturns
<1> QED
  BY <1>1, <1>2, <1>3, <1>4, <1>5

LEMMA StepKeepsCreated == ASSUME IInv, CreatedStored, [Next]_vars PROVE CreatedStored'
<1> SUFFICES ASSUME NEW p \in Handlers PROVE CreatedInv(h[p])'
  BY DEF CreatedStored
<1> DEFINE Goes == /\ h[p].pc \in {"report", "finish"} /\ h'[p].id = h[p].id /\ h'[p].copy = h[p].copy
                   /\ h'[p].pc = "report" => h[p].pc = "report"
<1>1. CASE UNCHANGED vars
  BY <1>1 DEF vars, CreatedStored, CreatedInv, Stored
<1>2. ASSUME Next, h'[p].pc \in {"report", "finish"} => Goes PROVE CreatedInv(h[p])'
  <2>1. \A id \in BanIds : Stored(id) => RowKept(id)
    BY <1>2, StepKeepsRows
  <2> QED
    BY <1>2, <2>1 DEF CreatedStored, CreatedInv, RowKept, Stored
<1>3. CASE CreateInsert(p)
  <2>1. h[p].pc = "insert" /\ h[p].copy \in Row
    BY <1>3 DEF CreateInsert, IInv, TypeOK, Handler, CopyInv
  <2>2. nextBan \in BanIds /\ rows' = [rows EXCEPT ![nextBan] = h[p].copy] /\ h[p].copy # NoRow
    BY <1>3, <2>1, BansAssumption, NoRowAssumption DEF CreateInsert, IInv, TypeOK, BanIds
  <2>3. /\ h'[p].id = nextBan /\ h'[p].copy = h[p].copy
        /\ h'[p].pc = IF h[p].copy.report = NoReport THEN "finish" ELSE "report"
    BY <1>3 DEF CreateInsert, Goto, IInv, TypeOK, Handler
  <2> QED
    BY <2>1, <2>2, <2>3 DEF CreatedInv, Stored, IInv, TypeOK
<1>4. ASSUME NEW q \in Handlers \ {p}, HandlerStep(q) \/ \E ok \in BOOLEAN : ReportReturns(q, ok)
      PROVE  h'[p].pc \in {"report", "finish"} => Goes
  BY <1>4, OthersStay
<1>5. ASSUME HandlerStep(p), ~CreateInsert(p) PROVE h'[p].pc \notin {"report", "finish"}
  BY <1>5, RequestsAnswer
<1>6. ASSUME NEW ok \in BOOLEAN, ReportReturns(p, ok) PROVE h'[p].pc \in {"report", "finish"} => Goes
  BY <1>6 DEF ReportReturns, Goto, Finish, Done, IInv, TypeOK, Handler
<1>7. CASE Tick \/ MonitorStep \/ Restart
  <2>1. h'[p].pc \in {"report", "finish"} => Goes
    BY <1>7 DEF Tick, MonitorStep, SweepQuery, SweepDelete, SweepSkip, Restart, Done, StaleHandlers,
       IInv, TypeOK, Handler
  <2> QED
    BY <1>2, <1>7, <2>1 DEF Next, BanStep
<1> QED
  BY <1>1, <1>2, <1>3, <1>4, <1>5, <1>6, <1>7 DEF Next, BanStep

LEMMA CreatedInvariance == Spec => []CreatedStored
<1>1. Init => CreatedStored
  BY DEF Init, Done, CreatedStored, CreatedInv
<1> QED
  BY <1>1, StepKeepsCreated, Invariance, PTL DEF Spec

\* The expiration monitor ends a running ban only from an overtaken copy.
THEOREM MonitorSafe == Spec => MonitorDeletesOnlyLapsed
<1> DEFINE A == \A e \in sweep : SweepDelete(e) /\ e.fresh /\ ~rows[e.id].deleted => Lapsed(e.id)
<1>1. IInv /\ [Next]_vars => [A]_vars
  <2> SUFFICES ASSUME IInv, NEW e \in sweep, e.fresh, ~rows[e.id].deleted
               PROVE  Lapsed(e.id)
    OBVIOUS
  <2>1. EntryInv(e) /\ "until" \in Columns \ {"deleted"}
    BY DEF IInv, Columns
  <2>2. e.copy.until = rows[e.id].until
    BY <2>1 DEF EntryInv, SameExcept
  <2> QED
    BY <2>1, <2>2 DEF EntryInv, Lapsed, Live, Visible
<1> QED
  BY <1>1, Invariance, PTL DEF Spec, MonitorDeletesOnlyLapsed

-----------------------------------------------------------------------------
(* One handler at a time and one kind of ban: the checks of Save and Unban *)
(* are then enough, though the monitor writes between them.                *)

\* What the handler has found out about the target of its copy still holds
\* when it writes: nobody else adds live bans.
FoundInv(hp) ==
    /\ hp.pc = "insert" => LiveBansOf(hp.copy.target) = {}
    /\ hp.pc = "write" /\ hp.op = "unban" => hp.copy.deleted
    /\ hp.pc = "write" /\ (hp.op = "unban" \/ ~hp.copy.deleted) =>
          LiveBansOf(hp.copy.target) \subseteq {hp.id}

SerialInv == /\ OneLiveBanPerPlayer
             /\ \A p \in Handlers : FoundInv(h[p])

\* The monitor's writes, the clock and a restart: no ban comes to life.
NoNewLiveBan ==
    \A id \in BanIds : Live(id)' => Live(id) /\ rows'[id].target = rows[id].target

LEMMA ShrinkingKeeps ==
    ASSUME NoNewLiveBan
    PROVE  /\ OneLiveBanPerPlayer => OneLiveBanPerPlayer'
           /\ \A t : LiveBansOf(t)' \subseteq LiveBansOf(t)
BY DEF NoNewLiveBan, OneLiveBanPerPlayer, LiveBansOf

LEMMA UnchangedRows ==
    ASSUME UNCHANGED rows
    PROVE  /\ NoNewLiveBan
           /\ \A t : LiveBansOf(t)' = LiveBansOf(t)
BY DEF NoNewLiveBan, LiveBansOf, Live, Visible, Stored

LEMMA OthersKeepFindings ==
    ASSUME SerialInv, NoNewLiveBan,
           \A p \in Handlers : /\ h'[p].pc = h[p].pc /\ h'[p].op = h[p].op
                               /\ h'[p].id = h[p].id /\ h'[p].copy = h[p].copy
    PROVE  SerialInv'
<1>1. \A t : LiveBansOf(t)' \subseteq LiveBansOf(t)
  BY ShrinkingKeeps
<1>2. OneLiveBanPerPlayer'
  BY ShrinkingKeeps DEF SerialInv
<1>3. ASSUME NEW p \in Handlers PROVE FoundInv(h[p])'
  <2>1. FoundInv(h[p])
    BY DEF SerialInv
  <2> QED
    BY <1>1, <2>1 DEF FoundInv
<1> QED
  BY <1>2, <1>3 DEF SerialInv

\* A step of the one handler that leaves the table alone.
LEMMA HandlerFinds ==
    ASSUME NEW p, Handlers = {p}, SerialInv, UNCHANGED rows, FoundInv(h[p])'
    PROVE  SerialInv'
BY ShrinkingKeeps, UnchangedRows DEF SerialInv

LEMMA ReadFinds ==
    ASSUME NEW p, Handlers = {p}, IInv, SerialInv, NEW id \in BanIds, Stored(id),
           NEW op, NEW copy \in Row, copy.target = rows[id].target,
           op = "unban" => Live(id) /\ copy.deleted,
           op = "unban" \/ copy.deleted = rows[id].deleted,
           Goto(p, At("write", op, id, copy)), UNCHANGED rows
    PROVE  SerialInv'
<1>1. /\ h'[p].pc = "write" /\ h'[p].op = op
      /\ h'[p].id = id /\ h'[p].copy = copy
  BY DEF Goto, At, IInv, TypeOK
<1>2. ASSUME op = "unban" \/ ~copy.deleted PROVE LiveBansOf(copy.target) \subseteq {id}
  <2>1. ~rows[id].deleted
    BY <1>2 DEF Live
  <2>2. \A i \in LiveBansOf(copy.target) : i = id
    BY <2>1 DEF LiveBansOf, Live, Visible, SerialInv, OneLiveBanPerPlayer
  <2> QED
    BY <2>2
<1>3. LiveBansOf(copy.target)' = LiveBansOf(copy.target)
  BY UnchangedRows
<1>4. FoundInv(h[p])'
  <2>1. LiveBansOf(h[p].copy.target)' = LiveBansOf(copy.target)
    BY <1>1, UnchangedRows
  <2> QED
    BY <1>1, <1>2, <2>1 DEF FoundInv
<1> QED
  BY <1>4, HandlerFinds

LEMMA IdleFinds ==
    ASSUME NEW p, Handlers = {p}, IInv, SerialInv, UNCHANGED rows,
           h'[p].pc \notin {"insert", "write"}
    PROVE  SerialInv'
BY HandlerFinds DEF FoundInv

LEMMA SerialInsert ==
    ASSUME NEW p, Handlers = {p}, IInv, SerialInv, CreateInsert(p)
    PROVE  SerialInv'
<1> DEFINE t == h[p].copy.target
<1>1. /\ nextBan \in BanIds
      /\ rows'[nextBan] = h[p].copy
      /\ \A id \in BanIds : id # nextBan => rows'[id] = rows[id]
  BY BansAssumption DEF IInv, TypeOK, CreateInsert, BanIds
<1>2. LiveBansOf(t) = {}
  BY DEF SerialInv, FoundInv, CreateInsert
<1>3. \A id \in BanIds : Live(id)' => id = nextBan \/ (Live(id) /\ rows[id].target # t)
  BY <1>1, <1>2 DEF Live, Visible, Stored, LiveBansOf
<1>4. OneLiveBanPerPlayer'
  BY <1>1, <1>3 DEF SerialInv, OneLiveBanPerPlayer
<1>5. h'[p].pc \notin {"insert", "write"}
  BY DEF CreateInsert, Goto, IInv, TypeOK, Handler
<1> QED
  BY <1>4, <1>5 DEF SerialInv, FoundInv

LEMMA SerialWrite ==
    ASSUME NEW p, Handlers = {p}, IInv, SerialInv, WriteBack(p)
    PROVE  SerialInv'
<1> DEFINE t == h[p].copy.target
           i == h[p].id
<1>1. /\ i \in BanIds /\ rows[i].target = t
      /\ rows'[i] = h[p].copy
      /\ \A id \in BanIds : id # i => rows'[id] = rows[id]
  BY DEF IInv, TypeOK, CopyInv, WriteBack
<1>2. ~h[p].copy.deleted => LiveBansOf(t) \subseteq {i}
  BY DEF SerialInv, FoundInv, WriteBack
<1>3. \A id \in BanIds : Live(id)' =>
          \/ id = i /\ ~h[p].copy.deleted
          \/ id # i /\ Live(id) /\ rows'[id] = rows[id]
  BY <1>1 DEF Live, Visible, Stored
<1>4. OneLiveBanPerPlayer'
  BY <1>1, <1>2, <1>3 DEF SerialInv, OneLiveBanPerPlayer, LiveBansOf
<1>5. h'[p].pc = "idle"
  BY DEF WriteBack, StaleHandlers, Done, IInv, TypeOK
<1> QED
  BY <1>4, <1>5 DEF SerialInv, FoundInv

LEMMA SerialMonitor ==
    ASSUME IInv, SerialInv, Tick \/ MonitorStep \/ Restart
    PROVE  SerialInv'
<1>1. CASE Tick \/ SweepQuery \/ \E e \in sweep : SweepSkip(e)
  BY <1>1, UnchangedRows, OthersKeepFindings DEF Tick, SweepQuery, SweepSkip
<1>2. ASSUME NEW e \in sweep, SweepDelete(e) PROVE SerialInv'
  <2>1. e.id \in BanIds /\ e.copy.deleted
    BY DEF IInv, TypeOK, Pending, EntryInv
  <2>2. NoNewLiveBan
    BY <1>2, <2>1 DEF NoNewLiveBan, Live, Visible, Stored, SweepDelete, IInv, TypeOK
  <2>3. \A p \in Handlers : h[p] \in Handler
    BY DEF IInv, TypeOK
  <2>4. \A p \in Handlers : /\ h'[p].pc = h[p].pc /\ h'[p].op = h[p].op
                            /\ h'[p].id = h[p].id /\ h'[p].copy = h[p].copy
    BY <1>2, <2>3 DEF SweepDelete, StaleHandlers, Handler
  <2> QED
    BY <2>2, <2>4, OthersKeepFindings
<1>3. CASE Restart
  BY <1>3, UnchangedRows, ShrinkingKeeps DEF Restart, Done, SerialInv, FoundInv
<1> QED
  BY <1>1, <1>2, <1>3 DEF MonitorStep

LEMMA SerialHandler ==
    ASSUME NEW p, Handlers = {p}, NEW kind, BanTypes = {kind}, IInv, SerialInv, HandlerStep(p)
    PROVE  SerialInv'
<1> USE DEF Goto, Finish, At, Done
<1>0. h \in [Handlers -> Handler]
  BY DEF IInv, TypeOK
<1>1. ASSUME NEW t \in Targets, NEW ty \in BanTypes, NEW u \in Times,
             NEW r \in Reports \cup {NoReport}, Create(p, t, ty, u, r)
      PROVE  SerialInv'
  BY <1>0, <1>1, IdleFinds DEF Create
<1>2. CASE CreateCheck(p)
  <2>1. CASE Finish(p, "duplicate")
    BY <1>0, <1>2, <2>1, IdleFinds DEF CreateCheck
  <2>2. CASE ~Finish(p, "duplicate")
    <3>1. h[p].copy \in Row
      BY <1>0, <1>2 DEF CreateCheck, IInv, CopyInv, Handler
    <3>2. \A id \in LiveBansOf(h[p].copy.target) : ~Supersedes(h[p].copy.type, id)
      <4> SUFFICES ASSUME NEW id \in LiveBansOf(h[p].copy.target)
                   PROVE  h[p].copy.type <= rows[id].type
        BY DEF Supersedes
      <4>1. rows[id] \in Row
        BY StoredIsRow DEF LiveBansOf, Live, Visible, IInv
      <4>2. h[p].copy.type = rows[id].type /\ rows[id].type \in Nat
        BY <3>1, <4>1, BansAssumption DEF Row
      <4> QED
        BY <4>2
    <3>3. LiveBansOf(h[p].copy.target) = {}
      BY <1>2, <2>2, <3>2 DEF CreateCheck
    <3>4. /\ h'[p].pc = "insert" /\ h'[p].copy = h[p].copy /\ UNCHANGED rows
      BY <1>0, <1>2, <3>3 DEF CreateCheck, Handler
    <3>5. LiveBansOf(h[p].copy.target)' = {}
      BY <3>3, <3>4, UnchangedRows
    <3>6. FoundInv(h[p])'
      BY <3>4, <3>5 DEF FoundInv
    <3> QED
      BY <3>4, <3>6, HandlerFinds
  <2> QED
    BY <2>1, <2>2
<1>3. CASE CreateInsert(p)
  BY <1>3, SerialInsert
<1>4. CASE CreateFinish(p) \/ Fail(p)
  BY <1>0, <1>4, IdleFinds DEF CreateFinish, Fail
<1>5. ASSUME NEW id \in BanIds, DeleteRPC(p, id) \/ MessageCheck(p, id) PROVE SerialInv'
  BY <1>0, <1>5, IdleFinds DEF DeleteRPC, MessageCheck
<1>6. ASSUME NEW t, UnbanRead(p, t), UNCHANGED rows PROVE SerialInv'
  <2>1. CASE Finish(p, "missing")
    BY <1>0, <1>6, <2>1, IdleFinds
  <2>2. ASSUME NEW id \in LiveBansOf(t),
               Goto(p, At("write", "unban", id, [rows[id] EXCEPT !.deleted = TRUE]))
        PROVE  SerialInv'
    <3>1. id \in BanIds /\ Live(id) /\ Stored(id) /\ rows[id] \in Row
      BY StoredIsRow DEF LiveBansOf, Live, Visible, IInv
    <3> DEFINE copy == [rows[id] EXCEPT !.deleted = TRUE]
    <3>2. copy \in Row /\ copy.target = rows[id].target /\ copy.deleted
      BY <3>1 DEF Row
    <3> QED
      BY <1>6, <2>2, <3>1, <3>2, ReadFinds
  <2> QED
    BY <1>6, <2>1, <2>2 DEF UnbanRead
<1>7. ASSUME NEW id \in BanIds, NEW ty \in BanTypes, NEW u \in Times,
             NEW a \in AppealStates, Update(p, id, ty, u, a)
      PROVE  SerialInv'
  <2> DEFINE copy == [rows[id] EXCEPT !.type = ty, !.until = u, !.appeal = a]
  <2>1. CASE Finish(p, "failed")
    BY <1>0, <1>7, <2>1, IdleFinds DEF Update
  <2>2. CASE Visible(id) /\ Goto(p, At("write", "update", id, copy))
    <3>1. Stored(id) /\ rows[id] \in Row
      BY <2>2, StoredIsRow DEF Visible, IInv
    <3>2. copy \in Row /\ copy.target = rows[id].target /\ copy.deleted = rows[id].deleted
      BY <3>1 DEF Row
    <3>3. Goto(p, At("write", "update", id, copy)) /\ UNCHANGED rows
      BY <1>7, <2>2 DEF Update
    <3> HIDE DEF copy, Goto, At
    <3> QED
      BY <3>1, <3>2, <3>3, ReadFinds
  <2> QED
    BY <1>7, <2>1, <2>2 DEF Update
<1>8. ASSUME NEW m \in BOOLEAN, MessageRead(p, m) PROVE SerialInv'
  <2> DEFINE id == h[p].id
  <2>1. CASE Finish(p, "failed")
    BY <1>0, <1>8, <2>1, IdleFinds DEF MessageRead
  <2>2. CASE Goto(p, At("write", "message", id, rows[id]))
    <3>1. id \in BanIds /\ Stored(id) /\ rows[id] \in Row
      BY <1>8, StoredIsRow DEF MessageRead, IInv, CopyInv
    <3>2. UNCHANGED rows
      BY <1>8 DEF MessageRead
    <3> HIDE DEF Goto, At
    <3> QED
      BY <2>2, <3>1, <3>2, ReadFinds
  <2> QED
    BY <1>8, <2>1, <2>2 DEF MessageRead
<1>9. CASE WriteBack(p)
  BY <1>9, SerialWrite
<1> QED
  BY <1>1, <1>2, <1>3, <1>4, <1>5, <1>6, <1>7, <1>8, <1>9
  DEF HandlerStep, UnbanCommand, UnbanOfDelete

LEMMA SerialInvariance ==
    ASSUME NEW CONSTANT p, Handlers = {p}, NEW CONSTANT kind, BanTypes = {kind}
    PROVE  Spec => []SerialInv
<1>1. Init => SerialInv
  BY DEF Init, SerialInv, OneLiveBanPerPlayer, Live, Visible, Stored, FoundInv, Done
<1>2. IInv /\ SerialInv /\ [Next]_vars => SerialInv'
  <2> SUFFICES ASSUME IInv, SerialInv, [Next]_vars PROVE SerialInv'
    OBVIOUS
  <2>1. CASE UNCHANGED vars
    BY <2>1, UnchangedRows, OthersKeepFindings DEF vars
  <2>2. ASSUME NEW ok \in BOOLEAN, ReportReturns(p, ok) PROVE SerialInv'
    BY <2>2, IdleFinds DEF ReportReturns, Goto, Finish, Done, IInv, TypeOK, Handler
  <2> QED
    BY <2>1, <2>2, SerialMonitor, SerialHandler DEF Next, BanStep
<1> QED
  BY <1>1, <1>2, Invariance, PTL DEF Spec

\* While requests are served one at a time, whatever the monitor does between
\* their statements, a player never has two live bans of the one kind there is.
THEOREM OneLiveBan ==
    ASSUME NEW CONSTANT p, Handlers = {p}, NEW CONSTANT kind, BanTypes = {kind}
    PROVE  Spec => []OneLiveBanPerPlayer
<1>1. SerialInv => OneLiveBanPerPlayer
  BY DEF SerialInv
<1> QED
  BY <1>1, SerialInvariance, PTL

\* Under the same assumption an unban that reports success has freed the player.
THEOREM UnbanFrees ==
    ASSUME NEW CONSTANT one, Handlers = {one}, NEW CONSTANT kind, BanTypes = {kind}
    PROVE  Spec => UnbannedMeansFree
<1> DEFINE A == \A p \in Handlers, t \in Players :
                  WriteBack(p) /\ h[p].op = "unban" /\ h[p].copy.target = t
                     => (LiveBansOf(t) = {})'
<1>1. IInv /\ SerialInv /\ [Next]_vars => [A]_vars
  <2> SUFFICES ASSUME IInv, SerialInv, NEW p \in Handlers, NEW t \in Players,
                      WriteBack(p), h[p].op = "unban", h[p].copy.target = t
               PROVE  LiveBansOf(t)' = {}
    OBVIOUS
  <2>1. h[p].copy.deleted /\ LiveBansOf(t) \subseteq {h[p].id}
    BY DEF SerialInv, FoundInv, WriteBack
  <2>2. /\ h[p].id \in BanIds /\ rows'[h[p].id] = h[p].copy
        /\ \A id \in BanIds : id # h[p].id => rows'[id] = rows[id]
    BY DEF IInv, TypeOK, CopyInv, WriteBack
  <2>3. \A id \in BanIds : ~(Live(id)' /\ rows'[id].target = t)
    BY <2>1, <2>2 DEF LiveBansOf, Live, Visible, Stored
  <2> QED
    BY <2>3 DEF LiveBansOf
<1>2. Spec => []SerialInv
  BY SerialInvariance
<1> QED
  BY <1>1, <1>2, Invariance, PTL DEF Spec, UnbannedMeansFree
=============================================================================
