---------------------------- MODULE BrowserProofs -----------------------------
(***************************************************************************)
(* Theorems about Browser, for any screens, rows, filters and numbers of   *)
(* calls in flight: the types, that a settled page shows what its filter   *)
(* asks for, and that what counts as fresh is never older than an own      *)
(* change the page was told of.                                            *)
(*                                                                         *)
(* The last two are seen from the cache alone, but depend on the fetch     *)
(* under way: whose key it was sent for, and whether the change was made   *)
(* before it was answered.                                                 *)
(***************************************************************************)
EXTENDS Browser, SequenceTheorems, TLAPS

\* The calls a page can make, as far as the server has got with them.
PageCall == {c \in Call : /\ c.command \in page.commands
                          /\ c.at <= Len(past)
                          /\ c.step = "done" => c.at >= 1 /\ c.row \in Ids}

\* Only an enabled query is fetched, and with the key of the page as it is.
FlightInv == /\ flight.step = "waiting" <=> gate # "open"
             /\ flight.step \in {"sent", "answered"} => flight.key = Here
             /\ flight.step = "answered" => flight.at \in 1 .. Len(past) /\ flight.at >= owed[Here]

\* An answer is cached under the key it was given for.
CacheInv == \A k \in Inputs : cache[k] # None => cache[k].key = k

\* Nothing is owed that has not happened, and nothing at all where rows are appended.
OwedInv == \A k \in Inputs : /\ owed[k] <= Len(past)
                             /\ owed[k] # 1 => \E c \in page.commands : c.after = "refetch"

BInv == /\ BrowserTypeOK /\ calls \in Seq(PageCall)
        /\ FlightInv /\ CacheInv /\ OwedInv /\ OwnChangesShow

-----------------------------------------------------------------------------
(* Keys, fetches and calls.                                                *)

LEMMA KeysTyped ==
    /\ All \in Inputs
    /\ \A p : InputsOf(p) \subseteq Inputs
    /\ \A p : \A i \in Inputs : Key(p, i) \in Inputs
BY DEF Inputs, InputsOf, Key

LEMMA HereTyped == ASSUME BrowserTypeOK PROVE Here \in Inputs /\ input \in Inputs
BY KeysTyped DEF BrowserTypeOK, Here

LEMMA PastTyped ==
    ASSUME BrowserTypeOK PROVE Len(past) \in 1 .. MaxPast /\ Present \in Table /\ MaxPast \in Nat
<1>1. Len(past) \in 1 .. MaxPast /\ MaxPast \in Nat
  BY BrowserAssumption DEF BrowserTypeOK
<1> QED BY <1>1, ElementOfSeq DEF BrowserTypeOK, Present

\* A component that begins to use a key waits, has what it needs, or asks for that key.
LEMMA FetchTyped ==
    ASSUME BrowserTypeOK, NEW k \in Inputs, NEW g
    PROVE  /\ Fetch(k, g) \in Flight
           /\ Fetch(k, g).step = "waiting" <=> g # "open"
           /\ Fetch(k, g).step = "sent" => Fetch(k, g).key = k
           /\ Fetch(k, g).step # "answered"
<1>1. MaxPast \in Nat /\ All \in Inputs
  BY PastTyped, KeysTyped
<1>2. Waiting \in Flight /\ Idle \in Flight /\ Sent(k) \in Flight
  BY <1>1 DEF Waiting, Idle, Sent, Flight
<1> QED BY <1>2 DEF Fetch, Waiting, Idle, Sent

LEMMA RemoveAtKeeps ==
    ASSUME NEW S, NEW s \in Seq(S), NEW n \in DOMAIN s
    PROVE  RemoveAt(s, n) \in Seq(S) /\ Len(RemoveAt(s, n)) = Len(s) - 1
<1>1. Len(s) \in Nat /\ n \in 1 .. Len(s)
  BY LenProperties
<1>2. \A i \in 1 .. Len(s) : s[i] \in S
  BY ElementOfSeq
<1>3. SubSeq(s, 1, n - 1) \in Seq(S) /\ Len(SubSeq(s, 1, n - 1)) = n - 1
  <2>1. 1 \in Int /\ n - 1 \in Int /\ \A i \in 1 .. n - 1 : s[i] \in S
    BY <1>1, <1>2
  <2>2. /\ SubSeq(s, 1, n - 1) \in Seq(S)
        /\ Len(SubSeq(s, 1, n - 1)) = IF 1 <= n - 1 THEN n - 1 - 1 + 1 ELSE 0
    BY <2>1, SubSeqProperties
  <2> QED BY <1>1, <2>2
<1>4. SubSeq(s, n + 1, Len(s)) \in Seq(S) /\ Len(SubSeq(s, n + 1, Len(s))) = Len(s) - n
  <2>1. n + 1 \in Int /\ Len(s) \in Int /\ \A i \in n + 1 .. Len(s) : s[i] \in S
    BY <1>1, <1>2
  <2>2. /\ SubSeq(s, n + 1, Len(s)) \in Seq(S)
        /\ Len(SubSeq(s, n + 1, Len(s))) = IF n + 1 <= Len(s) THEN Len(s) - (n + 1) + 1 ELSE 0
    BY <2>1, SubSeqProperties
  <2> QED BY <1>1, <2>2
<1>5. RemoveAt(s, n) = SubSeq(s, 1, n - 1) \o SubSeq(s, n + 1, Len(s))
  BY DEF RemoveAt
<1>6. RemoveAt(s, n) \in Seq(S)
  BY <1>3, <1>4, <1>5, ConcatProperties
<1>7. Len(RemoveAt(s, n)) = (n - 1) + (Len(s) - n)
  BY <1>3, <1>4, <1>5, ConcatProperties
<1> QED BY <1>1, <1>6, <1>7

LEMMA CallTyped ==
    ASSUME BInv, NEW n \in DOMAIN calls
    PROVE  /\ calls[n] \in Call /\ calls[n].command \in page.commands
           /\ calls[n].at <= Len(past)
           /\ calls[n].step = "done" => calls[n].at >= 1 /\ calls[n].row \in Ids
<1>1. n \in 1 .. Len(calls)
  BY LenProperties DEF BInv
<1>2. calls[n] \in PageCall
  BY <1>1, ElementOfSeq DEF BInv
<1> QED BY <1>2 DEF PageCall

\* As the table grows, what was true of the calls stays true.
LEMMA CallsGrow ==
    ASSUME BInv, page' = page, Len(past) <= Len(past'), Len(past') \in Nat
    PROVE  PageCall \subseteq PageCall'
BY PastTyped DEF BInv, PageCall, Call, BrowserTypeOK

-----------------------------------------------------------------------------
(* Steps by what they leave alone.                                         *)

\* Neither the table nor the calls change.
LEMMA QuietKeeps ==
    ASSUME BInv, UNCHANGED <<page, past, calls, owed>>,
           input' \in InputsOf(page), gate' \in {"loading", "open", "stuck"}, flight' \in Flight,
           cache' \in [Inputs -> Answer \cup {None}], kept' \in Answer \cup {None},
           dialog' \in [command : page.commands, row : Ids \cup {None}] \cup {None},
           FlightInv', CacheInv', OwnChangesShow'
    PROVE  BInv'
<1>1. PageCall' = PageCall
  BY DEF PageCall
<1> QED BY <1>1 DEF BInv, BrowserTypeOK, OwedInv

\* Only the gate, the fetch and the modals change: the page is on the screen as before.
LEMMA ScreenKeeps ==
    ASSUME BInv, UNCHANGED <<page, input, past, cache, calls, owed>>,
           gate' \in {"loading", "open", "stuck"}, flight' \in Flight, kept' \in Answer \cup {None},
           dialog' \in [command : page.commands, row : Ids \cup {None}] \cup {None},
           flight'.step = "waiting" <=> gate' # "open",
           flight'.step \in {"sent", "answered"} => flight'.key = Here,
           flight'.step = "answered" => flight'.at \in 1 .. Len(past) /\ flight'.at >= owed[Here]
    PROVE  BInv'
<1>1. Here' = Here
  BY DEF Here
<1>2. FlightInv' /\ CacheInv' /\ OwnChangesShow'
  BY <1>1 DEF FlightInv, CacheInv, OwnChangesShow, BInv
<1> QED BY <1>2, QuietKeeps DEF BInv, BrowserTypeOK

LEMMA IdleTyped == ASSUME BrowserTypeOK, NEW k \in Inputs PROVE Idle \in Flight /\ Sent(k) \in Flight
BY PastTyped, KeysTyped DEF Idle, Sent, Flight

-----------------------------------------------------------------------------
(* The page: its gate, its fetch, its cache and what the user does with it. *)

LEMMA InitBInv == BInit => BInv
<1> SUFFICES ASSUME BInit PROVE BInv
  OBVIOUS
<1>1. MaxPast \in Nat \ {0} /\ MaxCalls \in Nat /\ Start \in Table
  BY BrowserAssumption DEF Table
<1>2. past \in Seq(Table) /\ Len(past) = 1
  BY <1>1 DEF BInit
<1>3. calls = <<>> /\ calls \in Seq(Call) /\ calls \in Seq(PageCall) /\ Len(calls) = 0
  BY DEF BInit
<1>4. input \in Inputs /\ Here \in Inputs
  BY KeysTyped DEF BInit, Here
<1>5. gate \in {"loading", "open", "stuck"} /\ flight = Fetch(Here, gate)
  BY DEF BInit, Gate
<1>6. /\ flight \in Flight
      /\ flight.step = "waiting" <=> gate # "open"
      /\ flight.step = "sent" => flight.key = Here
      /\ flight.step # "answered"
  <2>1. Waiting \in Flight /\ Idle \in Flight /\ Sent(Here) \in Flight
    BY <1>1, <1>4, KeysTyped DEF Waiting, Idle, Sent, Flight
  <2> QED BY <1>5, <2>1 DEF Fetch, Waiting, Idle, Sent
<1>7. BrowserTypeOK
  <2>1. page \in Offered /\ input \in InputsOf(page) /\ kept \in Answer \cup {None}
    BY DEF BInit
  <2>2. dialog \in [command : page.commands, row : Ids \cup {None}] \cup {None}
    BY DEF BInit
  <2>3. cache \in [Inputs -> Answer \cup {None}]
    BY DEF BInit
  <2>4. owed \in [Inputs -> 1 .. MaxPast] /\ Len(past) \in 1 .. MaxPast
    BY <1>1, <1>2 DEF BInit
  <2> QED BY <1>1, <1>2, <1>3, <1>5, <1>6, <2>1, <2>2, <2>3, <2>4 DEF BrowserTypeOK
<1>8. FlightInv
  BY <1>6 DEF FlightInv
<1>9. CacheInv /\ OwnChangesShow /\ OwedInv
  BY <1>2 DEF BInit, CacheInv, OwnChangesShow, OwedInv
<1> QED BY <1>3, <1>7, <1>8, <1>9 DEF BInv

LEMMA GateKeeps == ASSUME BInv, GateOpens \/ GateFails PROVE BInv'
<1>1. CASE GateOpens
  <2>1. /\ flight' = Fetch(Here, "open") /\ gate' = "open"
        /\ UNCHANGED <<page, input, past, cache, kept, dialog, calls, owed>>
    BY <1>1 DEF GateOpens
  <2>2. Here \in Inputs /\ BrowserTypeOK
    BY HereTyped DEF BInv
  <2>3. kept' \in Answer \cup {None} /\ dialog' \in [command : page.commands, row : Ids \cup {None}] \cup {None}
    BY <2>1, <2>2 DEF BrowserTypeOK
  <2>4. /\ flight' \in Flight /\ flight'.step # "waiting" /\ flight'.step # "answered"
        /\ flight'.step = "sent" => flight'.key = Here
    BY <2>1, <2>2, FetchTyped
  <2> QED BY <2>1, <2>3, <2>4, ScreenKeeps
<1>2. CASE GateFails
  BY <1>2, ScreenKeeps DEF GateFails, BInv, BrowserTypeOK, FlightInv
<1> QED BY <1>1, <1>2

LEMMA ServerAnswersKeeps == ASSUME BInv, ServerAnswers PROVE BInv'
<1>1. /\ flight' = [flight EXCEPT !.step = "answered", !.at = Len(past)] /\ flight.step = "sent"
      /\ UNCHANGED <<page, input, past, gate, cache, kept, dialog, calls, owed>>
  BY DEF ServerAnswers
<1>2. flight \in Flight /\ Len(past) \in 1 .. MaxPast /\ Here \in Inputs /\ MaxPast \in Nat
  BY PastTyped, HereTyped DEF BInv, BrowserTypeOK
<1>3. flight' \in Flight /\ flight'.step = "answered" /\ flight'.key = flight.key /\ flight'.at = Len(past)
  <2>1. flight.key \in Inputs /\ Len(past) \in 0 .. MaxPast
    BY <1>2 DEF Flight
  <2>2. flight' = [step |-> "answered", key |-> flight.key, at |-> Len(past)]
    BY <1>1, <1>2 DEF Flight
  <2> QED BY <2>1, <2>2 DEF Flight
<1>4. Len(past) >= owed[Here] /\ flight.key = Here /\ gate = "open"
  BY <1>1, <1>2 DEF BInv, OwedInv, FlightInv, BrowserTypeOK
<1> QED BY <1>1, <1>2, <1>3, <1>4, ScreenKeeps DEF BInv, BrowserTypeOK

LEMMA AnswerArrivesKeeps == ASSUME BInv, AnswerArrives PROVE BInv'
<1> DEFINE a == [at |-> flight.at, key |-> flight.key, extra |-> {}, fresh |-> TRUE]
<1>1. /\ cache' = [cache EXCEPT ![Here] = a] /\ flight' = Idle /\ flight.step = "answered"
      /\ kept' = IF page.holds /\ kept = None THEN a ELSE kept
      /\ UNCHANGED <<page, input, past, gate, dialog, calls, owed>>
  BY DEF AnswerArrives
<1>2. /\ flight \in Flight /\ Here \in Inputs /\ flight.key = Here /\ gate = "open"
      /\ flight.at \in 1 .. Len(past) /\ flight.at >= owed[Here]
      /\ Len(past) \in 1 .. MaxPast /\ MaxPast \in Nat
  BY <1>1, PastTyped, HereTyped DEF BInv, BrowserTypeOK, FlightInv
<1>3. a \in Answer /\ a.key = Here /\ a.at = flight.at
  BY <1>2 DEF Answer
<1> HIDE DEF a
<1>4. cache' \in [Inputs -> Answer \cup {None}] /\ kept' \in Answer \cup {None}
  BY <1>1, <1>3 DEF BInv, BrowserTypeOK
<1>5. \A k \in Inputs : cache'[k] = IF k = Here THEN a ELSE cache[k]
  BY <1>1 DEF BInv, BrowserTypeOK
<1>6. CacheInv' /\ OwnChangesShow'
  BY <1>1, <1>2, <1>3, <1>5 DEF BInv, CacheInv, OwnChangesShow
<1>7. flight' \in Flight /\ FlightInv'
  BY <1>1, <1>2, IdleTyped DEF BInv, FlightInv, Idle
<1> QED BY <1>1, <1>4, <1>6, <1>7, QuietKeeps DEF BInv, BrowserTypeOK

LEMMA FetchFailsKeeps == ASSUME BInv, FetchFails PROVE BInv'
<1>1. flight' = Idle /\ flight' \in Flight /\ gate = "open"
  BY HereTyped, IdleTyped DEF FetchFails, BInv, FlightInv
<1> QED BY <1>1, ScreenKeeps DEF FetchFails, BInv, BrowserTypeOK, Idle

LEMMA PollKeeps == ASSUME BInv, Poll \/ Reconnect PROVE BInv'
<1>1. flight' = Sent(Here) /\ flight' \in Flight /\ gate = "open"
  BY HereTyped, IdleTyped DEF Poll, Reconnect, BInv
<1> QED BY <1>1, ScreenKeeps DEF Poll, Reconnect, BInv, BrowserTypeOK, Sent

LEMMA RemountKeeps == ASSUME BInv, Remount PROVE BInv'
<1>1. /\ flight' = Fetch(Here, Gate) /\ gate' = Gate /\ gate' \in {"loading", "open", "stuck"}
      /\ kept' = IF page.holds THEN cache[Here] ELSE None
      /\ UNCHANGED <<page, input, past, cache, dialog, calls, owed>>
  BY DEF Remount, Gate
<1>2. Here \in Inputs /\ BrowserTypeOK
  BY HereTyped DEF BInv
<1>3. kept' \in Answer \cup {None} /\ dialog' \in [command : page.commands, row : Ids \cup {None}] \cup {None}
  BY <1>1, <1>2 DEF BrowserTypeOK
<1>4. /\ flight' \in Flight
      /\ flight'.step = "waiting" <=> gate' # "open"
      /\ flight'.step = "sent" => flight'.key = Here
      /\ flight'.step # "answered"
  BY <1>1, <1>2, FetchTyped
<1> QED BY <1>1, <1>3, <1>4, ScreenKeeps

LEMMA ModalKeeps ==
    ASSUME BInv, Cancel \/ \E c \in page.commands, r \in Ids \cup {None} : Open(c, r) PROVE BInv'
<1>1. /\ UNCHANGED <<page, input, past, gate, flight, cache, kept, calls, owed>>
      /\ dialog' \in [command : page.commands, row : Ids \cup {None}] \cup {None}
  BY DEF Cancel, Open
<1> QED BY <1>1, ScreenKeeps DEF BInv, BrowserTypeOK, FlightInv

LEMMA ChooseKeeps == ASSUME BInv, NEW i \in Inputs, Choose(i) PROVE BInv'
<1> DEFINE k == Key(page, i)
<1>1. /\ i \in InputsOf(page) /\ input' = i
      /\ flight' = IF k = Here THEN flight ELSE Fetch(k, gate)
      /\ UNCHANGED <<page, past, gate, cache, dialog, calls, owed>>
  BY DEF Choose
<1>2. k \in Inputs /\ Here' = k /\ BrowserTypeOK /\ Here \in Inputs
  BY <1>1, KeysTyped, HereTyped DEF Here, BInv
<1>3. kept' \in Answer \cup {None}
  BY <1>2 DEF Choose, BrowserTypeOK
<1>4. /\ flight' \in Flight
      /\ flight'.step = "waiting" <=> gate # "open"
      /\ flight'.step \in {"sent", "answered"} => flight'.key = k
      /\ flight'.step = "answered" => flight'.at \in 1 .. Len(past) /\ flight'.at >= owed[k]
  <2>1. CASE k = Here
    BY <1>1, <1>2, <2>1 DEF BInv, FlightInv, BrowserTypeOK
  <2>2. CASE k # Here
    BY <1>1, <1>2, <2>2, FetchTyped
  <2> QED BY <2>1, <2>2
<1> HIDE DEF k
<1>5. FlightInv' /\ CacheInv' /\ OwnChangesShow'
  BY <1>1, <1>2, <1>4 DEF FlightInv, CacheInv, OwnChangesShow, BInv
<1> QED BY <1>1, <1>2, <1>3, <1>4, <1>5, QuietKeeps DEF BrowserTypeOK

LEMMA CacheAgesKeeps == ASSUME BInv, NEW k \in Inputs, GoesStale(k) \/ Forgets(k) PROVE BInv'
<1>1. UNCHANGED <<page, input, past, gate, flight, kept, dialog, calls, owed>> /\ cache[k] # None
  BY DEF GoesStale, Forgets
<1>2. cache \in [Inputs -> Answer \cup {None}] /\ cache[k] \in Answer
  BY <1>1 DEF BInv, BrowserTypeOK
<1>3. /\ \A j \in Inputs : j # k => cache'[j] = cache[j]
      /\ \/ cache'[k] = None
         \/ cache'[k] \in Answer /\ cache'[k].key = cache[k].key /\ ~cache'[k].fresh
      /\ cache' \in [Inputs -> Answer \cup {None}]
  <2>1. CASE GoesStale(k)
    <3>1. [cache[k] EXCEPT !.fresh = FALSE] \in Answer /\ [cache[k] EXCEPT !.fresh = FALSE].key = cache[k].key
          /\ ~[cache[k] EXCEPT !.fresh = FALSE].fresh
      BY <1>2 DEF Answer
    <3>2. cache' = [cache EXCEPT ![k] = [cache[k] EXCEPT !.fresh = FALSE]]
      BY <2>1 DEF GoesStale
    <3> QED BY <1>2, <3>1, <3>2
  <2>2. CASE Forgets(k)
    BY <1>2, <2>2 DEF Forgets
  <2> QED BY <2>1, <2>2
<1>4. CacheInv' /\ OwnChangesShow'
  BY <1>1, <1>3 DEF CacheInv, OwnChangesShow, BInv
<1>5. FlightInv'
  BY <1>1 DEF BInv, FlightInv, Here
<1> QED BY <1>1, <1>3, <1>4, <1>5, QuietKeeps DEF BInv, BrowserTypeOK

-----------------------------------------------------------------------------
(* Calls: how they leave, and what the server does about them.             *)

\* The table grows or not, and calls change with it; what is on the screen does not.
LEMMA ServerStepKeeps ==
    ASSUME BInv, UNCHANGED <<page, input, gate, flight, cache, kept, owed>>,
           past' \in Seq(Table), Len(past') \in 1 .. MaxPast, Len(past) <= Len(past'),
           calls' \in Seq(PageCall'), Len(calls') <= MaxCalls,
           dialog' \in [command : page.commands, row : Ids \cup {None}] \cup {None}
    PROVE  BInv'
<1>1. PageCall' \subseteq Call
  BY DEF PageCall
<1>2. calls' \in Seq(Call)
  BY <1>1, SeqMonotonic
<1>3. BrowserTypeOK'
  BY <1>2 DEF BInv, BrowserTypeOK
<1>4. Here' = Here /\ Here \in Inputs
  BY HereTyped DEF Here, BInv
<1>5. Len(past) \in 1 .. MaxPast /\ MaxPast \in Nat /\ owed \in [Inputs -> 1 .. MaxPast] /\ flight \in Flight
  BY PastTyped DEF BInv, BrowserTypeOK
<1>6. FlightInv'
  BY <1>4, <1>5 DEF BInv, FlightInv, Flight
<1>7. OwedInv'
  BY <1>5 DEF BInv, OwedInv
<1>8. CacheInv' /\ OwnChangesShow'
  BY DEF BInv, CacheInv, OwnChangesShow
<1> QED BY <1>3, <1>6, <1>7, <1>8 DEF BInv

LEMMA CommandsTyped == ASSUME BrowserTypeOK PROVE page \in Screen /\ page.commands \subseteq Command
BY BrowserAssumption DEF BrowserTypeOK, Screen

LEMMA AsksTyped ==
    ASSUME BInv, UNCHANGED <<page, past>>, NEW c \in page.commands, NEW r \in Ids \cup {None}, Asks(c, r)
    PROVE  calls' \in Seq(PageCall') /\ Len(calls') <= MaxCalls
<1> DEFINE e == [command |-> c, row |-> r, key |-> Here, step |-> "sent", at |-> 0]
<1>1. calls' = Append(calls, e) /\ Len(calls) < MaxCalls
  BY DEF Asks
<1>2. MaxPast \in Nat /\ Len(past) \in 1 .. MaxPast /\ MaxCalls \in Nat
  BY PastTyped, BrowserAssumption DEF BInv
<1>3. e \in Call
  BY <1>2, CommandsTyped, HereTyped DEF Call, BInv
<1>4. e \in PageCall
  BY <1>2, <1>3 DEF PageCall
<1>5. PageCall' = PageCall
  BY DEF PageCall
<1>6. calls \in Seq(PageCall) /\ Len(calls) \in Nat
  BY LenProperties DEF BInv
<1> HIDE DEF e
<1>7. calls' \in Seq(PageCall) /\ Len(calls') = Len(calls) + 1
  BY <1>1, <1>4, <1>6, AppendProperties
<1> QED BY <1>1, <1>2, <1>5, <1>6, <1>7

LEMMA SubmitKeeps ==
    ASSUME BInv, Submit \/ \E c \in page.commands, r \in Ids \cup {None} : SubmitInline(c, r)
    PROVE  BInv'
<1>1. UNCHANGED <<page, input, past, gate, flight, cache, kept, owed>>
  BY DEF Submit, SubmitInline
<1>2. \E c \in page.commands, r \in Ids \cup {None} : Asks(c, r)
  BY DEF Submit, SubmitInline, BInv, BrowserTypeOK
<1>3. dialog' \in [command : page.commands, row : Ids \cup {None}] \cup {None}
  BY DEF Submit, SubmitInline, BInv, BrowserTypeOK
<1>4. calls' \in Seq(PageCall') /\ Len(calls') <= MaxCalls
  BY <1>1, <1>2, AsksTyped
<1>5. past' \in Seq(Table) /\ Len(past') \in 1 .. MaxPast /\ Len(past) <= Len(past')
  BY <1>1, PastTyped DEF BInv, BrowserTypeOK
<1> QED BY <1>1, <1>3, <1>4, <1>5, ServerStepKeeps

LEMMA ChangesGrow ==
    ASSUME BrowserTypeOK, NEW t \in Table, Changes(t)
    PROVE  past' \in Seq(Table) /\ Len(past') = Len(past) + 1 /\ Len(past') \in 1 .. MaxPast
<1>1. past \in Seq(Table) /\ Len(past) \in 1 .. MaxPast /\ MaxPast \in Nat
  BY PastTyped DEF BrowserTypeOK
<1>2. past' = Append(past, t) /\ Len(past) < MaxPast
  BY DEF Changes
<1>3. past' \in Seq(Table) /\ Len(past') = Len(past) + 1
  BY <1>1, <1>2, AppendProperties
<1> QED BY <1>1, <1>2, <1>3

LEMMA AppliesChanges ==
    ASSUME BrowserTypeOK, NEW c \in Command, NEW r, NEW row \in Ids, Applies(c, r, row)
    PROVE  \E t \in Table : Changes(t)
<1>1. Present \in Table
  BY PastTyped
<1>2. c.sends \in {"create", "edit", "delete"}
  BY DEF Command
<1>3. \A v \in Values \cup {Absent} : [Present EXCEPT ![row] = v] \in Table
  BY <1>1 DEF Table
<1>4. CASE c.sends = "create"
  BY <1>3, <1>4 DEF Applies
<1>5. CASE c.sends = "edit"
  BY <1>3, <1>5 DEF Applies
<1>6. CASE c.sends = "delete"
  BY <1>3, <1>6 DEF Applies
<1> QED BY <1>2, <1>4, <1>5, <1>6

LEMMA HandlesKeeps == ASSUME BInv, NEW n \in DOMAIN calls, ServerHandles(n) PROVE BInv'
<1>1. UNCHANGED <<page, input, gate, flight, cache, kept, dialog, owed>>
  BY DEF ServerHandles
<1>2. PICK row \in Ids : /\ Applies(calls[n].command, calls[n].row, row)
                         /\ calls' = [calls EXCEPT ![n].step = "done", ![n].at = Len(past'), ![n].row = row]
  BY DEF ServerHandles
<1>3. calls[n] \in Call /\ calls[n].command \in page.commands /\ calls[n].command \in Command
  BY CallTyped, CommandsTyped DEF BInv
<1>4. \E t \in Table : Changes(t)
  BY <1>2, <1>3, AppliesChanges DEF BInv
<1>5. past' \in Seq(Table) /\ Len(past') = Len(past) + 1 /\ Len(past') \in 1 .. MaxPast
  BY <1>4, ChangesGrow DEF BInv
<1>6. MaxPast \in Nat /\ Len(past) \in 1 .. MaxPast
  BY PastTyped DEF BInv
<1> DEFINE e == [command |-> calls[n].command, row |-> row, key |-> calls[n].key,
                 step |-> "done", at |-> Len(past')]
<1>7. e \in PageCall'
  <2>1. e \in Call
    BY <1>3, <1>5, <1>6 DEF Call
  <2> QED BY <1>1, <1>3, <1>5, <1>6, <2>1 DEF PageCall
<1>8. calls \in Seq(PageCall')
  <2>1. PageCall \subseteq PageCall'
    BY <1>1, <1>5, <1>6, CallsGrow
  <2> QED BY <2>1, SeqMonotonic DEF BInv
<1>9. n \in 1 .. Len(calls)
  BY LenProperties DEF BInv
<1>10. calls' = [calls EXCEPT ![n] = e]
  <2> DEFINE d == [calls[n] EXCEPT !.step = "done"]
             a == [d EXCEPT !.at = Len(past')]
  <2>1. calls' = [calls EXCEPT ![n] = [a EXCEPT !.row = row]]
    BY <1>2
  <2>2. d = [command |-> calls[n].command, row |-> calls[n].row, key |-> calls[n].key,
             step |-> "done", at |-> calls[n].at]
    BY <1>3 DEF Call
  <2> HIDE DEF d
  <2>3. a = [command |-> calls[n].command, row |-> calls[n].row, key |-> calls[n].key,
             step |-> "done", at |-> Len(past')]
    BY <2>2
  <2> HIDE DEF a
  <2>4. [a EXCEPT !.row = row] = e
    BY <2>3
  <2> QED BY <2>1, <2>4
<1> HIDE DEF e
<1>11. calls' \in Seq(PageCall') /\ Len(calls') = Len(calls)
  BY <1>7, <1>8, <1>9, <1>10, ExceptSeq
<1> QED BY <1>1, <1>5, <1>6, <1>11, ServerStepKeeps DEF BInv, BrowserTypeOK

LEMMA RefusesKeeps == ASSUME BInv, NEW n \in DOMAIN calls, ServerRefuses(n) PROVE BInv'
<1>1. /\ UNCHANGED <<page, input, past, gate, flight, cache, kept, dialog, owed>>
      /\ calls' = [calls EXCEPT ![n].step = "refused"]
  BY DEF ServerRefuses
<1>2. PageCall' = PageCall
  BY <1>1 DEF PageCall
<1>3. n \in 1 .. Len(calls) /\ calls \in Seq(PageCall)
  BY LenProperties DEF BInv
<1> DEFINE e == [calls[n] EXCEPT !.step = "refused"]
<1>4. e \in PageCall
  <2>1. calls[n] \in Call /\ calls[n].command \in page.commands /\ calls[n].at <= Len(past)
    BY CallTyped
  <2>2. e \in Call /\ e.command = calls[n].command /\ e.at = calls[n].at /\ e.step = "refused"
    BY <2>1 DEF Call
  <2> QED BY <2>1, <2>2 DEF PageCall
<1>5. calls' = [calls EXCEPT ![n] = e]
  BY <1>1
<1> HIDE DEF e
<1>6. calls' \in Seq(PageCall) /\ Len(calls') = Len(calls)
  BY <1>3, <1>4, <1>5, ExceptSeq
<1> QED BY <1>1, <1>2, <1>6, PastTyped, ServerStepKeeps DEF BInv, BrowserTypeOK

LEMMA ElsewhereKeeps == ASSUME BInv, ElsewhereChange PROVE BInv'
<1>1. UNCHANGED <<page, input, gate, flight, cache, kept, dialog, calls, owed>>
  BY DEF ElsewhereChange
<1>2. Present \in Table /\ Len(past) \in 1 .. MaxPast /\ MaxPast \in Nat
  BY PastTyped DEF BInv
<1>3. \E t \in Table : Changes(t)
  <2>1. PICK r \in Ids, v \in Values \cup {Absent} : Changes([Present EXCEPT ![r] = v])
    BY DEF ElsewhereChange
  <2>2. [Present EXCEPT ![r] = v] \in Table
    BY <1>2 DEF Table
  <2> QED BY <2>1, <2>2
<1>4. past' \in Seq(Table) /\ Len(past') = Len(past) + 1 /\ Len(past') \in 1 .. MaxPast
  BY <1>3, ChangesGrow DEF BInv
<1>5. PageCall \subseteq PageCall'
  BY <1>1, <1>2, <1>4, CallsGrow
<1>6. calls' \in Seq(PageCall')
  BY <1>1, <1>5, SeqMonotonic DEF BInv
<1> QED BY <1>1, <1>2, <1>4, <1>6, ServerStepKeeps DEF BInv, BrowserTypeOK

\* What a success does to the cache: an answer is marked stale, or a row is added to it
\* where nothing is ever owed.
LEMMA SucceedsOnCache ==
    ASSUME BInv, NEW n \in DOMAIN calls, Succeeds(n)
    PROVE  /\ cache' \in [Inputs -> Answer \cup {None}]
           /\ \A k \in Inputs \ {Here} : cache'[k] = cache[k]
           /\ cache'[Here] # None =>
                /\ cache[Here] # None
                /\ cache'[Here].key = cache[Here].key /\ cache'[Here].at = cache[Here].at
                /\ cache'[Here].fresh =>
                     calls[n].command.after # "refetch" /\ (cache[Here].fresh \/ owed[Here] = 1)
<1> DEFINE c == calls[n].command
<1>1. /\ cache \in [Inputs -> Answer \cup {None}] /\ Here \in Inputs
      /\ c \in page.commands /\ calls[n].step = "done" /\ calls[n].row \in Ids
  BY CallTyped, HereTyped DEF BInv, BrowserTypeOK, Succeeds
<1>2. cache' = CASE c.after = "refetch" -> Stale
                 [] c.after = "appends" /\ cache[Here] # None ->
                      [cache EXCEPT ![Here].extra = @ \cup {calls[n].row}, ![Here].fresh = TRUE]
                 [] OTHER -> cache
  BY DEF Succeeds
<1>3. CASE c.after = "refetch" /\ cache[Here] # None
  <2> DEFINE a == [cache[Here] EXCEPT !.fresh = FALSE]
  <2>1. cache' = [cache EXCEPT ![Here] = a]
    BY <1>2, <1>3 DEF Stale
  <2>2. a \in Answer /\ a.key = cache[Here].key /\ a.at = cache[Here].at /\ ~a.fresh
    BY <1>1, <1>3 DEF Answer
  <2> HIDE DEF a
  <2> QED BY <1>1, <1>3, <2>1, <2>2
<1>4. CASE c.after = "appends" /\ cache[Here] # None
  <2> DEFINE b == [cache[Here] EXCEPT !.extra = @ \cup {calls[n].row}]
             a == [b EXCEPT !.fresh = TRUE]
  <2>1. cache[Here] \in Answer
    BY <1>1, <1>4
  <2>2. b \in Answer /\ b.key = cache[Here].key /\ b.at = cache[Here].at
    BY <1>1, <2>1 DEF Answer
  <2>3. cache' = [cache EXCEPT ![Here] = a]
    BY <1>1, <1>2, <1>4
  <2> HIDE DEF b
  <2>4. a \in Answer /\ a.key = b.key /\ a.at = b.at
    BY <2>2 DEF Answer
  <2>5. owed[Here] = 1
    BY <1>1, <1>4, AppendingAssumption DEF BInv, OwedInv, BrowserTypeOK
  <2> HIDE DEF a
  <2> QED BY <1>1, <1>4, <2>2, <2>3, <2>4, <2>5
<1>5. CASE /\ ~(c.after = "refetch" /\ cache[Here] # None)
           /\ ~(c.after = "appends" /\ cache[Here] # None)
  BY <1>1, <1>2, <1>5 DEF Stale
<1> QED BY <1>3, <1>4, <1>5

LEMMA SucceedsKeeps == ASSUME BInv, NEW n \in DOMAIN calls, Succeeds(n) PROVE BInv'
<1> DEFINE c == calls[n].command
<1>1. /\ UNCHANGED <<page, input, past, gate>> /\ calls' = RemoveAt(calls, n)
      /\ dialog' \in {dialog, None}
      /\ flight' = IF c.after = "refetch" THEN Refetched ELSE flight
      /\ owed' = IF c.after = "refetch" /\ calls[n].key = Here /\ calls[n].at > owed[Here]
                 THEN [owed EXCEPT ![Here] = calls[n].at] ELSE owed
      /\ kept' = IF page.holds /\ kept # None THEN [kept EXCEPT !.at = calls[n].at, !.key = Here] ELSE kept
  BY DEF Succeeds
<1>2. /\ BrowserTypeOK /\ Here \in Inputs /\ Here' = Here /\ PageCall' = PageCall
      /\ Len(past) \in 1 .. MaxPast /\ MaxPast \in Nat /\ owed \in [Inputs -> 1 .. MaxPast]
      /\ flight \in Flight
  BY <1>1, HereTyped, PastTyped DEF BInv, BrowserTypeOK, Here, PageCall
<1>3. c \in page.commands /\ calls[n].at \in 1 .. Len(past)
  <2>1. calls[n] \in Call /\ calls[n].at >= 1 /\ calls[n].at <= Len(past) /\ c \in page.commands
    BY CallTyped DEF Succeeds
  <2> QED BY <1>2, <2>1 DEF Call
<1>4. calls' \in Seq(PageCall) /\ calls' \in Seq(Call) /\ Len(calls') <= MaxCalls
  <2>1. calls \in Seq(PageCall) /\ Len(calls) \in Nat /\ Len(calls) <= MaxCalls /\ MaxCalls \in Nat
    BY BrowserAssumption, LenProperties DEF BInv, BrowserTypeOK
  <2>2. calls' \in Seq(PageCall) /\ Len(calls') = Len(calls) - 1
    BY <1>1, <2>1, RemoveAtKeeps
  <2>3. PageCall \subseteq Call
    BY DEF PageCall
  <2> QED BY <2>1, <2>2, <2>3, SeqMonotonic
<1>5. kept' \in Answer \cup {None}
  <2>1. CASE page.holds /\ kept # None
    <3>1. kept \in Answer
      BY <1>2, <2>1 DEF BrowserTypeOK
    <3>2. kept' = [at |-> calls[n].at, key |-> Here, extra |-> kept.extra, fresh |-> kept.fresh]
      BY <1>1, <2>1, <3>1 DEF Answer
    <3> QED BY <1>2, <1>3, <3>1, <3>2 DEF Answer
  <2>2. CASE ~(page.holds /\ kept # None)
    BY <1>1, <1>2, <2>2 DEF BrowserTypeOK
  <2> QED BY <2>1, <2>2
<1>6. /\ owed' \in [Inputs -> 1 .. MaxPast] /\ \A k \in Inputs \ {Here} : owed'[k] = owed[k]
      /\ owed'[Here] = owed[Here] \/ (c.after = "refetch" /\ owed'[Here] \in 1 .. Len(past))
  BY <1>1, <1>2, <1>3
<1>7. /\ flight' \in Flight
      /\ flight' = flight \/ (flight' = Sent(Here) /\ gate = "open")
      /\ c.after = "refetch" /\ gate = "open" => flight' = Sent(Here)
  BY <1>1, <1>2, IdleTyped DEF Refetched
<1>8. FlightInv'
  <2>1. CASE flight' = Sent(Here) /\ gate = "open"
    BY <1>1, <1>2, <2>1 DEF FlightInv, Sent
  <2>2. CASE flight' = flight /\ owed' = owed
    BY <1>1, <1>2, <2>2 DEF BInv, FlightInv
  <2>3. CASE flight' = flight /\ c.after = "refetch" /\ gate # "open"
    BY <1>1, <1>2, <2>3 DEF BInv, FlightInv
  <2> QED BY <1>1, <1>7, <2>1, <2>2, <2>3
<1>9. OwedInv'
  BY <1>1, <1>2, <1>3, <1>6 DEF BInv, OwedInv
<1>10. CacheInv' /\ OwnChangesShow'
  <2>1. CacheInv'
    BY <1>2, SucceedsOnCache DEF BInv, CacheInv
  <2>2. ASSUME NEW k \in Inputs, cache'[k] # None, cache'[k].fresh PROVE cache'[k].at >= owed'[k]
    <3>1. CASE k # Here
      BY <1>6, <2>2, <3>1, SucceedsOnCache DEF BInv, OwnChangesShow
    <3>2. CASE k = Here
      <4>1. /\ cache[Here] # None /\ cache'[Here].at = cache[Here].at /\ owed'[Here] = owed[Here]
            /\ cache[Here].fresh \/ owed[Here] = 1
        BY <1>1, <1>2, <2>2, <3>2, SucceedsOnCache
      <4>2. cache[Here] \in Answer
        BY <1>2, <4>1 DEF BrowserTypeOK
      <4>3. cache[Here].at >= 1 /\ cache[Here].at \in Nat
        BY <1>2, <4>2 DEF Answer
      <4> QED BY <1>2, <3>2, <4>1, <4>3 DEF BInv, OwnChangesShow
    <3> QED BY <3>1, <3>2
  <2> QED BY <2>1, <2>2 DEF OwnChangesShow
<1>11. dialog' \in [command : page.commands, row : Ids \cup {None}] \cup {None}
  BY <1>1, <1>2 DEF BrowserTypeOK
<1>12. BrowserTypeOK'
  BY <1>1, <1>2, <1>4, <1>5, <1>6, <1>7, <1>11, SucceedsOnCache DEF BrowserTypeOK
<1> QED BY <1>2, <1>4, <1>8, <1>9, <1>10, <1>12 DEF BInv

LEMMA FailsKeeps == ASSUME BInv, NEW n \in DOMAIN calls, Fails(n) PROVE BInv'
<1>1. /\ UNCHANGED <<page, input, past, gate, flight, cache, kept, owed>> /\ calls' = RemoveAt(calls, n)
      /\ dialog' \in {dialog, None}
  BY DEF Fails
<1>2. calls \in Seq(PageCall) /\ Len(calls) \in Nat /\ Len(calls) <= MaxCalls /\ MaxCalls \in Nat
  BY BrowserAssumption, LenProperties DEF BInv, BrowserTypeOK
<1>3. calls' \in Seq(PageCall) /\ Len(calls') = Len(calls) - 1
  BY <1>1, <1>2, RemoveAtKeeps
<1>4. PageCall' = PageCall
  BY <1>1 DEF PageCall
<1> QED BY <1>1, <1>2, <1>3, <1>4, PastTyped, ServerStepKeeps DEF BInv, BrowserTypeOK

LEMMA StepBInv == BInv /\ [BNext]_browserVars => BInv'
<1> SUFFICES ASSUME BInv, [BNext]_browserVars PROVE BInv'
  OBVIOUS
<1>1. CASE UNCHANGED browserVars
  BY <1>1 DEF browserVars, BInv, BrowserTypeOK, PageCall, FlightInv, CacheInv, OwedInv, OwnChangesShow, Here
<1>2. CASE \/ GateOpens \/ GateFails \/ ServerAnswers \/ AnswerArrives \/ FetchFails
           \/ Poll \/ Reconnect \/ Remount
  BY <1>2, GateKeeps, ServerAnswersKeeps, AnswerArrivesKeeps, FetchFailsKeeps, PollKeeps, RemountKeeps
<1>3. CASE Cancel \/ Submit \/ \E c \in page.commands, r \in Ids \cup {None} : Open(c, r) \/ SubmitInline(c, r)
  BY <1>3, ModalKeeps, SubmitKeeps
<1>4. CASE \E i \in Inputs : Choose(i) \/ GoesStale(i) \/ Forgets(i)
  BY <1>4, ChooseKeeps, CacheAgesKeeps
<1>5. CASE ElsewhereChange
  BY <1>5, ElsewhereKeeps
<1>6. CASE \E n \in DOMAIN calls : ServerHandles(n) \/ ServerRefuses(n) \/ Succeeds(n) \/ Fails(n)
  BY <1>6, HandlesKeeps, RefusesKeeps, SucceedsKeeps, FailsKeeps
<1> QED BY <1>1, <1>2, <1>3, <1>4, <1>5, <1>6 DEF BNext

LEMMA BInvariance == BSpec => []BInv
BY InitBInv, StepBInv, PTL DEF BSpec

-----------------------------------------------------------------------------
(* The theorems.                                                           *)

\* The types of the page, the table, the cache and the calls, on any screen.
THEOREM BrowserTyped == BSpec => []BrowserTypeOK
<1>1. BInv => BrowserTypeOK
  BY DEF BInv
<1> QED BY <1>1, BInvariance, PTL

\* What is cached as fresh is never older than the last own change confirmed while its
\* page was on the screen: invalidating cancels the fetch under way, so an answer that
\* left the server before the change does not arrive, and where rows are appended instead
\* nothing is refetched.
THEOREM OwnChangesShown == BSpec => []OwnChangesShow
<1>1. BInv => OwnChangesShow
  BY DEF BInv
<1> QED BY <1>1, BInvariance, PTL

\* A settled page shows the rows its filter or its address asks for, and no others: a fetch
\* is cancelled with the key it was sent for, and rows kept from the input before are shown
\* only while the next ones are on their way.
THEOREM FiltersHonoured == BSpec => []FilterHonoured
<1>1. BInv => FilterHonoured
  <2> SUFFICES ASSUME BInv, ~Dropped(page, input), ~page.holds, flight.step = "idle", Displayed # None,
                      NEW r \in Shown \ Displayed.extra
               PROVE  Matches(past[Displayed.at], r, input)
    BY DEF FilterHonoured
  <2> DEFINE t == past[Displayed.at]
  <2>1. Displayed = cache[Here] /\ Displayed.key = Here
    BY HereTyped DEF Displayed, Pending, BInv, CacheInv
  <2>2. r \in IF page.shows = "narrowed" THEN {q \in Rows(t, Here) : Matches(t, q, input)} ELSE Rows(t, Here)
    BY <2>1 DEF Shown
  <2>3. CASE page.shows = "narrowed"
    BY <2>2, <2>3
  <2>4. CASE page.shows # "narrowed"
    <3>1. Here = All \/ t[r] = Here
      BY <2>2, <2>4 DEF Rows
    <3>2. CASE page.keyed \in {"filter", "partly", "route"}
      BY <3>1, <3>2 DEF Here, Key, Matches
    <3>3. CASE page.keyed \notin {"filter", "partly", "route"}
      BY <2>4, <3>3 DEF BInv, BrowserTypeOK, InputsOf, Matches, Dropped
    <3> QED BY <3>2, <3>3
  <2> QED BY <2>3, <2>4
<1> QED BY <1>1, BInvariance, PTL
=============================================================================
