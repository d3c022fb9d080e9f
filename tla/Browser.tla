------------------------------ MODULE Browser -------------------------------
(***************************************************************************)
(* One tab of the website on one of its screens, the server table the      *)
(* screen shows, and everybody else who changes that table.  The rules are *)
(* those of the query cache the site is built on, with the site's own      *)
(* settings: an answer is cached under the message that asked for it, is   *)
(* fresh for 30 seconds, and is dropped some minutes after the last use;   *)
(* there is one fetch for a message at a time, and leaving the message     *)
(* cancels it.  What the screens are is a constant.                        *)
(*                                                                         *)
(* A row is its identity and the one of its values that filters look at;   *)
(* rows whose owner the address names have the owner for a value.  past    *)
(* holds every state of the table, so an answer is the number of a state.  *)
(* MaxPast bounds the changes, MaxCalls the calls in flight.               *)
(***************************************************************************)
EXTENDS Naturals, Sequences, SequencesExt, Screens

CONSTANTS Offered,   \* the screens of the site
          Ids,       \* identities of rows, never used twice
          Values,    \* what filters distinguish
          Lost,      \* the filters that a page which reads some of its filters drops
          All,       \* model value: no filter
          Absent,    \* model value: the row is not in the table
          None,      \* model value: no answer, no dialog, no row
          Start,     \* the table at first
          MaxPast,
          MaxCalls

ASSUME BrowserAssumption == /\ Offered \subseteq Screen
                            /\ {All, Absent, None} \cap (Values \cup Ids) = {}
                            /\ Lost \subseteq Values
                            /\ Start \in [Ids -> Values \cup {Absent}]
                            /\ MaxPast \in Nat \ {0} /\ MaxCalls \in Nat

\* No component both adds an answer to the rows it has and fetches them again: the added
\* row makes what it has count as fresh.
ASSUME AppendingAssumption ==
    \A p \in Offered : ~\E c, d \in p.commands : c.after = "appends" /\ d.after = "refetch"

Table  == [Ids -> Values \cup {Absent}]
Inputs == Values \cup {All}
Answer == [at : 1 .. MaxPast, key : Inputs, extra : SUBSET Ids, fresh : BOOLEAN]
Flight == [step : {"waiting", "sent", "answered", "idle"}, key : Inputs, at : 0 .. MaxPast]
Call   == [command : Command, row : Ids \cup {None}, key : Inputs, step : {"sent", "done", "refused"}, at : 0 .. MaxPast]

VARIABLES
    page,    \* the screen
    input,   \* what the user has chosen, or the address names
    past,    \* the states of the server's table, the last one its present state
    gate,    \* the queries the page's own waits for: loading, open or stuck
    flight,  \* the fetch of the page, with the key it was sent for
    cache,   \* the answer under each key, with the key it was given for, or None
    kept,    \* an earlier answer the component still holds, or None
    dialog,  \* the modal on the screen: its command and its row, or None
    calls,   \* the calls of commands in flight
    owed     \* history: the table as of the last own change that was to be shown under a key

browserVars == <<page, input, past, gate, flight, cache, kept, dialog, calls, owed>>

InputsOf(p) == CASE p.keyed = "route" -> Values
                 [] p.keyed \in {"filter", "partly", "ignored"} \/ p.shows = "narrowed" -> Inputs
                 [] OTHER -> {All}

\* A filter that the code which fills the message does not read, or reads under another name.
Dropped(p, i) == p.keyed = "ignored" \/ (p.keyed = "partly" /\ i \in Lost)
Key(p, i) == IF p.keyed \in {"filter", "partly", "route"} /\ ~Dropped(p, i) THEN i ELSE All
Here      == Key(page, input)
Present   == past[Len(past)]

\* The rows of the table t under the key k.
Rows(t, k) == {r \in Ids : t[r] # Absent /\ (k = All \/ t[r] = k)}

Waiting == [step |-> "waiting", key |-> All, at |-> 0]
Idle    == [step |-> "idle", key |-> All, at |-> 0]
Sent(k) == [step |-> "sent", key |-> k, at |-> 0]

\* The fetch of a component that begins to use the key k while the gate is g.
Fetch(k, g) == IF g # "open" THEN Waiting
               ELSE IF cache[k] # None /\ cache[k].fresh THEN Idle ELSE Sent(k)
Gate == IF page.waits = "none" THEN "open" ELSE "loading"

\* The answer on the screen: one the component holds, the cached one, or while there
\* is none yet the one of the input before.
Pending == cache[Here] = None /\ flight.step # "idle"
Displayed == IF (page.holds /\ kept # None) \/ (page.keeps /\ Pending) THEN kept
             ELSE cache[Here]
Matches(t, r, i) == i = All \/ t[r] = i
Shown == IF Displayed = None THEN {}
         ELSE LET t == past[Displayed.at]
                  rows == Rows(t, Displayed.key)
              IN  (IF page.shows = "narrowed"
                   THEN {r \in rows : Matches(t, r, input)} ELSE rows) \cup Displayed.extra

BInit == /\ page \in Offered
         /\ input \in InputsOf(page)
         /\ past = <<Start>>
         /\ gate = Gate
         /\ cache = [k \in Inputs |-> None]
         /\ flight = Fetch(Here, gate)
         /\ kept = None /\ dialog = None /\ calls = <<>>
         /\ owed = [k \in Inputs |-> 1]

GateOpens == /\ gate = "loading"
             /\ gate' = "open"
             /\ flight' = Fetch(Here, "open")
             /\ UNCHANGED <<page, input, past, cache, kept, dialog, calls, owed>>

\* A query that fails ends as well: only a page that needs its answer is stuck.
GateFails == /\ gate = "loading" /\ page.waits = "loaded"
             /\ gate' = "stuck"
             /\ UNCHANGED <<page, input, past, flight, cache, kept, dialog, calls, owed>>

\* Mutant of Choose: the fetch under way is left running, and its answer taken for the
\* new key's.
ChooseKeepsFlight(i) == /\ i \in InputsOf(page) \ {input}
                        /\ input' = i
                        /\ UNCHANGED <<page, past, gate, flight, cache, kept, dialog, calls, owed>>

\* The user filters, or follows a link to another row of the same route.  A component
\* that holds its answer is taken off the screen only while the next one is loading.
Choose(i) ==
    LET k == Key(page, i)
    IN  /\ i \in InputsOf(page) \ {input}
        /\ input' = i
        /\ flight' = IF k = Here THEN flight ELSE Fetch(k, gate)
        /\ kept' = CASE page.keeps /\ cache[Here] # None -> cache[Here]
                     [] page.holds /\ cache[k] = None -> None
                     [] OTHER -> kept
        /\ UNCHANGED <<page, past, gate, cache, dialog, calls, owed>>

\* The server refuses a message that lacks what it requires.
ServerAnswers == /\ flight.step = "sent" /\ page.keyed # "missing"
                 /\ flight' = [flight EXCEPT !.step = "answered", !.at = Len(past)]
                 /\ UNCHANGED <<page, input, past, gate, cache, kept, dialog, calls, owed>>

AnswerArrives ==
    LET a == [at |-> flight.at, key |-> flight.key, extra |-> {}, fresh |-> TRUE]
    IN  /\ flight.step = "answered"
        /\ cache' = [cache EXCEPT ![Here] = a]
        /\ kept' = IF page.holds /\ kept = None THEN a ELSE kept
        /\ flight' = Idle
        /\ UNCHANGED <<page, input, past, gate, dialog, calls, owed>>

\* The attempts are used up: what the cache has stays.
FetchFails == /\ flight.step \in {"sent", "answered"}
              /\ flight' = Idle
              /\ UNCHANGED <<page, input, past, gate, cache, kept, dialog, calls, owed>>

\* 30 seconds pass, or the minutes after which an answer nobody uses is dropped.
GoesStale(k) == /\ cache[k] # None /\ cache[k].fresh
                /\ cache' = [cache EXCEPT ![k].fresh = FALSE]
                /\ UNCHANGED <<page, input, past, gate, flight, kept, dialog, calls, owed>>
Forgets(k) == /\ k # Here /\ cache[k] # None
              /\ cache' = [cache EXCEPT ![k] = None]
              /\ UNCHANGED <<page, input, past, gate, flight, kept, dialog, calls, owed>>

\* Mutant of Poll: polling ends with the first answer.
PollUntilAnswered == /\ page.polls /\ gate = "open" /\ flight.step = "idle" /\ cache[Here] = None
                     /\ flight' = Sent(Here)
                     /\ UNCHANGED <<page, input, past, gate, cache, kept, dialog, calls, owed>>

\* The interval of a page that polls, and the network coming back.
Poll == /\ page.polls /\ gate = "open" /\ flight.step = "idle"
        /\ flight' = Sent(Here)
        /\ UNCHANGED <<page, input, past, gate, cache, kept, dialog, calls, owed>>
Reconnect == /\ gate = "open" /\ flight.step = "idle" /\ cache[Here] # None /\ ~cache[Here].fresh
             /\ flight' = Sent(Here)
             /\ UNCHANGED <<page, input, past, gate, cache, kept, dialog, calls, owed>>

\* The user goes elsewhere and comes back; calls under way go on.
Remount == /\ gate' = Gate
           /\ flight' = Fetch(Here, Gate)
           /\ kept' = IF page.holds THEN cache[Here] ELSE None
           /\ UNCHANGED <<page, input, past, cache, dialog, calls, owed>>

\* A button of the page or of a row opens a modal.
Open(c, r) == /\ dialog = None /\ c \in page.commands /\ c.dialog # "inline"
              /\ r \in (IF c.offers = "create" THEN {None} ELSE Shown)
              /\ dialog' = [command |-> c, row |-> r]
              /\ UNCHANGED <<page, input, past, gate, flight, cache, kept, calls, owed>>

Cancel == /\ dialog # None
          /\ dialog' = None
          /\ UNCHANGED <<page, input, past, gate, flight, cache, kept, calls, owed>>

\* The call leaves.  Only a button that awaits its answer cannot be pressed meanwhile.
Asks(c, r) == /\ Len(calls) < MaxCalls
              /\ c.awaits => ~\E n \in DOMAIN calls : calls[n].command = c
              /\ calls' = Append(calls, [command |-> c, row |-> r, key |-> Here,
                                          step |-> "sent", at |-> 0])
Submit == /\ dialog # None
          /\ Asks(dialog.command, dialog.row)
          /\ dialog' = IF dialog.command.closes = "asked" THEN None ELSE dialog
          /\ UNCHANGED <<page, input, past, gate, flight, cache, kept, owed>>
SubmitInline(c, r) == /\ c \in page.commands /\ c.dialog = "inline"
                      /\ r \in (IF c.offers = "create" THEN {None} ELSE Shown)
                      /\ Asks(c, r)
                      /\ UNCHANGED <<page, input, past, gate, flight, cache, kept, dialog, owed>>

\* The table after a change by a call that names what its message requires.
Unborn == {r \in Ids : \A n \in DOMAIN past : past[n][r] = Absent}
Changes(t) == Len(past) < MaxPast /\ past' = Append(past, t)
Applies(c, r, row) ==
    CASE c.sends = "create" -> row \in Unborn /\ \E v \in Values : Changes([Present EXCEPT ![row] = v])
      [] c.sends = "edit"   -> /\ row = r /\ Present[r] # Absent
                               /\ \E v \in Values : Changes([Present EXCEPT ![r] = v])
      [] c.sends = "delete" -> row = r /\ Present[r] # Absent /\ Changes([Present EXCEPT ![r] = Absent])

\* Mutant of ServerHandles: the answer does not say which row was created.
HandlesNamelessly(n) == /\ calls[n].step = "sent" /\ calls[n].command.names = "row"
                        /\ \E row \in Ids : Applies(calls[n].command, calls[n].row, row)
                        /\ calls' = [calls EXCEPT ![n].step = "done", ![n].at = Len(past')]
                        /\ UNCHANGED <<page, input, gate, flight, cache, kept, dialog, owed>>

ServerHandles(n) == /\ calls[n].step = "sent" /\ calls[n].command.names = "row"
                    /\ \E row \in Ids :
                          /\ Applies(calls[n].command, calls[n].row, row)
                          /\ calls' = [calls EXCEPT ![n].step = "done", ![n].at = Len(past'), ![n].row = row]
                    /\ UNCHANGED <<page, input, gate, flight, cache, kept, dialog, owed>>

ServerRefuses(n) == /\ calls[n].step = "sent"
                    /\ calls' = [calls EXCEPT ![n].step = "refused"]
                    /\ UNCHANGED <<page, input, past, gate, flight, cache, kept, dialog, owed>>

\* Modals are known by what they are, not by the row they were opened for, and the key
\* that success invalidates is that of the page as it is now.
Hides(c) == dialog # None /\ dialog.command.dialog = c.dialog
Stale == IF cache[Here] = None THEN cache ELSE [cache EXCEPT ![Here].fresh = FALSE]
\* Mutant of Refetched: a fetch under way is good enough.
JoinsFlight == IF gate = "open" /\ flight.step = "idle" THEN Sent(Here) ELSE flight
Refetched == IF gate = "open" THEN Sent(Here) ELSE flight

Succeeds(n) ==
    LET c == calls[n].command
    IN  /\ calls[n].step = "done"
        /\ calls' = RemoveAt(calls, n)
        /\ dialog' = IF c.closes \in {"done", "answered"} /\ Hides(c) THEN None ELSE dialog
        /\ cache' = CASE c.after = "refetch" -> Stale
                      [] c.after = "appends" /\ cache[Here] # None ->
                           [cache EXCEPT ![Here].extra = @ \cup {calls[n].row}, ![Here].fresh = TRUE]
                      [] OTHER -> cache
        /\ flight' = IF c.after = "refetch" THEN Refetched ELSE flight
        /\ owed' = IF c.after = "refetch" /\ calls[n].key = Here /\ calls[n].at > owed[Here]
                   THEN [owed EXCEPT ![Here] = calls[n].at] ELSE owed
        /\ kept' = IF page.holds /\ kept # None THEN [kept EXCEPT !.at = calls[n].at, !.key = Here] ELSE kept
        /\ UNCHANGED <<page, input, past, gate>>

Fails(n) == /\ calls[n].step = "refused"
            /\ calls' = RemoveAt(calls, n)
            /\ dialog' = IF calls[n].command.closes = "answered" /\ Hides(calls[n].command) THEN None ELSE dialog
            /\ UNCHANGED <<page, input, past, gate, flight, cache, kept, owed>>

\* Somebody else, in any way the server allows.
ElsewhereChange == /\ \E r \in Ids, v \in Values \cup {Absent} :
                         /\ r \in Unborn \/ Present[r] # Absent
                         /\ v # Present[r]
                         /\ Changes([Present EXCEPT ![r] = v])
                   /\ UNCHANGED <<page, input, gate, flight, cache, kept, dialog, calls, owed>>

BNext == \/ GateOpens \/ GateFails \/ ServerAnswers \/ AnswerArrives \/ FetchFails
         \/ Poll \/ Reconnect \/ Remount \/ Cancel \/ Submit \/ ElsewhereChange
         \/ \E i \in Inputs : Choose(i) \/ GoesStale(i) \/ Forgets(i)
         \/ \E c \in page.commands, r \in Ids \cup {None} : Open(c, r) \/ SubmitInline(c, r)
         \/ \E n \in DOMAIN calls : ServerHandles(n) \/ ServerRefuses(n) \/ Succeeds(n) \/ Fails(n)

\* Time passes, intervals fire, and a server asked again and again answers again and again.
BFairness == /\ WF_browserVars(GateOpens \/ GateFails)
             /\ WF_browserVars(Poll)
             /\ \A k \in Inputs : WF_browserVars(GoesStale(k))
             /\ SF_browserVars(ServerAnswers)
             /\ SF_browserVars(AnswerArrives)
BSpec == BInit /\ [][BNext]_browserVars /\ BFairness

-----------------------------------------------------------------------------
BrowserTypeOK ==
    /\ page \in Offered /\ input \in InputsOf(page)
    /\ past \in Seq(Table) /\ Len(past) \in 1 .. MaxPast
    /\ gate \in {"loading", "open", "stuck"} /\ flight \in Flight
    /\ cache \in [Inputs -> Answer \cup {None}]
    /\ kept \in Answer \cup {None}
    /\ dialog \in [command : page.commands, row : Ids \cup {None}] \cup {None}
    /\ calls \in Seq(Call) /\ Len(calls) <= MaxCalls
    /\ owed \in [Inputs -> 1 .. MaxPast]

\* Once nothing is under way, every row on the screen is one the filter or the address
\* asks for: an answer to an earlier filter is never left standing, whether it comes late,
\* is kept while the next one loads, or the next one fails.  (Filters that never reach the
\* message, of the pages keyed "ignored" and of some of those keyed "partly", and the page
\* that copies its answer are no part of the claim: there it is false.)
FilterHonoured ==
    (~Dropped(page, input) /\ ~page.holds /\ flight.step = "idle" /\ Displayed # None)
        => \A r \in Shown \ Displayed.extra : Matches(past[Displayed.at], r, input)

\* Where a command invalidates the page's query, what is cached as fresh is never older
\* than the last own change confirmed while its page was on the screen: an answer that
\* left the server before the change does not survive it.
OwnChangesShow == \A k \in Inputs : cache[k] # None /\ cache[k].fresh => cache[k].at >= owed[k]

\* The list of servers and the notifications catch up with the server again and again.
PolledPageCatchesUp ==
    []<>(page.polls => gate = "stuck" \/ (cache[Here] # None /\ cache[Here].at = Len(past)))
=============================================================================
