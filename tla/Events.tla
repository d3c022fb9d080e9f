------------------------------- MODULE Events -------------------------------
(***************************************************************************)
(* The path of a game server's log line: the UDP listener reads and        *)
(* parses it, Broadcaster.Emit hands it to every reader registered for its *)
(* type, and each reader (metrics, networks, chat, votes) handles it in a  *)
(* goroutine of its own.  Channels are unbuffered: a send and its receive  *)
(* are one step.  The readers chat and votes queue notifications for the   *)
(* goroutine that talks to Discord.                                        *)
(*                                                                         *)
(* Lines are the environment's: any line may come at any time, so UDP's    *)
(* losses, repetitions and reorderings are all among the behaviours.       *)
(* MaxLines bounds their number.  Time is the age of results: below, at or *)
(* above the 20 seconds for which they count as recent.                    *)
(* Readers and Types let a run leave out a reader or a type of line.       *)
(* A vote is a kick vote held on a server; its lines tell the server and   *)
(* the people, and the code reads nothing else of them: which vote a line  *)
(* is about, and whether it was really won, are known to the model only.   *)
(***************************************************************************)
EXTENDS Naturals, Sequences, SequencesExt

CONSTANTS Servers,    \* game servers
          Votes,      \* the kick votes that are held
          ServerOf,   \* the server of each
          PairOf,     \* its initiator and target
          Won,        \* the votes that are won
          Readers,    \* the goroutines that consume events
          Types,      \* the types of line the game servers send
          NoLine,     \* model value: no line in hand
          NotifyCap,  \* capacity of the queue of notifications
          MaxLines

ASSUME EventsAssumption == /\ Readers \subseteq {"metrics", "networks", "chat", "votes"}
                           /\ NotifyCap \in Nat \ {0}
                           /\ MaxLines \in Nat
                           /\ ServerOf \in [Votes -> Servers]

ChatLine    == [type : {"connected", "say"}, filtered : BOOLEAN]
OutcomeOf(v) == [type |-> IF v \in Won THEN "success" ELSE "failed", vote |-> v]
OutcomeLine == {OutcomeOf(v) : v \in Votes}
DetailsLine == [type : {"details"}, vote : Votes]
OtherLine   == [type : {"other"}]
AnyLine == ChatLine \cup OutcomeLine \cup DetailsLine \cup OtherLine
Line == {l \in AnyLine : l.type \in Types}
MaybeLine == Line \cup {NoLine}

ASSUME NoLineAssumption == NoLine \notin AnyLine

Wants(r, type) == CASE r = "metrics"  -> TRUE
                    [] r = "networks" -> type = "connected"
                    [] r = "chat"     -> type \in {"connected", "say"}
                    [] r = "votes"    -> type \in {"success", "failed", "details"}

Handlers == Readers \cap {"chat", "votes"}

\* The age of a result that is 20 seconds old.
Window == 1
Outcomes == {"none", "success", "failed"}
Result == [vote : Votes, success : BOOLEAN, age : 0 .. Window + 1]

VARIABLES
    packet,      \* the line the UDP goroutine holds
    emit,        \* the line being emitted and the readers still to be sent to
    registered,  \* the readers in the order of their Consume
    at,          \* where each reader's goroutine is
    hand,        \* the line the chat and the votes reader are handling
    queue,       \* notifications waiting for the sender
    active,      \* votes: the outcome announced by each server
    recent,      \* votes: results that new ones are compared with
    results,     \* rows of vote_result the process has inserted, in order
    heard,       \* history: the last line of each server that the votes reader has handled
    lines        \* how many lines have come

\* What a restart forgets, and what it does not.
memory == <<packet, emit, registered, at, hand, queue, active, recent, results, heard>>
pipe   == <<packet, emit, registered, lines>>
votes  == <<active, recent, results>>
vars   == <<memory, lines>>

Silent == [line |-> NoLine, to |-> {}]
Fresh == /\ packet = NoLine /\ emit = Silent /\ registered = <<>>
         /\ at = [r \in Readers |-> "off"] /\ hand = [r \in Handlers |-> NoLine]
         /\ queue = 0
         /\ active = [s \in Servers |-> "none"] /\ recent = {}
         /\ results = <<>>
         /\ heard = [s \in Servers |-> NoLine]

Init == Fresh /\ lines = 0

-----------------------------------------------------------------------------
(* Registration and the broadcast. *)

\* Consume takes the write lock, which Emit's read locks keep it from.
Consume(r) == /\ at[r] = "off"
              /\ emit = Silent
              /\ registered' = Append(registered, r)
              /\ at' = [at EXCEPT ![r] = "idle"]
              /\ UNCHANGED <<packet, emit, hand, queue, votes, heard, lines>>

\* A packet comes whose secret and sender are right.
Receive(l) == /\ packet = NoLine
              /\ lines < MaxLines
              /\ packet' = l /\ lines' = lines + 1
              /\ UNCHANGED <<emit, registered, at, hand, queue, votes, heard>>

Targets(type) == {r \in Range(registered) : Wants(r, type)}

\* Readers of all events come first, then those of this type, each in the order
\* of registration.
Before(r, q) == \/ r = "metrics" /\ q # "metrics"
                \/ \E i, j \in DOMAIN registered : /\ i < j /\ registered[i] = r /\ registered[j] = q
                                                  /\ q # "metrics"

\* The listener takes the line and Emit takes its read locks.
EmitStarts == /\ packet # NoLine
              /\ emit = Silent
              /\ emit' = [line |-> packet, to |-> Targets(packet.type)]
              /\ packet' = NoLine
              /\ UNCHANGED <<registered, at, hand, queue, votes, heard, lines>>

\* The next reader's channel takes the line once that reader waits for it.
Send == /\ \E r \in emit.to : /\ \A q \in emit.to \ {r} : Before(r, q)
                              /\ at[r] = "idle"
                              /\ at' = [at EXCEPT ![r] = "busy"]
                              /\ hand' = [h \in Handlers |-> IF h = r THEN emit.line ELSE hand[h]]
                              /\ emit' = [emit EXCEPT !.to = @ \ {r}]
        /\ UNCHANGED <<packet, registered, queue, votes, heard, lines>>

EmitReturns == /\ emit # Silent /\ emit.to = {}
               /\ emit' = Silent
               /\ UNCHANGED <<packet, registered, at, hand, queue, votes, heard, lines>>

-----------------------------------------------------------------------------
(* The readers. *)

GoTo(r, pc) == at' = [at EXCEPT ![r] = pc]
Idle(r) == GoTo(r, "idle") /\ hand' = [hand EXCEPT ![r] = NoLine]

\* Metrics count; networks insert a row within five seconds or give up.
Handle(r) == /\ r \notin Handlers
             /\ at[r] = "busy"
             /\ GoTo(r, "idle")
             /\ UNCHANGED <<pipe, hand, queue, votes, heard>>

\* handleMessage: an empty message or a failed look-up of the player ends it.
ChatLooksUp == /\ at["chat"] = "busy"
               /\ \/ Idle("chat")
                  \/ GoTo("chat", "notify") /\ UNCHANGED hand
               /\ UNCHANGED <<pipe, queue, votes, heard>>

\* Mutant of ChatNotifies: a warning for every message, matched or not.
ChatWarnsAlways == /\ at["chat"] = "notify"
                   /\ queue < NotifyCap
                   /\ queue' = queue + 1
                   /\ GoTo("chat", "warn") /\ UNCHANGED hand
                   /\ UNCHANGED <<pipe, votes, heard>>

\* With a matched filter the warning is sent on WarningChan, which nothing
\* ever makes: a send on a nil channel does not return ("warn").
ChatNotifies == /\ at["chat"] = "notify"
                /\ queue < NotifyCap
                /\ queue' = queue + 1
                /\ IF hand["chat"].filtered THEN GoTo("chat", "warn") /\ UNCHANGED hand
                                            ELSE Idle("chat")
                /\ UNCHANGED <<pipe, votes, heard>>

\* The server of the vote line in hand.
From == ServerOf[hand["votes"].vote]
Heard == heard' = [heard EXCEPT ![From] = hand["votes"]]

\* Mutant of VoteOutcome: an outcome that is still waiting for its details stays.
FirstOutcomeStays == /\ at["votes"] = "busy" /\ hand["votes"].type # "details"
                     /\ active' = [active EXCEPT ![From] = IF @ = "none" THEN hand["votes"].type ELSE @]
                     /\ Heard
                     /\ Idle("votes")
                     /\ UNCHANGED <<pipe, queue, recent, results>>

\* VoteSuccess and VoteFailed: the server's outcome is kept for its details.
VoteOutcome == /\ at["votes"] = "busy" /\ hand["votes"].type # "details"
               /\ active' = [active EXCEPT ![From] = hand["votes"].type]
               /\ Heard
               /\ Idle("votes")
               /\ UNCHANGED <<pipe, queue, recent, results>>

\* Without an outcome the vote counts as failed.
NewResult == [vote |-> hand["votes"].vote, success |-> active[From] = "success", age |-> 0]

Twin(r1, r2) == /\ ServerOf[r1.vote] = ServerOf[r2.vote]
                /\ PairOf[r1.vote] = PairOf[r2.vote]
                /\ r1.success = r2.success

HasDetails == at["votes"] = "busy" /\ hand["votes"].type = "details"
ForgetOutcome == active' = [active EXCEPT ![From] = "none"]

VoteSkips == /\ HasDetails
             /\ \E r \in recent : Twin(r, NewResult)
             /\ ForgetOutcome
             /\ Heard
             /\ Idle("votes")
             /\ UNCHANGED <<pipe, queue, recent, results>>

\* The result is remembered also when its insertion fails.
VoteAdds == /\ HasDetails
            /\ \A r \in recent : ~ Twin(r, NewResult)
            /\ results' \in {results, Append(results, NewResult)}
            /\ recent' = recent \cup {NewResult}
            /\ ForgetOutcome
            /\ Heard
            /\ GoTo("votes", "people")
            /\ UNCHANGED <<pipe, hand, queue>>

\* Both people are looked up; a failure is logged and the message sent anyway.
VoteLooksUp == /\ at["votes"] = "people"
               /\ GoTo("votes", "notify")
               /\ UNCHANGED <<pipe, hand, queue, votes, heard>>

VoteNotifies == /\ at["votes"] = "notify"
                /\ queue < NotifyCap
                /\ queue' = queue + 1
                /\ Idle("votes")
                /\ UNCHANGED <<pipe, votes, heard>>

\* Mutant of VoteCleanup: results leave at the age of the window.
CleanupEarly == /\ at["votes"] = "idle"
                /\ recent' = {r \in recent : r.age < Window}
                /\ UNCHANGED <<pipe, at, hand, queue, active, results, heard>>

\* The ticker of the votes reader, every five seconds.
VoteCleanup == /\ at["votes"] = "idle"
               /\ recent' = {r \in recent : r.age <= Window}
               /\ UNCHANGED <<pipe, at, hand, queue, active, results, heard>>

-----------------------------------------------------------------------------
(* Notifications, time and restarts. *)

\* An error of Discord is logged.
Sender == /\ queue > 0
          /\ queue' = queue - 1
          /\ UNCHANGED <<pipe, at, hand, votes, heard>>

\* Bans, reports and the other components notify too.
OthersNotify == /\ queue < NotifyCap
                /\ queue' = queue + 1
                /\ UNCHANGED <<pipe, at, hand, votes, heard>>

Older(r) == [r EXCEPT !.age = IF @ > Window THEN @ ELSE @ + 1]

\* Time passes, to 20 seconds and beyond.
Elapse == /\ recent' = {Older(r) : r \in recent}
          /\ results' = [i \in DOMAIN results |-> Older(results[i])]
          /\ UNCHANGED <<pipe, at, hand, queue, active, heard>>

Restart == /\ packet' = NoLine /\ emit' = Silent /\ registered' = <<>>
           /\ at' = [r \in Readers |-> "off"] /\ hand' = [r \in Handlers |-> NoLine]
           /\ queue' = 0
           /\ active' = [s \in Servers |-> "none"] /\ recent' = {}
           /\ results' = <<>>
           /\ heard' = [s \in Servers |-> NoLine]
           /\ UNCHANGED lines

\* The second look-up fails after the first has not: the error that is then
\* logged is the first one's, which is nil, and the process panics.
VotePanics == /\ at["votes"] = "people"
              /\ Restart

\* What the goroutine of a reader does of its own; tickers come beside it.
Reader(r) == \/ Consume(r) \/ Handle(r)
             \/ r = "chat"  /\ (ChatLooksUp \/ ChatNotifies)
             \/ r = "votes" /\ (VoteOutcome \/ VoteSkips \/ VoteAdds)
             \/ r = "votes" /\ (VoteLooksUp \/ VotePanics \/ VoteNotifies)

Listener == EmitStarts \/ Send \/ EmitReturns

Next == \/ \E r \in Readers : Reader(r)
        \/ \E l \in Line : Receive(l)
        \/ Listener \/ VoteCleanup
        \/ Sender \/ OthersNotify
        \/ Elapse \/ Restart

Spec == Init /\ [][Next]_vars

\* A goroutine that can go on does, and one that waits for a lock or for room
\* in the queue gets its turn.  Nothing is assumed of the game servers.
Fairness == /\ WF_vars(Listener) /\ WF_vars(Sender)
            /\ \A r \in Readers : SF_vars(Reader(r))

FairSpec == Spec /\ Fairness

-----------------------------------------------------------------------------
(* Properties. *)

\* Types, and that a line is in hand exactly while its reader handles it.
EventsTypeOK ==
    /\ packet \in MaybeLine
    /\ emit \in [line : MaybeLine, to : SUBSET Readers]
    /\ emit.line = NoLine => emit.to = {}
    /\ registered \in Seq(Readers) /\ IsInjective(registered)
    /\ at \in [Readers -> {"off", "idle", "busy", "notify", "warn", "people"}]
    /\ hand \in [Handlers -> MaybeLine]
    /\ \A r \in Handlers : hand[r] = NoLine <=> at[r] \in {"off", "idle"}
    /\ queue \in 0 .. NotifyCap
    /\ active \in [Servers -> Outcomes] /\ heard \in [Servers -> MaybeLine]
    /\ recent \subseteq Result /\ results \in Seq(Result)
    /\ lines \in 0 .. MaxLines

Added == Len(results') > Len(results)

\* "Vote results sometimes get sent twice": a process does not store a result
\* of the same server, people and outcome again before 20 seconds have passed.
NoTwinWithinWindow ==
    [][Added => \A i \in 1 .. Len(results) :
                   Twin(results[i], Last(results')) => results[i].age > Window]_vars

\* A vote whose own outcome was the last line of its server before its details is
\* stored as it was decided, whatever was lost, repeated or skipped earlier; one
\* whose details come right after other details, or first of all, as failed.  That
\* every vote is stored as it was decided does not hold: when its outcome is lost
\* after the details of the vote before were lost, it takes that vote's outcome.
OutcomeIsItsOwn ==
    [][Added => LET v    == Last(results').vote
                    last == heard[ServerOf[v]]
                    success == Last(results').success
                IN  /\ last = OutcomeOf(v) => (success <=> v \in Won)
                    /\ last = NoLine \/ last.type = "details" => ~success]_vars

\* "Track recent votes and reject duplicates": a vote is not stored a second time
\* before 20 seconds have passed.  No run checks it, for it does not hold: the first
\* details of a won vote take its outcome along, and a copy of them counts as failed.
VoteStoredOnce ==
    [][Added => \A i \in 1 .. Len(results) :
                   results[i].vote = Last(results').vote => results[i].age > Window]_vars

Stuck == at["chat"] = "warn" /\ hand["chat"].filtered

\* Emit returns and lets the listener read on, unless a filtered message has
\* stopped the chat reader: a full queue, failing look-ups, slow readers and
\* readers that are still registering do not stop it.
OnlyWarningsBlock == emit # Silent ~> (emit = Silent \/ Stuck)

\* "Emit is used to send out events to all registered reader channels": it
\* ends, every reader served.  No run checks it, for it does not hold: once the
\* chat reader has met a filtered message it takes no line again (Stuck).
EmitEnds == emit # Silent ~> emit = Silent
=============================================================================
