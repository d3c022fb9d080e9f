---------------------------- MODULE EventsProofs ----------------------------
(***************************************************************************)
(* Theorems about Events, for any servers, people, readers, queue length   *)
(* and number of lines: the types, that no result is stored twice within   *)
(* the window, and that a vote whose outcome was heard right before its    *)
(* details is stored with that outcome.                                    *)
(***************************************************************************)
EXTENDS Events, TLAPS

VoteLine == {l \in Line : l.type \in {"success", "failed", "details"}}

\* Only readers that have registered are sent lines, and of the types they asked for.
PipeInv == /\ \A i \in DOMAIN registered : at[registered[i]] # "off"
           /\ \A r \in emit.to : Wants(r, emit.line.type)
           /\ "votes" \in Handlers => hand["votes"] \in VoteLine \cup {NoLine}

EInv == EventsTypeOK /\ PipeInv

LEMMA LineKinds ==
    /\ \A l \in VoteLine : /\ l.vote \in Votes /\ ServerOf[l.vote] \in Servers
                           /\ l.type \in {"success", "failed", "details"}
    /\ VoteLine \subseteq Line /\ NoLine \notin VoteLine
<1>1. \A v \in Votes : ServerOf[v] \in Servers
  BY EventsAssumption
<1>2. \A l \in VoteLine : l \in Line /\ l.type \in {"success", "failed", "details"}
  BY DEF VoteLine
<1>3. ASSUME NEW l \in VoteLine PROVE l.vote \in Votes
  <2>1. CASE l \in ChatLine \cup OtherLine
    BY <1>2, <2>1 DEF ChatLine, OtherLine
  <2>2. CASE l \in OutcomeLine
    BY <2>2 DEF OutcomeLine, OutcomeOf
  <2>3. CASE l \in DetailsLine
    BY <2>3 DEF DetailsLine
  <2> QED BY <1>2, <2>1, <2>2, <2>3 DEF Line, AnyLine
<1> QED BY <1>1, <1>2, <1>3, NoLineAssumption DEF Line

LEMMA InitEInv == Init => EInv
<1> SUFFICES ASSUME Init PROVE EInv
  OBVIOUS
<1>1. NotifyCap \in Nat /\ MaxLines \in Nat
  BY EventsAssumption
<1>2. registered \in Seq(Readers) /\ IsInjective(registered) /\ results \in Seq(Result)
  BY DEF Init, Fresh, IsInjective
<1>3. EventsTypeOK
  BY <1>1, <1>2 DEF Init, Fresh, EventsTypeOK, Silent, MaybeLine, Outcomes, Handlers
<1> QED BY <1>3 DEF Init, Fresh, EInv, PipeInv, Silent

LEMMA ConsumeKeeps == ASSUME EInv, NEW r \in Readers, Consume(r) PROVE EInv'
<1>1. /\ registered \in Seq(Readers) /\ registered' = Append(registered, r)
      /\ \A i \in DOMAIN registered : registered[i] # r
      /\ IsInjective(registered)
  BY DEF EInv, EventsTypeOK, PipeInv, Consume
<1>2. registered' \in Seq(Readers) /\ IsInjective(registered')
  BY <1>1 DEF IsInjective
<1>3. at' = [at EXCEPT ![r] = "idle"] /\ at \in [Readers -> {"off", "idle", "busy", "notify", "warn", "people"}]
  BY DEF EInv, EventsTypeOK, Consume
<1>4. EventsTypeOK'
  BY <1>2, <1>3 DEF EInv, EventsTypeOK, Consume, votes, Handlers
<1>5. \A i \in DOMAIN registered' : at'[registered'[i]] # "off"
  BY <1>1, <1>3 DEF EInv, PipeInv
<1> QED BY <1>4, <1>5 DEF EInv, PipeInv, Consume

LEMMA ListenerKeeps ==
    ASSUME EInv, (\E l \in Line : Receive(l)) \/ EmitStarts \/ EmitReturns PROVE EInv'
<1>1. CASE \E l \in Line : Receive(l)
  BY <1>1, EventsAssumption DEF EInv, EventsTypeOK, PipeInv, Receive, votes, MaybeLine
<1>2. CASE EmitStarts
  <2>1. Targets(packet.type) \subseteq Readers /\ \A r \in Targets(packet.type) : Wants(r, packet.type)
    BY DEF Targets, Range, EInv, EventsTypeOK
  <2>2. emit'.line = packet /\ emit'.to = Targets(packet.type) /\ packet # NoLine
    BY <1>2 DEF EmitStarts
  <2>3. emit' \in [line : MaybeLine, to : SUBSET Readers]
    BY <1>2, <2>1 DEF EmitStarts, EInv, EventsTypeOK
  <2> QED BY <1>2, <2>1, <2>2, <2>3 DEF EmitStarts, EInv, EventsTypeOK, PipeInv, votes, MaybeLine
<1>3. CASE EmitReturns
  BY <1>3 DEF EmitReturns, EInv, EventsTypeOK, PipeInv, votes, Silent, MaybeLine
<1> QED BY <1>1, <1>2, <1>3

LEMMA SendKeeps == ASSUME EInv, Send PROVE EInv'
<1>1. PICK r \in emit.to : /\ at[r] = "idle" /\ at' = [at EXCEPT ![r] = "busy"]
                           /\ hand' = [h \in Handlers |-> IF h = r THEN emit.line ELSE hand[h]]
                           /\ emit' = [emit EXCEPT !.to = @ \ {r}]
  BY DEF Send
<1>2. r \in Readers /\ emit.line \in Line /\ Wants(r, emit.line.type)
  BY DEF EInv, EventsTypeOK, PipeInv, MaybeLine
<1>3. r = "votes" => emit.line \in VoteLine
  BY <1>2 DEF Wants, VoteLine
<1>5. \A h \in Handlers : (hand'[h] = NoLine) <=> at'[h] \in {"off", "idle"}
  BY <1>1, <1>2, NoLineAssumption DEF EInv, EventsTypeOK, Handlers
<1>6. hand' \in [Handlers -> MaybeLine] /\ at' \in [Readers -> {"off", "idle", "busy", "notify", "warn", "people"}]
  BY <1>1, <1>2 DEF EInv, EventsTypeOK, MaybeLine
<1>7. EventsTypeOK'
  BY <1>1, <1>5, <1>6 DEF EInv, EventsTypeOK, Send, votes
<1>8. PipeInv'
  BY <1>1, <1>3 DEF EInv, EventsTypeOK, PipeInv, Send
<1> QED BY <1>7, <1>8 DEF EInv

\* A reader that goes on, with its line or without.
LEMMA ReaderMoves ==
    ASSUME EInv, NEW r \in Readers, at[r] \notin {"off", "idle"},
           NEW pc \in {"busy", "notify", "warn", "people"},
           \/ r \notin Handlers /\ GoTo(r, "idle") /\ UNCHANGED hand
           \/ r \in Handlers /\ GoTo(r, pc) /\ UNCHANGED hand
           \/ r \in Handlers /\ Idle(r),
           UNCHANGED pipe, queue' \in 0 .. NotifyCap, active' \in [Servers -> Outcomes],
           heard' \in [Servers -> MaybeLine],
           recent' \subseteq Result, results' \in Seq(Result)
    PROVE  EInv'
<1> DEFINE Pcs == {"off", "idle", "busy", "notify", "warn", "people"}
<1>1. at \in [Readers -> Pcs] /\ hand \in [Handlers -> MaybeLine] /\ Handlers \subseteq Readers
  BY DEF EInv, EventsTypeOK, Handlers
<1>2. at' \in [Readers -> Pcs] /\ hand' \in [Handlers -> MaybeLine]
  BY <1>1 DEF GoTo, Idle, MaybeLine
<1>3. \A q \in Readers : at'[q] # "off" \/ at[q] = "off"
  BY <1>1 DEF GoTo, Idle
<1>4. \A h \in Handlers : (hand'[h] = NoLine) <=> at'[h] \in {"off", "idle"}
  BY <1>1 DEF GoTo, Idle, EInv, EventsTypeOK
<1>5. "votes" \in Handlers => hand'["votes"] \in VoteLine \cup {NoLine}
  BY <1>1 DEF GoTo, Idle, EInv, PipeInv
<1>6. \A i \in DOMAIN registered : registered[i] \in Readers /\ at[registered[i]] # "off"
  BY DEF EInv, EventsTypeOK, PipeInv
<1>7. EventsTypeOK'
  BY <1>2, <1>4 DEF EInv, EventsTypeOK, pipe
<1>8. PipeInv'
  BY <1>3, <1>5, <1>6 DEF EInv, PipeInv, pipe
<1> QED BY <1>7, <1>8 DEF EInv

LEMMA NewResultTyped ==
    ASSUME EInv, "votes" \in Handlers, HasDetails
    PROVE  /\ hand["votes"] \in VoteLine
           /\ NewResult \in Result /\ NewResult.age = 0 /\ NewResult.vote = hand["votes"].vote
           /\ NewResult.success <=> active[From] = "success"
<1> active \in [Servers -> Outcomes]
  BY DEF EInv, EventsTypeOK
<1>1. hand["votes"] \in VoteLine /\ hand["votes"].type = "details"
  <2>1. at["votes"] = "busy" /\ hand["votes"].type = "details"
    BY DEF HasDetails
  <2>2. hand["votes"] # NoLine
    BY <2>1 DEF EInv, EventsTypeOK
  <2> QED BY <2>1, <2>2 DEF EInv, PipeInv
<1>2. hand["votes"].vote \in Votes
  BY <1>1, LineKinds
<1>3. NewResult \in Result
  <2>1. 0 \in 0 .. Window + 1
    BY DEF Window
  <2> QED BY <1>2, <2>1, Zenon DEF NewResult, Result
<1>4. /\ NewResult.age = 0 /\ NewResult.vote = hand["votes"].vote
      /\ NewResult.success <=> active[From] = "success"
  BY Zenon DEF NewResult
<1> QED BY <1>1, <1>2, <1>3, <1>4

LEMMA HeardTyped ==
    ASSUME EInv, "votes" \in Readers, at["votes"] = "busy", Heard
    PROVE  /\ "votes" \in Handlers /\ hand["votes"] \in VoteLine /\ From \in Servers
           /\ heard' \in [Servers -> MaybeLine]
<1>1. "votes" \in Handlers
  BY DEF Handlers
<1>2. hand["votes"] \in VoteLine
  BY <1>1 DEF EInv, EventsTypeOK, PipeInv
<1>3. hand["votes"] \in MaybeLine /\ From \in Servers
  BY <1>2, LineKinds DEF MaybeLine, From
<1> QED BY <1>1, <1>2, <1>3 DEF Heard, EInv, EventsTypeOK

LEMMA ReaderKeeps == ASSUME EInv, NEW r \in Readers, Reader(r), ~Consume(r), ~VotePanics PROVE EInv'
<1> /\ queue \in 0 .. NotifyCap /\ active \in [Servers -> Outcomes] /\ recent \subseteq Result
    /\ results \in Seq(Result) /\ NotifyCap \in Nat /\ heard \in [Servers -> MaybeLine]
  BY EventsAssumption DEF EInv, EventsTypeOK
<1>1. CASE Handle(r)
  BY <1>1, ReaderMoves DEF Handle, votes
<1>2. CASE r = "chat" /\ (ChatLooksUp \/ ChatNotifies)
  BY <1>2, ReaderMoves DEF ChatLooksUp, ChatNotifies, votes, Handlers
<1>3. CASE r = "votes" /\ VoteOutcome
  <2>1. /\ "votes" \in Handlers /\ hand["votes"] \in VoteLine /\ heard' \in [Servers -> MaybeLine]
        /\ at["votes"] = "busy"
    BY <1>3, HeardTyped DEF VoteOutcome
  <2>2. active' \in [Servers -> Outcomes]
    BY <1>3, <2>1, LineKinds DEF VoteOutcome, Outcomes
  <2> QED BY <1>3, <2>1, <2>2, ReaderMoves DEF VoteOutcome
<1>4. CASE r = "votes" /\ (VoteSkips \/ VoteAdds)
  <2>1. NewResult \in Result /\ "votes" \in Handlers
    BY <1>4, NewResultTyped DEF VoteSkips, VoteAdds, Handlers
  <2>2. active' \in [Servers -> Outcomes]
    BY <1>4 DEF VoteSkips, VoteAdds, ForgetOutcome, Outcomes
  <2>3. recent' \subseteq Result /\ results' \in Seq(Result)
    BY <1>4, <2>1 DEF VoteSkips, VoteAdds
  <2>4. at["votes"] = "busy" /\ heard' \in [Servers -> MaybeLine]
    BY <1>4, HeardTyped DEF VoteSkips, VoteAdds, HasDetails
  <2> QED BY <1>4, <2>1, <2>2, <2>3, <2>4, ReaderMoves DEF VoteSkips, VoteAdds
<1>5. CASE r = "votes" /\ (VoteLooksUp \/ VoteNotifies)
  BY <1>5, ReaderMoves DEF VoteLooksUp, VoteNotifies, votes, Handlers
<1> QED BY <1>1, <1>2, <1>3, <1>4, <1>5 DEF Reader

LEMMA OlderTyped ==
    \A r \in Result : /\ Older(r) \in Result
                      /\ Older(r).vote = r.vote /\ Older(r).success = r.success
                      /\ Older(r).age = IF r.age > Window THEN r.age ELSE r.age + 1
BY DEF Older, Result, Window

LEMMA ElapseTyped ==
    ASSUME EInv, Elapse
    PROVE  /\ results' \in Seq(Result) /\ Len(results') = Len(results)
           /\ \A i \in DOMAIN results : results'[i] = Older(results[i])
           /\ recent' \subseteq Result
<1>1. results \in Seq(Result) /\ recent \subseteq Result
  BY DEF EInv, EventsTypeOK
<1>2. \A i \in DOMAIN results : Older(results[i]) \in Result
  BY <1>1, OlderTyped
<1>3. results' = [i \in 1 .. Len(results) |-> Older(results[i])]
  BY <1>1 DEF Elapse
<1>4. results' \in Seq(Result) /\ Len(results') = Len(results)
  BY <1>1, <1>2, <1>3
<1> QED BY <1>1, <1>2, <1>3, <1>4, OlderTyped DEF Elapse

LEMMA OthersKeep ==
    ASSUME EInv, VoteCleanup \/ Sender \/ OthersNotify \/ Elapse \/ Restart PROVE EInv'
<1> queue \in 0 .. NotifyCap /\ NotifyCap \in Nat
  BY EventsAssumption DEF EInv, EventsTypeOK
<1>1. CASE VoteCleanup
  BY <1>1 DEF VoteCleanup, EInv, EventsTypeOK, PipeInv, pipe
<1>2. CASE Sender \/ OthersNotify
  BY <1>2 DEF Sender, OthersNotify, EInv, EventsTypeOK, PipeInv, pipe, votes
<1>3. CASE Elapse
  BY <1>3, ElapseTyped DEF Elapse, EInv, EventsTypeOK, PipeInv, pipe
<1>4. CASE Restart
  <2>1. registered' \in Seq(Readers) /\ IsInjective(registered') /\ results' \in Seq(Result)
    BY <1>4 DEF Restart, IsInjective
  <2>2. /\ at' \in [Readers -> {"off", "idle", "busy", "notify", "warn", "people"}]
        /\ hand' \in [Handlers -> MaybeLine]
        /\ \A r \in Handlers : (hand'[r] = NoLine) <=> at'[r] \in {"off", "idle"}
    BY <1>4 DEF Restart, Handlers, MaybeLine
  <2>3. active' \in [Servers -> Outcomes] /\ heard' \in [Servers -> MaybeLine]
    BY <1>4 DEF Restart, Outcomes, MaybeLine
  <2>4. /\ packet' = NoLine /\ emit' = Silent /\ queue' = 0 /\ recent' = {} /\ lines' = lines
        /\ registered' = <<>>
    BY <1>4 DEF Restart
  <2>5. EventsTypeOK'
    BY <2>1, <2>2, <2>3, <2>4 DEF EInv, EventsTypeOK, Silent, MaybeLine
  <2>6. PipeInv'
    BY <1>4, <2>4 DEF PipeInv, Silent, Restart
  <2> QED BY <2>5, <2>6 DEF EInv
<1> QED BY <1>1, <1>2, <1>3, <1>4

LEMMA StepEInv == EInv /\ [Next]_vars => EInv'
<1> SUFFICES ASSUME EInv, [Next]_vars PROVE EInv'
  OBVIOUS
<1>1. CASE UNCHANGED vars
  BY <1>1 DEF vars, memory, EInv, EventsTypeOK, PipeInv
<1>2. CASE \E r \in Readers : Reader(r)
  BY <1>2, ConsumeKeeps, ReaderKeeps, OthersKeep DEF Reader, VotePanics
<1>3. CASE (\E l \in Line : Receive(l)) \/ Listener
  BY <1>3, ListenerKeeps, SendKeeps DEF Listener
<1> QED BY <1>1, <1>2, <1>3, OthersKeep DEF Next

\* Every variable of the event path keeps its type, and a line is in hand exactly while
\* its reader handles it (broadcaster, chat and votes).
THEOREM EventsTyped == Spec => []EventsTypeOK
<1>1. EInv => EventsTypeOK
  BY DEF EInv
<1> QED BY <1>1, InitEInv, StepEInv, PTL DEF Spec

-----------------------------------------------------------------------------
(* Results and time.                                                       *)

\* A stored result within the window is remembered, as old as it is.
Remembered(res) == res.age <= Window => \E r \in recent : Twin(r, res) /\ r.age = res.age
TwinInv == \A i \in DOMAIN results : Remembered(results[i])

\* Apart from VoteAdds and the passing of time, only the cleanup changes what is remembered.
VotesAdd == "votes" \in Readers /\ VoteAdds

LEMMA RememberedBy ==
    ASSUME EInv, [Next]_vars, ~Elapse, ~VotesAdd, results' # <<>>
    PROVE  results' = results /\ (UNCHANGED recent \/ VoteCleanup)
<1>1. CASE \E r \in Readers : Reader(r)
  BY <1>1 DEF Reader, Consume, Handle, ChatLooksUp, ChatNotifies, VoteOutcome, VoteSkips, VoteLooksUp,
              VoteNotifies, VotePanics, Restart, votes, VotesAdd
<1>2. CASE ~(\E r \in Readers : Reader(r)) /\ ~UNCHANGED vars
  BY <1>2 DEF Next, Listener, Receive, EmitStarts, Send, EmitReturns, VoteCleanup, Sender, OthersNotify,
              Restart, votes
<1>3. CASE UNCHANGED vars
  BY <1>3 DEF vars, memory
<1> QED BY <1>1, <1>2, <1>3

LEMMA StepTwinInv == ASSUME EInv, TwinInv, [Next]_vars PROVE TwinInv'
<1> results \in Seq(Result) /\ recent \subseteq Result
  BY DEF EInv, EventsTypeOK
<1>1. CASE results' = <<>>
  BY <1>1 DEF TwinInv
<1>2. CASE Elapse
  <2> SUFFICES ASSUME NEW i \in DOMAIN results', results'[i].age <= Window
               PROVE  \E r \in recent' : Twin(r, results'[i]) /\ r.age = results'[i].age
    BY DEF TwinInv, Remembered
  <2>1. i \in DOMAIN results /\ results[i] \in Result /\ results'[i] = Older(results[i])
    BY <1>2, ElapseTyped
  <2>2. results[i].age <= Window /\ results'[i].age = results[i].age + 1
    BY <2>1, OlderTyped DEF Result, Window
  <2>3. PICK r \in recent : Twin(r, results[i]) /\ r.age = results[i].age
    BY <2>1, <2>2 DEF TwinInv, Remembered
  <2>4. Older(r) \in recent' /\ Twin(Older(r), results'[i]) /\ Older(r).age = results'[i].age
    BY <1>2, <2>1, <2>2, <2>3, OlderTyped DEF Elapse, Twin, Result, Window
  <2> QED BY <2>4
<1>3. CASE VotesAdd
  <2>1. NewResult \in Result /\ NewResult.age = 0
    BY <1>3, NewResultTyped DEF VotesAdd, VoteAdds, Handlers
  <2>2. recent' = recent \cup {NewResult} /\ results' \in {results, Append(results, NewResult)}
    BY <1>3 DEF VotesAdd, VoteAdds
  <2>3. \A i \in DOMAIN results' : \/ i \in DOMAIN results /\ results'[i] = results[i]
                                  \/ results'[i] = NewResult
    BY <2>1, <2>2
  <2>4. Twin(NewResult, NewResult)
    BY DEF Twin
  <2> QED BY <2>1, <2>2, <2>3, <2>4 DEF TwinInv, Remembered
<1>4. CASE results' # <<>> /\ ~Elapse /\ ~VotesAdd
  <2>1. results' = results /\ (UNCHANGED recent \/ VoteCleanup)
    BY <1>4, RememberedBy
  <2> QED BY <2>1 DEF TwinInv, Remembered, VoteCleanup
<1> QED BY <1>1, <1>2, <1>3, <1>4

LEMMA AddedIsNew ==
    ASSUME EInv, [Next]_vars, Added
    PROVE  VotesAdd /\ results' = Append(results, NewResult) /\ NewResult \in Result
<1> results \in Seq(Result)
  BY DEF EInv, EventsTypeOK
<1>1. results' # <<>> /\ results' # results /\ ~Elapse
  BY ElapseTyped DEF Added
<1>2. VotesAdd
  BY <1>1, RememberedBy
<1> QED BY <1>1, <1>2, NewResultTyped DEF VotesAdd, VoteAdds, Handlers

\* A process stores no result of the same server, people and outcome again before 20
\* seconds have passed (the comparison with recent results in Votes.Start).
THEOREM NoTwin == Spec => NoTwinWithinWindow
<1>1. Init => TwinInv
  BY DEF Init, Fresh, TwinInv
<1>2. EInv /\ TwinInv /\ [Next]_vars => TwinInv'
  BY StepTwinInv
<1>3. EInv /\ TwinInv /\ [Next]_vars
        => [Added => \A i \in 1 .. Len(results) :
                        Twin(results[i], Last(results')) => results[i].age > Window]_vars
  <2> SUFFICES ASSUME EInv, TwinInv, [Next]_vars, Added, NEW i \in 1 .. Len(results),
                      Twin(results[i], Last(results'))
               PROVE  results[i].age > Window
    OBVIOUS
  <2> results \in Seq(Result)
    BY DEF EInv, EventsTypeOK
  <2> results[i] \in Result
    OBVIOUS
  <2> results[i].age \in 0 .. Window + 1
    BY Zenon DEF Result
  <2> SUFFICES ASSUME results[i].age <= Window PROVE FALSE
    BY DEF Window
  <2>1. VotesAdd /\ results' = Append(results, NewResult) /\ NewResult \in Result
    BY AddedIsNew
  <2>2. Last(results') = NewResult /\ i \in DOMAIN results
    BY <2>1 DEF Last, EInv, EventsTypeOK
  <2>3. PICK r \in recent : Twin(r, results[i])
    BY <2>2 DEF TwinInv, Remembered
  <2>4. Twin(r, NewResult)
    BY <2>2, <2>3 DEF Twin
  <2> QED BY <2>1, <2>4 DEF VotesAdd, VoteAdds
<1> QED BY <1>1, <1>2, <1>3, InitEInv, StepEInv, PTL DEF Spec, NoTwinWithinWindow

-----------------------------------------------------------------------------
(* Outcomes.                                                               *)

\* What is left of the last line of a server: the outcome, if it was one.
Kept(l) == IF l = NoLine \/ l.type = "details" THEN "none" ELSE l.type

\* The outcomes the reader keeps are those of the lines it has handled last.
OutcomeInv == /\ heard \in [Servers -> VoteLine \cup {NoLine}]
              /\ \A s \in Servers : active[s] = Kept(heard[s])

LEMMA StepOutcomeInv == ASSUME EInv, OutcomeInv, [Next]_vars PROVE OutcomeInv'
<1> active \in [Servers -> Outcomes]
  BY DEF EInv, EventsTypeOK
<1>1. CASE UNCHANGED <<active, heard>>
  BY <1>1 DEF OutcomeInv
<1>2. CASE Restart
  BY <1>2 DEF Restart, OutcomeInv, Kept
<1>3. CASE "votes" \in Readers /\ (VoteOutcome \/ VoteSkips \/ VoteAdds)
  <2>1. /\ hand["votes"] \in VoteLine /\ From \in Servers
        /\ heard' = [heard EXCEPT ![From] = hand["votes"]]
    BY <1>3, HeardTyped DEF VoteOutcome, VoteSkips, VoteAdds, HasDetails, Heard
  <2>2. hand["votes"] # NoLine
    BY <2>1, LineKinds
  <2>3. active' = [active EXCEPT ![From] = Kept(hand["votes"])]
    BY <1>3, <2>2 DEF VoteOutcome, VoteSkips, VoteAdds, HasDetails, ForgetOutcome, Kept
  <2>4. heard' \in [Servers -> VoteLine \cup {NoLine}]
    BY <2>1 DEF OutcomeInv
  <2>5. \A s \in Servers : active'[s] = Kept(heard'[s])
    BY <2>1, <2>3 DEF OutcomeInv
  <2> QED BY <2>4, <2>5 DEF OutcomeInv, Kept
<1>4. CASE \E r \in Readers : Reader(r)
  BY <1>1, <1>2, <1>3, <1>4 DEF Reader, Consume, Handle, ChatLooksUp, ChatNotifies, VoteLooksUp, VoteNotifies,
                                VotePanics, votes
<1>5. CASE ~(\E r \in Readers : Reader(r)) /\ ~Restart
  BY <1>1, <1>5 DEF Next, Listener, Receive, EmitStarts, Send, EmitReturns, VoteCleanup, Sender, OthersNotify,
                    Elapse, votes, vars, memory
<1> QED BY <1>2, <1>4, <1>5

\* A vote whose own outcome was the last line of its server before its details is
\* stored as it was decided, and one without an outcome as failed, whatever was lost,
\* repeated or skipped before (VoteSuccess, VoteFailed and the details).
THEOREM OwnOutcome == Spec => OutcomeIsItsOwn
<1>1. Init => OutcomeInv
  BY DEF Init, Fresh, OutcomeInv, Kept
<1>2. EInv /\ OutcomeInv /\ [Next]_vars => OutcomeInv'
  BY StepOutcomeInv
<1> DEFINE Own == Added => LET v    == Last(results').vote
                               last == heard[ServerOf[v]]
                               success == Last(results').success
                           IN  /\ last = OutcomeOf(v) => (success <=> v \in Won)
                               /\ last = NoLine \/ last.type = "details" => ~success
<1>3. EInv /\ OutcomeInv /\ [Next]_vars => [Own]_vars
  <2> SUFFICES ASSUME EInv, OutcomeInv, [Next]_vars, Added PROVE Own
    OBVIOUS
  <2>1. VotesAdd /\ results' = Append(results, NewResult) /\ NewResult \in Result
    BY AddedIsNew
  <2>2. Last(results') = NewResult
    BY <2>1 DEF Last, EInv, EventsTypeOK
  <2>3. /\ NewResult.success <=> active[From] = "success"
        /\ NewResult.vote = hand["votes"].vote /\ hand["votes"] \in VoteLine
    BY <2>1, NewResultTyped DEF VotesAdd, VoteAdds, Handlers
  <2>4. From = ServerOf[NewResult.vote] /\ From \in Servers /\ active[From] = Kept(heard[From])
    BY <2>3, LineKinds DEF From, OutcomeInv
  <2> DEFINE v == NewResult.vote
  <2>5. v \in Votes
    BY <2>3, LineKinds
  <2>6. heard[From] = OutcomeOf(v) => (NewResult.success <=> v \in Won)
    <3> SUFFICES ASSUME heard[From] = OutcomeOf(v) PROVE NewResult.success <=> v \in Won
      OBVIOUS
    <3>1. heard[From].type = IF v \in Won THEN "success" ELSE "failed"
      BY DEF OutcomeOf
    <3>2. heard[From] # NoLine
      <4>1. heard[From] \in OutcomeLine
        BY <2>5 DEF OutcomeLine
      <4> QED BY <4>1, NoLineAssumption DEF AnyLine
    <3> QED BY <2>3, <2>4, <3>1, <3>2 DEF Kept
  <2>7. heard[From] = NoLine \/ heard[From].type = "details" => ~NewResult.success
    BY <2>3, <2>4 DEF Kept
  <2> QED BY <2>2, <2>4, <2>6, <2>7
<1> QED BY <1>1, <1>2, <1>3, InitEInv, StepEInv, PTL DEF Spec, OutcomeIsItsOwn
=============================================================================
