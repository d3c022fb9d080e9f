---------------------------- MODULE ForumProofs -----------------------------
(***************************************************************************)
(* Theorems about Forum, for any number of requests, threads and messages: *)
(* the types, that threads keep their first message, that the page leaves  *)
(* only deleted threads, that locks are passed only by requests somebody   *)
(* has overtaken, and that the count of threads is exact.                  *)
(***************************************************************************)
EXTENDS Forum, FiniteSetTheorems, TLAPS

\* The database numbers messages in order, so the first message of a thread is the one
\* with the least number.
Numbered == \E n \in 0 .. MaxMessages : Born = 1 .. n
IsOpener(m) == m \in Born /\ \A n \in Born : owner[n] = owner[m] => m <= n
ThreadsBorn == \A m \in Born : thread[owner[m]] # "unborn"

LEMMA MinIs ==
    ASSUME NEW S \in SUBSET Nat, NEW m \in S, \A n \in S : m <= n
    PROVE  Min(S) = m
<1>1. \A x \in S : (\A y \in S : x <= y) => x = m
  OBVIOUS
<1> QED BY <1>1 DEF Min

\* A set of message numbers that is not empty has a least one.
LEMMA FirstOf ==
    ASSUME NEW S \in SUBSET Nat, S # {} PROVE \E m \in S : \A n \in S : m <= n
<1>1. IsWellFoundedOn(OpToRel(<, Nat), Nat)
  BY NatLessThanWellFounded
<1>2. PICK m \in S : \A n \in S : ~(<<n, m>> \in OpToRel(<, Nat))
  BY <1>1, WFMin
<1>3. \A n \in S : ~(n < m)
  BY <1>2 DEF OpToRel
<1> QED BY <1>3

\* A request that is at work, as far as its own steps have settled it.
ClientInv(k) ==
    /\ k.pc \in {"insert", "count", "rollback"} => k.op = "create"
    /\ k.pc \in {"post", "parents"} => k.op \in {"create", "reply"}
    /\ k.pc \in {"count", "rollback", "post", "parents", "saveThread", "checkLock", "dropThread"} => k.thread \in Threads
    /\ k.pc \in {"checkLock", "saveThread"} => k.op \notin {"create", "remove"}
    /\ k.pc = "checkLock" => k.op = "reply"
    /\ k.pc \in {"checkMessage", "list", "remove", "decide"} => k.op = "remove"
    /\ k.pc \in {"checkLock", "post"} /\ k.op = "reply" => \E m \in Born : owner[m] = k.thread
    /\ k.op = "remove" => k.message \in Born /\ k.thread = owner[k.message]
    /\ k.pc = "remove" /\ IsOpener(k.message) /\ k.message \in present => k.first = k.message
    /\ k.pc \in {"decide", "dropThread", "readForum", "saveForum"} /\ k.op = "remove" => k.message \notin present
    /\ k.pc = "ok" => k.message \in Born /\ k.message \notin present

FInv == /\ ForumTypeOK /\ Numbered /\ ThreadsBorn
        /\ 1 \in Born /\ owner[1] = 1 /\ shown \subseteq Born
        /\ \A c \in Clients : ClientInv(client[c])

ClientRec == [pc : Pcs, op : Ops, thread : 0 .. MaxThreads, message : 0 .. MaxMessages,
              first : 0 .. MaxMessages, forum : Row, unlocked : BOOLEAN]

\* What no step ever undoes.
Grows == /\ \A m \in Born : m \in Born' /\ owner'[m] = owner[m] /\ (m \in present' => m \in present)
         /\ \A m \in Born : IsOpener(m)' => IsOpener(m)

LEMMA ClientInvStays == ASSUME NEW k, ClientInv(k), Grows PROVE ClientInv(k)'
BY DEF ClientInv, Grows

LEMMA NobodyInv == Nobody \in ClientRec /\ ClientInv(Nobody)
<1>1. Nobody \in ClientRec
  <2>1. Nobody.forum \in Row /\ MaxThreads \in Nat /\ MaxMessages \in Nat
    BY ForumAssumption DEF Nobody, Row
  <2> QED BY <2>1 DEF Nobody, ClientRec, Pcs, Ops
<1> QED BY <1>1 DEF Nobody, ClientInv

-----------------------------------------------------------------------------
(* Steps that leave the tables alone.                                      *)

LEMMA Quiet ==
    ASSUME FInv, UNCHANGED dbVars PROVE Grows /\ Numbered' /\ ThreadsBorn' /\ 1 \in Born' /\ owner'[1] = 1
BY DEF FInv, dbVars, Grows, Born, IsOpener, Numbered, ThreadsBorn

LEMMA QuietClient ==
    ASSUME FInv, UNCHANGED <<dbVars, shown>>, NEW c \in Clients, NEW k \in ClientRec, ClientInv(k),
           client' = [client EXCEPT ![c] = k], left' \in BOOLEAN, broken' \in BOOLEAN, overlap' \in BOOLEAN
    PROVE  FInv'
<1>1. \A d \in Clients : client'[d] = IF d = c THEN k ELSE client[d]
  BY DEF FInv, ForumTypeOK
<1>2. \A d \in Clients : ClientInv(client'[d])
  BY <1>1 DEF FInv
<1>3. \A d \in Clients : ClientInv(client'[d]) => ClientInv(client[d])'
  BY ClientInvStays, Quiet DEF ClientInv, dbVars, Born, IsOpener
<1>4. client' \in [Clients -> ClientRec]
  BY DEF FInv, ForumTypeOK, ClientRec
<1>5. ForumTypeOK'
  BY <1>4 DEF FInv, ForumTypeOK, ClientRec, dbVars, Born
<1> QED BY <1>2, <1>3, <1>5, Quiet DEF FInv, dbVars, Born

\* A request ends.
LEMMA Ended ==
    ASSUME FInv, UNCHANGED <<dbVars, shown>>, NEW c \in Clients, NEW pc \in {"ok", "error", "read"}, Ends(c, pc),
           pc = "ok" /\ client[c].op = "remove" => client[c].message \notin present,
           left' \in BOOLEAN, broken' \in BOOLEAN, overlap' \in BOOLEAN
    PROVE  FInv'
<1>1. client[c] \in ClientRec /\ ClientInv(client[c]) /\ Nobody \in ClientRec
  BY NobodyInv DEF FInv, ForumTypeOK, ClientRec
<1>2. CASE pc = "ok" /\ c = Viewer /\ client[c].op = "remove"
  <2> DEFINE k == [Nobody EXCEPT !.pc = "ok", !.message = client[c].message]
  <2>1. client' = [client EXCEPT ![c] = k]
    BY <1>2 DEF Ends
  <2>2. k \in ClientRec
    BY <1>1 DEF ClientRec, Pcs
  <2>3. k.pc = "ok" /\ k.op = "none" /\ k.message = client[c].message
    BY DEF Nobody
  <2>4. client[c].message \in Born /\ client[c].message \notin present
    BY <1>1, <1>2 DEF ClientInv
  <2> HIDE DEF k
  <2>5. ClientInv(k)
    BY <2>3, <2>4 DEF ClientInv
  <2> QED BY <2>1, <2>2, <2>5, QuietClient
<1>3. CASE ~(pc = "ok" /\ c = Viewer /\ client[c].op = "remove")
  BY <1>3, NobodyInv, QuietClient DEF Ends
<1> QED BY <1>2, <1>3

\* A request goes on with what it has.
LEMMA Gone ==
    ASSUME FInv, UNCHANGED <<dbVars, shown>>, NEW c \in Clients, NEW pc \in Pcs, Goes(c, pc),
           ClientInv([client[c] EXCEPT !.pc = pc]),
           left' \in BOOLEAN, broken' \in BOOLEAN, overlap' \in BOOLEAN
    PROVE  FInv'
<1>1. client[c] \in ClientRec
  BY DEF FInv, ForumTypeOK, ClientRec
<1>2. [client[c] EXCEPT !.pc = pc] \in ClientRec
  BY <1>1 DEF ClientRec
<1> QED BY <1>2, QuietClient DEF Goes

\* A request begins.
Begun(pc, op, t, m, u) == [Nobody EXCEPT !.pc = pc, !.op = op, !.thread = t, !.message = m, !.unlocked = u]

LEMMA BeginsKeeps ==
    ASSUME FInv, NEW c \in Clients, NEW pc \in Pcs, NEW op \in Ops, NEW t \in 0 .. MaxThreads,
           NEW m \in 0 .. MaxMessages, Begins(c, pc, op, t, m),
           \A u \in BOOLEAN : ClientInv(Begun(pc, op, t, m, u))
    PROVE  FInv'
<1>1. PICK u \in BOOLEAN : client' = [client EXCEPT ![c] = Begun(pc, op, t, m, u)]
  <2> DEFINE u == op = "reply" /\ thread[t] = "open"
  <2>1. u \in BOOLEAN /\ client' = [client EXCEPT ![c] = Begun(pc, op, t, m, u)]
    BY Zenon DEF Begins, Begun
  <2> QED BY <2>1
<1>2. Begun(pc, op, t, m, u) \in ClientRec
  BY NobodyInv DEF Begun, ClientRec
<1>3. UNCHANGED <<dbVars, shown>> /\ left' \in BOOLEAN /\ broken' \in BOOLEAN /\ overlap' \in BOOLEAN
  BY DEF Begins, FInv, ForumTypeOK, pageVars
<1> QED BY <1>1, <1>2, <1>3, QuietClient

Asks(c) == \/ AskCreate(c) \/ AskForum(c)
           \/ \E t \in Threads : AskReply(c, t) \/ AskEdit(c, t) \/ AskDelete(c, t)
           \/ \E m \in Messages : AskRemove(c, m)

LEMMA AsksKeep == ASSUME FInv, NEW c \in Clients, Asks(c) PROVE FInv'
<1> /\ owner \in [Messages -> 0 .. MaxThreads] /\ present \subseteq Born /\ Born \subseteq Messages
    /\ shown \subseteq Born /\ MaxThreads \in Nat /\ MaxMessages \in Nat
    /\ Threads \subseteq 0 .. MaxThreads /\ Messages \subseteq 0 .. MaxMessages
  BY ForumAssumption DEF FInv, ForumTypeOK, Born, Threads, Messages
<1>1. CASE AskCreate(c) \/ AskForum(c)
  BY <1>1, BeginsKeeps DEF AskCreate, AskForum, Pcs, Ops, Begun, Nobody, ClientInv
<1>2. ASSUME NEW t \in Threads, AskReply(c, t) PROVE FInv'
  <2>1. PICK m \in Born : owner[m] = t
    BY <1>2 DEF AskReply, Listed, Of
  <2>2. \A u \in BOOLEAN : ClientInv(Begun("checkLock", "reply", t, 0, u))
    BY <2>1 DEF Begun, Nobody, ClientInv
  <2> QED BY <1>2, <2>2, BeginsKeeps DEF AskReply, Pcs, Ops
<1>3. ASSUME NEW t \in Threads, AskEdit(c, t) PROVE FInv'
  BY <1>3, BeginsKeeps DEF AskEdit, Pcs, Ops, Begun, Nobody, ClientInv
<1>4. ASSUME NEW t \in Threads, AskDelete(c, t) PROVE FInv'
  BY <1>4, BeginsKeeps DEF AskDelete, Pcs, Ops, Begun, Nobody, ClientInv
<1>5. ASSUME NEW m \in Messages, AskRemove(c, m) PROVE FInv'
  <2>1. m \in Born
    BY <1>5 DEF AskRemove
  <2>2. \A u \in BOOLEAN : ClientInv(Begun("checkMessage", "remove", owner[m], m, u))
    BY <2>1 DEF Begun, Nobody, ClientInv
  <2> QED BY <1>5, <2>2, BeginsKeeps DEF AskRemove, Pcs, Ops
<1> QED BY <1>1, <1>2, <1>3, <1>4, <1>5 DEF Asks

LEMMA GoesIfKeeps ==
    ASSUME FInv, UNCHANGED <<dbVars, shown>>, NEW c \in Clients, NEW q, NEW pc \in Pcs, GoesIf(q, c, pc),
           q => ClientInv([client[c] EXCEPT !.pc = pc]),
           left' \in BOOLEAN, broken' \in BOOLEAN, overlap' \in BOOLEAN
    PROVE  FInv'
BY Gone, Ended DEF GoesIf

\* Steps of a request that leave the tables alone.
Reads(c) == \/ PostOrphaned(c) \/ ReadParents(c) \/ CheckLock(c) \/ CheckMessage(c) \/ ListMessages(c)
            \/ Decide(c) \/ ReadForum(c) \/ Reply(c) \/ StatementFails(c)

LEMMA ReadsKeep == ASSUME FInv, NEW c \in Clients, Reads(c) PROVE FInv'
<1> DEFINE k == client[c]
<1>0. /\ k \in ClientRec /\ ClientInv(k) /\ {left, broken, overlap} \subseteq BOOLEAN
      /\ owner \in [Messages -> 0 .. MaxThreads] /\ present \subseteq Born /\ Born \subseteq Messages
      /\ MaxThreads \in Nat /\ MaxMessages \in Nat /\ forum \in Row
      /\ {"rollback", "post", "list", "dropThread"} \subseteq Pcs
  BY ForumAssumption DEF FInv, ForumTypeOK, ClientRec, Born, Pcs
<1>1. CASE PostOrphaned(c) \/ ReadParents(c)
  <2>1. /\ k.pc \in {"post", "parents"} /\ UNCHANGED <<dbVars, pageVars, broken, overlap>>
        /\ GoesIf(k.op = "create", c, "rollback") \/ (Ends(c, "ok") /\ k.pc = "parents")
    BY <1>1 DEF PostOrphaned, ReadParents, At, Rest
  <2>2. k.op = "create" => ClientInv([k EXCEPT !.pc = "rollback"])
    BY <1>0, <2>1 DEF ClientInv, ClientRec
  <2>3. k.op # "remove"
    BY <1>0, <2>1 DEF ClientInv
  <2> QED BY <1>0, <2>1, <2>2, <2>3, GoesIfKeeps, Ended DEF pageVars
<1>2. CASE CheckLock(c)
  <2>1. ClientInv([k EXCEPT !.pc = "post"])
    BY <1>0, <1>2 DEF CheckLock, At, ClientInv, ClientRec
  <2> QED BY <1>0, <1>2, <2>1, GoesIfKeeps DEF CheckLock, Rest, pageVars
<1>3. CASE CheckMessage(c)
  <2>1. ClientInv([k EXCEPT !.pc = "list"])
    BY <1>0, <1>3 DEF CheckMessage, At, ClientInv, ClientRec
  <2> QED BY <1>0, <1>3, <2>1, GoesIfKeeps DEF CheckMessage, Rest, pageVars
<1>4. CASE ListMessages(c)
  <2> DEFINE f == First(Of(k.thread))
             j == [k EXCEPT !.pc = "remove", !.first = f]
  <2>1. k.pc = "list" /\ k.op = "remove" /\ k.message \in Born /\ k.thread = owner[k.message]
        /\ client' = [client EXCEPT ![c] = j]
    BY <1>0, <1>4 DEF ListMessages, At, ClientInv
  <2>2. Of(k.thread) \subseteq Messages /\ \A m \in Of(k.thread) : m \in Born /\ owner[m] = k.thread
    BY <1>0 DEF Of
  <2>3. IsOpener(k.message) /\ k.message \in present => f = k.message
    <3> SUFFICES ASSUME IsOpener(k.message), k.message \in present PROVE f = k.message
      OBVIOUS
    <3>1. k.message \in Of(k.thread) /\ \A n \in Of(k.thread) : k.message <= n
      BY <2>1, <2>2 DEF IsOpener, Of
    <3>2. Of(k.thread) \in SUBSET Nat
      BY <1>0, <2>2 DEF Messages
    <3> QED BY <3>1, <3>2, MinIs DEF First
  <2>4. f \in 0 .. MaxMessages
    <3>1. CASE Of(k.thread) = {}
      BY <1>0, <3>1 DEF First
    <3>2. CASE Of(k.thread) # {}
      <4>1. \E m \in Of(k.thread) : \A n \in Of(k.thread) : m <= n
        <5>1. Of(k.thread) \in SUBSET Nat
          BY <1>0, <2>2 DEF Messages
        <5> HIDE DEF f, j
        <5> QED BY <3>2, <5>1, FirstOf
      <4>2. Min(Of(k.thread)) \in Of(k.thread)
        BY <4>1 DEF Min
      <4> QED BY <1>0, <2>2, <3>2, <4>2 DEF First, Messages
    <3> QED BY <3>1, <3>2
  <2>5. j \in ClientRec
    BY <1>0, <2>4 DEF ClientRec, Pcs
  <2>6. j.pc = "remove" /\ j.op = k.op /\ j.message = k.message /\ j.thread = k.thread /\ j.first = f
    BY <1>0 DEF ClientRec
  <2> HIDE DEF j, f
  <2>7. ClientInv(j)
    BY <2>1, <2>3, <2>6 DEF ClientInv
  <2> QED BY <1>0, <1>4, <2>1, <2>5, <2>7, QuietClient DEF ListMessages, Rest, pageVars
<1>5. CASE Decide(c)
  <2>1. k.pc = "decide" /\ k.op = "remove" /\ k.message \in Born \ present /\ k.thread = owner[k.message]
    BY <1>0, <1>5 DEF Decide, At, ClientInv
  <2>2. k.thread \in Threads
    BY <1>0, <2>1 DEF Born, Threads
  <2>3. ClientInv([k EXCEPT !.pc = "dropThread"])
    BY <1>0, <2>1, <2>2 DEF ClientInv, ClientRec
  <2>4. Ends(c, "error") \/ Ends(c, "ok") \/ Goes(c, "dropThread")
    BY <1>5 DEF Decide
  <2>5. UNCHANGED <<dbVars, pageVars, broken, overlap>>
    BY <1>5 DEF Decide, Rest
  <2> QED BY <1>0, <2>1, <2>3, <2>4, <2>5, Gone, Ended DEF pageVars
<1>6. CASE ReadForum(c)
  <2> DEFINE j == [k EXCEPT !.pc = "saveForum", !.forum = forum]
  <2>1. k.pc = "readForum" /\ client' = [client EXCEPT ![c] = j]
    BY <1>6 DEF ReadForum, At
  <2>2. j \in ClientRec /\ ClientInv(j)
    BY <1>0, <2>1 DEF ClientRec, Pcs, ClientInv
  <2> QED BY <1>0, <1>6, <2>1, <2>2, QuietClient DEF ReadForum, Rest, pageVars
<1>7. CASE Reply(c)
  <2>1. left' \in BOOLEAN
    BY <1>0, <1>7 DEF Reply
  <2> QED BY <1>0, <1>7, <2>1, Ended DEF Reply
<1>8. CASE StatementFails(c)
  <2>1. k.pc \in {"post", "parents"} /\ k.op = "create" => ClientInv([k EXCEPT !.pc = "rollback"])
    BY <1>0 DEF ClientInv, ClientRec
  <2> QED BY <1>0, <1>8, <2>1, GoesIfKeeps DEF StatementFails, pageVars
<1> QED BY <1>1, <1>2, <1>3, <1>4, <1>5, <1>6, <1>7, <1>8 DEF Reads

-----------------------------------------------------------------------------
(* Steps that write.                                                       *)

TablesTyped == /\ thread \in [Threads -> {"unborn", "open", "locked", "deleted"}]
               /\ owner \in [Messages -> 0 .. MaxThreads] /\ present \subseteq Born
               /\ forum \in Row

LEMMA Writes ==
    ASSUME FInv, NEW c \in Clients, NEW k \in ClientRec, TablesTyped', Grows, Numbered', ThreadsBorn',
           client' = [client EXCEPT ![c] = k], ClientInv(k)', UNCHANGED Rest
    PROVE  FInv'
<1>1. \A d \in Clients : client'[d] = IF d = c THEN k ELSE client[d]
  BY DEF FInv, ForumTypeOK
<1>2. \A d \in Clients : ClientInv(client[d]) => ClientInv(client[d])'
  <2> SUFFICES ASSUME NEW d \in Clients, ClientInv(client[d]) PROVE ClientInv(client[d])'
    OBVIOUS
  <2>1. CASE d = c
    BY <1>1, <2>1 DEF ClientInv
  <2>2. CASE d # c
    <3>1. client'[d] = client[d]
      BY <1>1, <2>2
    <3> QED BY <3>1 DEF ClientInv, Grows
  <2> QED BY <2>1, <2>2
<1>3. client' \in [Clients -> ClientRec]
  BY DEF FInv, ForumTypeOK, ClientRec
<1>4. ForumTypeOK'
  BY <1>3 DEF FInv, ForumTypeOK, TablesTyped, ClientRec, Rest, pageVars
<1>5. 1 \in Born' /\ owner'[1] = 1 /\ shown' \subseteq Born'
  BY DEF FInv, Grows, Rest, pageVars
<1> QED BY <1>2, <1>4, <1>5 DEF FInv

LEMMA Tables == ASSUME FInv PROVE TablesTyped /\ Born \subseteq Messages /\ \A m \in Born : owner[m] \in Threads
BY ForumAssumption DEF FInv, ForumTypeOK, TablesTyped, Born, Threads

LEMMA SameMessages ==
    ASSUME FInv, UNCHANGED owner, present' \subseteq present
    PROVE  Grows /\ Numbered' /\ Born' = Born /\ present' \subseteq Born'
BY DEF Grows, Numbered, Born, IsOpener, FInv, ForumTypeOK

\* The client c goes on to pc and is otherwise as it was.
LEMMA Advances ==
    ASSUME FInv, NEW c \in Clients, NEW pc \in Pcs, Goes(c, pc), TablesTyped', Grows, Numbered', ThreadsBorn',
           ClientInv([client[c] EXCEPT !.pc = pc])', UNCHANGED Rest
    PROVE  FInv'
<1>1. client[c] \in ClientRec
  BY DEF FInv, ForumTypeOK, ClientRec
<1> DEFINE k == [client[c] EXCEPT !.pc = pc]
<1>2. k \in ClientRec
  BY <1>1 DEF ClientRec
<1>3. client' = [client EXCEPT ![c] = k]
  BY DEF Goes
<1>4. ASSUME NEW j, j = k PROVE ClientInv(j)'
  <2> client'[c] = k
    BY <1>3 DEF FInv, ForumTypeOK
  <2> QED BY <1>4 DEF ClientInv
<1> QED BY <1>2, <1>3, <1>4, Writes

LEMMA DropKeeps ==
    ASSUME FInv, NEW t \in Threads, DropThread(t)
    PROVE  TablesTyped' /\ Grows /\ Numbered' /\ ThreadsBorn' /\ present' \subseteq present /\ Born' = Born
<1>1. UNCHANGED owner /\ present' \subseteq present
  BY DEF DropThread
<1>2. thread' = [thread EXCEPT ![t] = IF Alive(t) THEN "deleted" ELSE thread[t]]
  BY DEF DropThread
<1>3. thread' \in [Threads -> {"unborn", "open", "locked", "deleted"}]
      /\ \A u \in Threads : thread[u] # "unborn" => thread'[u] # "unborn"
  BY <1>2, Tables DEF TablesTyped, Alive
<1>4. forum' \in Row
  BY Tables, ForumAssumption DEF DropThread, TablesTyped, Row
<1> QED BY <1>1, <1>3, <1>4, SameMessages, Tables DEF TablesTyped, ThreadsBorn, FInv

LEMMA InsertKeeps ==
    ASSUME FInv, NEW t \in Threads, Alive(t), InsertMessage(t)
    PROVE  /\ TablesTyped' /\ Grows /\ Numbered' /\ ThreadsBorn'
           /\ \E m \in Messages \ Born : /\ Born' = Born \cup {m} /\ present' = present \cup {m}
                                        /\ owner' = [owner EXCEPT ![m] = t]
                                        /\ \A n \in Born : n < m
<1> DEFINE m == Min(Messages \ Born)
<1>1. PICK n \in 0 .. MaxMessages : Born = 1 .. n
  BY DEF FInv, Numbered
<1>2. MaxMessages \in Nat /\ Messages = 1 .. MaxMessages /\ n # MaxMessages /\ MaxThreads \in Nat
  BY <1>1, ForumAssumption DEF InsertMessage, Messages
<1>3. m = n + 1
  BY <1>1, <1>2, MinIs
<1>5. owner' = [owner EXCEPT ![m] = t] /\ present' = present \cup {m} /\ UNCHANGED <<thread, forum>>
  BY DEF InsertMessage
<1> HIDE DEF m
<1>4. m \in Messages \ Born /\ \A i \in Born : i < m
  <2>1. n \in Nat /\ n < MaxMessages
    BY <1>2
  <2> QED BY <1>1, <1>2, <1>3, <2>1
<1>6. owner \in [Messages -> 0 .. MaxThreads] /\ t \in 1 .. MaxThreads /\ present \subseteq Born
  BY Tables DEF TablesTyped, Threads
<1>7. owner' \in [Messages -> 0 .. MaxThreads] /\ owner'[m] = t /\ \A i \in Messages \ {m} : owner'[i] = owner[i]
  BY <1>2, <1>4, <1>5, <1>6
<1>8. Born' = Born \cup {m}
  BY <1>2, <1>4, <1>6, <1>7 DEF Born
<1>9. Numbered'
  BY <1>1, <1>2, <1>3, <1>8 DEF Numbered
<1>10. Grows
  BY <1>4, <1>5, <1>7, <1>8, Tables DEF Grows, IsOpener
<1>11. ThreadsBorn'
  BY <1>4, <1>5, <1>7, <1>8, Tables DEF ThreadsBorn, FInv, Alive
<1>12. TablesTyped'
  BY <1>5, <1>6, <1>7, <1>8, Tables DEF TablesTyped
<1> QED BY <1>4, <1>5, <1>8, <1>9, <1>10, <1>11, <1>12

WritesTables(c) == \/ CreateThread(c) \/ CountThread(c) \/ Post(c) \/ RollBack(c) \/ DeleteThread(c)
                   \/ RemoveMessage(c) \/ SaveForum(c)

LEMMA WritesKeep == ASSUME FInv, NEW c \in Clients, WritesTables(c) PROVE FInv'
<1> DEFINE k == client[c]
<1>0. k \in ClientRec /\ ClientInv(k) /\ TablesTyped /\ Born \subseteq Messages
      /\ {"count", "post", "parents", "readForum", "decide"} \subseteq Pcs /\ ThreadsBorn
      /\ MaxThreads \in Nat
  BY Tables, ForumAssumption DEF FInv, ForumTypeOK, ClientRec, Pcs
<1>1. CASE CreateThread(c)
  <2>1. PICK t \in Threads, st \in {"open", "locked"} :
          /\ thread[t] = "unborn" /\ thread' = [thread EXCEPT ![t] = st]
          /\ client' = [client EXCEPT ![c].pc = "count", ![c].thread = t]
    BY <1>1 DEF CreateThread
  <2>2. k.pc = "insert" /\ k.op = "create" /\ UNCHANGED <<owner, present, forum, Rest>>
    BY <1>0, <1>1 DEF CreateThread, At, ClientInv
  <2>3. PICK j : j = [k EXCEPT !.pc = "count", !.thread = t] /\ client' = [client EXCEPT ![c] = j]
    BY <2>1
  <2>4. j \in ClientRec
    <3>1. t \in 0 .. MaxThreads /\ "count" \in Pcs /\ k \in ClientRec
      BY <1>0 DEF Threads
    <3> QED BY <2>3, <3>1 DEF ClientRec
  <2>5. ClientInv(j)'
    <3>1. j.pc = "count" /\ j.op = "create" /\ j.thread = t
      BY <1>0, <2>2, <2>3 DEF ClientRec
    <3> QED BY <3>1 DEF ClientInv
  <2>6. Grows /\ Numbered' /\ Born' = Born
    BY <2>2, SameMessages
  <2>7. TablesTyped' /\ ThreadsBorn'
    BY <1>0, <2>1, <2>2, <2>6, Tables DEF TablesTyped, ThreadsBorn
  <2> QED BY <2>2, <2>3, <2>4, <2>5, <2>6, <2>7, Writes
<1>2. CASE CountThread(c)
  <2>1. /\ k.pc = "count" /\ Goes(c, "post") /\ UNCHANGED <<thread, owner, present, Rest>>
        /\ forum' = [threads |-> forum.threads + 1, last |-> k.thread]
    BY <1>2 DEF CountThread, At
  <2>2. forum' \in Row
    BY <1>0, <2>1 DEF Row, ClientInv, Threads, TablesTyped
  <2>3. Grows /\ Numbered' /\ ThreadsBorn' /\ TablesTyped'
    BY <1>0, <2>1, <2>2, SameMessages DEF ThreadsBorn, TablesTyped
  <2>4. ClientInv([k EXCEPT !.pc = "post"])'
    BY <1>0, <2>1, <2>3 DEF ClientInv, ClientRec, Goes, Grows
  <2> QED BY <1>0, <2>1, <2>3, <2>4, Advances
<1>3. CASE Post(c)
  <2>1. /\ k.pc = "post" /\ k.thread \in Threads /\ Alive(k.thread) /\ InsertMessage(k.thread)
        /\ Goes(c, "parents") /\ UNCHANGED Rest /\ k.op \in {"create", "reply"}
    BY <1>0, <1>3 DEF Post, At, ClientInv
  <2>2. TablesTyped' /\ Grows /\ Numbered' /\ ThreadsBorn'
    BY <2>1, InsertKeeps
  <2>3. ClientInv([k EXCEPT !.pc = "parents"])'
    BY <1>0, <2>1, <2>2 DEF ClientInv, ClientRec, Goes, Grows
  <2> QED BY <1>0, <2>1, <2>2, <2>3, Advances
<1>4. CASE RollBack(c)
  <2>1. k.pc = "rollback" /\ k.op = "create" /\ k.thread \in Threads /\ DropThread(k.thread)
        /\ client' = [client EXCEPT ![c] = Nobody] /\ UNCHANGED Rest
    BY <1>0, <1>4 DEF RollBack, At, ClientInv, Ends
  <2>2. ClientInv(Nobody)'
    BY DEF ClientInv, Nobody
  <2> QED BY <2>1, <2>2, DropKeeps, NobodyInv, Writes
<1>5. CASE DeleteThread(c)
  <2>1. k.pc = "dropThread" /\ k.thread \in Threads /\ DropThread(k.thread) /\ Goes(c, "readForum") /\ UNCHANGED Rest
    BY <1>0, <1>5 DEF DeleteThread, At, ClientInv
  <2>2. TablesTyped' /\ Grows /\ Numbered' /\ ThreadsBorn'
    BY <2>1, DropKeeps
  <2>3. ClientInv([k EXCEPT !.pc = "readForum"])'
    BY <1>0, <2>1, <2>2 DEF ClientInv, ClientRec, Goes, Grows
  <2> QED BY <1>0, <2>1, <2>2, <2>3, Advances
<1>6. CASE RemoveMessage(c)
  <2>1. k.pc = "remove" /\ k.op = "remove" /\ present' = present \ {k.message} /\ Goes(c, "decide")
        /\ UNCHANGED <<thread, owner, forum, Rest>>
    BY <1>0, <1>6 DEF RemoveMessage, At, ClientInv
  <2>2. Grows /\ Numbered' /\ ThreadsBorn' /\ TablesTyped'
    BY <1>0, <2>1, SameMessages DEF ThreadsBorn, TablesTyped
  <2>3. ClientInv([k EXCEPT !.pc = "decide"])'
    BY <1>0, <2>1, <2>2 DEF ClientInv, ClientRec, Goes, Grows
  <2> QED BY <1>0, <2>1, <2>2, <2>3, Advances
<1>7. CASE SaveForum(c)
  <2>1. k.pc = "saveForum" /\ (Ends(c, "ok") \/ Ends(c, "error")) /\ UNCHANGED <<thread, owner, present, Rest>>
        /\ forum' \in {forum, Saved(c)}
    BY <1>7 DEF SaveForum, At
  <2>2. Saved(c) \in Row
    BY <1>0 DEF Saved, Less, Row, ClientRec
  <2>3. Grows /\ Numbered' /\ ThreadsBorn' /\ TablesTyped'
    BY <1>0, <2>1, <2>2, SameMessages DEF ThreadsBorn, TablesTyped
  <2>4. PICK j : /\ client' = [client EXCEPT ![c] = j]
                 /\ \/ j = Nobody
                    \/ j = [Nobody EXCEPT !.pc = "ok", !.message = k.message] /\ k.op = "remove"
    BY <2>1 DEF Ends
  <2>5. j \in ClientRec /\ ClientInv(j)'
    <3>1. CASE j = Nobody
      BY <3>1, NobodyInv DEF ClientInv, Nobody
    <3>2. CASE j = [Nobody EXCEPT !.pc = "ok", !.message = k.message] /\ k.op = "remove"
      <4>1. j \in ClientRec
        BY <1>0, <3>2, NobodyInv DEF ClientRec, Pcs
      <4>2. k.message \in Born' /\ k.message \notin present'
        BY <1>0, <2>1, <3>2 DEF ClientInv, Born
      <4>3. j.pc = "ok" /\ j.message = k.message /\ j.op = "none"
        BY <3>2 DEF Nobody
      <4> QED BY <4>1, <4>2, <4>3 DEF ClientInv
    <3> QED BY <2>4, <3>1, <3>2
  <2> QED BY <2>1, <2>3, <2>4, <2>5, Writes
<1> QED BY <1>1, <1>2, <1>3, <1>4, <1>5, <1>6, <1>7 DEF WritesTables

LEMMA SaveThreadKeeps == ASSUME FInv, NEW c \in Clients, SaveThread(c) PROVE FInv'
<1> DEFINE t == client[c].thread
<1>0. t \in Threads /\ TablesTyped /\ Born \subseteq Messages
  BY Tables DEF FInv, ClientInv, SaveThread, At
<1>1. /\ \E s \in {"open", "locked"} : thread' = [thread EXCEPT ![t] = IF Alive(t) THEN s ELSE thread[t]]
      /\ UNCHANGED <<owner, present, forum, Rest>>
  BY DEF SaveThread
<1>2. Grows /\ Numbered' /\ Born' = Born
  BY <1>1, SameMessages
<1>3. TablesTyped' /\ ThreadsBorn'
  BY <1>0, <1>1, <1>2, Tables DEF TablesTyped, ThreadsBorn, Alive, FInv
<1>4. \A d \in Clients : /\ client[d] \in ClientRec /\ ClientInv(client[d])
                         /\ client'[d] \in {Nobody, client[d], [client[d] EXCEPT !.unlocked = TRUE]}
  BY DEF SaveThread, FInv, ForumTypeOK, ClientRec
<1>5. \A d \in Clients : client'[d] \in ClientRec
  <2> SUFFICES ASSUME NEW d \in Clients PROVE client'[d] \in ClientRec
    OBVIOUS
  <2>1. [client[d] EXCEPT !.unlocked = TRUE] \in ClientRec
    BY <1>4 DEF ClientRec
  <2> QED BY <1>4, <2>1, NobodyInv
<1>6. \A d \in Clients : ClientInv(client[d])'
  <2> SUFFICES ASSUME NEW d \in Clients PROVE ClientInv(client[d])'
    OBVIOUS
  <2>1. CASE client'[d] = Nobody
    BY <2>1 DEF ClientInv, Nobody
  <2>2. CASE client'[d] \in {client[d], [client[d] EXCEPT !.unlocked = TRUE]}
    <3>1. /\ client'[d].pc = client[d].pc /\ client'[d].op = client[d].op /\ client'[d].thread = client[d].thread
          /\ client'[d].message = client[d].message /\ client'[d].first = client[d].first
      BY <1>4, <2>2 DEF ClientRec
    <3>2. ClientInv(client[d])
      BY <1>4
    <3> QED BY <1>2, <3>1, <3>2 DEF ClientInv, Grows
  <2> QED BY <1>4, <2>1, <2>2
<1>7. client' \in [Clients -> ClientRec]
  BY <1>5 DEF SaveThread
<1>8. ForumTypeOK'
  BY <1>1, <1>3, <1>7 DEF FInv, ForumTypeOK, TablesTyped, ClientRec, Rest, pageVars
<1> QED BY <1>1, <1>2, <1>3, <1>6, <1>8 DEF FInv, Grows, Rest, pageVars

LEMMA OthersKeep == ASSUME FInv, FetchMessages \/ ProcessDies PROVE FInv'
<1>1. CASE FetchMessages
  <2>1. shown' \subseteq Born
    BY <1>1 DEF FetchMessages, Of, FInv, ForumTypeOK
  <2>2. ForumTypeOK'
    BY <1>1, <2>1, Tables DEF FetchMessages, FInv, ForumTypeOK, dbVars, Born
  <2>3. \A d \in Clients : ClientInv(client[d])'
    BY <1>1 DEF FetchMessages, FInv, ClientInv, dbVars, Born, IsOpener
  <2> QED BY <1>1, <2>1, <2>2, <2>3, Quiet DEF FetchMessages, dbVars, Born, FInv
<1>2. CASE ProcessDies
  <2>1. client' = [c \in Clients |-> Nobody] /\ UNCHANGED <<dbVars, pageVars, overlap>> /\ broken' = TRUE
    BY <1>2 DEF ProcessDies
  <2>2. \A d \in Clients : ClientInv(client[d])'
    BY <2>1 DEF ClientInv, Nobody
  <2>3. client' \in [Clients -> ClientRec]
    BY <2>1, NobodyInv
  <2>4. ForumTypeOK'
    BY <2>1, <2>3 DEF FInv, ForumTypeOK, dbVars, pageVars, Born, ClientRec
  <2> QED BY <2>1, <2>2, <2>4, Quiet DEF dbVars, pageVars, Born, FInv
<1> QED BY <1>1, <1>2

LEMMA InitFInv == FInit => FInv
<1> SUFFICES ASSUME FInit PROVE FInv
  OBVIOUS
<1>1. Born = {1} /\ owner[1] = 1 /\ MaxMessages \in Nat \ {0} /\ MaxThreads \in Nat \ {0}
  BY ForumAssumption DEF FInit, Born, Messages
<1>2. client \in [Clients -> ClientRec] /\ \A c \in Clients : ClientInv(client[c])
  BY NobodyInv DEF FInit
<1>3. forum \in Row
  BY <1>1 DEF FInit, Row
<1>4. ForumTypeOK
  <2>1. thread \in [Threads -> {"unborn", "open", "locked", "deleted"}]
    BY DEF FInit
  <2>2. owner \in [Messages -> 0 .. MaxThreads]
    BY <1>1 DEF FInit
  <2>3. present \subseteq Born /\ shown \subseteq Messages /\ {left, broken, overlap} \subseteq BOOLEAN
    BY <1>1 DEF FInit
  <2> QED BY <1>2, <1>3, <2>1, <2>2, <2>3 DEF ForumTypeOK, ClientRec
<1>5. Numbered
  BY <1>1 DEF Numbered
<1> QED BY <1>1, <1>2, <1>4, <1>5 DEF FInv, FInit, ThreadsBorn, Threads

Steps(c) == Asks(c) \/ Reads(c) \/ WritesTables(c) \/ SaveThread(c)

LEMMA NextIs == FNext <=> (\E c \in Clients : Steps(c)) \/ FetchMessages \/ ProcessDies
BY DEF FNext, Steps, Asks, Reads, WritesTables

LEMMA StepFInv == FInv /\ [FNext]_forumVars => FInv'
<1> SUFFICES ASSUME FInv, [FNext]_forumVars PROVE FInv'
  OBVIOUS
<1>1. CASE UNCHANGED forumVars
  <2>1. UNCHANGED <<dbVars, client, pageVars, broken, overlap>>
    BY <1>1 DEF forumVars
  <2>2. \A d \in Clients : ClientInv(client[d])'
    BY <2>1 DEF FInv, ClientInv, dbVars, Born, IsOpener
  <2>3. ForumTypeOK'
    BY <2>1 DEF FInv, ForumTypeOK, dbVars, pageVars, Born
  <2> QED BY <2>1, <2>2, <2>3, Quiet DEF FInv, dbVars, pageVars, Born
<1>2. CASE FNext
  BY <1>2, NextIs, AsksKeep, ReadsKeep, WritesKeep, SaveThreadKeeps, OthersKeep DEF Steps
<1> QED BY <1>1, <1>2

\* Every variable of the forum keeps its type, for any requests, threads and messages
\* (forum.go, forum_repo.go).
THEOREM ForumTyped == FSpec => []ForumTypeOK
<1>1. FInv => ForumTypeOK
  BY DEF FInv
<1> QED BY <1>1, InitFInv, StepFInv, PTL DEF FSpec

LEMMA AlwaysFInv == FSpec => []FInv
BY InitFInv, StepFInv, PTL DEF FSpec

-----------------------------------------------------------------------------
(* What a step does to the other requests and to the threads.              *)

Acts(c) == Asks(c) \/ Reads(c) \/ WritesTables(c)

LEMMA OneClient ==
    ASSUME FInv, NEW c \in Clients, Acts(c)
    PROVE  /\ \A d \in Clients \ {c} : client'[d] = client[d]
           /\ DOMAIN client' = Clients
<1> client \in [Clients -> ClientRec]
  BY DEF FInv, ForumTypeOK, ClientRec
<1>1. CASE Asks(c)
  BY <1>1 DEF Asks, AskCreate, AskForum, AskReply, AskEdit, AskDelete, AskRemove, Begins
<1>2. CASE Reads(c)
  BY <1>2 DEF Reads, PostOrphaned, ReadParents, CheckLock, CheckMessage, ListMessages, Decide, ReadForum, Reply,
              StatementFails, GoesIf, Goes, Ends
<1>3. CASE WritesTables(c)
  BY <1>3 DEF WritesTables, CreateThread, CountThread, Post, RollBack, DeleteThread, RemoveMessage, SaveForum,
              Goes, Ends
<1> QED BY <1>1, <1>2, <1>3 DEF Acts

LEMMA AfterGoes ==
    ASSUME FInv, NEW c \in Clients, NEW pc, Goes(c, pc)
    PROVE  /\ client'[c].pc = pc /\ client'[c].op = client[c].op /\ client'[c].thread = client[c].thread
           /\ client'[c].message = client[c].message /\ client'[c].first = client[c].first
           /\ client'[c].forum = client[c].forum
<1>1. client \in [Clients -> ClientRec] /\ client[c] \in ClientRec
  BY DEF FInv, ForumTypeOK, ClientRec
<1>2. client'[c] = [client[c] EXCEPT !.pc = pc]
  BY <1>1 DEF Goes
<1> QED BY <1>1, <1>2 DEF ClientRec

LEMMA AfterEnds ==
    ASSUME FInv, NEW c \in Clients, NEW pc, Ends(c, pc)
    PROVE  client'[c].pc \in {"idle", "ok"} /\ client'[c].op = "none"
<1>1. client \in [Clients -> ClientRec]
  BY DEF FInv, ForumTypeOK, ClientRec
<1> QED BY <1>1 DEF Ends, Nobody

LEMMA QuietTables == ASSUME NEW c \in Clients, Asks(c) \/ Reads(c) PROVE UNCHANGED dbVars
<1>1. CASE Asks(c)
  BY <1>1 DEF Asks, AskCreate, AskForum, AskReply, AskEdit, AskDelete, AskRemove, Begins
<1>2. CASE Reads(c)
  BY <1>2 DEF Reads, PostOrphaned, ReadParents, CheckLock, CheckMessage, ListMessages, Decide, ReadForum, Reply,
              StatementFails
<1> QED BY <1>1, <1>2

LEMMA OpensNothing ==
    ASSUME FInv, NEW c \in Clients, Acts(c), NEW t \in Threads, thread[t] # "unborn", thread'[t] = "open"
    PROVE  thread[t] = "open"
<1> thread \in [Threads -> {"unborn", "open", "locked", "deleted"}]
  BY DEF FInv, ForumTypeOK
<1>1. CASE Asks(c) \/ Reads(c)
  BY <1>1, QuietTables DEF dbVars
<1>2. CASE WritesTables(c)
  BY <1>2 DEF WritesTables, CreateThread, CountThread, Post, InsertMessage, RollBack, DeleteThread, DropThread,
              RemoveMessage, SaveForum
<1> QED BY <1>1, <1>2 DEF Acts

-----------------------------------------------------------------------------
(* Locks.                                                                  *)

\* A request that may find the thread open, or has found it open, knows that it was.
LockInv == \A d \in Clients :
    /\ client[d].op = "reply"
    /\ \/ client[d].pc = "checkLock" /\ thread[client[d].thread] = "open"
       \/ client[d].pc = "post" /\ d \in Ordinary
    => client[d].unlocked

LEMMA LockActs == ASSUME FInv, LockInv, NEW c \in Clients, Acts(c) PROVE LockInv'
<1> DEFINE k == client[c]
           Dangerous(j, d) == /\ j.op = "reply"
                              /\ j.pc = "checkLock" \/ (j.pc = "post" /\ d \in Ordinary)
<1>0. /\ client \in [Clients -> ClientRec] /\ ClientInv(k) /\ k \in ClientRec
      /\ \A d \in Clients : ClientInv(client[d])
  BY DEF FInv, ForumTypeOK, ClientRec
<1>1. ASSUME NEW d \in Clients \ {c}, client'[d].op = "reply",
             \/ client'[d].pc = "checkLock" /\ thread'[client'[d].thread] = "open"
             \/ client'[d].pc = "post" /\ d \in Ordinary
      PROVE  client'[d].unlocked
  <2>1. client'[d] = client[d]
    BY OneClient
  <2>2. CASE client[d].pc = "checkLock"
    <3>1. client[d].thread \in Threads /\ \E m \in Born : owner[m] = client[d].thread
      BY <1>0, <1>1, <2>1, <2>2 DEF ClientInv
    <3>2. thread[client[d].thread] # "unborn"
      BY <3>1 DEF FInv, ThreadsBorn
    <3>3. thread[client[d].thread] = "open"
      BY <1>1, <2>1, <2>2, <3>1, <3>2, OpensNothing
    <3> QED BY <1>1, <2>1, <2>2, <3>3 DEF LockInv
  <2> QED BY <1>1, <2>1, <2>2 DEF LockInv
<1>2. ASSUME NEW t \in Threads, AskReply(c, t), client'[c].pc = "checkLock", thread'[client'[c].thread] = "open"
      PROVE  client'[c].unlocked
  <2>1. client' = [client EXCEPT ![c] = Begun("checkLock", "reply", t, 0, thread[t] = "open")]
        /\ thread' = thread
    BY <1>2 DEF AskReply, Begins, Begun, dbVars
  <2>2. client'[c] = Begun("checkLock", "reply", t, 0, thread[t] = "open")
    BY <1>0, <2>1
  <2>3. client'[c].thread = t /\ client'[c].unlocked = (thread[t] = "open")
    BY <2>2 DEF Begun, Nobody
  <2> QED BY <1>2, <2>1, <2>3
<1>3. ASSUME NEW t \in Threads, AskReply(c, t) PROVE client'[c].pc # "post"
  BY <1>0, <1>3 DEF AskReply, Begins, Nobody
<1>4. CASE AskCreate(c) \/ AskForum(c) \/ (\E t \in Threads : AskEdit(c, t) \/ AskDelete(c, t))
           \/ (\E m \in Messages : AskRemove(c, m))
  <2>1. client'[c].op # "reply"
    <3>1. ASSUME NEW pc, NEW op, NEW t, NEW m, Begins(c, pc, op, t, m) PROVE client'[c].op = op
      BY <1>0, <3>1 DEF Begins, Nobody
    <3>2. CASE AskCreate(c)
      BY <3>1, <3>2 DEF AskCreate
    <3>3. CASE AskForum(c)
      BY <3>1, <3>3 DEF AskForum
    <3>4. CASE \E t \in Threads : AskEdit(c, t) \/ AskDelete(c, t)
      BY <3>1, <3>4 DEF AskEdit, AskDelete
    <3>5. CASE \E m \in Messages : AskRemove(c, m)
      BY <3>1, <3>5 DEF AskRemove
    <3> QED BY <1>4, <3>2, <3>3, <3>4, <3>5
  <2> QED BY <1>1, <2>1 DEF LockInv
<1>5. CASE CheckLock(c)
  <2>1. client'[c].pc = "post" /\ c \in Ordinary => client'[c].unlocked
    BY <1>0, <1>5 DEF CheckLock, At, GoesIf, Goes, Ends, ClientInv, LockInv, ClientRec, Nobody
  <2>2. client'[c].pc # "checkLock"
    BY <1>0, <1>5 DEF CheckLock, GoesIf, Goes, Ends, Nobody, ClientRec
  <2> QED BY <1>1, <2>1, <2>2 DEF LockInv
<1>6. CASE PostOrphaned(c) \/ ReadParents(c) \/ CheckMessage(c) \/ ListMessages(c) \/ Decide(c) \/ ReadForum(c)
           \/ Reply(c) \/ StatementFails(c)
  <2>1. \/ \E pc \in {"rollback", "list", "dropThread"} : Goes(c, pc)
        \/ \E pc \in {"ok", "error", "read"} : Ends(c, pc)
        \/ ListMessages(c) \/ ReadForum(c)
    BY <1>6 DEF PostOrphaned, ReadParents, CheckMessage, Decide, Reply, StatementFails, GoesIf
  <2>2. ListMessages(c) \/ ReadForum(c) => client'[c].pc \in {"remove", "saveForum"}
    BY <1>0 DEF ListMessages, ReadForum, ClientRec
  <2>3. client'[c].pc \notin {"checkLock", "post"}
    BY <2>1, <2>2, AfterGoes, AfterEnds
  <2> QED BY <1>1, <2>3 DEF LockInv
<1>7. CASE WritesTables(c)
  <2>1. \/ \E pc \in {"parents", "readForum", "decide"} : Goes(c, pc)
        \/ \E pc \in {"ok", "error"} : Ends(c, pc)
        \/ CreateThread(c)
        \/ Goes(c, "post") /\ k.pc = "count"
    BY <1>7 DEF WritesTables, CountThread, Post, RollBack, DeleteThread, RemoveMessage, SaveForum, At
  <2>2. CreateThread(c) => client'[c].pc = "count"
    BY <1>0 DEF CreateThread, ClientRec
  <2>3. k.pc = "count" => k.op = "create"
    BY <1>0 DEF ClientInv
  <2>4. client'[c].pc # "checkLock" /\ ~(client'[c].pc = "post" /\ client'[c].op = "reply")
    BY <2>1, <2>2, <2>3, AfterGoes, AfterEnds
  <2> QED BY <1>1, <2>4 DEF LockInv
<1>8. CASE \E t \in Threads : AskReply(c, t)
  BY <1>1, <1>2, <1>3, <1>8 DEF LockInv
<1> QED BY <1>4, <1>5, <1>6, <1>7, <1>8 DEF Acts, Asks, Reads

LEMMA LockSave == ASSUME FInv, LockInv, NEW c \in Clients, SaveThread(c) PROVE LockInv'
<1> SUFFICES ASSUME NEW d \in Clients, client'[d].op = "reply",
                    \/ client'[d].pc = "checkLock" /\ thread'[client'[d].thread] = "open"
                    \/ client'[d].pc = "post" /\ d \in Ordinary
             PROVE  client'[d].unlocked
  BY DEF LockInv
<1> DEFINE t == client[c].thread
<1>1. /\ thread' = [thread EXCEPT ![t] = thread'[t]]
      /\ client'[d] = IF d = c THEN Nobody
                      ELSE IF client[d].op = "reply" /\ client[d].thread = t /\ "open" \in {thread[t], thread'[t]}
                           THEN [client[d] EXCEPT !.unlocked = TRUE] ELSE client[d]
  BY DEF SaveThread, FInv, ForumTypeOK
<1>2. client[d] \in ClientRec /\ d # c
  BY <1>1 DEF FInv, ForumTypeOK, ClientRec, Nobody
<1> DEFINE Seen == client[d].op = "reply" /\ client[d].thread = t /\ "open" \in {thread[t], thread'[t]}
<1>3. CASE Seen
  <2>1. client'[d] = [client[d] EXCEPT !.unlocked = TRUE]
    BY <1>1, <1>2, <1>3
  <2> QED BY <1>2, <2>1 DEF ClientRec
<1>4. CASE ~Seen
  <2>1. client'[d] = client[d]
    BY <1>1, <1>2, <1>4
  <2>2. client[d].thread \in Threads \ {t} => thread'[client[d].thread] = thread[client[d].thread]
    BY <1>1 DEF FInv, ForumTypeOK
  <2>3. client[d].thread = t => thread'[t] # "open"
    BY <1>4, <2>1
  <2>4. client[d].pc = "checkLock" => client[d].thread \in Threads
    BY DEF FInv, ClientInv
  <2> QED BY <2>1, <2>2, <2>3, <2>4 DEF LockInv
<1> QED BY <1>3, <1>4

LEMMA StepLock == FInv /\ LockInv /\ [FNext]_forumVars => LockInv'
<1> SUFFICES ASSUME FInv, LockInv, [FNext]_forumVars PROVE LockInv'
  OBVIOUS
<1>1. CASE UNCHANGED forumVars \/ FetchMessages
  BY <1>1 DEF forumVars, dbVars, FetchMessages, LockInv
<1>2. CASE ProcessDies
  BY <1>2 DEF ProcessDies, LockInv, Nobody
<1> QED BY <1>1, <1>2, NextIs, LockActs, LockSave DEF Steps, Acts

\* However many requests overlap, a reply of somebody who may not write to locked threads
\* gets into one only if it was open at some moment since the request began (ThreadReplyCreate).
THEOREM LocksHold == FSpec => LockOnlyOvertaken
<1>1. FInit => LockInv
  BY DEF FInit, LockInv, Nobody
<1>2. LockInv => \A c \in Ordinary : (At(c, "post") /\ At(c, "parents")' /\ client[c].op = "reply")
                                        => client[c].unlocked
  BY ForumAssumption DEF LockInv, At
<1> QED BY <1>1, <1>2, StepLock, AlwaysFInv, PTL DEF FSpec, LockOnlyOvertaken

-----------------------------------------------------------------------------
(* First messages.                                                         *)

\* A request is about to post the first message of t, or about to delete t.
Opens(k, t) == k.op = "create" /\ k.pc \in {"count", "post"} /\ k.thread = t
Takes(k, t) == /\ k.op = "remove" /\ k.thread = t
               /\ k.pc = "dropThread" \/ (k.pc = "decide" /\ k.first = k.message)

Headed(t)   == \E m \in present : owner[m] = t /\ IsOpener(m)
Attended(t) == \/ Headed(t)
               \/ (\A m \in Born : owner[m] # t) /\ \E c \in Clients : Opens(client[c], t)
               \/ \E c \in Clients : Takes(client[c], t)
Kept == ~broken => \A t \in Threads : Alive(t) => Attended(t)

LEMMA KeptQuiet ==
    ASSUME FInv, Kept, UNCHANGED dbVars, NEW c \in Clients, \A d \in Clients \ {c} : client'[d] = client[d],
           broken => broken',
           ~broken' => \A t \in Threads : /\ Alive(t) /\ Opens(client[c], t) => Opens(client'[c], t)
                                          /\ Takes(client[c], t) => Takes(client'[c], t)
    PROVE  Kept'
<1> SUFFICES ASSUME ~broken', NEW t \in Threads, Alive(t)' PROVE Attended(t)'
  BY DEF Kept
<1>1. Alive(t) /\ Attended(t)
  BY DEF Kept, Alive, dbVars
<1>2. Headed(t) => Headed(t)'
  BY DEF Headed, IsOpener, Born, dbVars
<1>3. \A d \in Clients : Opens(client[d], t) => Opens(client'[d], t)
  BY <1>1
<1>4. \A d \in Clients : Takes(client[d], t) => Takes(client'[d], t)
  BY <1>1
<1>5. (\A m \in Born : owner[m] # t) => (\A m \in Born' : owner'[m] # t)
  BY DEF Born, dbVars
<1>6. \A d \in Clients : /\ Opens(client'[d], t) => Opens(client[d], t)'
                         /\ Takes(client'[d], t) => Takes(client[d], t)'
  BY DEF Opens, Takes
<1> QED BY <1>1, <1>2, <1>3, <1>4, <1>5, <1>6 DEF Attended

LEMMA KeptAsks == ASSUME FInv, Kept, NEW c \in Clients, Asks(c) PROVE Kept'
<1>1. client[c].pc = "idle" /\ broken' = broken
  BY DEF Asks, AskCreate, AskForum, AskReply, AskEdit, AskDelete, AskRemove, Begins
<1> QED BY <1>1, OneClient, QuietTables, KeptQuiet DEF Acts, Opens, Takes

LEMMA KeptReads == ASSUME FInv, Kept, NEW c \in Clients, Reads(c) PROVE Kept'
<1> DEFINE k == client[c]
<1>1. \A d \in Clients \ {c} : client'[d] = client[d]
  BY OneClient DEF Acts
<1>2. UNCHANGED dbVars
  BY QuietTables
<1>3. k.op = "remove" => k.message # 0
  BY ForumAssumption DEF FInv, ClientInv, Born, Messages
<1>4. CASE StatementFails(c)
  <2>1. broken' = TRUE
    BY <1>4 DEF StatementFails
  <2> QED BY <2>1 DEF Kept
<1>5. CASE Decide(c)
  <2>1. k.pc = "decide" /\ broken' = broken
    BY <1>5 DEF Decide, At, Rest
  <2>2. k.op = "remove" /\ k.first = k.message => Goes(c, "dropThread")
    BY <1>3, <1>5 DEF Decide
  <2>3. \A t \in Threads : Takes(k, t) => Takes(client'[c], t)
    BY <2>1, <2>2, AfterGoes DEF Takes
  <2> QED BY <1>1, <1>2, <2>1, <2>3, KeptQuiet DEF Opens
<1>6. CASE \/ PostOrphaned(c) \/ ReadParents(c) \/ CheckLock(c) \/ CheckMessage(c) \/ ListMessages(c)
           \/ ReadForum(c) \/ Reply(c)
  <2>1. /\ broken' = broken /\ k.pc \notin {"count", "decide", "dropThread"}
        /\ k.pc = "post" => ~Alive(k.thread)
    BY <1>6 DEF PostOrphaned, ReadParents, CheckLock, CheckMessage, ListMessages, ReadForum, Reply, At, Rest
  <2> QED BY <1>1, <1>2, <2>1, KeptQuiet DEF Opens, Takes
<1> QED BY <1>4, <1>5, <1>6 DEF Reads

\* Deleting a thread does nothing to the others.
LEMMA KeptDrop ==
    ASSUME FInv, Kept, NEW c \in Clients, NEW u \in Threads, DropThread(u), broken' = broken,
           \A d \in Clients \ {c} : client'[d] = client[d],
           client[c].thread = u
    PROVE  Kept'
<1> SUFFICES ASSUME ~broken', NEW t \in Threads, Alive(t)' PROVE Attended(t)'
  BY DEF Kept
<1>1. /\ thread' = [thread EXCEPT ![u] = IF Alive(u) THEN "deleted" ELSE thread[u]]
      /\ present' = present \ Of(u) /\ owner' = owner
  BY DEF DropThread
<1>2. t # u /\ Alive(t)
  BY <1>1 DEF Alive, FInv, ForumTypeOK
<1>3. Attended(t)
  BY <1>2 DEF Kept
<1>4. Headed(t) => Headed(t)'
  BY <1>1, <1>2 DEF Headed, IsOpener, Born, Of
<1>5. \A d \in Clients : /\ Opens(client[d], t) => Opens(client[d], t)'
                         /\ Takes(client[d], t) => Takes(client[d], t)'
  BY <1>2 DEF Opens, Takes
<1>6. (\A m \in Born : owner[m] # t) => (\A m \in Born : owner[m] # t)'
  BY <1>1 DEF Born
<1> QED BY <1>3, <1>4, <1>5, <1>6 DEF Attended

LEMMA KeptWrites == ASSUME FInv, Kept, NEW c \in Clients, WritesTables(c) PROVE Kept'
<1> DEFINE k == client[c]
<1>0. /\ \A d \in Clients \ {c} : client'[d] = client[d]
      /\ ClientInv(k) /\ TablesTyped /\ Born \subseteq Messages
      /\ client \in [Clients -> ClientRec] /\ k \in ClientRec
  BY OneClient, Tables DEF Acts, FInv, ForumTypeOK, ClientRec
<1>1. CASE CreateThread(c)
  <2>1. PICK u \in Threads, st \in {"open", "locked"} :
          /\ thread[u] = "unborn" /\ thread' = [thread EXCEPT ![u] = st]
          /\ client' = [client EXCEPT ![c].pc = "count", ![c].thread = u]
    BY <1>1 DEF CreateThread
  <2>2. k.pc = "insert" /\ k.op = "create" /\ UNCHANGED <<owner, present, broken>>
    BY <1>0, <1>1 DEF CreateThread, At, ClientInv, Rest
  <2>3. client'[c].op = "create" /\ client'[c].pc = "count" /\ client'[c].thread = u
    BY <1>0, <2>1, <2>2 DEF ClientRec
  <2> SUFFICES ASSUME ~broken', NEW t \in Threads, Alive(t)' PROVE Attended(t)'
    BY DEF Kept
  <2>4. CASE t = u
    <3>1. \A m \in Born : owner[m] # t
      BY <2>1, <2>4 DEF FInv, ThreadsBorn
    <3>2. (\A m \in Born : owner[m] # t)'
      BY <2>2, <3>1 DEF Born
    <3>3. Opens(client[c], t)'
      BY <2>3, <2>4 DEF Opens
    <3> QED BY <3>2, <3>3 DEF Attended
  <2>5. CASE t # u
    <3>1. Attended(t)
      BY <1>0, <2>1, <2>2, <2>5 DEF Kept, Alive, TablesTyped
    <3>2. Headed(t) => Headed(t)'
      BY <2>2 DEF Headed, IsOpener, Born
    <3>3. \A d \in Clients : /\ Opens(client[d], t) => Opens(client[d], t)'
                             /\ Takes(client[d], t) => Takes(client[d], t)'
      BY <1>0, <2>2 DEF Opens, Takes
    <3>4. (\A m \in Born : owner[m] # t) => (\A m \in Born : owner[m] # t)'
      BY <2>2 DEF Born
    <3> QED BY <3>1, <3>2, <3>3, <3>4 DEF Attended
  <2> QED BY <2>4, <2>5
<1>2. CASE CountThread(c) \/ SaveForum(c)
  <2>1. /\ UNCHANGED <<thread, owner, present, broken>>
        /\ \/ k.pc = "count" /\ Goes(c, "post")
           \/ k.pc = "saveForum"
    BY <1>2 DEF CountThread, SaveForum, At, Rest
  <2> SUFFICES ASSUME ~broken', NEW t \in Threads, Alive(t)' PROVE Attended(t)'
    BY DEF Kept
  <2>2. Attended(t)
    BY <2>1 DEF Kept, Alive
  <2>3. Headed(t) => Headed(t)'
    BY <2>1 DEF Headed, IsOpener, Born
  <2>4. \A d \in Clients : /\ Opens(client[d], t) => Opens(client[d], t)'
                           /\ Takes(client[d], t) => Takes(client[d], t)'
    <3> SUFFICES ASSUME NEW d \in Clients
                 PROVE  /\ Opens(client[d], t) => Opens(client'[d], t)
                        /\ Takes(client[d], t) => Takes(client'[d], t)
      BY DEF Opens, Takes
    <3>1. CASE d = c
      BY <2>1, <3>1, AfterGoes DEF Opens, Takes
    <3> QED BY <1>0, <3>1
  <2>5. (\A m \in Born : owner[m] # t) => (\A m \in Born : owner[m] # t)'
    BY <2>1 DEF Born
  <2> QED BY <2>2, <2>3, <2>4, <2>5 DEF Attended
<1>3. CASE Post(c)
  <2>1. /\ k.pc = "post" /\ k.thread \in Threads /\ Alive(k.thread) /\ InsertMessage(k.thread)
        /\ broken' = broken /\ thread' = thread
    BY <1>0, <1>3 DEF Post, At, ClientInv, Rest, InsertMessage
  <2>2. PICK m \in Messages \ Born : /\ Born' = Born \cup {m} /\ present' = present \cup {m}
                                     /\ owner' = [owner EXCEPT ![m] = k.thread]
                                     /\ \A n \in Born : n < m
    BY <2>1, InsertKeeps
  <2> SUFFICES ASSUME ~broken', NEW t \in Threads, Alive(t)' PROVE Attended(t)'
    BY DEF Kept
  <2>3. /\ owner'[m] = k.thread /\ \A n \in Born : owner'[n] = owner[n] /\ n < m
        /\ m \in Nat /\ Born \subseteq Nat /\ present \subseteq Born
    BY <1>0, <2>2, ForumAssumption DEF TablesTyped, Messages
  <2>4. Headed(t) => Headed(t)'
    <3> SUFFICES ASSUME NEW i \in present, owner[i] = t, IsOpener(i) PROVE Headed(t)'
      BY DEF Headed
    <3>1. i \in present' /\ owner'[i] = t /\ i \in Born'
      BY <2>2, <2>3
    <3>2. \A n \in Born' : owner'[n] = owner'[i] => i <= n
      BY <2>2, <2>3 DEF IsOpener
    <3> QED BY <3>1, <3>2 DEF Headed, IsOpener
  <2>5. Attended(t)
    BY <2>1 DEF Kept, Alive
  <2>6. \A d \in Clients : Takes(client[d], t) => Takes(client[d], t)'
    BY <1>0, <2>1 DEF Takes
  <2>7. CASE t = k.thread /\ \A n \in Born : owner[n] # t
    <3>1. m \in present' /\ owner'[m] = t /\ m \in Born'
      BY <2>2, <2>3, <2>7
    <3>2. \A n \in Born' : owner'[n] = owner'[m] => m <= n
      BY <2>2, <2>3, <2>7
    <3> QED BY <3>1, <3>2 DEF Attended, Headed, IsOpener
  <2>8. CASE t # k.thread /\ \A n \in Born : owner[n] # t
    <3>1. (\A n \in Born : owner[n] # t)'
      BY <2>2, <2>3, <2>8
    <3>2. \A d \in Clients : Opens(client[d], t) => Opens(client[d], t)'
      BY <1>0, <2>8 DEF Opens
    <3> QED BY <2>4, <2>5, <2>6, <3>1, <3>2 DEF Attended
  <2>9. CASE \E n \in Born : owner[n] = t
    BY <2>4, <2>5, <2>6, <2>9 DEF Attended
  <2> QED BY <2>7, <2>8, <2>9
<1>4. CASE RollBack(c) \/ DeleteThread(c)
  <2>1. k.thread \in Threads /\ DropThread(k.thread) /\ broken' = broken
    BY <1>0, <1>4 DEF RollBack, DeleteThread, At, ClientInv, Rest
  <2> QED BY <1>0, <2>1, KeptDrop
<1>5. CASE RemoveMessage(c)
  <2>1. /\ k.pc = "remove" /\ k.op = "remove" /\ present' = present \ {k.message} /\ Goes(c, "decide")
        /\ UNCHANGED <<thread, owner, broken>> /\ k.thread = owner[k.message]
    BY <1>0, <1>5 DEF RemoveMessage, At, ClientInv, Rest
  <2> SUFFICES ASSUME ~broken', NEW t \in Threads, Alive(t)' PROVE Attended(t)'
    BY DEF Kept
  <2>2. Attended(t)
    BY <2>1 DEF Kept, Alive
  <2>3. \A d \in Clients : /\ Opens(client[d], t) => Opens(client[d], t)'
                           /\ Takes(client[d], t) => Takes(client[d], t)'
    BY <1>0, <2>1 DEF Opens, Takes
  <2>4. (\A m \in Born : owner[m] # t) => (\A m \in Born : owner[m] # t)'
    BY <2>1 DEF Born
  <2>5. ASSUME NEW i \in present, owner[i] = t, IsOpener(i) PROVE Attended(t)'
    <3>1. CASE i = k.message
      <4>1. k.first = k.message
        BY <1>0, <2>1, <2>5, <3>1 DEF ClientInv
      <4>2. Takes(client'[c], t)
        BY <2>1, <2>5, <3>1, <4>1, AfterGoes DEF Takes
      <4>3. Takes(client[c], t)'
        BY <4>2 DEF Takes
      <4> QED BY <4>3 DEF Attended
    <3>2. CASE i # k.message
      <4>1. Headed(t)'
        BY <2>1, <2>5, <3>2 DEF Headed, IsOpener, Born
      <4> QED BY <4>1 DEF Attended
    <3> QED BY <3>1, <3>2
  <2> QED BY <2>2, <2>3, <2>4, <2>5 DEF Attended, Headed
<1> QED BY <1>1, <1>2, <1>3, <1>4, <1>5 DEF WritesTables

LEMMA KeptSave == ASSUME FInv, Kept, NEW c \in Clients, SaveThread(c) PROVE Kept'
<1> SUFFICES ASSUME ~broken', NEW t \in Threads, Alive(t)' PROVE Attended(t)'
  BY DEF Kept
<1>1. UNCHANGED <<owner, present, broken>> /\ client[c].pc = "saveThread"
  BY DEF SaveThread, Rest, At
<1>2. Alive(t)
  BY DEF SaveThread, Alive, FInv, ForumTypeOK
<1>3. Attended(t)
  BY <1>1, <1>2 DEF Kept
<1>4. Headed(t) => Headed(t)'
  BY <1>1 DEF Headed, IsOpener, Born
<1>5. \A d \in Clients \ {c} : /\ client[d] \in ClientRec
                               /\ client'[d] \in {client[d], [client[d] EXCEPT !.unlocked = TRUE]}
  BY DEF SaveThread, FInv, ForumTypeOK, ClientRec
<1>6. ASSUME NEW d \in Clients
      PROVE  /\ Opens(client[d], t) => Opens(client[d], t)'
             /\ Takes(client[d], t) => Takes(client[d], t)'
  <2>1. CASE d # c
    <3>1. /\ client'[d].op = client[d].op /\ client'[d].pc = client[d].pc /\ client'[d].thread = client[d].thread
          /\ client'[d].first = client[d].first /\ client'[d].message = client[d].message
      BY <1>5, <2>1 DEF ClientRec
    <3> QED BY <3>1 DEF Opens, Takes
  <2> QED BY <1>1, <2>1 DEF Opens, Takes
<1>7. (\A m \in Born : owner[m] # t) => (\A m \in Born : owner[m] # t)'
  BY <1>1 DEF Born
<1> QED BY <1>3, <1>4, <1>6, <1>7 DEF Attended

LEMMA StepKept == FInv /\ Kept /\ [FNext]_forumVars => Kept'
<1> SUFFICES ASSUME FInv, Kept, [FNext]_forumVars PROVE Kept'
  OBVIOUS
<1>1. CASE UNCHANGED forumVars \/ FetchMessages
  <2>1. Viewer \in Clients
    BY ForumAssumption
  <2>2. UNCHANGED <<dbVars, client, broken>>
    BY <1>1 DEF forumVars, FetchMessages
  <2> QED BY <2>1, <2>2, KeptQuiet
<1>2. CASE ProcessDies
  BY <1>2 DEF ProcessDies, Kept
<1> QED BY <1>1, <1>2, NextIs, KeptAsks, KeptReads, KeptWrites, KeptSave DEF Steps

LEMMA InitKept == FInit => Kept
<1> SUFFICES ASSUME FInit, NEW t \in Threads, Alive(t) PROVE Headed(t)
  BY DEF Kept, Attended
<1>1. t = 1 /\ Born = {1} /\ present = {1} /\ owner[1] = 1
  BY ForumAssumption DEF FInit, Alive, Threads, Born, Messages
<1> QED BY <1>1 DEF Headed, IsOpener

\* A thread that is there when nobody is at work has its first message.
LEMMA HeadedWhenQuiet ==
    ASSUME Kept, ~broken, Busy = {}, NEW t \in Threads, Alive(t) PROVE Headed(t)
BY DEF Kept, Busy, Attended, Opens, Takes

\* Whatever requests overlap, and for any number of them, a thread that is there when nobody
\* is at work still has the message that opened it, while no statement has failed
\* (MessageDelete, ThreadDelete, ThreadCreate).
THEOREM FirstPostsKept == FSpec => []ThreadsKeepFirstPost
<1>1. FInv /\ Kept => ThreadsKeepFirstPost
  <2> SUFFICES ASSUME FInv, Kept, ~broken, Busy = {}, NEW t \in Threads, Alive(t)
               PROVE  Of(t) # {} /\ Opener(t) \in present
    BY DEF ThreadsKeepFirstPost
  <2>1. PICK m \in present : owner[m] = t /\ IsOpener(m)
    BY HeadedWhenQuiet DEF Headed
  <2> DEFINE S == {i \in Born : owner[i] = t}
  <2>2. S \in SUBSET Nat /\ m \in S /\ \A n \in S : m <= n
    BY <2>1, ForumAssumption DEF IsOpener, Born, Messages
  <2>3. Opener(t) = m
    BY <2>2, MinIs DEF Opener
  <2> QED BY <2>1, <2>3 DEF Of
<1> QED BY <1>1, InitKept, StepKept, AlwaysFInv, PTL DEF FSpec

-----------------------------------------------------------------------------
(* The page.                                                               *)

\* A page that shows messages shows the first, as long as it is there.
PageInv == /\ left => 1 \notin present
           /\ 1 \in present => shown = {} \/ 1 \in shown

LEMMA NoneReturns == ASSUME FInv, [FNext]_forumVars, 1 \in present' PROVE 1 \in present
<1> 1 \in Born /\ present \subseteq Born
  BY DEF FInv, ForumTypeOK
<1>1. CASE UNCHANGED forumVars \/ FetchMessages \/ ProcessDies \/ \E c \in Clients : SaveThread(c)
  BY <1>1 DEF forumVars, dbVars, FetchMessages, ProcessDies, SaveThread
<1>2. CASE \E c \in Clients : Asks(c) \/ Reads(c)
  BY <1>2, QuietTables DEF dbVars
<1>3. ASSUME NEW c \in Clients, Post(c) PROVE 1 \in present
  <2>1. client[c].thread \in Threads /\ Alive(client[c].thread) /\ InsertMessage(client[c].thread)
    BY <1>3 DEF Post, At, FInv, ClientInv
  <2> QED BY <2>1, InsertKeeps
<1>4. CASE \E c \in Clients : \/ CreateThread(c) \/ CountThread(c) \/ RollBack(c) \/ DeleteThread(c)
                              \/ RemoveMessage(c) \/ SaveForum(c)
  BY <1>4 DEF CreateThread, CountThread, RollBack, DeleteThread, DropThread, RemoveMessage, SaveForum
<1> QED BY <1>1, <1>2, <1>3, <1>4, NextIs DEF Steps, WritesTables

LEMMA PageStays ==
    ASSUME NEW c \in Clients, Acts(c) \/ SaveThread(c)
    PROVE  shown' = shown /\ (left' = left \/ Reply(c))
<1>1. CASE Asks(c)
  BY <1>1 DEF Asks, AskCreate, AskForum, AskReply, AskEdit, AskDelete, AskRemove, Begins, pageVars
<1>2. CASE Reads(c)
  BY <1>2 DEF Reads, PostOrphaned, ReadParents, CheckLock, CheckMessage, ListMessages, Decide, ReadForum, Reply,
              StatementFails, Rest, pageVars
<1>3. CASE WritesTables(c) \/ SaveThread(c)
  BY <1>3 DEF WritesTables, CreateThread, CountThread, Post, RollBack, DeleteThread, RemoveMessage, SaveForum,
              SaveThread, Rest, pageVars
<1> QED BY <1>1, <1>2, <1>3 DEF Acts

LEMMA StepPage == FInv /\ PageInv /\ [FNext]_forumVars => PageInv'
<1> SUFFICES ASSUME FInv, PageInv, [FNext]_forumVars PROVE PageInv'
  OBVIOUS
<1>1. CASE UNCHANGED forumVars \/ ProcessDies
  BY <1>1 DEF forumVars, dbVars, pageVars, ProcessDies, PageInv
<1>2. CASE FetchMessages
  BY <1>2 DEF FetchMessages, dbVars, PageInv, Of, FInv
<1>3. ASSUME NEW c \in Clients, Acts(c) \/ SaveThread(c), ~Reply(c) PROVE PageInv'
  BY <1>3, PageStays, NoneReturns DEF PageInv
<1>4. ASSUME NEW c \in Clients, Reply(c), SentAway(client[c].message), 1 \in present PROVE FALSE
  <2> DEFINE m == client[c].message
  <2>1. m \in Born \ present /\ shown \subseteq Nat /\ 0 \notin Born
    BY <1>4, ForumAssumption DEF Reply, At, FInv, ClientInv, ForumTypeOK, Born, Messages
  <2>2. shown # {} /\ Min(shown) = m
    BY <1>4, <2>1 DEF SentAway, First
  <2>3. 1 \in shown /\ \A n \in shown : 1 <= n
    <3>1. 1 \in shown
      BY <1>4, <2>2 DEF PageInv
    <3>2. shown \subseteq 1 .. MaxMessages
      BY DEF FInv, ForumTypeOK, Messages
    <3> QED BY <3>1, <3>2, ForumAssumption
  <2>4. Min(shown) = 1
    BY <2>1, <2>3, MinIs
  <2> QED BY <1>4, <2>1, <2>2, <2>4
<1>5. ASSUME NEW c \in Clients, Reply(c) PROVE PageInv'
  <2>1. left' => left \/ SentAway(client[c].message)
    BY <1>5 DEF Reply
  <2>2. UNCHANGED <<present, shown>>
    BY <1>5 DEF Reply, dbVars
  <2> QED BY <1>4, <1>5, <2>1, <2>2 DEF PageInv
<1> QED BY <1>1, <1>2, <1>3, <1>5, NextIs DEF Steps, Acts

\* The page of a thread sends its user away only from a thread that is gone: the message it
\* takes for the first was the first, for no message comes back (the thread's page, MessageDelete).
THEOREM LeavesRightly == FSpec => []LeavesOnlyDeletedThread
<1>1. FInit => PageInv
  BY DEF FInit, PageInv
<1>2. FInv /\ Kept /\ PageInv => LeavesOnlyDeletedThread
  <2> SUFFICES ASSUME FInv, Kept, PageInv, left, ~broken, Busy = {}, Alive(1) PROVE FALSE
    BY DEF LeavesOnlyDeletedThread
  <2>1. 1 \in Threads
    BY ForumAssumption DEF Threads
  <2>2. PICK m \in present : owner[m] = 1 /\ IsOpener(m)
    BY <2>1, HeadedWhenQuiet DEF Headed
  <2>3. m <= 1 /\ m \in 1 .. MaxMessages
    BY <2>2 DEF IsOpener, FInv, Born, Messages
  <2>4. m = 1
    BY <2>3, ForumAssumption
  <2> QED BY <2>2, <2>4 DEF PageInv
<1> QED BY <1>1, <1>2, StepPage, InitKept, StepKept, AlwaysFInv, PTL DEF FSpec

-----------------------------------------------------------------------------
(* The count of threads.                                                   *)

There == {t \in Threads : Alive(t)}
\* How far the forum's count is ahead of its threads while a request is at work.
Ahead(k) == IF k.pc = "count" THEN -1
            ELSE IF k.pc \in {"readForum", "saveForum"} /\ k.op # "forum" THEN 1 ELSE 0
AliveAt == {"count", "post", "parents", "list", "remove", "decide", "dropThread"}

\* What holds when k is the only request at work.
Alone(k) == /\ forum.last = 0 \/ (forum.last \in Threads /\ Alive(forum.last))
            /\ forum.threads = Cardinality(There) + Ahead(k)
            /\ k.pc \in AliveAt => k.thread \in Threads /\ Alive(k.thread)
            /\ k.pc # "rollback"
            /\ k.pc = "dropThread" => k.op # "forum"
            /\ k.pc = "saveForum" => k.forum = forum
Idle(d)  == client[d].pc = "idle"
Counted  == ~broken /\ ~overlap =>
              \E c \in Clients : (\A d \in Clients \ {c} : Idle(d)) /\ Alone(client[c])

\* A step that ends undisturbed was taken by the only request at work.
LEMMA AloneBefore ==
    ASSUME FInv, Counted, NEW c \in Clients, Acts(c) \/ SaveThread(c), ~broken', ~overlap'
    PROVE  ~broken /\ ~overlap /\ (\A d \in Clients \ {c} : Idle(d)) /\ Alone(client[c])
<1>0. broken \in BOOLEAN /\ overlap \in BOOLEAN
  BY DEF FInv, ForumTypeOK
<1>1. ~broken /\ ~overlap /\ ((Asks(c) /\ Busy = {}) \/ ~Idle(c))
  <2>1. CASE Asks(c)
    <3>1. broken' = broken /\ overlap' = (overlap \/ Busy # {})
      BY <2>1 DEF Asks, AskCreate, AskForum, AskReply, AskEdit, AskDelete, AskRemove, Begins
    <3> QED BY <1>0, <2>1, <3>1
  <2>2. CASE Reads(c) /\ ~StatementFails(c)
    <3>1. UNCHANGED <<broken, overlap>> /\ client[c].pc # "idle"
      BY <2>2 DEF Reads, PostOrphaned, ReadParents, CheckLock, CheckMessage, ListMessages, Decide, ReadForum, Reply,
                  Rest, At
    <3> QED BY <1>0, <3>1 DEF Idle
  <2>3. CASE WritesTables(c) \/ SaveThread(c)
    <3>1. UNCHANGED <<broken, overlap>> /\ client[c].pc # "idle"
      BY <2>3 DEF WritesTables, CreateThread, CountThread, Post, RollBack, DeleteThread, RemoveMessage, SaveForum,
                  SaveThread, Rest, At
    <3> QED BY <1>0, <3>1 DEF Idle
  <2>4. ~StatementFails(c)
    BY DEF StatementFails
  <2> QED BY <2>1, <2>2, <2>3, <2>4 DEF Acts
<1>2. PICK e \in Clients : (\A d \in Clients \ {e} : Idle(d)) /\ Alone(client[e])
  BY <1>1 DEF Counted
<1>3. CASE Busy = {}
  <2>1. \A d \in Clients : Idle(d)
    BY <1>3 DEF Busy, Idle
  <2>2. Ahead(client[e]) = 0 /\ Ahead(client[c]) = 0 /\ client[c].pc = "idle"
    BY <2>1 DEF Idle, Ahead
  <2> QED BY <1>1, <1>2, <2>1, <2>2 DEF Alone, AliveAt
<1>4. CASE ~Idle(c)
  BY <1>1, <1>2, <1>4
<1> QED BY <1>1, <1>3, <1>4

LEMMA AloneAfter ==
    ASSUME NEW c \in Clients, \A d \in Clients \ {c} : Idle(d), \A d \in Clients \ {c} : client'[d] = client[d],
           Alone(client[c])'
    PROVE  Counted'
<1>1. (\A d \in Clients \ {c} : Idle(d))'
  BY DEF Idle
<1> QED BY <1>1 DEF Counted

LEMMA ThereIs == ASSUME FInv PROVE IsFiniteSet(There) /\ Cardinality(There) \in Nat /\ forum.threads \in Int
<1>1. IsFiniteSet(1 .. MaxThreads) /\ There \subseteq 1 .. MaxThreads
  BY FS_Interval, ForumAssumption DEF There, Threads
<1>2. IsFiniteSet(There)
  BY <1>1, FS_Subset
<1>3. Cardinality(There) \in Nat
  BY <1>2, FS_CardinalityType
<1> QED BY <1>2, <1>3 DEF FInv, ForumTypeOK, Row

\* Steps that leave the threads and the forum alone.
LEMMA CountedQuiet ==
    ASSUME FInv, NEW c \in Clients, Acts(c), UNCHANGED <<thread, forum>>,
           \A d \in Clients \ {c} : Idle(d), Alone(client[c]),
           Ahead(client'[c]) = Ahead(client[c]),
           client'[c].pc \in AliveAt => client'[c].thread \in Threads /\ Alive(client'[c].thread),
           client'[c].pc # "rollback",
           client'[c].pc = "dropThread" => client'[c].op # "forum",
           client'[c].pc = "saveForum" => client'[c].forum = forum
    PROVE  Counted'
<1>1. There' = There /\ \A t : Alive(t)' <=> Alive(t)
  BY DEF There, Alive
<1>2. Ahead(client[c])' = Ahead(client[c])
  BY DEF Ahead
<1>3. Alone(client[c])'
  BY <1>1, <1>2 DEF Alone, Alive
<1> QED BY <1>3, OneClient, AloneAfter

LEMMA CountedReads ==
    ASSUME FInv, Counted, NEW c \in Clients, Asks(c) \/ Reads(c), ~broken', ~overlap' PROVE Counted'
<1> DEFINE k == client[c]
           j == client'[c]
<1>0. /\ ~broken /\ Alone(k) /\ \A d \in Clients \ {c} : Idle(d)
      /\ UNCHANGED dbVars /\ ClientInv(k) /\ Acts(c)
      /\ client \in [Clients -> ClientRec] /\ k \in ClientRec
  BY AloneBefore, QuietTables DEF Acts, FInv, ForumTypeOK, ClientRec
<1>1. CASE AskCreate(c)
  <2>1. k.pc = "idle" /\ j.pc = "insert"
    BY <1>0, <1>1 DEF AskCreate, Begins, Nobody
  <2> QED BY <1>0, <2>1, CountedQuiet DEF dbVars, Ahead, AliveAt
<1>2. CASE AskForum(c)
  <2>1. k.pc = "idle" /\ j.pc = "readForum" /\ j.op = "forum"
    BY <1>0, <1>2 DEF AskForum, Begins, Nobody
  <2> QED BY <1>0, <2>1, CountedQuiet DEF dbVars, Ahead, AliveAt
<1>3. CASE \/ \E t \in Threads : AskReply(c, t) \/ AskEdit(c, t)
           \/ \E m \in Messages : AskRemove(c, m)
  <2>1. k.pc = "idle" /\ j.pc \in {"checkLock", "saveThread", "checkMessage"}
    <3>1. ASSUME NEW t \in Threads, AskReply(c, t) PROVE k.pc = "idle" /\ j.pc = "checkLock"
      BY <1>0, <3>1 DEF AskReply, Begins, Nobody
    <3>3. ASSUME NEW t \in Threads, AskEdit(c, t) PROVE k.pc = "idle" /\ j.pc = "saveThread"
      BY <1>0, <3>3 DEF AskEdit, Begins, Nobody
    <3>2. CASE \E m \in Messages : AskRemove(c, m)
      BY <1>0, <3>2 DEF AskRemove, Begins, Nobody
    <3> QED BY <1>3, <3>1, <3>2, <3>3
  <2> QED BY <1>0, <2>1, CountedQuiet DEF dbVars, Ahead, AliveAt
<1>4. ASSUME NEW t \in Threads, AskDelete(c, t) PROVE Counted'
  <2>1. k.pc = "idle" /\ j.pc = "dropThread" /\ j.thread = t /\ j.op = "delete"
    BY <1>0, <1>4 DEF AskDelete, Begins, Nobody
  <2>2. Alive(t)
    BY <1>4 DEF AskDelete, Listed
  <2> QED BY <1>0, <2>1, <2>2, CountedQuiet DEF dbVars, Ahead, AliveAt
<1>5. CASE StatementFails(c)
  BY <1>5 DEF StatementFails
<1>6. CASE PostOrphaned(c)
  BY <1>0, <1>6 DEF PostOrphaned, At, Alone, AliveAt
<1>7. CASE ReadParents(c)
  <2>1. k.pc = "parents" /\ Ends(c, "ok")
    BY <1>0, <1>7 DEF ReadParents, At, Alone, AliveAt
  <2> QED BY <1>0, <2>1, AfterEnds, CountedQuiet DEF dbVars, Ahead, AliveAt
<1>8. CASE CheckLock(c)
  <2>1. (k.pc = "checkLock" /\ k.thread \in Threads /\ GoesIf(Alive(k.thread), c, "post")) \/ Ends(c, "error")
    BY <1>0, <1>8 DEF CheckLock, At, GoesIf, Alive, ClientInv
  <2>2. k.pc = "checkLock" /\ k.thread \in Threads
    BY <1>0, <1>8 DEF CheckLock, At, ClientInv
  <2>3. CASE Goes(c, "post") /\ Alive(k.thread)
    BY <1>0, <2>2, <2>3, AfterGoes, CountedQuiet DEF dbVars, Ahead, AliveAt
  <2>4. CASE Ends(c, "error")
    BY <1>0, <2>2, <2>4, AfterEnds, CountedQuiet DEF dbVars, Ahead, AliveAt
  <2> QED BY <2>1, <2>3, <2>4 DEF GoesIf
<1>9. CASE CheckMessage(c)
  <2>1. k.pc = "checkMessage" /\ k.op = "remove" /\ k.message \in Born /\ k.thread = owner[k.message]
    BY <1>0, <1>9 DEF CheckMessage, At, ClientInv
  <2>2. k.thread \in Threads
    BY <2>1, Tables
  <2>3. CASE Goes(c, "list") /\ Alive(k.thread)
    BY <1>0, <2>1, <2>2, <2>3, AfterGoes, CountedQuiet DEF dbVars, Ahead, AliveAt
  <2>4. CASE Ends(c, "error")
    BY <1>0, <2>1, <2>4, AfterEnds, CountedQuiet DEF dbVars, Ahead, AliveAt
  <2> QED BY <1>9, <2>3, <2>4 DEF CheckMessage, GoesIf, Alive
<1>10. CASE ListMessages(c)
  <2>1. k.pc = "list" /\ j.pc = "remove" /\ j.thread = k.thread
    BY <1>0, <1>10 DEF ListMessages, At, ClientRec
  <2> QED BY <1>0, <2>1, CountedQuiet DEF dbVars, Ahead, AliveAt, Alone
<1>11. CASE Decide(c)
  <2>1. k.pc = "decide" /\ k.op = "remove" /\ (Goes(c, "dropThread") \/ Ends(c, "ok") \/ Ends(c, "error"))
    BY <1>0, <1>11 DEF Decide, At, ClientInv
  <2>2. CASE Goes(c, "dropThread")
    BY <1>0, <2>1, <2>2, AfterGoes, CountedQuiet DEF dbVars, Ahead, AliveAt, Alone
  <2>3. CASE Ends(c, "ok") \/ Ends(c, "error")
    BY <1>0, <2>1, <2>3, AfterEnds, CountedQuiet DEF dbVars, Ahead, AliveAt
  <2> QED BY <2>1, <2>2, <2>3
<1>12. CASE ReadForum(c)
  <2>1. k.pc = "readForum" /\ j.pc = "saveForum" /\ j.op = k.op /\ j.forum = forum
    BY <1>0, <1>12 DEF ReadForum, At, ClientRec
  <2> QED BY <1>0, <2>1, CountedQuiet DEF dbVars, Ahead, AliveAt
<1>13. CASE Reply(c)
  <2>1. k.pc = "ok" /\ Ends(c, "read")
    BY <1>13 DEF Reply, At
  <2>2. j.pc = "idle"
    BY <1>0, <2>1 DEF Ends, Nobody
  <2> QED BY <1>0, <2>1, <2>2, CountedQuiet DEF dbVars, Ahead, AliveAt
<1> QED BY <1>1, <1>2, <1>3, <1>4, <1>5, <1>6, <1>7, <1>8, <1>9, <1>10, <1>11, <1>12, <1>13 DEF Asks, Reads

LEMMA CountedWrites ==
    ASSUME FInv, Counted, NEW c \in Clients, WritesTables(c), ~broken', ~overlap' PROVE Counted'
<1> DEFINE k == client[c]
           j == client'[c]
<1>0. /\ ~broken /\ Alone(k) /\ \A d \in Clients \ {c} : Idle(d)
      /\ ClientInv(k) /\ Acts(c) /\ TablesTyped
      /\ client \in [Clients -> ClientRec] /\ k \in ClientRec
  BY AloneBefore, Tables DEF Acts, FInv, ForumTypeOK, ClientRec
<1>a. IsFiniteSet(There) /\ Cardinality(There) \in Nat /\ forum.threads \in Int
  BY ThereIs
<1>1. CASE CreateThread(c)
  <2>1. PICK u \in Threads, st \in {"open", "locked"} :
          /\ thread[u] = "unborn" /\ thread' = [thread EXCEPT ![u] = st]
          /\ client' = [client EXCEPT ![c].pc = "count", ![c].thread = u]
    BY <1>1 DEF CreateThread
  <2>2. k.pc = "insert" /\ forum' = forum
    BY <1>1 DEF CreateThread, At
  <2>3. j.pc = "count" /\ j.thread = u
    BY <1>0, <2>1 DEF ClientRec
  <2>4. There' = There \cup {u} /\ u \notin There
    BY <1>0, <2>1 DEF There, Alive, TablesTyped
  <2>5. Cardinality(There)' = Cardinality(There) + 1
    BY <1>a, <2>4, FS_AddElement
  <2>6. \A t \in Threads : Alive(t) => Alive(t)'
    BY <1>0, <2>1 DEF Alive, TablesTyped
  <2>7. Alive(u)'
    BY <1>0, <2>1 DEF Alive, TablesTyped
  <2>8. Ahead(k) = 0 /\ Ahead(client[c])' = -1
    BY <2>2, <2>3 DEF Ahead
  <2>9. Alone(client[c])'
    <3>1. (forum.last = 0 \/ (forum.last \in Threads /\ Alive(forum.last)))'
      BY <1>0, <2>2, <2>6 DEF Alone, Alive
    <3>2. (forum.threads = Cardinality(There) + Ahead(client[c]))'
      BY <1>0, <1>a, <2>2, <2>5, <2>8 DEF Alone
    <3>3. (k.thread \in Threads /\ Alive(k.thread))'
      BY <2>3, <2>7 DEF Alive
    <3> QED BY <2>3, <3>1, <3>2, <3>3 DEF Alone
  <2> QED BY <1>0, <2>9, OneClient, AloneAfter
<1>2. CASE CountThread(c)
  <2>1. /\ k.pc = "count" /\ UNCHANGED thread /\ j.pc = "post" /\ j.thread = k.thread
        /\ forum' = [threads |-> forum.threads + 1, last |-> k.thread]
    BY <1>2, AfterGoes DEF CountThread, At
  <2>2. k.thread \in Threads /\ Alive(k.thread)
    BY <1>0, <2>1 DEF Alone, AliveAt
  <2>3. There' = There /\ Ahead(k) = -1 /\ Ahead(client[c])' = 0
    BY <2>1 DEF There, Alive, Ahead
  <2>4. forum'.threads = Cardinality(There)' + Ahead(client[c])'
    BY <1>0, <1>a, <2>1, <2>3 DEF Alone
  <2>5. forum'.last = k.thread /\ thread'[k.thread] \in {"open", "locked"}
    BY <2>1, <2>2 DEF Alive
  <2>6. Alone(client[c])'
    BY <2>1, <2>2, <2>4, <2>5 DEF Alone, Alive
  <2> QED BY <1>0, <2>6, OneClient, AloneAfter
<1>3. CASE Post(c)
  <2>1. k.pc = "post" /\ j.pc = "parents" /\ j.thread = k.thread /\ UNCHANGED <<thread, forum>>
    BY <1>3, AfterGoes DEF Post, At, InsertMessage
  <2> QED BY <1>0, <2>1, CountedQuiet DEF Ahead, AliveAt, Alone
<1>4. CASE RollBack(c)
  BY <1>0, <1>4 DEF RollBack, At, Alone
<1>5. CASE DeleteThread(c)
  <2>1. /\ k.pc = "dropThread" /\ DropThread(k.thread) /\ j.pc = "readForum" /\ j.op = k.op /\ k.op # "forum"
        /\ k.thread \in Threads /\ Alive(k.thread)
    BY <1>0, <1>5, AfterGoes DEF DeleteThread, At, Alone, AliveAt
  <2>2. /\ thread' = [thread EXCEPT ![k.thread] = "deleted"]
        /\ forum' = [forum EXCEPT !.last = IF forum.last = k.thread THEN 0 ELSE forum.last]
    BY <2>1 DEF DropThread
  <2>3. There' = There \ {k.thread} /\ k.thread \in There
    BY <1>0, <2>1, <2>2 DEF There, Alive, TablesTyped
  <2>4. Cardinality(There)' = Cardinality(There) - 1
    BY <1>a, <2>3, FS_RemoveElement
  <2>5. forum'.threads = forum.threads
        /\ forum'.last = (IF forum.last = k.thread THEN 0 ELSE forum.last)
    BY <1>0, <2>2 DEF TablesTyped, Row
  <2>6. forum'.last = 0 \/ (forum'.last \in Threads /\ thread'[forum'.last] \in {"open", "locked"})
    BY <1>0, <2>2, <2>5 DEF Alone, Alive, TablesTyped
  <2>7. Ahead(k) = 0 /\ Ahead(client[c])' = 1
    BY <2>1 DEF Ahead
  <2>8. forum'.threads = Cardinality(There)' + Ahead(client[c])'
    BY <1>0, <1>a, <2>4, <2>5, <2>7 DEF Alone
  <2>9. Alone(client[c])'
    BY <2>1, <2>6, <2>8 DEF Alone, Alive, AliveAt
  <2> QED BY <1>0, <2>9, OneClient, AloneAfter
<1>6. CASE RemoveMessage(c)
  <2>1. k.pc = "remove" /\ j.pc = "decide" /\ j.thread = k.thread /\ UNCHANGED <<thread, forum>>
    BY <1>6, AfterGoes DEF RemoveMessage, At
  <2> QED BY <1>0, <2>1, CountedQuiet DEF Ahead, AliveAt, Alone
<1>7. CASE SaveForum(c)
  <2>1. k.pc = "saveForum" /\ k.forum = forum /\ (forum.last = 0 \/ Alive(forum.last))
    BY <1>0, <1>7 DEF SaveForum, At, Alone
  <2>2. Ends(c, "ok") /\ forum' = [forum EXCEPT !.threads = forum.threads - Less(c)] /\ UNCHANGED thread
    BY <1>7, <2>1 DEF SaveForum, Saved
  <2>3. forum'.last = forum.last /\ forum'.threads = forum.threads - Less(c)
    BY <1>0, <2>2 DEF TablesTyped, Row
  <2>4. There' = There /\ \A t : Alive(t)' <=> Alive(t)
    BY <2>2 DEF There, Alive
  <2>5. j.pc \in {"idle", "ok"}
    BY <2>2, AfterEnds
  <2>6. Ahead(k) = Less(c) /\ Ahead(client[c])' = 0
    BY <2>1, <2>5 DEF Ahead, Less
  <2>7. forum'.threads = Cardinality(There)' + Ahead(client[c])'
    BY <1>0, <1>a, <2>3, <2>4, <2>6 DEF Alone, Less
  <2>8. forum'.last = 0 \/ (forum'.last \in Threads /\ thread'[forum'.last] \in {"open", "locked"})
    BY <1>0, <2>2, <2>3 DEF Alone, Alive
  <2>9. Alone(client[c])'
    BY <2>5, <2>7, <2>8 DEF Alone, Alive, AliveAt
  <2> QED BY <1>0, <2>9, OneClient, AloneAfter
<1> QED BY <1>1, <1>2, <1>3, <1>4, <1>5, <1>6, <1>7 DEF WritesTables

LEMMA CountedSave ==
    ASSUME FInv, Counted, NEW c \in Clients, SaveThread(c), ~broken', ~overlap' PROVE Counted'
<1> DEFINE k == client[c]
<1>0. /\ Alone(k) /\ \A d \in Clients \ {c} : Idle(d)
      /\ k.pc = "saveThread" /\ UNCHANGED forum
      /\ client \in [Clients -> ClientRec] /\ TablesTyped
  BY AloneBefore, Tables DEF SaveThread, At, FInv, ForumTypeOK, ClientRec
<1>1. \A t \in Threads : Alive(t)' <=> Alive(t)
  BY <1>0 DEF SaveThread, Alive, TablesTyped
<1>2. There' = There
  BY <1>1 DEF There
<1>3. client'[c] = Nobody /\ \A d \in Clients \ {c} : client'[d] \in {client[d], [client[d] EXCEPT !.unlocked = TRUE]}
  BY DEF SaveThread
<1>4. \A d \in Clients \ {c} : Idle(d)'
  <2> SUFFICES ASSUME NEW d \in Clients \ {c} PROVE client'[d].pc = "idle"
    BY DEF Idle
  <2> QED BY <1>0, <1>3 DEF Idle, ClientRec
<1>5. Ahead(k) = 0 /\ Ahead(client[c])' = 0 /\ client'[c].pc = "idle"
  BY <1>0, <1>3 DEF Ahead, Nobody
<1>6. Alone(client[c])'
  BY <1>0, <1>1, <1>2, <1>5 DEF Alone, AliveAt, Alive
<1> QED BY <1>4, <1>6 DEF Counted

LEMMA StepCounted == FInv /\ Counted /\ [FNext]_forumVars => Counted'
<1> SUFFICES ASSUME FInv, Counted, [FNext]_forumVars, ~broken', ~overlap' PROVE Counted'
  BY DEF Counted
<1>1. CASE UNCHANGED forumVars \/ FetchMessages
  BY <1>1 DEF forumVars, dbVars, FetchMessages, Counted, Idle, Alone, Alive, There, Ahead
<1>2. CASE ProcessDies
  BY <1>2 DEF ProcessDies
<1> QED BY <1>1, <1>2, NextIs, CountedReads, CountedWrites, CountedSave DEF Steps

LEMMA InitCounted == FInit => Counted
<1> SUFFICES ASSUME FInit PROVE (\A d \in Clients : Idle(d)) /\ Alone(client[Viewer])
  BY ForumAssumption DEF Counted
<1>1. \A d \in Clients : client[d].pc = "idle"
  BY DEF FInit, Nobody
<1>2. 1 \in Threads
  BY ForumAssumption DEF Threads
<1>3. There = {1} /\ Alive(1)
  BY <1>2 DEF FInit, There, Alive
<1>4. Cardinality(There) = 1 /\ Ahead(client[Viewer]) = 0
  BY <1>1, <1>3, FS_Singleton, ForumAssumption DEF Ahead
<1> QED BY <1>1, <1>2, <1>3, <1>4, ForumAssumption DEF FInit, Idle, Alone, AliveAt

\* As long as no two requests have been under way at once and no statement has failed, the
\* forum's count of threads is right whenever nobody is at work, after any sequence of
\* requests (ThreadSave, ThreadDelete, ForumSave).
THEOREM CountsRight == FSpec => []CountExact
<1>1. FInv /\ Counted => CountExact
  <2> SUFFICES ASSUME FInv, Counted, ~broken, ~overlap, Busy = {} PROVE forum.threads = Cardinality(There)
    BY DEF CountExact, There
  <2>1. PICK c \in Clients : Alone(client[c])
    BY DEF Counted
  <2>2. client[c].pc = "idle"
    BY DEF Busy
  <2>3. Ahead(client[c]) = 0
    BY <2>2 DEF Ahead
  <2> QED BY <2>1, <2>3, ThereIs DEF Alone
<1> QED BY <1>1, InitCounted, StepCounted, AlwaysFInv, PTL DEF FSpec
=============================================================================
