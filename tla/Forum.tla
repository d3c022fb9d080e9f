------------------------------- MODULE Forum --------------------------------
(***************************************************************************)
(* The threads of one forum: their creation with a first message, replies, *)
(* locking, the deletion of messages and threads, and the page of a thread *)
(* in a browser.  Requests run beside each other, and every database       *)
(* statement is a step of its own, as the code takes no transaction.       *)
(*                                                                         *)
(* Titles, bodies, views and the count of messages, on which nothing       *)
(* depends, are left out, and with them the edits of messages.             *)
(* MaxThreads and MaxMessages bound the identities the database gives out. *)
(***************************************************************************)
EXTENDS Integers, FiniteSets, FiniteSetsExt

CONSTANTS Clients,     \* requests served at the same time
          Viewer,      \* the one whose requests come from the page
          Ordinary,    \* those who may not write to a locked thread
          MaxThreads,
          MaxMessages

ASSUME ForumAssumption == /\ Viewer \in Clients /\ Ordinary \subseteq Clients
                          /\ MaxThreads \in Nat \ {0} /\ MaxMessages \in Nat \ {0}

Threads  == 1 .. MaxThreads
Messages == 1 .. MaxMessages
Row      == [threads : Int, last : 0 .. MaxThreads]

VARIABLES
    thread,    \* rows of forum_thread: "unborn", "open", "locked" or "deleted"
    owner,     \* rows of forum_message: the thread of each, 0 before it is inserted
    present,   \* the messages that are still there
    forum,     \* the row of the forum: count_threads and last_thread_id (0 for NULL)
    client,    \* what each request is doing and what it has read
    shown,     \* the messages of the first thread the page has
    left,      \* whether the page has sent its user away
    broken,    \* history: a statement has failed, or the process has died
    overlap    \* history: two requests have been under way at once

dbVars    == <<thread, owner, present, forum>>
pageVars  == <<shown, left>>
forumVars == <<dbVars, client, pageVars, broken, overlap>>

Alive(t) == thread[t] \in {"open", "locked"}
Born     == {m \in Messages : owner[m] # 0}
Of(t)    == {m \in present : owner[m] = t}
\* Threads without messages are not listed.
Listed   == {t \in Threads : Alive(t) /\ Of(t) # {}}
First(s) == IF s = {} THEN 0 ELSE Min(s)
Opener(t) == Min({m \in Born : owner[m] = t})

Nobody == [pc |-> "idle", op |-> "none", thread |-> 0, message |-> 0, first |-> 0,
           forum |-> [threads |-> 0, last |-> 0], unlocked |-> FALSE]
Busy   == {c \in Clients : client[c].pc # "idle"}

FInit == /\ thread = [t \in Threads |-> IF t = 1 THEN "open" ELSE "unborn"]
         /\ owner = [m \in Messages |-> IF m = 1 THEN 1 ELSE 0]
         /\ present = {1}
         /\ forum = [threads |-> 1, last |-> 1]
         /\ client = [c \in Clients |-> Nobody]
         /\ shown = {} /\ left = FALSE
         /\ broken = FALSE /\ overlap = FALSE

Begins(c, pc, op, t, m) ==
    /\ client[c].pc = "idle"
    /\ client' = [client EXCEPT ![c] = [Nobody EXCEPT !.pc = pc, !.op = op, !.thread = t, !.message = m,
                                                      !.unlocked = op = "reply" /\ thread[t] = "open"]]
    /\ overlap' = (overlap \/ Busy # {})
    /\ UNCHANGED <<dbVars, pageVars, broken>>

At(c, pc) == client[c].pc = pc
Goes(c, pc) == client' = [client EXCEPT ![c].pc = pc]
\* Only the page does something with an answer, and only with a good one.
Ends(c, pc) == client' = [client EXCEPT ![c] =
                            IF pc = "ok" /\ c = Viewer /\ client[c].op = "remove"
                            THEN [Nobody EXCEPT !.pc = "ok", !.message = client[c].message] ELSE Nobody]
GoesIf(p, c, pc) == IF p THEN Goes(c, pc) ELSE Ends(c, "error")
Rest == <<pageVars, broken, overlap>>

\* A deleted thread takes its messages with it, and the forum forgets it as its last.
DropThread(t) == /\ thread' = [thread EXCEPT ![t] = IF Alive(t) THEN "deleted" ELSE @]
                 /\ present' = present \ Of(t)
                 /\ forum' = [forum EXCEPT !.last = IF @ = t THEN 0 ELSE @]
                 /\ UNCHANGED owner

\* Mutant of InsertMessage: the message is stored without its thread.
InsertLoose(t) == /\ Born # Messages
                  /\ present' = present \cup {Min(Messages \ Born)}
                  /\ UNCHANGED <<thread, owner, forum>>

\* MessageSave: the row needs its thread, and the thread must still be there for the
\* parents that are read after it.
InsertMessage(t) == /\ Born # Messages
                    /\ LET m == Min(Messages \ Born)
                       IN  owner' = [owner EXCEPT ![m] = t] /\ present' = present \cup {m}
                    /\ UNCHANGED <<thread, forum>>

-----------------------------------------------------------------------------
\* ThreadCreate.  The first failure of MessageSave takes the thread back, but not the
\* count; a failure between the two statements of ThreadSave takes nothing back.
AskCreate(c) == Begins(c, "insert", "create", 0, 0)
CreateThread(c) == /\ At(c, "insert")
                   /\ \E t \in Threads, s \in {"open", "locked"} :
                        /\ thread[t] = "unborn" /\ \A u \in Threads : u < t => thread[u] # "unborn"
                        /\ thread' = [thread EXCEPT ![t] = s]
                        /\ client' = [client EXCEPT ![c].pc = "count", ![c].thread = t]
                   /\ UNCHANGED <<owner, present, forum, Rest>>
CountThread(c) == /\ At(c, "count")
                  /\ Alive(client[c].thread)
                  /\ forum' = [threads |-> forum.threads + 1, last |-> client[c].thread]
                  /\ Goes(c, "post")
                  /\ UNCHANGED <<thread, owner, present, Rest>>
Post(c) == /\ At(c, "post") /\ Alive(client[c].thread)
           /\ InsertMessage(client[c].thread)
           /\ Goes(c, "parents")
           /\ UNCHANGED Rest
PostOrphaned(c) == /\ At(c, "post") /\ ~Alive(client[c].thread)
                   /\ GoesIf(client[c].op = "create", c, "rollback")
                   /\ UNCHANGED <<dbVars, Rest>>
ReadParents(c) == /\ At(c, "parents")
                  /\ IF Alive(client[c].thread) THEN Ends(c, "ok")
                     ELSE GoesIf(client[c].op = "create", c, "rollback")
                  /\ UNCHANGED <<dbVars, Rest>>
RollBack(c) == /\ At(c, "rollback")
               /\ DropThread(client[c].thread)
               /\ Ends(c, "error")
               /\ UNCHANGED Rest

\* ThreadReplyCreate.
AskReply(c, t) == t \in Listed /\ Begins(c, "checkLock", "reply", t, 0)
\* Mutant of CheckLock: nobody looks at the lock.
IgnoreLock(c) == /\ At(c, "checkLock")
                 /\ GoesIf(Alive(client[c].thread), c, "post")
                 /\ UNCHANGED <<dbVars, Rest>>
CheckLock(c) == /\ At(c, "checkLock")
                /\ GoesIf(thread[client[c].thread] = "open" \/ (Alive(client[c].thread) /\ c \notin Ordinary), c, "post")
                /\ UNCHANGED <<dbVars, Rest>>

\* ThreadEdit reads the row and writes it back; no row to update is no error.
AskEdit(c, t) == t \in Listed /\ Begins(c, "saveThread", "edit", t, 0)
SaveThread(c) ==
    LET t == client[c].thread
        was == thread[t]
    IN  /\ At(c, "saveThread")
        /\ \E s \in {"open", "locked"} : thread' = [thread EXCEPT ![t] = IF Alive(t) THEN s ELSE @]
        /\ client' = [d \in Clients |->
                        IF d = c THEN Nobody
                        ELSE IF client[d].op = "reply" /\ client[d].thread = t /\ "open" \in {was, thread'[t]}
                             THEN [client[d] EXCEPT !.unlocked = TRUE] ELSE client[d]]
        /\ UNCHANGED <<owner, present, forum, Rest>>

-----------------------------------------------------------------------------
\* ThreadDelete.  The request begins with the read of the row it is for.
AskDelete(c, t) == t \in Listed /\ Begins(c, "dropThread", "delete", t, 0)
DeleteThread(c) == /\ At(c, "dropThread")
                   /\ DropThread(client[c].thread)
                   /\ Goes(c, "readForum")
                   /\ UNCHANGED Rest

\* MessageDelete, where who may delete a message is data: the list decides afterwards
\* whether the thread goes as well.  The page offers the messages it shows.
AskRemove(c, m) == /\ m \in (IF c = Viewer THEN shown ELSE present)
                   /\ Begins(c, "checkMessage", "remove", owner[m], m)
CheckMessage(c) == /\ At(c, "checkMessage")
                   /\ GoesIf(client[c].message \in present /\ thread[client[c].thread] = "open", c, "list")
                   /\ UNCHANGED <<dbVars, Rest>>
ListMessages(c) == /\ At(c, "list")
                   /\ client' = [client EXCEPT ![c].pc = "remove", ![c].first = First(Of(client[c].thread))]
                   /\ UNCHANGED <<dbVars, Rest>>
\* Mutant of RemoveMessage: the list is taken after the message has gone.
RemoveThenList(c) == /\ At(c, "remove")
                     /\ present' = present \ {client[c].message}
                     /\ client' = [client EXCEPT ![c].pc = "decide",
                                       ![c].first = First(Of(client[c].thread) \ {client[c].message})]
                     /\ UNCHANGED <<thread, owner, forum, Rest>>
RemoveMessage(c) == /\ At(c, "remove")
                    /\ present' = present \ {client[c].message}
                    /\ Goes(c, "decide")
                    /\ UNCHANGED <<thread, owner, forum, Rest>>
\* Somebody else may have taken the last message before the list: messages[0] panics.
Decide(c) == /\ At(c, "decide")
             /\ CASE client[c].first = 0 -> Ends(c, "error")
                  [] client[c].first = client[c].message -> Goes(c, "dropThread")
                  [] OTHER -> Ends(c, "ok")
             /\ UNCHANGED <<dbVars, Rest>>

\* The forum is read and all of it is written back, here with one thread less; what an
\* edit of the forum changes besides is data.
AskForum(c) == Begins(c, "readForum", "forum", 0, 0)
ReadForum(c) == /\ At(c, "readForum")
                /\ client' = [client EXCEPT ![c].pc = "saveForum", ![c].forum = forum]
                /\ UNCHANGED <<dbVars, Rest>>
Less(c) == IF client[c].op = "forum" THEN 0 ELSE 1
\* Mutant of Saved: an edit of the forum counts a thread less as well.
AlwaysLess(c) == [client[c].forum EXCEPT !.threads = @ - 1]
Saved(c) == [client[c].forum EXCEPT !.threads = @ - Less(c)]
\* The last thread it names must still exist.
SaveForum(c) ==
    LET stands == client[c].forum.last = 0 \/ Alive(client[c].forum.last)
    IN  /\ At(c, "saveForum")
        /\ forum' = IF stands THEN Saved(c) ELSE forum
        /\ Ends(c, IF stands THEN "ok" ELSE "error")
        /\ UNCHANGED <<thread, owner, present, Rest>>

-----------------------------------------------------------------------------
\* The answer comes back.  The page leaves when the message it had deleted is the first of
\* those it shows now.
\* Mutant of SentAway: any of the messages it shows will do.
SentAwayByAny(m) == m \in shown
SentAway(m) == First(shown) = m
Reply(c) == /\ At(c, "ok")
            /\ left' = (left \/ SentAway(client[c].message))
            /\ Ends(c, "read")
            /\ UNCHANGED <<dbVars, shown, broken, overlap>>

\* The page's query, and the refetch after every change.
FetchMessages == /\ shown' = Of(1)
                 /\ UNCHANGED <<dbVars, client, left, broken, overlap>>

\* A statement fails: an error, or the way back if there is one.  When the process dies
\* there is none.  (One such event is enough: nothing is claimed of what comes after.)
StatementFails(c) == /\ ~broken /\ client[c].pc \notin {"idle", "ok", "decide"}
                     /\ GoesIf(client[c].pc \in {"post", "parents"} /\ client[c].op = "create", c, "rollback")
                     /\ broken' = TRUE
                     /\ UNCHANGED <<dbVars, pageVars, overlap>>
ProcessDies == /\ ~broken /\ Busy # {}
               /\ client' = [c \in Clients |-> Nobody]
               /\ broken' = TRUE
               /\ UNCHANGED <<dbVars, pageVars, overlap>>

FNext ==
    \/ \E c \in Clients :
         \/ AskCreate(c) \/ CreateThread(c) \/ CountThread(c) \/ Post(c) \/ PostOrphaned(c)
         \/ ReadParents(c) \/ RollBack(c) \/ CheckLock(c) \/ SaveThread(c) \/ DeleteThread(c)
         \/ CheckMessage(c) \/ ListMessages(c) \/ RemoveMessage(c) \/ Decide(c)
         \/ AskForum(c) \/ ReadForum(c) \/ SaveForum(c) \/ Reply(c) \/ StatementFails(c)
         \/ \E t \in Threads : AskReply(c, t) \/ AskEdit(c, t) \/ AskDelete(c, t)
         \/ \E m \in Messages : AskRemove(c, m)
    \/ FetchMessages \/ ProcessDies
FSpec == FInit /\ [][FNext]_forumVars

-----------------------------------------------------------------------------
Pcs == {"idle", "insert", "count", "post", "parents", "rollback", "checkLock", "saveThread", "dropThread",
        "checkMessage", "list", "remove", "decide", "readForum", "saveForum", "ok"}
Ops == {"none", "create", "reply", "edit", "delete", "remove", "forum"}

ForumTypeOK ==
    /\ thread \in [Threads -> {"unborn", "open", "locked", "deleted"}]
    /\ owner \in [Messages -> 0 .. MaxThreads] /\ present \subseteq Born
    /\ forum \in Row
    /\ client \in [Clients -> [pc : Pcs, op : Ops, thread : 0 .. MaxThreads, message : 0 .. MaxMessages,
                               first : 0 .. MaxMessages, forum : Row, unlocked : BOOLEAN]]
    /\ shown \subseteq Messages
    /\ {left, broken, overlap} \subseteq BOOLEAN

\* While no statement has failed, and whatever requests overlap, a thread that is there
\* when nobody is at work still has the message that opened it: nobody takes the first
\* message without taking the thread.
ThreadsKeepFirstPost ==
    (~broken /\ Busy = {}) => \A t \in Threads : Alive(t) => Of(t) # {} /\ Opener(t) \in present

\* The forum's count of threads is right whenever nobody is at work, as long as no
\* statement has failed and no two requests have been under way at once.
CountExact == (~broken /\ ~overlap /\ Busy = {}) => forum.threads = Cardinality({t \in Threads : Alive(t)})

\* A message of somebody who may not write to locked threads gets into one only if the
\* thread has been open at some moment since the request began.
LockOnlyOvertaken ==
    [][\A c \in Ordinary : (At(c, "post") /\ At(c, "parents")' /\ client[c].op = "reply")
                             => client[c].unlocked]_forumVars

\* The page sends its user away only from a thread that is gone: when it does so and
\* nothing is under way any more, the thread has been deleted, unless a statement failed.
LeavesOnlyDeletedThread == (left /\ ~broken /\ Busy = {}) => ~Alive(1)
=============================================================================
