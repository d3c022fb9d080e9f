------------------------------- MODULE Demos --------------------------------
(***************************************************************************)
(* Recorded games: internal/demo/{demo,demo_repo}.go over AssetStore.      *)
(*                                                                         *)
(* A receiver fetches demo files from a game server, a cleaner hides old   *)
(* and broken ones every 15 minutes, a report archives the demo it names.  *)
(* All three run as goroutines of one process and share two tables and the *)
(* directory of files.                                                     *)
(***************************************************************************)
EXTENDS AssetStore, FiniteSets

CONSTANTS Receiver, Cleaner, \* the two clients of the asset store
          CountLimit,        \* DemoCountLimit
          MaxDemos,          \* bound: demo rows ever inserted
          NoDemo

ASSUME DemoAssumption == /\ {Receiver, Cleaner} \subseteq Clients /\ Receiver # Cleaner
                         /\ CountLimit \in Nat /\ MaxDemos \in Nat

VARIABLES demo,     \* the demo table, by demo_id
          nextDemo,
          match,    \* the demos that have a row of the match table
          remote,   \* the demo files on the game server
          recv, clean,
          reported  \* the demo a report handler has read and will archive, or 0

demoTables == <<demo, nextDemo, match>>
dvars == <<avars, demo, nextDemo, match, remote, recv, clean, reported>>

DemoIds == 1..MaxDemos
DemoRow == [asset : AssetIds, archive : BOOLEAN]
ASSUME NoDemoAssumption == NoDemo \notin DemoRow

ReceiveSteps == {"idle", "put", "existing", "unstat", "save", "import", "chat", "erase", "undo"}
CleanSteps == {"idle", "truncate", "orphans", "remove"}

DemosTypeOK ==
    /\ AssetTypeOK
    /\ demo \in [DemoIds -> DemoRow \cup {NoDemo}]
    /\ nextDemo \in 1..(MaxDemos + 1)
    /\ match \subseteq DemoIds
    /\ remote \subseteq Hashes
    /\ recv \in [pc : ReceiveSteps, file : Hashes \cup {NoHash}, demo : DemoIds \cup {0}]
    /\ clean \in [pc : CleanSteps, todo : SUBSET DemoIds]
    /\ reported \in DemoIds \cup {0}

Stored(d) == demo[d] # NoDemo
DemosOf(id) == {d \in DemoIds : Stored(d) /\ demo[d].asset = id}

\* GetDemos: the demos whose asset is not deleted.
Listed == {d \in DemoIds : Stored(d) /\ LiveAsset(demo[d].asset)}
Flushable == {d \in Listed : ~demo[d].archive}

\* Mutant of Expired: one demo too many is kept.
ExpiredOffByOne(limit) == {d \in Flushable : Cardinality({e \in Flushable : e >= d}) > limit + 1}

\* ExpiredDemos: what is left of the flushable demos, newest first, after the
\* first limit of them.
Expired(limit) == {d \in Flushable : Cardinality({e \in Flushable : e >= d}) > limit}

Newest(S) == CHOOSE d \in S : \A e \in S : d >= e

IdleReceiver == [pc |-> "idle", file |-> NoHash, demo |-> 0]
IdleCleaner == [pc |-> "idle", todo |-> {}]

DInit == /\ AInit
         /\ demo = [d \in DemoIds |-> NoDemo]
         /\ nextDemo = 1
         /\ match = {}
         /\ remote = Hashes
         /\ recv = IdleReceiver
         /\ clean = IdleCleaner
         /\ reported = 0

-----------------------------------------------------------------------------
(* The asset store below both.                                             *)

\* The asset's demos go with it; a demo with a match keeps the asset (foreign
\* keys ON DELETE CASCADE and RESTRICT).
DropDemos(c) ==
    /\ DropRow(c)
    /\ DemosOf(clients[c].id) \cap match = {}
    /\ demo' = [d \in DemoIds |-> IF d \in DemosOf(clients[c].id) THEN NoDemo ELSE demo[d]]
    /\ UNCHANGED <<nextDemo, match>>

StoreStep(c) ==
    /\ \/ /\ \/ PutLookup(c) \/ PutLookupDeleted(c) \/ RestoreFind(c) \/ CreateFile(c)
             \/ CopyFile(c) \/ SaveRow(c) \/ SaveFails(c) \/ Unlink(c) \/ MarkDeleted(c)
             \/ RemoveFile(c) \/ AFail(c)
          /\ UNCHANGED demoTables
       \/ DropDemos(c)
    /\ UNCHANGED <<remote, recv, clean, reported>>

-----------------------------------------------------------------------------
(* The receiver: DownloadHandler, onDemoReceived, createFromAsset.         *)

Other == <<clean, reported>>
RStep(step) == recv' = [recv EXCEPT !.pc = step]
TheAsset == clients[Receiver].id

Receive(x) == /\ recv.pc = "idle"
              /\ x \in remote
              /\ Put(Receiver, x)
              /\ recv' = [pc |-> "put", file |-> x, demo |-> 0]
              /\ UNCHANGED <<demoTables, remote, Other>>

PutReturns == /\ recv.pc = "put"
              /\ clients[Receiver].pc = "idle"
              /\ recv' = IF clients[Receiver].result = "stored"
                         THEN [recv EXCEPT !.pc = "existing"] ELSE IdleReceiver
              /\ UNCHANGED <<avars, demoTables, remote, Other>>

\* A demo that the asset has already, any one of them, gives up its match and
\* its chat; a failure to look for it counts as none.
FindExisting ==
    /\ recv.pc = "existing"
    /\ \/ RStep("save")
       \/ \E d \in DemosOf(TheAsset) \cap Listed :
             recv' = [recv EXCEPT !.pc = "unstat", !.demo = d]
    /\ UNCHANGED <<avars, demoTables, remote, Other>>

DeleteStats == /\ recv.pc = "unstat"
               /\ match' = match \ {recv.demo}
               /\ RStep("save")
               /\ UNCHANGED <<avars, demo, nextDemo, remote, Other>>

\* The parsed demo is inserted, always as a new row.
SaveDemo == /\ recv.pc = "save"
            /\ nextDemo <= MaxDemos
            /\ Kept(TheAsset)
            /\ demo' = [demo EXCEPT ![nextDemo] = [asset |-> TheAsset, archive |-> FALSE]]
            /\ nextDemo' = nextDemo + 1
            /\ recv' = [recv EXCEPT !.pc = "import", !.demo = nextDemo]
            /\ UNCHANGED <<avars, match, remote, Other>>

ImportStats == /\ recv.pc = "import"
               /\ Stored(recv.demo)
               /\ match' = match \cup {recv.demo}
               /\ RStep("chat")
               /\ UNCHANGED <<avars, demo, nextDemo, remote, Other>>

ImportChat == /\ recv.pc = "chat"
              /\ RStep("erase")
              /\ UNCHANGED <<avars, demoTables, remote, Other>>

\* Mutant of ReceiveFails: the error is logged and forgotten.
ErrorForgotten == /\ recv.pc \in {"existing", "unstat", "save", "import", "chat"}
                  /\ RStep("erase")
                  /\ UNCHANGED <<avars, demoTables, remote, Other>>

\* The server is unknown, the parser does not answer, a statement fails: the
\* asset is deleted again.
ReceiveFails == /\ recv.pc \in {"existing", "unstat", "save", "import", "chat"}
                /\ RStep("undo")
                /\ Delete(Receiver, TheAsset)
                /\ UNCHANGED <<demoTables, remote, Other>>

UndoReturns == /\ recv.pc = "undo"
               /\ clients[Receiver].pc = "idle"
               /\ recv' = IdleReceiver
               /\ UNCHANGED <<avars, demoTables, remote, Other>>

\* The file is deleted on the game server; when that fails it is there for the
\* next round.
Erase == /\ recv.pc = "erase"
         /\ remote' \in {remote, remote \ {recv.file}}
         /\ recv' = IdleReceiver
         /\ UNCHANGED <<avars, demoTables, Other>>

-----------------------------------------------------------------------------
(* The cleaner: Cleanup, TruncateByCount, RemoveOrphans.                   *)

Rest == <<demoTables, remote, recv, reported>>
CleanerFree == clients[Cleaner].pc = "idle"

\* ExpiredDemos; a query that fails lists nothing.
Truncate == /\ clean.pc = "idle"
            /\ \E todo \in {Expired(CountLimit), {}} : clean' = [pc |-> "truncate", todo |-> todo]
            /\ UNCHANGED <<avars, Rest>>

\* SoftDelete of the asset that demo d was listed with.  A demo that is gone
\* took its asset with it, and SoftDelete finds nothing.
Hide(d) == IF Stored(d) THEN SoftDelete(Cleaner, demo[d].asset)
                        ELSE AFailed(Cleaner) /\ UNCHANGED <<asset, nextAsset, file>>

Flush(d) == /\ clean.pc = "truncate" /\ CleanerFree
            /\ d \in clean.todo /\ d = Newest(clean.todo)
            /\ Hide(d)
            /\ clean' = [clean EXCEPT !.todo = @ \ {d}]
            /\ UNCHANGED Rest

ListDemos == /\ clean.pc = "truncate" /\ CleanerFree
             /\ clean.todo = {}
             /\ clean' = [pc |-> "orphans", todo |-> Listed]
             /\ UNCHANGED <<avars, Rest>>

HasFile(d) == /\ Stored(d) /\ LiveAsset(demo[d].asset)
              /\ file[asset[demo[d].asset].hash] # "absent"

\* Mutant of CheckOrphan: only the row of the asset is looked at.
CheckRowOnly(d) ==
    /\ clean.pc = "orphans" /\ CleanerFree
    /\ d \in clean.todo /\ d = Newest(clean.todo)
    /\ clean' = IF d \in Listed THEN [clean EXCEPT !.todo = @ \ {d}] ELSE [clean EXCEPT !.pc = "remove"]
    /\ UNCHANGED <<avars, Rest>>

CheckOrphan(d) ==
    /\ clean.pc = "orphans" /\ CleanerFree
    /\ d \in clean.todo /\ d = Newest(clean.todo)
    /\ clean' = IF HasFile(d) THEN [clean EXCEPT !.todo = @ \ {d}] ELSE [clean EXCEPT !.pc = "remove"]
    /\ UNCHANGED <<avars, Rest>>

RemoveOrphan(d) ==
    /\ clean.pc = "remove"
    /\ d = Newest(clean.todo)
    /\ Hide(d)
    /\ clean' = [pc |-> "orphans", todo |-> clean.todo \ {d}]
    /\ UNCHANGED Rest

\* The list is done, or a query fails.
CleanEnds == /\ clean.pc \in {"truncate", "orphans"} /\ CleanerFree
             /\ clean.pc = "truncate" => clean.todo = {}
             /\ clean' = IdleCleaner
             /\ UNCHANGED <<avars, Rest>>

-----------------------------------------------------------------------------
(* Reports: reportCreate reads the demo and, with the report stored, saves *)
(* it with its flag set.                                                   *)

ReportReads(d) == /\ reported = 0
                  /\ d \in Flushable
                  /\ reported' = d
                  /\ UNCHANGED <<avars, demoTables, remote, recv, clean>>

MarkArchived == /\ reported # 0
                /\ demo' = IF Stored(reported) THEN [demo EXCEPT ![reported].archive = TRUE] ELSE demo
                /\ reported' = 0
                /\ UNCHANGED <<avars, nextDemo, match, remote, recv, clean>>

ReportFails == /\ reported # 0
               /\ reported' = 0
               /\ UNCHANGED <<avars, demoTables, remote, recv, clean>>

-----------------------------------------------------------------------------
DRestart == /\ ARestart
            /\ recv' = IdleReceiver /\ clean' = IdleCleaner /\ reported' = 0
            /\ UNCHANGED <<demoTables, remote>>

ReceiverNext ==
    \/ StoreStep(Receiver)
    \/ \E x \in Hashes : Receive(x)
    \/ PutReturns \/ FindExisting \/ DeleteStats \/ SaveDemo \/ ImportStats \/ ImportChat
    \/ ReceiveFails \/ UndoReturns \/ Erase

CleanerNext ==
    \/ StoreStep(Cleaner)
    \/ Truncate \/ ListDemos \/ CleanEnds
    \/ \E d \in DemoIds : Flush(d) \/ CheckOrphan(d) \/ RemoveOrphan(d)

ReporterNext == MarkArchived \/ ReportFails \/ \E d \in DemoIds : ReportReads(d)

DNext == DRestart \/ ReceiverNext \/ CleanerNext \/ ReporterNext

DSpec == DInit /\ [][DNext]_dvars

MarkFlagged(id) == /\ clients[Cleaner].pc = "mark" /\ clients[Cleaner].id = id
                   /\ StoreStep(Cleaner) /\ clients'[Cleaner].pc = "remove"

\* The monitor goroutine starts a cleanup at every tick and the cleanup goes
\* on, no statement fails every time it is tried, and the process stays up in
\* the end.
DFairness ==
    /\ <>[][~DRestart]_dvars
    /\ WF_dvars(CleanerNext)
    /\ SF_dvars(Truncate /\ clean'.todo = Expired(CountLimit)) /\ SF_dvars(ListDemos)
    /\ \A d \in DemoIds : SF_dvars(CheckOrphan(d))
    /\ \A id \in AssetIds : SF_dvars(MarkFlagged(id))

DLiveSpec == DSpec /\ DFairness

-----------------------------------------------------------------------------
(* Properties.                                                             *)

\* A demo file leaves the game server only with its demo stored: a row, its
\* match and a row of its content are there, whatever the cleaner and the
\* reports do meanwhile.
ErasedOnlyWhenStored ==
    [][\A x \in remote \ remote' :
          \E d \in match : Stored(d) /\ Kept(demo[d].asset) /\ asset[demo[d].asset].hash = x]_dvars

\* Demos whose file is gone do not stay listed: again and again there is none
\* (RemoveOrphans).
Broken(d) == d \in Listed /\ file[asset[demo[d].asset].hash] = "absent"
BrokenDemosHidden == []<>(\A d \in DemoIds : ~Broken(d))

\* Again and again no more demos are kept than the limit, archived ones apart
\* (TruncateByCount).
CountRespected == []<>(Cardinality(Flushable) <= CountLimit)

\* demo.go:94, "When true, will not get auto deleted when flushing old demos":
\* the list of demos to flush has no asset of an archived demo.
ArchivedNotFlushed ==
    [][Truncate => \A d \in clean'.todo : \A e \in DemosOf(demo[d].asset) : ~demo[e].archive]_dvars

\* demo.go:288, "Cleanup the asset not attached to a valid demo": the asset
\* deleted after a failed reception takes no earlier demo with it that a report
\* has archived.  No run checks it, for it does not hold: the same file received
\* again shares its asset with the earlier demo.
UndoKeepsArchived ==
    [][DropDemos(Receiver) => \A d \in DemosOf(TheAsset) : demo[d].archive => d = recv.demo]_dvars
=============================================================================
