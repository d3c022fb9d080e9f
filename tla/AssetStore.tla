----------------------------- MODULE AssetStore -----------------------------
(***************************************************************************)
(* Stored files: internal/asset/{asset_repo,asset,asset_service}.go.       *)
(*                                                                         *)
(* An asset is a row of the asset table and a file named by the hash of    *)
(* its content.  The two are changed one after the other, without a lock;  *)
(* a step of the model is one statement or one call on the file system.    *)
(***************************************************************************)
EXTENDS Naturals

CONSTANTS Hashes,    \* contents that get uploaded
          Clients,   \* goroutines that use the store
          MaxAssets, \* bound: rows ever inserted
          NoAsset, NoHash

ASSUME AssetAssumption == MaxAssets \in Nat /\ NoHash \notin Hashes

VARIABLES asset,     \* the asset table, by asset_id
          nextAsset, \* the id of the next new asset
          file,      \* the content of the file of each hash
          clients

avars == <<asset, nextAsset, file, clients>>

AssetIds == 1..MaxAssets
Record == [hash : Hashes, deleted : BOOLEAN]

ASSUME NoAssetAssumption == NoAsset \notin Record

\* A file is absent, cut short, or holds its whole content.
Contents == {"absent", "part", "whole"}

\* How a client's open file stands: its own since it truncated it, truncated
\* by somebody else since, or unlinked.
Descriptors == {"none", "own", "shared", "lost"}

ASteps == {"idle", "lookup", "deleted", "restore", "create", "copy", "save",
           "unlink", "mark", "drop", "remove"}
AOps == {"none", "put", "softdelete", "delete"}
AResults == {"none", "stored", "removed", "failed"}

Client == [pc : ASteps, op : AOps, id : AssetIds \cup {0}, hash : Hashes \cup {NoHash},
           fd : Descriptors, result : AResults]

AssetTypeOK ==
    /\ asset \in [AssetIds -> Record \cup {NoAsset}]
    /\ nextAsset \in 1..(MaxAssets + 1)
    /\ file \in [Hashes -> Contents]
    /\ clients \in [Clients -> Client]

Kept(id) == asset[id] # NoAsset
LiveAsset(id) == Kept(id) /\ ~asset[id].deleted
LiveOf(x) == {id \in AssetIds : LiveAsset(id) /\ asset[id].hash = x}
DeletedOf(x) == {id \in AssetIds : Kept(id) /\ asset[id].deleted /\ asset[id].hash = x}

\* A client that has been answered, with the asset where there is one.
ADone(id, r) == [pc |-> "idle", op |-> "none", id |-> id, hash |-> NoHash, fd |-> "none", result |-> r]
AGoto(c, step) == clients' = [clients EXCEPT ![c].pc = step]
AAnswer(c, id, r) == clients' = [clients EXCEPT ![c] = ADone(id, r)]
AFailed(c) == AAnswer(c, 0, "failed")
AStart(c, step, op, id, x) ==
    clients' = [clients EXCEPT ![c] = [pc |-> step, op |-> op, id |-> id, hash |-> x,
                                       fd |-> "none", result |-> "none"]]

Resets(cs) == [c \in Clients |-> ADone(0, "none")]

\* The open files of hash x after somebody has truncated or unlinked it.
WithFd(cs, x, from, to) ==
    [c \in Clients |-> IF cs[c].hash = x /\ cs[c].fd \in from
                       THEN [cs[c] EXCEPT !.fd = to] ELSE cs[c]]

AInit ==
    /\ asset = [id \in AssetIds |-> NoAsset]
    /\ nextAsset = 1
    /\ file = [x \in Hashes |-> "absent"]
    /\ clients = Resets(Clients)

\* Assets.Create has hashed the content of an upload.
Put(c, x) == /\ clients[c].pc = "idle"
             /\ AStart(c, "lookup", "put", 0, x)
             /\ UNCHANGED <<asset, nextAsset, file>>

\* Mutant of PutLookupDeleted: a deleted row of the hash is not looked for.
AlwaysInsert(c) ==
    /\ clients[c].pc = "deleted"
    /\ AGoto(c, "create")
    /\ UNCHANGED <<asset, nextAsset, file>>

\* Mutant of PutLookup: the query does not ask for rows that are not deleted.
PutLookupAny(c) ==
    /\ clients[c].pc = "lookup"
    /\ \/ LiveOf(clients[c].hash) = {} /\ DeletedOf(clients[c].hash) = {} /\ AGoto(c, "deleted")
       \/ \E id \in LiveOf(clients[c].hash) \cup DeletedOf(clients[c].hash) :
             AAnswer(c, id, "stored")
    /\ UNCHANGED <<asset, nextAsset, file>>

\* Put looks for a live row of the hash and answers with it ...
PutLookup(c) ==
    /\ clients[c].pc = "lookup"
    /\ \/ LiveOf(clients[c].hash) = {} /\ AGoto(c, "deleted")
       \/ \E id \in LiveOf(clients[c].hash) : AAnswer(c, id, "stored")
    /\ UNCHANGED <<asset, nextAsset, file>>

\* ... then for a deleted one, to restore it ...
PutLookupDeleted(c) ==
    /\ clients[c].pc = "deleted"
    /\ \/ DeletedOf(clients[c].hash) = {} /\ AGoto(c, "create")
       \/ \E id \in DeletedOf(clients[c].hash) :
             clients' = [clients EXCEPT ![c].id = id, ![c].pc = "restore"]
    /\ UNCHANGED <<asset, nextAsset, file>>

\* ... which Restore reads once more.
RestoreFind(c) ==
    /\ clients[c].pc = "restore"
    /\ IF clients[c].id \in DeletedOf(clients[c].hash) THEN AGoto(c, "create")
                                                       ELSE AFailed(c)
    /\ UNCHANGED <<asset, nextAsset, file>>

\* os.Create makes the file or truncates the one that is there.
CreateFile(c) ==
    LET x == clients[c].hash IN
    /\ clients[c].pc = "create"
    /\ file' = [file EXCEPT ![x] = "part"]
    /\ clients' = [WithFd(clients, x, {"own"}, "shared") EXCEPT ![c].pc = "copy", ![c].fd = "own"]
    /\ UNCHANGED <<asset, nextAsset>>

\* Mutant of CopyFile: the file is opened for appending, so a copy that overlaps
\* another one adds its bytes after those that are there.
CopyAppends(c) ==
    LET x == clients[c].hash IN
    /\ clients[c].pc = "copy"
    /\ file' \in CASE clients[c].fd = "own"    -> {[file EXCEPT ![x] = "whole"]}
                   [] clients[c].fd = "shared" -> {[file EXCEPT ![x] = "part"], file}
                   [] OTHER                    -> {file}
    /\ AGoto(c, "save")
    /\ UNCHANGED <<asset, nextAsset>>

\* io.Copy into the open file.  Bytes written before somebody else truncated
\* it are gone, and an unlinked file is nobody's.
CopyFile(c) ==
    LET x == clients[c].hash IN
    /\ clients[c].pc = "copy"
    /\ file' \in CASE clients[c].fd = "own"    -> {[file EXCEPT ![x] = "whole"]}
                   [] clients[c].fd = "shared" -> {[file EXCEPT ![x] = "whole"], file}
                   [] OTHER                    -> {file}
    /\ AGoto(c, "save")
    /\ UNCHANGED <<asset, nextAsset>>

\* saveAssetToDB inserts the row, Restore clears the flag of the one it found;
\* an update that finds no row succeeds too.
SaveRow(c) ==
    LET id == clients[c].id
        x  == clients[c].hash
    IN
    /\ clients[c].pc = "save"
    /\ IF id = 0
       THEN /\ nextAsset <= MaxAssets
            /\ asset' = [asset EXCEPT ![nextAsset] = [hash |-> x, deleted |-> FALSE]]
            /\ nextAsset' = nextAsset + 1
            /\ AAnswer(c, nextAsset, "stored")
       ELSE /\ asset' = IF Kept(id) THEN [asset EXCEPT ![id].deleted = FALSE] ELSE asset
            /\ AAnswer(c, id, "stored")
            /\ UNCHANGED nextAsset
    /\ UNCHANGED file

SaveFails(c) == /\ clients[c].pc = "save"
                /\ AGoto(c, "unlink")
                /\ UNCHANGED <<asset, nextAsset, file>>

Unlinks(c, result) ==
    LET x == clients[c].hash IN
    /\ file' = [file EXCEPT ![x] = "absent"]
    /\ clients' = [WithFd(clients, x, {"own", "shared"}, "lost") EXCEPT
                      ![c] = ADone(0, result)]
    /\ UNCHANGED <<asset, nextAsset>>

\* After a failed save the file is taken away again.
Unlink(c) == clients[c].pc = "unlink" /\ Unlinks(c, "failed")

\* Mutant of SoftDelete: the file goes first, the row is flagged after it.
FileFirst(c, id) ==
    /\ clients[c].pc = "idle"
    /\ LiveAsset(id)
    /\ file' = [file EXCEPT ![asset[id].hash] = "absent"]
    /\ AStart(c, "mark", "softdelete", id, asset[id].hash)
    /\ UNCHANGED <<asset, nextAsset>>

\* Mutant of SoftDelete: the path is made from the id.
PathOfId(c, id) == /\ clients[c].pc = "idle"
                   /\ LiveAsset(id)
                   /\ AStart(c, "mark", "softdelete", id, id)
                   /\ UNCHANGED <<asset, nextAsset, file>>

\* Repository.SoftDelete: find the live row, flag it, remove its file.
SoftDelete(c, id) ==
    /\ clients[c].pc = "idle"
    /\ IF LiveAsset(id) THEN AStart(c, "mark", "softdelete", id, asset[id].hash)
                        ELSE AFailed(c)
    /\ UNCHANGED <<asset, nextAsset, file>>

MarkDeleted(c) ==
    LET id == clients[c].id IN
    /\ clients[c].pc = "mark"
    /\ asset' = IF Kept(id) THEN [asset EXCEPT ![id].deleted = TRUE] ELSE asset
    /\ AGoto(c, "remove")
    /\ UNCHANGED <<nextAsset, file>>

\* Repository.Delete: find the row, deleted or not, drop it, remove its file.
Delete(c, id) ==
    /\ clients[c].pc = "idle"
    /\ IF Kept(id) THEN AStart(c, "drop", "delete", id, asset[id].hash)
                   ELSE AFailed(c)
    /\ UNCHANGED <<asset, nextAsset, file>>

DropRow(c) ==
    /\ clients[c].pc = "drop"
    /\ asset' = [asset EXCEPT ![clients[c].id] = NoAsset]
    /\ AGoto(c, "remove")
    /\ UNCHANGED <<nextAsset, file>>

\* os.Remove; a file that is not there counts as removed.
RemoveFile(c) == clients[c].pc = "remove" /\ Unlinks(c, "removed")

\* A statement or a call fails, or the client goes away, and the request ends.
\* A copy that fails leaves what it has written.
AFail(c) == /\ clients[c].pc \notin {"idle", "save"}
            /\ AFailed(c)
            /\ UNCHANGED <<asset, nextAsset, file>>

\* The process dies and is started again: the table and the files survive.
ARestart == /\ clients' = Resets(Clients)
            /\ UNCHANGED <<asset, nextAsset, file>>

AContinue(c) ==
    \/ PutLookup(c) \/ PutLookupDeleted(c) \/ RestoreFind(c) \/ CreateFile(c) \/ CopyFile(c)
    \/ SaveRow(c) \/ SaveFails(c) \/ Unlink(c) \/ MarkDeleted(c) \/ DropRow(c) \/ RemoveFile(c)
    \/ AFail(c)

ABegin(c) == \/ \E x \in Hashes : Put(c, x)
             \/ \E id \in AssetIds : SoftDelete(c, id) \/ Delete(c, id)

ANext == ARestart \/ \E c \in Clients : ABegin(c) \/ AContinue(c)

ASpec == AInit /\ [][ANext]_avars

-----------------------------------------------------------------------------
(* Properties.                                                             *)

Readable(x) == LiveOf(x) # {} /\ file[x] = "whole"

\* Requests one at a time, with failures and crashes between any two of their
\* steps: an asset that is not deleted has its whole file (Put writes the file
\* before the row, SoftDelete and Delete give up the row before the file).
LiveHasFile == \A id \in AssetIds : LiveAsset(id) => file[asset[id].hash] = "whole"

\* Under the same conditions no content is stored twice (Put looks for live and
\* for deleted rows of the hash; the table has no unique index on it).
OneRowPerHash ==
    \A i, j \in AssetIds : Kept(i) /\ Kept(j) /\ asset[i].hash = asset[j].hash => i = j

\* What the table, the files and the clients are, seen as a BlobStore.
Available == {x \in Hashes : Readable(x)}
RequestOf(k) == CASE k.op = "put" -> <<"store", k.hash>>
                  [] k.op \in {"softdelete", "delete"} -> <<"remove", k.hash>>
                  [] OTHER -> <<"none">>
Requested == [c \in Clients |-> RequestOf(clients[c])]
Answered == [c \in Clients |-> clients[c].result]

Blob == INSTANCE BlobStore WITH avail <- Available, request <- Requested, answer <- Answered

\* Requests one at a time: rows and files together are the store of contents
\* that BlobStore describes, through failures and crashes.
IsBlobStore == Blob!BlobSpec

\* Uploads of one content at the same time truncate and rewrite one file; it
\* ends up cut short only when a copy fails or the process dies.
Written == \A x \in Hashes : file[x] = "part" =>
              \E c \in Clients : clients[c].pc = "copy" /\ clients[c].hash = x
                                 /\ clients[c].fd = "own"

PartialOnlyByFailure ==
    [][Written /\ ~Written' => ARestart \/ \E c \in Clients : clients[c].pc = "copy" /\ AFail(c)]_avars
=============================================================================
