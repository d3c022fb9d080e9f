---------------------------- MODULE DemosProofs -----------------------------
(***************************************************************************)
(* Theorems about the asset store and the demos kept in it.                *)
(*                                                                         *)
(* AssetStore, for any number of contents and rows: the types for any      *)
(* clients, and for one client at a time that rows and files agree and are *)
(* together the store of BlobStore.                                        *)
(*                                                                         *)
(* Demos, for any contents, limits and numbers of rows: the types, and     *)
(* that a demo file leaves the game server only with its demo stored.  The *)
(* cleaner only flags assets, so the rows the receiver relies on can be    *)
(* taken away by the receiver alone.                                       *)
(***************************************************************************)
EXTENDS Demos, TLAPS

\* What a request has found out about the rows of its hash and still holds
\* when it acts on it, because nobody else runs.
ClientInv(k) ==
    /\ k.pc = "idle" => k.op = "none"
    /\ k.pc # "idle" => k.hash \in Hashes
    /\ k.pc \in {"lookup", "deleted"} => k.op = "put" /\ k.id = 0
    /\ k.pc = "deleted" => LiveOf(k.hash) = {}
    /\ k.pc = "restore" => k.op = "put" /\ k.id \in DeletedOf(k.hash)
    /\ k.pc \in {"restore", "create", "copy", "save", "unlink"} =>
          /\ k.op = "put"
          /\ LiveOf(k.hash) = {}
          /\ k.id = 0 => DeletedOf(k.hash) = {}
          /\ k.id # 0 => k.id \in DeletedOf(k.hash)
    /\ k.pc = "copy" => k.fd = "own"
    /\ k.pc = "save" => file[k.hash] = "whole"
    /\ k.pc = "mark" => k.op = "softdelete" /\ k.id \in LiveOf(k.hash)
    /\ k.pc = "drop" => k.op = "delete" /\ k.id \in AssetIds
                        /\ Kept(k.id) /\ asset[k.id].hash = k.hash
    /\ k.pc = "remove" => k.op \in {"softdelete", "delete"} /\ LiveOf(k.hash) = {}

OldIds == \A id \in AssetIds : Kept(id) => id < nextAsset

-----------------------------------------------------------------------------
(* Types.                                                                  *)

\* Only a hash of a content reaches the table.
Named == \A c \in Clients : clients[c].pc # "idle" => clients[c].hash \in Hashes

LEMMA StartTyped ==
    ASSUME AssetTypeOK, Named, NEW c \in Clients, NEW step \in ASteps, NEW op \in AOps,
           NEW id \in AssetIds \cup {0}, NEW x \in Hashes, AStart(c, step, op, id, x)
    PROVE  clients' \in [Clients -> Client] /\ Named'
<1> DEFINE k == [pc |-> step, op |-> op, id |-> id, hash |-> x, fd |-> "none", result |-> "none"]
<1>1. k \in Client
  BY DEF Client, Descriptors, AResults
<1>2. clients' = [clients EXCEPT ![c] = k]
  BY DEF AStart
<1>3. k.hash \in Hashes
  OBVIOUS
<1> HIDE DEF k
<1> QED BY <1>1, <1>2, <1>3 DEF AssetTypeOK, Named

LEMMA DoneTyped ==
    ASSUME NEW id \in AssetIds \cup {0}, NEW r \in AResults
    PROVE  ADone(id, r) \in Client /\ ADone(id, r).pc = "idle"
BY DEF ADone, Client, ASteps, AOps, Descriptors

LEMMA FieldsTyped ==
    ASSUME AssetTypeOK, NEW c \in Clients
    PROVE  /\ clients[c] \in Client
           /\ clients[c].id \in AssetIds \cup {0}
           /\ clients[c].hash \in Hashes \cup {NoHash}
BY DEF AssetTypeOK, Client

LEMMA AnsweredTyped ==
    ASSUME AssetTypeOK, Named, NEW c \in Clients, NEW id \in AssetIds \cup {0},
           NEW r \in AResults, AAnswer(c, id, r)
    PROVE  clients' \in [Clients -> Client] /\ Named'
<1> DEFINE k == ADone(id, r)
<1>1. k \in Client /\ k.pc = "idle"
  BY DoneTyped
<1>2. clients' = [clients EXCEPT ![c] = k]
  BY DEF AAnswer
<1> HIDE DEF k
<1> QED BY <1>1, <1>2 DEF AssetTypeOK, Named

LEMMA FailedTyped ==
    ASSUME AssetTypeOK, Named, NEW c \in Clients, AFailed(c)
    PROVE  clients' \in [Clients -> Client] /\ Named'
BY AnsweredTyped DEF AFailed, AResults

LEMMA GotoTyped ==
    ASSUME AssetTypeOK, Named, NEW c \in Clients, NEW step \in ASteps, AGoto(c, step),
           clients[c].pc # "idle"
    PROVE  clients' \in [Clients -> Client] /\ Named'
BY DEF AssetTypeOK, Named, AGoto, Client

LEMMA WithFdTyped ==
    ASSUME AssetTypeOK, Named, NEW x, NEW from, NEW to \in Descriptors
    PROVE  LET cs == WithFd(clients, x, from, to) IN
           /\ cs \in [Clients -> Client]
           /\ \A c \in Clients : cs[c].pc = clients[c].pc /\ cs[c].hash = clients[c].hash
                                /\ cs[c].id = clients[c].id /\ cs[c].op = clients[c].op
BY DEF WithFd, AssetTypeOK, Client

LEMMA UnlinksTyped ==
    ASSUME AssetTypeOK, Named, NEW c \in Clients, NEW r \in AResults, Unlinks(c, r)
    PROVE  AssetTypeOK' /\ Named'
<1> DEFINE x  == clients[c].hash
           cs == WithFd(clients, x, {"own", "shared"}, "lost")
           k  == ADone(0, r)
<1>1. /\ cs \in [Clients -> Client]
      /\ \A d \in Clients : cs[d].pc = clients[d].pc /\ cs[d].hash = clients[d].hash
                           /\ cs[d].id = clients[d].id
  BY WithFdTyped DEF Descriptors
<1>2. clients' = [cs EXCEPT ![c] = k] /\ UNCHANGED <<asset, nextAsset>>
  BY DEF Unlinks
<1>3. k \in Client /\ k.pc = "idle"
  BY <1>1, DoneTyped, FieldsTyped
<1>4. file' \in [Hashes -> Contents]
  BY DEF Unlinks, AssetTypeOK, Contents
<1> HIDE DEF cs, k
<1> QED BY <1>1, <1>2, <1>3, <1>4 DEF AssetTypeOK, Named

LEMMA RecordOf ==
    ASSUME AssetTypeOK, NEW id \in AssetIds, Kept(id)
    PROVE  asset[id] \in Record /\ asset[id].hash \in Hashes
BY DEF AssetTypeOK, Kept, Record

LEMMA FlagTyped ==
    ASSUME AssetTypeOK, NEW id, NEW b \in BOOLEAN,
           asset' = IF Kept(id) THEN [asset EXCEPT ![id].deleted = b] ELSE asset
    PROVE  asset' \in [AssetIds -> Record \cup {NoAsset}]
<1>1. CASE id \in AssetIds /\ Kept(id)
  <2>1. [asset[id] EXCEPT !.deleted = b] \in Record
    BY <1>1, RecordOf DEF Record
  <2> QED BY <1>1, <2>1 DEF AssetTypeOK
<1>2. CASE ~(id \in AssetIds /\ Kept(id))
  BY <1>2 DEF AssetTypeOK
<1> QED BY <1>1, <1>2

LEMMA FlagSet ==
    ASSUME AssetTypeOK, NEW id \in AssetIds, Kept(id), NEW b \in BOOLEAN,
           asset' = [asset EXCEPT ![id].deleted = b]
    PROVE  /\ asset'[id].hash = asset[id].hash /\ asset'[id].deleted = b
           /\ \A i \in AssetIds : /\ Kept(i)' <=> Kept(i)
                                  /\ i # id => asset'[i] = asset[i]
<1>1. asset'[id] = [asset[id] EXCEPT !.deleted = b]
  BY DEF AssetTypeOK
<1>2. asset'[id] \in Record /\ asset'[id].hash = asset[id].hash /\ asset'[id].deleted = b
  BY <1>1, RecordOf DEF Record
<1>3. \A i \in AssetIds : i # id => asset'[i] = asset[i]
  BY DEF AssetTypeOK
<1> QED BY <1>2, <1>3, NoAssetAssumption DEF Kept

LEMMA TypesKept ==
    ASSUME AssetTypeOK, Named, [ANext]_avars
    PROVE  AssetTypeOK' /\ Named'
<1> USE AssetAssumption
<1>1. CASE UNCHANGED avars
  BY <1>1 DEF AssetTypeOK, Named, avars
<1>2. CASE ARestart
  <2>1. ADone(0, "none") \in Client /\ ADone(0, "none").pc = "idle"
    BY DoneTyped DEF AResults
  <2> QED BY <1>2, <2>1 DEF ARestart, Resets, AssetTypeOK, Named
<1>3. ASSUME NEW c \in Clients, ABegin(c) PROVE AssetTypeOK' /\ Named'
  <2>1. ASSUME NEW x \in Hashes, Put(c, x) PROVE AssetTypeOK' /\ Named'
    <3>1. clients' \in [Clients -> Client] /\ Named'
      BY <2>1, StartTyped DEF Put, ASteps, AOps
    <3> QED BY <2>1, <3>1 DEF Put, AssetTypeOK
  <2>2. ASSUME NEW id \in AssetIds, SoftDelete(c, id) PROVE AssetTypeOK' /\ Named'
    <3>1. clients' \in [Clients -> Client] /\ Named'
      BY <2>2, StartTyped, FailedTyped, RecordOf DEF SoftDelete, LiveAsset, ASteps, AOps, AResults
    <3> QED BY <2>2, <3>1 DEF SoftDelete, AssetTypeOK
  <2>3. ASSUME NEW id \in AssetIds, Delete(c, id) PROVE AssetTypeOK' /\ Named'
    <3>1. clients' \in [Clients -> Client] /\ Named'
      BY <2>3, StartTyped, FailedTyped, RecordOf DEF Delete, ASteps, AOps, AResults
    <3> QED BY <2>3, <3>1 DEF Delete, AssetTypeOK
  <2> QED BY <1>3, <2>1, <2>2, <2>3 DEF ABegin
<1>4. ASSUME NEW c \in Clients, AContinue(c) PROVE AssetTypeOK' /\ Named'
  <2>1. CASE PutLookup(c)
    <3>1. clients' \in [Clients -> Client] /\ Named'
      BY <2>1, AnsweredTyped, GotoTyped DEF PutLookup, LiveOf, ASteps, AResults
    <3> QED BY <2>1, <3>1 DEF PutLookup, AssetTypeOK
  <2>2. CASE PutLookupDeleted(c)
    <3>1. ASSUME NEW id \in DeletedOf(clients[c].hash),
                 clients' = [clients EXCEPT ![c].id = id, ![c].pc = "restore"]
          PROVE  clients' \in [Clients -> Client] /\ Named'
      <4> DEFINE k == [clients[c] EXCEPT !.id = id, !.pc = "restore"]
      <4>1. k \in Client /\ k.hash = clients[c].hash /\ clients[c].pc # "idle"
        BY <2>2, FieldsTyped DEF PutLookupDeleted, DeletedOf, Client, ASteps
      <4>2. clients' = [clients EXCEPT ![c] = k]
        BY <3>1, FieldsTyped DEF AssetTypeOK
      <4> HIDE DEF k
      <4> QED BY <4>1, <4>2 DEF AssetTypeOK, Named
    <3>2. clients' \in [Clients -> Client] /\ Named'
      BY <2>2, <3>1, GotoTyped DEF PutLookupDeleted, ASteps
    <3> QED BY <2>2, <3>2 DEF PutLookupDeleted, AssetTypeOK
  <2>3. CASE RestoreFind(c)
    <3>1. clients' \in [Clients -> Client] /\ Named'
      BY <2>3, GotoTyped, FailedTyped DEF RestoreFind, ASteps, AResults
    <3> QED BY <2>3, <3>1 DEF RestoreFind, AssetTypeOK
  <2>4. CASE CreateFile(c)
    <3> DEFINE cs == WithFd(clients, clients[c].hash, {"own"}, "shared")
    <3>1. /\ cs \in [Clients -> Client]
          /\ \A d \in Clients : cs[d].pc = clients[d].pc /\ cs[d].hash = clients[d].hash
      BY WithFdTyped DEF Descriptors
    <3>2. clients' = [cs EXCEPT ![c].pc = "copy", ![c].fd = "own"]
      BY <2>4 DEF CreateFile
    <3>3. file' \in [Hashes -> Contents] /\ UNCHANGED <<asset, nextAsset>> /\ clients[c].pc # "idle"
      BY <2>4 DEF CreateFile, AssetTypeOK, Contents
    <3> HIDE DEF cs
    <3> DEFINE k == [cs[c] EXCEPT !.pc = "copy", !.fd = "own"]
    <3>6. cs[c] \in Client /\ cs[c].hash = clients[c].hash
      BY <3>1
    <3>7. "copy" \in ASteps /\ "own" \in Descriptors
      BY DEF ASteps, Descriptors
    <3>4. k \in Client /\ k.hash = clients[c].hash
      BY <3>6, <3>7 DEF Client
    <3>5. clients' = [cs EXCEPT ![c] = k]
      BY <3>1, <3>2
    <3> HIDE DEF k
    <3> QED BY <3>1, <3>3, <3>4, <3>5 DEF AssetTypeOK, Named
  <2>5. CASE CopyFile(c)
    <3>1. clients' \in [Clients -> Client] /\ Named'
      BY <2>5, GotoTyped DEF CopyFile, ASteps
    <3>2. file' \in [Hashes -> Contents]
      BY <2>5 DEF CopyFile, AssetTypeOK, Contents
    <3> QED BY <2>5, <3>1, <3>2 DEF CopyFile, AssetTypeOK
  <2>6. CASE SaveRow(c)
    <3>1. CASE clients[c].id = 0
      <4>1. clients[c].hash \in Hashes /\ nextAsset \in AssetIds
        BY <2>6, <3>1 DEF SaveRow, Named, AssetTypeOK, AssetIds
      <4>2. clients' \in [Clients -> Client] /\ Named'
        BY <2>6, <3>1, <4>1, AnsweredTyped DEF SaveRow, AResults
      <4>3. asset' \in [AssetIds -> Record \cup {NoAsset}]
        <5>1. [hash |-> clients[c].hash, deleted |-> FALSE] \in Record
          BY <4>1 DEF Record
        <5> QED BY <2>6, <3>1, <4>1, <5>1 DEF SaveRow, AssetTypeOK
      <4> QED BY <2>6, <3>1, <4>1, <4>2, <4>3 DEF SaveRow, AssetTypeOK, AssetIds
    <3>2. CASE clients[c].id # 0
      <4>1. clients' \in [Clients -> Client] /\ Named'
        BY <2>6, <3>2, FieldsTyped, AnsweredTyped DEF SaveRow, AResults
      <4>2. asset' \in [AssetIds -> Record \cup {NoAsset}]
        BY <2>6, <3>2, FlagTyped DEF SaveRow
      <4> QED BY <2>6, <3>2, <4>1, <4>2 DEF SaveRow, AssetTypeOK
    <3> QED BY <3>1, <3>2
  <2>7. CASE SaveFails(c)
    <3>1. clients' \in [Clients -> Client] /\ Named'
      BY <2>7, GotoTyped DEF SaveFails, ASteps
    <3> QED BY <2>7, <3>1 DEF SaveFails, AssetTypeOK
  <2>8. CASE Unlink(c)
    BY <2>8, UnlinksTyped DEF Unlink, AResults
  <2>9. CASE MarkDeleted(c)
    <3>1. clients' \in [Clients -> Client] /\ Named'
      BY <2>9, GotoTyped DEF MarkDeleted, ASteps
    <3>2. asset' \in [AssetIds -> Record \cup {NoAsset}]
      BY <2>9, FlagTyped DEF MarkDeleted
    <3> QED BY <2>9, <3>1, <3>2 DEF MarkDeleted, AssetTypeOK
  <2>10. CASE DropRow(c)
    <3>1. clients' \in [Clients -> Client] /\ Named'
      BY <2>10, GotoTyped DEF DropRow, ASteps
    <3> QED BY <2>10, <3>1 DEF DropRow, AssetTypeOK
  <2>11. CASE RemoveFile(c)
    BY <2>11, UnlinksTyped DEF RemoveFile, AResults
  <2>12. CASE AFail(c)
    <3>1. clients' \in [Clients -> Client] /\ Named'
      BY <2>12, FailedTyped DEF AFail, AResults
    <3> QED BY <2>12, <3>1 DEF AFail, AssetTypeOK
  <2> QED BY <1>4, <2>1, <2>2, <2>3, <2>4, <2>5, <2>6, <2>7, <2>8, <2>9, <2>10, <2>11, <2>12
          DEF AContinue
<1> QED BY <1>1, <1>2, <1>3, <1>4 DEF ANext

LEMMA InitTyped == AInit => AssetTypeOK /\ Named
<1>1. ADone(0, "none") \in Client /\ ADone(0, "none").pc = "idle"
  BY DoneTyped DEF AResults
<1> QED BY <1>1, AssetAssumption DEF AInit, Resets, AssetTypeOK, Named, AssetIds, Contents

\* Every variable of the store keeps its type, for any number of contents,
\* clients and rows, whatever the clients do at the same time.
THEOREM AssetsTyped == ASpec => []AssetTypeOK
<1>1. AssetTypeOK /\ Named /\ [ANext]_avars => AssetTypeOK' /\ Named'
  BY TypesKept
<1> QED BY InitTyped, <1>1, PTL DEF ASpec

-----------------------------------------------------------------------------
(* Uploads at the same time.                                               *)

\* Client c is writing the file of hash x, truncated by itself and nobody since.
Writes(c, x) == clients[c].pc = "copy" /\ clients[c].hash = x /\ clients[c].fd = "own"

\* A step of a client that is not copying keeps every writer of a file it does not touch.
LEMMA WritersStay ==
    ASSUME AssetTypeOK, NEW c \in Clients, NEW x \in Hashes, ABegin(c) \/ AContinue(c),
           clients[c].pc # "copy", file'[x] = "part"
    PROVE  Writes(c, x)' \/ (file[x] = "part" /\ \A d \in Clients : Writes(d, x) => Writes(d, x)')
<1>1. CASE UNCHANGED file /\ (\E k : clients' = [clients EXCEPT ![c] = k])
  BY <1>1 DEF AssetTypeOK, Writes
<1>2. CASE CreateFile(c)
  <2>1. WithFd(clients, clients[c].hash, {"own"}, "shared") \in [Clients -> Client]
    BY WithFdTyped, GotoTyped DEF WithFd, AssetTypeOK, Client, Descriptors
  <2>2. /\ clients'[c] = [WithFd(clients, clients[c].hash, {"own"}, "shared")[c]
                             EXCEPT !.pc = "copy", !.fd = "own"]
        /\ \A d \in Clients \ {c} : clients'[d] = WithFd(clients, clients[c].hash, {"own"}, "shared")[d]
    BY <1>2, <2>1 DEF CreateFile
  <2>3. CASE clients[c].hash = x
    <3>1. clients'[c].pc = "copy" /\ clients'[c].fd = "own" /\ clients'[c].hash = x
      BY <2>1, <2>2, <2>3 DEF WithFd, AssetTypeOK, Client
    <3> QED BY <3>1 DEF Writes
  <2>4. CASE clients[c].hash # x
    <3>1. \A d \in Clients \ {c} : clients[d].hash = x => clients'[d] = clients[d]
      BY <2>2, <2>4 DEF WithFd
    <3>2. file[x] = "part"
      BY <1>2, <2>4 DEF CreateFile, AssetTypeOK
    <3> QED BY <3>1, <3>2 DEF Writes
  <2> QED BY <2>3, <2>4
<1>3. CASE \E r : Unlinks(c, r)
  <2>1. PICK r : Unlinks(c, r)
    BY <1>3
  <2>2. clients[c].hash # x /\ file[x] = "part"
    BY <2>1 DEF Unlinks, AssetTypeOK
  <2>3. \A d \in Clients \ {c} : clients'[d] = WithFd(clients, clients[c].hash, {"own", "shared"}, "lost")[d]
    BY <2>1 DEF Unlinks, WithFd
  <2>4. \A d \in Clients \ {c} : clients[d].hash = x => clients'[d] = clients[d]
    BY <2>2, <2>3 DEF WithFd
  <2> QED BY <2>2, <2>4 DEF Writes
<1>4. \/ UNCHANGED file /\ \E k : clients' = [clients EXCEPT ![c] = k]
      \/ CreateFile(c) \/ \E r : Unlinks(c, r)
  BY DEF ABegin, AContinue, Put, SoftDelete, Delete, PutLookup, PutLookupDeleted, RestoreFind, CopyFile,
         SaveRow, SaveFails, Unlink, MarkDeleted, DropRow, RemoveFile, AFail, AStart, AGoto, AAnswer, AFailed
<1> QED BY <1>1, <1>2, <1>3, <1>4

\* A copy that does not fail leaves its file whole, or to the client that truncated it last.
LEMMA CopiesEnd ==
    ASSUME AssetTypeOK, NEW c \in Clients, NEW x \in Hashes, CopyFile(c), file'[x] = "part"
    PROVE  file[x] = "part" /\ \A d \in Clients : Writes(d, x) => Writes(d, x)'
<1>1. \A d \in Clients \ {c} : clients'[d] = clients[d]
  BY DEF CopyFile, AGoto, AssetTypeOK
<1>2. file[x] = "part"
  BY DEF CopyFile, AssetTypeOK, Client, Descriptors
<1>3. ~Writes(c, x)
  BY DEF CopyFile, AssetTypeOK, Client, Descriptors, Writes
<1> QED BY <1>1, <1>2, <1>3 DEF Writes

\* However many clients upload one content at once, each truncating the file the others
\* are writing, a file is left cut short only by a copy that fails or by a restart.
THEOREM PartialByFailure == ASpec => PartialOnlyByFailure
<1> DEFINE LeftInPart == ARestart \/ \E c \in Clients : clients[c].pc = "copy" /\ AFail(c)
<1>1. ASSUME AssetTypeOK, [ANext]_avars, Written, ~LeftInPart
      PROVE  Written'
  <2> SUFFICES ASSUME NEW x \in Hashes, file'[x] = "part"
               PROVE  \E d \in Clients : Writes(d, x)'
    BY DEF Written, Writes
  <2>1. CASE UNCHANGED avars
    BY <1>1, <2>1 DEF avars, Written, Writes
  <2>2. ASSUME NEW c \in Clients, ABegin(c) \/ AContinue(c)
        PROVE  \E d \in Clients : Writes(d, x)'
    <3>1. CASE clients[c].pc # "copy"
      BY <1>1, <2>2, <3>1, WritersStay DEF Written, Writes
    <3>2. CASE clients[c].pc = "copy"
      <4>1. CopyFile(c)
        BY <1>1, <2>2, <3>2 DEF ABegin, AContinue, Put, SoftDelete, Delete, PutLookup, PutLookupDeleted,
                                RestoreFind, CreateFile, SaveRow, SaveFails, Unlink, MarkDeleted, DropRow,
                                RemoveFile
      <4> QED BY <1>1, <4>1, CopiesEnd DEF Written, Writes
    <3> QED BY <3>1, <3>2
  <2> QED BY <1>1, <2>1, <2>2 DEF ANext
<1>2. AssetTypeOK /\ [ANext]_avars => [Written /\ ~Written' => LeftInPart]_avars
  BY <1>1
<1> QED BY <1>2, AssetsTyped, PTL DEF ASpec, PartialOnlyByFailure

-----------------------------------------------------------------------------
(* One client at a time.                                                   *)

Serial == \E c \in Clients : Clients = {c}

RowsInv == LiveHasFile /\ OneRowPerHash /\ OldIds

\* A step of the only client that leaves the table and the files alone.
LEMMA QuietStep ==
    ASSUME RowsInv, NEW c \in Clients, Clients = {c}, UNCHANGED <<asset, nextAsset, file>>,
           ClientInv(clients'[c])
    PROVE  RowsInv' /\ \A d \in Clients : ClientInv(clients[d])'
<1>1. RowsInv'
  BY DEF RowsInv, LiveHasFile, OneRowPerHash, OldIds, LiveAsset, Kept
<1>2. ClientInv(clients[c])'
  BY DEF ClientInv, LiveOf, DeletedOf, LiveAsset, Kept
<1> QED BY <1>1, <1>2

LEMMA IdleInv ==
    ASSUME NEW id, NEW r
    PROVE  ClientInv(ADone(id, r)) /\ ADone(id, r).pc = "idle" /\ ADone(id, r).op = "none"
BY DEF ADone, ClientInv

LEMMA SerialStep ==
    ASSUME NEW c \in Clients, Clients = {c}, AssetTypeOK, Named, RowsInv, ClientInv(clients[c]),
           [ANext]_avars
    PROVE  RowsInv' /\ \A d \in Clients : ClientInv(clients[d])'
<1> DEFINE k == clients[c]
           x == k.hash
           Goal == RowsInv' /\ \A d \in Clients : ClientInv(clients[d])'
<1> USE AssetAssumption
<1>0. k \in Client /\ DOMAIN clients = Clients
  BY DEF AssetTypeOK
<1>1. CASE UNCHANGED avars
  <2>1. ClientInv(clients'[c])
    BY <1>1 DEF avars
  <2> QED BY <1>1, <2>1, QuietStep DEF avars
<1>2. CASE ARestart
  <2>1. ClientInv(clients'[c])
    BY <1>2, IdleInv DEF ARestart, Resets
  <2> QED BY <1>2, <2>1, QuietStep DEF ARestart
<1>3. ASSUME NEW y \in Hashes, Put(c, y) PROVE Goal
  <2>1. ClientInv(clients'[c])
    BY <1>0, <1>3 DEF Put, AStart, ClientInv
  <2> QED BY <1>3, <2>1, QuietStep DEF Put
<1>4. ASSUME NEW id \in AssetIds, SoftDelete(c, id) PROVE Goal
  <2>1. CASE LiveAsset(id)
    <3>1. asset[id].hash \in Hashes /\ id \in LiveOf(asset[id].hash)
      BY <2>1, RecordOf DEF LiveAsset, LiveOf
    <3>2. ClientInv(clients'[c])
      BY <1>0, <1>4, <2>1, <3>1 DEF SoftDelete, AStart, ClientInv
    <3> QED BY <1>4, <3>2, QuietStep DEF SoftDelete
  <2>2. CASE ~LiveAsset(id)
    <3>1. ClientInv(clients'[c])
      BY <1>0, <1>4, <2>2, IdleInv DEF SoftDelete, AFailed, AAnswer
    <3> QED BY <1>4, <3>1, QuietStep DEF SoftDelete
  <2> QED BY <2>1, <2>2
<1>5. ASSUME NEW id \in AssetIds, Delete(c, id) PROVE Goal
  <2>1. CASE Kept(id)
    <3>1. asset[id].hash \in Hashes
      BY <2>1, RecordOf
    <3>2. ClientInv(clients'[c])
      BY <1>0, <1>5, <2>1, <3>1 DEF Delete, AStart, ClientInv
    <3> QED BY <1>5, <3>2, QuietStep DEF Delete
  <2>2. CASE ~Kept(id)
    <3>1. ClientInv(clients'[c])
      BY <1>0, <1>5, <2>2, IdleInv DEF Delete, AFailed, AAnswer
    <3> QED BY <1>5, <3>1, QuietStep DEF Delete
  <2> QED BY <2>1, <2>2
<1>6. CASE PutLookup(c)
  <2>1. CASE LiveOf(x) = {} /\ AGoto(c, "deleted")
    <3>1. ClientInv(clients'[c])
      BY <1>0, <1>6, <2>1 DEF PutLookup, AGoto, ClientInv
    <3> QED BY <1>6, <3>1, QuietStep DEF PutLookup
  <2>2. ASSUME NEW id \in LiveOf(x), AAnswer(c, id, "stored")
        PROVE  Goal
    <3>1. ClientInv(clients'[c])
      BY <1>0, <2>2, IdleInv DEF AAnswer
    <3> QED BY <1>6, <3>1, QuietStep DEF PutLookup
  <2> QED BY <1>6, <2>1, <2>2 DEF PutLookup
<1>7. CASE PutLookupDeleted(c)
  <2>1. CASE DeletedOf(x) = {} /\ AGoto(c, "create")
    <3>1. ClientInv(clients'[c])
      BY <1>0, <1>7, <2>1 DEF PutLookupDeleted, AGoto, ClientInv
    <3> QED BY <1>7, <3>1, QuietStep DEF PutLookupDeleted
  <2>2. ASSUME NEW id \in DeletedOf(x),
               clients' = [clients EXCEPT ![c].id = id, ![c].pc = "restore"]
        PROVE  Goal
    <3>1. clients'[c] = [k EXCEPT !.id = id, !.pc = "restore"] /\ id # 0
      BY <1>0, <2>2 DEF DeletedOf, AssetIds
    <3>2. ClientInv(clients'[c])
      BY <1>0, <1>7, <2>2, <3>1 DEF PutLookupDeleted, ClientInv, Client
    <3> QED BY <1>7, <3>2, QuietStep DEF PutLookupDeleted
  <2> QED BY <1>7, <2>1, <2>2 DEF PutLookupDeleted
<1>8. CASE RestoreFind(c)
  <2>1. CASE AGoto(c, "create")
    <3>1. ClientInv(clients'[c])
      BY <1>0, <1>8, <2>1 DEF RestoreFind, AGoto, ClientInv
    <3> QED BY <1>8, <3>1, QuietStep DEF RestoreFind
  <2>2. CASE AFailed(c)
    <3>1. ClientInv(clients'[c])
      BY <1>0, <2>2, IdleInv DEF AFailed, AAnswer
    <3> QED BY <1>8, <3>1, QuietStep DEF RestoreFind
  <2> QED BY <1>8, <2>1, <2>2 DEF RestoreFind
<1>9. CASE SaveFails(c)
  <2>1. ClientInv(clients'[c])
    BY <1>0, <1>9 DEF SaveFails, AGoto, ClientInv
  <2> QED BY <1>9, <2>1, QuietStep DEF SaveFails
<1>10. CASE AFail(c)
  <2>1. ClientInv(clients'[c])
    BY <1>0, <1>10, IdleInv DEF AFail, AFailed, AAnswer
  <2> QED BY <1>10, <2>1, QuietStep DEF AFail
<1>11. CASE CreateFile(c)
  <2> DEFINE cs == WithFd(clients, x, {"own"}, "shared")
  <2>1. cs \in [Clients -> Client] /\ cs[c].hash = x /\ cs[c].id = k.id /\ cs[c].op = k.op
    BY WithFdTyped DEF Descriptors
  <2>2. clients'[c] = [cs[c] EXCEPT !.pc = "copy", !.fd = "own"]
    BY <1>11, <2>1 DEF CreateFile
  <2> HIDE DEF cs
  <2>3. clients'[c].pc = "copy" /\ clients'[c].fd = "own" /\ clients'[c].hash = x
        /\ clients'[c].id = k.id /\ clients'[c].op = k.op
    BY <2>1, <2>2 DEF Client
  <2>4. x \in Hashes /\ LiveOf(x) = {} /\ k.op = "put" /\ k.pc = "create"
    BY <1>11 DEF CreateFile, ClientInv
  <2>5. RowsInv'
    <3>1. LiveHasFile'
      BY <1>11, <2>4 DEF CreateFile, RowsInv, LiveHasFile, LiveOf, LiveAsset, Kept, AssetTypeOK
    <3> QED BY <1>11, <3>1 DEF CreateFile, RowsInv, OneRowPerHash, OldIds, Kept
  <2>6. ClientInv(clients[c])'
    <3>1. asset' = asset
      BY <1>11 DEF CreateFile
    <3>2. \A h \in Hashes : LiveOf(h)' = LiveOf(h) /\ DeletedOf(h)' = DeletedOf(h)
      BY <3>1 DEF LiveOf, DeletedOf, LiveAsset, Kept
    <3>3. /\ k.id = 0 => DeletedOf(x) = {}
          /\ k.id # 0 => k.id \in DeletedOf(x)
      BY <2>4 DEF ClientInv
    <3> QED BY <2>3, <2>4, <3>2, <3>3 DEF ClientInv
  <2> QED BY <2>5, <2>6
<1>12. CASE CopyFile(c)
  <2>1. k.fd = "own" /\ k.pc = "copy" /\ x \in Hashes
    BY <1>12 DEF CopyFile, ClientInv
  <2>2. file' = [file EXCEPT ![x] = "whole"] /\ clients' = [clients EXCEPT ![c].pc = "save"]
        /\ UNCHANGED <<asset, nextAsset>>
    BY <1>12, <2>1 DEF CopyFile, AGoto
  <2>3. RowsInv'
    BY <2>2 DEF RowsInv, LiveHasFile, OneRowPerHash, OldIds, LiveAsset, Kept, AssetTypeOK
  <2>4. clients'[c] = [k EXCEPT !.pc = "save"] /\ file'[x] = "whole"
    BY <1>0, <2>1, <2>2 DEF AssetTypeOK
  <2>5. ClientInv(clients[c])'
    BY <1>0, <2>1, <2>2, <2>4 DEF ClientInv, LiveOf, DeletedOf, LiveAsset, Kept
  <2> QED BY <2>3, <2>5
<1>13. CASE RemoveFile(c) \/ Unlink(c)
  <2>1. x \in Hashes /\ LiveOf(x) = {}
    BY <1>13 DEF RemoveFile, Unlink, ClientInv
  <2>2. file' = [file EXCEPT ![x] = "absent"] /\ UNCHANGED <<asset, nextAsset>>
    BY <1>13 DEF RemoveFile, Unlink, Unlinks
  <2>3. RowsInv'
    BY <2>1, <2>2 DEF RowsInv, LiveHasFile, OneRowPerHash, OldIds, LiveOf, LiveAsset, Kept, AssetTypeOK
  <2> DEFINE cs == WithFd(clients, x, {"own", "shared"}, "lost")
  <2>4. cs \in [Clients -> Client]
    BY WithFdTyped DEF Descriptors
  <2>5. PICK r : clients' = [cs EXCEPT ![c] = ADone(0, r)]
    BY <1>13 DEF RemoveFile, Unlink, Unlinks
  <2> HIDE DEF cs
  <2>6. clients'[c].pc = "idle" /\ clients'[c].op = "none"
    BY <2>4, <2>5, IdleInv
  <2>7. ClientInv(clients[c])'
    BY <2>6 DEF ClientInv
  <2> QED BY <2>3, <2>7
<1>14. CASE MarkDeleted(c)
  <2>1. k.id \in AssetIds /\ Kept(k.id) /\ asset[k.id].hash = x /\ x \in Hashes
    BY <1>14 DEF MarkDeleted, ClientInv, LiveOf, LiveAsset
  <2>2. /\ asset' = [asset EXCEPT ![k.id].deleted = TRUE]
        /\ UNCHANGED <<nextAsset, file>>
        /\ clients'[c] = [k EXCEPT !.pc = "remove"]
    BY <1>0, <1>14, <2>1 DEF MarkDeleted, AGoto
  <2>4. /\ asset'[k.id].hash = x /\ asset'[k.id].deleted
        /\ \A i \in AssetIds : /\ Kept(i)' <=> Kept(i)
                               /\ i # k.id => asset'[i] = asset[i]
    BY <2>1, <2>2, FlagSet
  <2>5. \A i \in AssetIds : LiveAsset(i)' => asset'[i].hash # x
    <3> SUFFICES ASSUME NEW i \in AssetIds, LiveAsset(i)', asset'[i].hash = x PROVE FALSE
      OBVIOUS
    <3>1. Kept(i)' /\ i # k.id
      BY <2>4 DEF LiveAsset
    <3>2. asset'[i] = asset[i]
      BY <2>4, <3>1
    <3>3. Kept(i) /\ asset[i].hash = x
      BY <3>1, <3>2 DEF Kept
    <3> QED BY <2>1, <3>1, <3>3 DEF RowsInv, OneRowPerHash
  <2>6. RowsInv'
    BY <2>1, <2>2, <2>4 DEF RowsInv, LiveHasFile, OneRowPerHash, OldIds, LiveAsset, Kept
  <2>7. ClientInv(clients[c])'
    BY <1>0, <1>14, <2>1, <2>2, <2>5 DEF ClientInv, LiveOf, MarkDeleted, Client
  <2> QED BY <2>6, <2>7
<1>15. CASE DropRow(c)
  <2>1. k.id \in AssetIds /\ Kept(k.id) /\ asset[k.id].hash = x /\ x \in Hashes
    BY <1>15 DEF DropRow, ClientInv
  <2>2. /\ asset' = [asset EXCEPT ![k.id] = NoAsset]
        /\ UNCHANGED <<nextAsset, file>>
        /\ clients'[c] = [k EXCEPT !.pc = "remove"]
    BY <1>0, <1>15 DEF DropRow, AGoto
  <2>3. \A i \in AssetIds : IF i = k.id THEN ~Kept(i)' ELSE asset'[i] = asset[i]
    BY <2>1, <2>2 DEF Kept, AssetTypeOK
  <2>4. \A i \in AssetIds : LiveAsset(i)' => asset'[i].hash # x
    <3> SUFFICES ASSUME NEW i \in AssetIds, LiveAsset(i)', asset'[i].hash = x PROVE FALSE
      OBVIOUS
    <3>1. Kept(i)' /\ i # k.id /\ asset'[i] = asset[i]
      BY <2>3 DEF LiveAsset
    <3>2. Kept(i) /\ asset[i].hash = x
      BY <3>1 DEF Kept
    <3> QED BY <2>1, <3>1, <3>2 DEF RowsInv, OneRowPerHash
  <2>5. RowsInv'
    BY <2>1, <2>2, <2>3 DEF RowsInv, LiveHasFile, OneRowPerHash, OldIds, LiveAsset, Kept
  <2>6. ClientInv(clients[c])'
    BY <1>0, <1>15, <2>1, <2>2, <2>4 DEF ClientInv, LiveOf, DropRow, Client
  <2> QED BY <2>5, <2>6
<1>16. CASE SaveRow(c)
  <2>1. /\ x \in Hashes /\ LiveOf(x) = {} /\ file[x] = "whole" /\ file' = file
        /\ k.id = 0 => DeletedOf(x) = {}
        /\ k.id # 0 => k.id \in DeletedOf(x)
    BY <1>16 DEF SaveRow, ClientInv
  <2>2. ClientInv(clients[c])'
    <3>1. PICK id : clients'[c] = ADone(id, "stored")
      BY <1>0, <1>16 DEF SaveRow, AAnswer
    <3>2. clients'[c].pc = "idle" /\ clients'[c].op = "none"
      BY <3>1, IdleInv
    <3> QED BY <3>2 DEF ClientInv
  <2>3. CASE k.id = 0
    <3>1. nextAsset \in AssetIds /\ \A i \in AssetIds : Kept(i) => asset[i].hash # x
      BY <1>16, <2>1, <2>3 DEF SaveRow, AssetTypeOK, AssetIds, LiveOf, DeletedOf, LiveAsset
    <3>2. /\ asset' = [asset EXCEPT ![nextAsset] = [hash |-> x, deleted |-> FALSE]]
          /\ nextAsset' = nextAsset + 1
      BY <1>16, <2>3 DEF SaveRow
    <3>3. \A i \in AssetIds : IF i = nextAsset THEN asset'[i] = [hash |-> x, deleted |-> FALSE]
                                             ELSE asset'[i] = asset[i]
      BY <3>1, <3>2 DEF AssetTypeOK
    <3>4. LiveHasFile' /\ OneRowPerHash'
      BY <2>1, <3>1, <3>3 DEF RowsInv, LiveHasFile, OneRowPerHash, LiveAsset, Kept
    <3>5. OldIds'
      BY <3>2, <3>3 DEF RowsInv, OldIds, Kept, AssetIds, AssetTypeOK
    <3> QED BY <2>2, <3>4, <3>5 DEF RowsInv
  <2>4. CASE k.id # 0
    <3>1. k.id \in AssetIds /\ Kept(k.id) /\ asset[k.id].hash = x
      BY <2>1, <2>4 DEF DeletedOf
    <3>2. asset' = [asset EXCEPT ![k.id].deleted = FALSE] /\ UNCHANGED nextAsset
      BY <1>16, <2>4, <3>1 DEF SaveRow
    <3>4. /\ asset'[k.id].hash = x /\ ~asset'[k.id].deleted
          /\ \A i \in AssetIds : /\ Kept(i)' <=> Kept(i)
                                 /\ i # k.id => asset'[i] = asset[i]
      BY <3>1, <3>2, FlagSet
    <3>5. RowsInv'
      BY <2>1, <3>1, <3>2, <3>4 DEF RowsInv, LiveHasFile, OneRowPerHash, OldIds, LiveAsset, Kept
    <3> QED BY <2>2, <3>5
  <2> QED BY <2>3, <2>4
<1>17. CASE ABegin(c)
  BY <1>3, <1>4, <1>5, <1>17 DEF ABegin
<1>18. CASE AContinue(c)
  BY <1>6, <1>7, <1>8, <1>9, <1>10, <1>11, <1>12, <1>13, <1>14, <1>15, <1>16, <1>18 DEF AContinue
<1> QED BY <1>1, <1>2, <1>17, <1>18 DEF ANext

LEMMA SerialInit ==
    ASSUME AInit
    PROVE  RowsInv /\ \A d \in Clients : ClientInv(clients[d])
<1>1. RowsInv
  BY DEF AInit, RowsInv, LiveHasFile, OneRowPerHash, OldIds, LiveAsset, Kept
<1>2. \A d \in Clients : ClientInv(clients[d])
  BY IdleInv DEF AInit, Resets
<1> QED BY <1>1, <1>2

SerialInv == AssetTypeOK /\ Named /\ RowsInv /\ \A d \in Clients : ClientInv(clients[d])

LEMMA SerialInvHolds ==
    ASSUME Serial
    PROVE  ASpec => []SerialInv
<1>1. AInit => SerialInv
  BY InitTyped, SerialInit DEF SerialInv
<1>2. SerialInv /\ [ANext]_avars => SerialInv'
  BY TypesKept, SerialStep DEF SerialInv, Serial
<1> QED BY <1>1, <1>2, PTL DEF ASpec

\* A live asset has its whole file, for one client and any number of contents
\* and rows, through failures and crashes.
THEOREM FilesKept ==
    ASSUME Serial
    PROVE  ASpec => []LiveHasFile
<1>1. SerialInv => LiveHasFile
  BY DEF SerialInv, RowsInv
<1> QED BY SerialInvHolds, <1>1, PTL

\* Under the same conditions no content has two rows.
THEOREM OneRow ==
    ASSUME Serial
    PROVE  ASpec => []OneRowPerHash
<1>1. SerialInv => OneRowPerHash
  BY DEF SerialInv, RowsInv
<1> QED BY SerialInvHolds, <1>1, PTL

-----------------------------------------------------------------------------
(* One client at a time: the store of contents that BlobStore describes.   *)

\* What the only client asks for and is answered, after a step.
LEMMA Seen ==
    ASSUME NEW c \in Clients, Clients = {c}
    PROVE  /\ Requested = [d \in Clients |-> RequestOf(clients[c])]
           /\ Answered = [d \in Clients |-> clients[c].result]
           /\ Requested' = [Requested EXCEPT ![c] = RequestOf(clients'[c])]
           /\ Answered' = [Answered EXCEPT ![c] = clients'[c].result]
BY DEF Requested, Answered

LEMMA Requests ==
    ASSUME NEW k
    PROVE  /\ k.op = "none" => RequestOf(k) = Blob!NoRequest
           /\ k.op = "put" => RequestOf(k) = Blob!StoreOf(k.hash)
           /\ k.op \in {"softdelete", "delete"} => RequestOf(k) = Blob!RemoveOf(k.hash)
BY DEF RequestOf, Blob!NoRequest, Blob!StoreOf, Blob!RemoveOf

\* A step that asks for nothing, answers nothing and leaves what is available.
LEMMA Unseen ==
    ASSUME NEW c \in Clients, Clients = {c}, Available' = Available,
           clients'[c].op = clients[c].op, clients'[c].hash = clients[c].hash,
           clients'[c].result = clients[c].result
    PROVE  UNCHANGED Blob!bvars
<1>1. RequestOf(clients'[c]) = RequestOf(clients[c])
  BY DEF RequestOf
<1>2. Requested' = Requested /\ Answered' = Answered
  BY <1>1 DEF Requested, Answered
<1> QED BY <1>2 DEF Blob!bvars

\* A step that ends the request with an answer.
LEMMA Ended ==
    ASSUME NEW c \in Clients, Clients = {c}, NEW id, NEW r,
           clients'[c] = ADone(id, r)
    PROVE  Blob!Answer(c, r)
<1>1. clients'[c].op = "none" /\ clients'[c].result = r
  BY DEF ADone
<1>2. RequestOf(clients'[c]) = Blob!NoRequest
  BY <1>1, Requests
<1> QED BY <1>1, <1>2, Seen DEF Blob!Answer

LEMMA Quiet == UNCHANGED <<asset, file>> => Available' = Available
BY DEF Available, Readable, LiveOf, LiveAsset, Kept

\* A row given up that was the live one of its content, if it had one.
LEMMA Gone ==
    ASSUME NEW c \in Clients, Clients = {c}, clients[c].op \in {"softdelete", "delete"},
           NEW step \in ASteps, clients[c] \in Client,
           clients'[c] = [clients[c] EXCEPT !.pc = step], file' = file,
           LET x == clients[c].hash IN
              LiveOf(x)' = {} /\ \A y \in Hashes : y # x => LiveOf(y)' = LiveOf(y)
    PROVE  Blob!Drop(c, clients[c].hash)
<1> DEFINE x == clients[c].hash
<1>1. Available' = Available \ {x}
  BY DEF Available, Readable
<1>2. clients'[c].op = clients[c].op /\ clients'[c].hash = x /\ clients'[c].result = clients[c].result
  BY DEF Client
<1>3. RequestOf(clients[c]) = Blob!RemoveOf(x) /\ RequestOf(clients'[c]) = RequestOf(clients[c])
  BY <1>2, Requests DEF RequestOf
<1>4. Requested' = Requested /\ Answered' = Answered
  BY <1>2, <1>3 DEF Requested, Answered
<1> QED BY <1>1, <1>3, <1>4, Seen DEF Blob!Drop

\* A row written for its content, as its only live one.
LEMMA Back ==
    ASSUME NEW x \in Hashes, NEW i \in AssetIds, asset'[i] # NoAsset, ~asset'[i].deleted,
           asset'[i].hash = x, \A j \in AssetIds : j # i => asset'[j] = asset[j],
           Kept(i) => asset[i].hash = x, file[x] = "whole", file' = file
    PROVE  Available' = Available \cup {x}
<1>1. Readable(x)'
  BY DEF Readable, LiveOf, LiveAsset, Kept
<1>2. \A y \in Hashes : y # x => LiveOf(y)' = LiveOf(y)
  BY DEF LiveOf, LiveAsset, Kept
<1> QED BY <1>1, <1>2 DEF Available, Readable

LEMMA BlobStep ==
    ASSUME NEW c \in Clients, Clients = {c}, SerialInv, SerialInv', [ANext]_avars
    PROVE  [Blob!BlobNext]_Blob!bvars
<1> DEFINE k == clients[c]
           x == k.hash
           Goal == [Blob!BlobNext]_Blob!bvars
<1>0. k \in Client /\ DOMAIN clients = Clients /\ ClientInv(k)
  BY DEF SerialInv, AssetTypeOK
<1>a. ASSUME Blob!Failed(c) PROVE Goal
  BY <1>a DEF Blob!BlobNext
<1>b. ASSUME NEW y \in Hashes, Blob!Store(c, y) \/ Blob!Drop(c, y) \/ Blob!Removed(c, y) PROVE Goal
  BY <1>b DEF Blob!BlobNext
<1>c. ASSUME NEW q \in Blob!Requests, Blob!Ask(c, q) PROVE Goal
  BY <1>c DEF Blob!BlobNext
<1>d. ASSUME NEW step \in ASteps, AGoto(c, step), UNCHANGED <<asset, file>> PROVE Goal
  <2>1. clients'[c] = [k EXCEPT !.pc = step]
    BY <1>0, <1>d DEF AGoto
  <2> QED BY <1>0, <1>d, <2>1, Unseen, Quiet DEF Client
<1>e. ASSUME AFailed(c), UNCHANGED <<asset, file>> PROVE Goal
  <2>1. clients'[c] = ADone(0, "failed")
    BY <1>0, <1>e DEF AFailed, AAnswer
  <2>2. Blob!Failed(c)
    BY <1>e, <2>1, Ended, Quiet DEF Blob!Failed
  <2> QED BY <2>2, <1>a
<1>f. ASSUME NEW step \in ASteps, NEW op \in AOps, NEW id, NEW y \in Hashes, AStart(c, step, op, id, y),
             op # "none", k.pc = "idle", UNCHANGED <<asset, file>>
      PROVE  Goal
  <2>1. clients'[c].op = op /\ clients'[c].hash = y /\ clients'[c].result = "none"
    BY <1>0, <1>f DEF AStart
  <2>2. RequestOf(clients'[c]) \in Blob!Requests
    BY <1>f, <2>1, Requests DEF AOps, Blob!Requests
  <2>3. RequestOf(k) = Blob!NoRequest
    BY <1>0, <1>f, Requests DEF ClientInv
  <2>4. Blob!Ask(c, RequestOf(clients'[c]))
    BY <1>f, <2>1, <2>3, Seen, Quiet DEF Blob!Ask
  <2> QED BY <2>2, <2>4, <1>c
<1>1. CASE UNCHANGED avars
  BY <1>1, Unseen, Quiet DEF avars
<1>2. CASE ARestart
  <2>1. clients'[c].op = "none" /\ clients'[c].result = "none"
    BY <1>2 DEF ARestart, Resets, ADone
  <2>2. RequestOf(clients'[c]) = Blob!NoRequest
    BY <2>1, Requests
  <2>3. Blob!BlobRestart
    BY <1>2, <2>1, <2>2, Quiet DEF ARestart, Blob!BlobRestart, Requested, Answered
  <2> QED BY <2>3 DEF Blob!BlobNext
<1>3. CASE ABegin(c)
  <2>1. ASSUME NEW y \in Hashes, Put(c, y) PROVE Goal
    BY <2>1, <1>f DEF Put, ASteps, AOps
  <2>2. ASSUME NEW id \in AssetIds, SoftDelete(c, id) PROVE Goal
    BY <2>2, <1>e, <1>f, RecordOf DEF SoftDelete, LiveAsset, SerialInv, ASteps, AOps
  <2>3. ASSUME NEW id \in AssetIds, Delete(c, id) PROVE Goal
    BY <2>3, <1>e, <1>f, RecordOf DEF Delete, SerialInv, ASteps, AOps
  <2> QED BY <1>3, <2>1, <2>2, <2>3 DEF ABegin
<1>4. CASE PutLookup(c)
  <2>1. ASSUME NEW id \in LiveOf(x), AAnswer(c, id, "stored")
        PROVE  Goal
    <3>1. clients'[c] = ADone(id, "stored")
      BY <1>0, <2>1 DEF AAnswer
    <3>2. x \in Available
      BY <1>0, <1>4, <2>1 DEF PutLookup, ClientInv, SerialInv, RowsInv, LiveHasFile, LiveOf,
                              Available, Readable
    <3>3. RequestOf(k) = Blob!StoreOf(x)
      BY <1>0, <1>4, Requests DEF PutLookup, ClientInv
    <3>4. Blob!Store(c, x)
      BY <1>4, <3>1, <3>2, <3>3, Ended, Seen, Quiet DEF PutLookup, Blob!Store
    <3> QED BY <3>2, <3>4, <1>b DEF Available
  <2> QED BY <1>4, <2>1, <1>d DEF PutLookup, ASteps
<1>5. CASE PutLookupDeleted(c)
  <2>1. ASSUME NEW id \in DeletedOf(x), clients' = [clients EXCEPT ![c].id = id, ![c].pc = "restore"]
        PROVE  Goal
    <3>1. clients'[c] = [k EXCEPT !.id = id, !.pc = "restore"]
      BY <1>0, <2>1
    <3> QED BY <1>0, <1>5, <3>1, Unseen, Quiet DEF PutLookupDeleted, Client
  <2> QED BY <1>5, <2>1, <1>d DEF PutLookupDeleted, ASteps
<1>6. CASE RestoreFind(c)
  BY <1>6, <1>d, <1>e DEF RestoreFind, ASteps
<1>7. CASE SaveFails(c)
  BY <1>7, <1>d DEF SaveFails, ASteps
<1>8. CASE AFail(c)
  BY <1>8, <1>e DEF AFail
<1>9. CASE CreateFile(c)
  <2> DEFINE cs == WithFd(clients, x, {"own"}, "shared")
  <2>1. cs \in [Clients -> Client] /\ cs[c].hash = x /\ cs[c].op = k.op /\ cs[c].result = k.result
    BY <1>0, WithFdTyped DEF Descriptors, WithFd, SerialInv, Client
  <2>2. clients'[c] = [cs[c] EXCEPT !.pc = "copy", !.fd = "own"]
    BY <1>9, <2>1 DEF CreateFile
  <2> HIDE DEF cs
  <2>3. clients'[c].hash = x /\ clients'[c].op = k.op /\ clients'[c].result = k.result
    BY <2>1, <2>2 DEF Client
  <2>4. LiveOf(x) = {} /\ asset' = asset /\ file' = [file EXCEPT ![x] = "part"]
    BY <1>0, <1>9 DEF CreateFile, ClientInv
  <2>5. Available' = Available
    BY <2>4 DEF Available, Readable, LiveOf, LiveAsset, Kept, SerialInv, AssetTypeOK
  <2> QED BY <2>3, <2>5, Unseen
<1>10. CASE CopyFile(c)
  <2>1. clients'[c] = [k EXCEPT !.pc = "save"] /\ asset' = asset /\ LiveOf(x) = {}
    BY <1>0, <1>10 DEF CopyFile, AGoto, ClientInv
  <2>2. \A y \in Hashes : y # x => file'[y] = file[y]
    BY <1>0, <1>10 DEF CopyFile, ClientInv, SerialInv, AssetTypeOK
  <2>3. Available' = Available
    BY <2>1, <2>2 DEF Available, Readable, LiveOf, LiveAsset, Kept
  <2> QED BY <1>0, <2>1, <2>3, Unseen DEF Client
<1>11. CASE RemoveFile(c) \/ Unlink(c)
  <2>1. x \in Hashes /\ LiveOf(x) = {}
    BY <1>0, <1>11 DEF RemoveFile, Unlink, ClientInv
  <2>2. file' = [file EXCEPT ![x] = "absent"] /\ asset' = asset
    BY <1>11 DEF RemoveFile, Unlink, Unlinks
  <2>3. Available' = Available /\ x \notin Available
    BY <2>1, <2>2 DEF Available, Readable, LiveOf, LiveAsset, Kept, SerialInv, AssetTypeOK
  <2> DEFINE cs == WithFd(clients, x, {"own", "shared"}, "lost")
  <2>4. cs \in [Clients -> Client]
    BY WithFdTyped DEF Descriptors, SerialInv
  <2>5. CASE RemoveFile(c)
    <3>1. clients' = [cs EXCEPT ![c] = ADone(0, "removed")]
      BY <2>5 DEF RemoveFile, Unlinks
    <3> HIDE DEF cs
    <3>2. clients'[c] = ADone(0, "removed")
      BY <2>4, <3>1
    <3>3. RequestOf(k) = Blob!RemoveOf(x)
      BY <1>0, <2>5, Requests DEF RemoveFile, ClientInv
    <3>4. Blob!Removed(c, x)
      BY <2>3, <3>2, <3>3, Ended, Seen DEF Blob!Removed
    <3> QED BY <2>1, <3>4, <1>b
  <2>6. CASE Unlink(c)
    <3>1. clients' = [cs EXCEPT ![c] = ADone(0, "failed")]
      BY <2>6 DEF Unlink, Unlinks
    <3> HIDE DEF cs
    <3>2. clients'[c] = ADone(0, "failed")
      BY <2>4, <3>1
    <3>3. Blob!Failed(c)
      BY <2>3, <3>2, Ended DEF Blob!Failed
    <3> QED BY <3>3, <1>a
  <2> QED BY <1>11, <2>5, <2>6
<1>12. CASE MarkDeleted(c)
  <2>1. k.id \in AssetIds /\ Kept(k.id) /\ asset[k.id].hash = x /\ x \in Hashes
    BY <1>0, <1>12 DEF MarkDeleted, ClientInv, LiveOf, LiveAsset
  <2>2. asset' = [asset EXCEPT ![k.id].deleted = TRUE] /\ file' = file
        /\ clients'[c] = [k EXCEPT !.pc = "remove"]
    BY <1>0, <1>12, <2>1 DEF MarkDeleted, AGoto
  <2>3. /\ asset'[k.id].hash = x /\ asset'[k.id].deleted
        /\ \A i \in AssetIds : i # k.id => asset'[i] = asset[i]
    BY <2>1, <2>2, FlagSet DEF SerialInv
  <2>4. LiveOf(x)' = {} /\ \A y \in Hashes : y # x => LiveOf(y)' = LiveOf(y)
    <3>1. clients'[c].pc = "remove" /\ clients'[c].hash = x
      BY <1>0, <2>2 DEF Client
    <3>2. LiveOf(x)' = {}
      BY <3>1 DEF SerialInv, ClientInv
    <3> QED BY <2>1, <2>3, <3>2, NoAssetAssumption DEF LiveOf, LiveAsset, Kept
  <2>5. Blob!Drop(c, x)
    <3>1. k.op \in {"softdelete", "delete"} /\ "remove" \in ASteps
      BY <1>0, <1>12 DEF MarkDeleted, ClientInv, ASteps
    <3> QED BY <1>0, <2>2, <2>4, <3>1, Gone
  <2> QED BY <2>1, <2>5, <1>b
<1>13. CASE DropRow(c)
  <2>1. k.id \in AssetIds /\ x \in Hashes /\ asset[k.id].hash = x
    BY <1>0, <1>13 DEF DropRow, ClientInv
  <2>2. asset' = [asset EXCEPT ![k.id] = NoAsset] /\ file' = file
        /\ clients'[c] = [k EXCEPT !.pc = "remove"]
    BY <1>0, <1>13 DEF DropRow, AGoto
  <2>3. LiveOf(x)' = {} /\ \A y \in Hashes : y # x => LiveOf(y)' = LiveOf(y)
    <3>1. clients'[c].pc = "remove" /\ clients'[c].hash = x
      BY <1>0, <2>2 DEF Client
    <3>2. LiveOf(x)' = {}
      BY <3>1 DEF SerialInv, ClientInv
    <3>3. \A j \in AssetIds : j # k.id => asset'[j] = asset[j]
      BY <2>2 DEF SerialInv, AssetTypeOK
    <3>4. asset'[k.id] = NoAsset
      BY <2>1, <2>2 DEF SerialInv, AssetTypeOK
    <3> QED BY <2>1, <3>2, <3>3, <3>4 DEF LiveOf, LiveAsset, Kept
  <2>4. Blob!Drop(c, x)
    <3>1. k.op \in {"softdelete", "delete"} /\ "remove" \in ASteps
      BY <1>0, <1>13 DEF DropRow, ClientInv, ASteps
    <3> QED BY <1>0, <2>2, <2>3, <3>1, Gone
  <2> QED BY <2>1, <2>4, <1>b
<1>14. CASE SaveRow(c)
  <2>1. x \in Hashes /\ file[x] = "whole" /\ file' = file /\ k.op = "put" /\ k.pc = "save"
        /\ (k.id # 0 => k.id \in DeletedOf(x))
    BY <1>0, <1>14 DEF SaveRow, ClientInv
  <2>2. PICK id : clients'[c] = ADone(id, "stored")
    BY <1>0, <1>14 DEF SaveRow, AAnswer
  <2>3. ASSUME k.id = 0 PROVE Available' = Available \cup {x}
    <3>1. PICK n \in AssetIds : n = nextAsset /\ ~Kept(n)
      BY <1>14, <2>3, AssetAssumption DEF SaveRow, SerialInv, RowsInv, OldIds, AssetTypeOK, AssetIds
    <3>2. asset' = [asset EXCEPT ![n] = [hash |-> x, deleted |-> FALSE]]
      BY <1>14, <2>3, <3>1 DEF SaveRow
    <3>3. /\ asset'[n] = [hash |-> x, deleted |-> FALSE]
          /\ \A j \in AssetIds : j # n => asset'[j] = asset[j]
      BY <3>2 DEF SerialInv, AssetTypeOK
    <3>4. [hash |-> x, deleted |-> FALSE] \in Record
      BY <2>1 DEF Record
    <3> QED BY <2>1, <3>1, <3>3, <3>4, NoAssetAssumption, Back
  <2>4. ASSUME k.id # 0 PROVE Available' = Available \cup {x}
    <3>1. k.id \in AssetIds /\ Kept(k.id) /\ asset[k.id].hash = x
      BY <2>1, <2>4 DEF DeletedOf
    <3>2. asset' = [asset EXCEPT ![k.id].deleted = FALSE]
      BY <1>14, <2>4, <3>1 DEF SaveRow
    <3>3. AssetTypeOK
      BY DEF SerialInv
    <3>4. asset'[k.id].hash = x /\ ~asset'[k.id].deleted
      BY <3>1, <3>2, <3>3, FlagSet
    <3>5. \A j \in AssetIds : j # k.id => asset'[j] = asset[j]
      BY <3>1, <3>2, <3>3, FlagSet
    <3>6. asset'[k.id] # NoAsset
      BY <3>1, <3>2, <3>3, RecordOf, NoAssetAssumption DEF Record, AssetTypeOK
    <3> QED BY <2>1, <3>1, <3>4, <3>5, <3>6, Back
  <2>5. Available' = Available \cup {x}
    BY <2>3, <2>4
  <2>6. Blob!Store(c, x)
    BY <2>1, <2>2, <2>5, Ended, Seen, Requests DEF Blob!Store
  <2> QED BY <2>1, <2>6, <1>b
<1> QED BY <1>1, <1>2, <1>3, <1>4, <1>5, <1>6, <1>7, <1>8, <1>9, <1>10, <1>11, <1>12, <1>13, <1>14
        DEF ANext, AContinue

\* One client at a time, rows and files are the store of contents that
\* BlobStore describes, for any number of contents and rows and through
\* failures and crashes.
THEOREM StoreIsBlobStore ==
    ASSUME Serial
    PROVE  ASpec => IsBlobStore
<1>1. AInit => Blob!BlobInit
  BY DEF AInit, Resets, ADone, Blob!BlobInit, Available, Readable, Requested, Answered, RequestOf,
         Blob!NoRequest
<1>2. SerialInv /\ SerialInv' /\ [ANext]_avars => [Blob!BlobNext]_Blob!bvars
  BY BlobStep DEF Serial
<1> QED BY <1>1, <1>2, SerialInvHolds, PTL DEF ASpec, IsBlobStore, Blob!BlobSpec

-----------------------------------------------------------------------------
(* Demos.                                                                  *)

TheClient == clients[Receiver]
HasRow(id) == id \in AssetIds /\ Kept(id) /\ asset[id].hash = recv.file

\* An upload the receiver waits for.
PutInv ==
    /\ TheClient.pc \in {"idle", "lookup", "deleted", "restore", "create", "copy", "save", "unlink"}
    /\ TheClient.pc # "idle" => TheClient.hash = recv.file
    /\ TheClient.pc \in {"lookup", "deleted"} => TheAsset = 0
    /\ TheClient.pc \in {"restore", "create", "copy", "save"} => TheAsset = 0 \/ HasRow(TheAsset)
    /\ TheClient.pc = "idle" /\ TheClient.result = "stored" => HasRow(TheAsset)

AfterPut == {"existing", "unstat", "save", "import", "chat", "erase"}

RecvInv ==
    /\ recv.pc = "idle" => TheClient.pc = "idle"
    /\ recv.pc # "idle" => recv.file \in Hashes
    /\ recv.pc = "put" => PutInv
    /\ recv.pc \in AfterPut => TheClient.pc = "idle" /\ HasRow(TheAsset)
    /\ recv.pc \in {"unstat", "import", "chat", "erase"} => recv.demo \in DemoIds
    /\ recv.pc \in {"import", "chat", "erase"} => Stored(recv.demo) /\ demo[recv.demo].asset = TheAsset
    /\ recv.pc \in {"chat", "erase"} => recv.demo \in match
    /\ recv.pc = "undo" => TheClient.pc \in {"idle", "drop", "remove"}

\* The cleaner never drops a row, and takes up an orphan with nothing else to do.
CleanInv == /\ clients[Cleaner].pc \in {"idle", "mark", "remove"}
            /\ clean.pc = "remove" => clients[Cleaner].pc = "idle"

OldDemos == \A d \in DemoIds : Stored(d) => d < nextDemo

DInv == DemosTypeOK /\ Named /\ OldIds /\ OldDemos /\ RecvInv /\ CleanInv

-----------------------------------------------------------------------------
(* What a step of the store leaves alone.                                  *)

\* Only a dropped row is lost, and no row changes its content.
LEMMA RowsStay ==
    ASSUME AssetTypeOK, OldIds, NEW c \in Clients, AContinue(c)
    PROVE  /\ OldIds'
           /\ \A id \in AssetIds : Kept(id) /\ clients[c].pc # "drop"
                                      => Kept(id)' /\ asset'[id].hash = asset[id].hash
<1> nextAsset \in 1 .. (MaxAssets + 1) /\ MaxAssets \in Nat /\ asset \in [AssetIds -> Record \cup {NoAsset}]
  BY AssetAssumption DEF AssetTypeOK
<1>1. CASE UNCHANGED <<asset, nextAsset>>
  BY <1>1 DEF OldIds, Kept
<1>2. CASE SaveRow(c) /\ clients[c].id = 0
  <2>1. /\ nextAsset \in AssetIds /\ nextAsset' = nextAsset + 1
        /\ asset' = [asset EXCEPT ![nextAsset] = [hash |-> clients[c].hash, deleted |-> FALSE]]
    BY <1>2 DEF SaveRow, AssetIds
  <2>2. ~Kept(nextAsset)
    BY <2>1 DEF OldIds
  <2> QED BY <2>1, <2>2 DEF OldIds, Kept, AssetIds
<1>3. ASSUME NEW b \in BOOLEAN, NEW id \in AssetIds \cup {0}, UNCHANGED nextAsset,
             asset' = IF Kept(id) THEN [asset EXCEPT ![id].deleted = b] ELSE asset
      PROVE  OldIds' /\ \A i \in AssetIds : Kept(i) => Kept(i)' /\ asset'[i].hash = asset[i].hash
  <2>1. CASE id \in AssetIds /\ Kept(id)
    BY <1>3, <2>1, FlagSet DEF OldIds
  <2>2. CASE ~(id \in AssetIds /\ Kept(id))
    BY <1>3, <2>2 DEF OldIds, Kept, AssetIds
  <2> QED BY <2>1, <2>2
<1>4. CASE SaveRow(c) /\ clients[c].id # 0
  BY <1>4, <1>3, FieldsTyped DEF SaveRow
<1>5. CASE MarkDeleted(c)
  BY <1>5, <1>3, FieldsTyped DEF MarkDeleted
<1>6. CASE DropRow(c)
  BY <1>6 DEF DropRow, OldIds, Kept
<1> QED BY <1>1, <1>2, <1>4, <1>5, <1>6
        DEF AContinue, PutLookup, PutLookupDeleted, RestoreFind, CreateFile, CopyFile, SaveFails, Unlink,
            Unlinks, RemoveFile, AFail

SameButFd(k, j) == /\ k.pc = j.pc /\ k.op = j.op /\ k.id = j.id
                   /\ k.hash = j.hash /\ k.result = j.result

LEMMA WithFdSame ==
    ASSUME AssetTypeOK, NEW x, NEW from, NEW to
    PROVE  \A d \in Clients : SameButFd(WithFd(clients, x, from, to)[d], clients[d])
BY DEF WithFd, SameButFd, AssetTypeOK, Client

\* A client's step changes no other client but for its open file.
LEMMA OthersStay ==
    ASSUME AssetTypeOK, NEW c \in Clients, AContinue(c)
    PROVE  \A d \in Clients \ {c} : SameButFd(clients'[d], clients[d])
<1>1. CASE \E k : clients' = [clients EXCEPT ![c] = k]
  BY <1>1 DEF AssetTypeOK, SameButFd
<1>2. ASSUME NEW x, NEW from, NEW to, NEW k,
             clients' = [WithFd(clients, x, from, to) EXCEPT ![c] = k]
      PROVE  \A d \in Clients \ {c} : SameButFd(clients'[d], clients[d])
  <2>1. DOMAIN WithFd(clients, x, from, to) = Clients
    BY DEF WithFd
  <2>2. \A d \in Clients \ {c} : clients'[d] = WithFd(clients, x, from, to)[d]
    BY <1>2, <2>1
  <2> QED BY <2>2, WithFdSame
<1>3. CASE CreateFile(c)
  <2> DEFINE cs == WithFd(clients, clients[c].hash, {"own"}, "shared")
  <2>1. clients' = [cs EXCEPT ![c] = [cs[c] EXCEPT !.pc = "copy", !.fd = "own"]]
    BY <1>3 DEF CreateFile, WithFd
  <2> QED BY <2>1, <1>2
<1>4. CASE Unlink(c) \/ RemoveFile(c)
  BY <1>2, <1>4 DEF Unlink, RemoveFile, Unlinks
<1>5. CASE ~CreateFile(c) /\ ~Unlink(c) /\ ~RemoveFile(c)
  BY <1>1, <1>5
     DEF AContinue, PutLookup, PutLookupDeleted, RestoreFind, CopyFile, SaveRow, SaveFails, MarkDeleted,
         DropRow, AFail, AGoto, AAnswer, AFailed
<1> QED BY <1>3, <1>4, <1>5

-----------------------------------------------------------------------------
(* The steps of the store, taken for the cleaner and for the receiver.     *)

\* What the demos' other variables and rows need of a step that leaves them alone.
LEMMA QuietDemos ==
    ASSUME DInv, UNCHANGED <<demoTables, remote, recv, clean, reported>>, AssetTypeOK', Named', OldIds',
           RecvInv', CleanInv'
    PROVE  DInv'
BY DEF DInv, DemosTypeOK, demoTables, OldDemos, Stored

LEMMA StepTyped ==
    ASSUME DInv, NEW c \in Clients, AContinue(c)
    PROVE  AssetTypeOK' /\ Named' /\ OldIds'
BY TypesKept, RowsStay DEF DInv, DemosTypeOK, ANext

LEMMA Continues ==
    ASSUME NEW c \in Clients, StoreStep(c)
    PROVE  AContinue(c) /\ UNCHANGED <<remote, recv, clean, reported>>
BY DEF StoreStep, AContinue, DropDemos

LEMMA CleanerStore == ASSUME DInv, StoreStep(Cleaner) PROVE DInv'
<1> Cleaner \in Clients /\ Receiver \in Clients /\ Cleaner # Receiver
  BY DemoAssumption
<1> AssetTypeOK /\ OldIds /\ RecvInv /\ CleanInv
  BY DEF DInv, DemosTypeOK
<1>1. AContinue(Cleaner) /\ UNCHANGED <<remote, recv, clean, reported>>
  BY Continues
<1>2. AssetTypeOK' /\ Named' /\ OldIds'
  BY <1>1, StepTyped
<1>3. clients[Cleaner].pc \in {"mark", "remove"} /\ UNCHANGED demoTables
  BY DEF CleanInv, StoreStep, DropDemos, DropRow, PutLookup, PutLookupDeleted, RestoreFind, CreateFile,
         CopyFile, SaveRow, SaveFails, Unlink, MarkDeleted, RemoveFile, AFail
<1>4. clients'[Cleaner].pc \in {"idle", "remove"}
  <2>1. CASE MarkDeleted(Cleaner)
    BY <2>1 DEF MarkDeleted, AGoto, AssetTypeOK, Client
  <2>2. CASE AFail(Cleaner)
    BY <2>2 DEF AFail, AFailed, AAnswer, ADone, AssetTypeOK
  <2>3. CASE RemoveFile(Cleaner)
    BY <2>3 DEF RemoveFile, Unlinks, WithFd, ADone
  <2> QED BY <1>1, <1>3, <2>1, <2>2, <2>3
          DEF AContinue, DropRow, PutLookup, PutLookupDeleted, RestoreFind, CreateFile, CopyFile, SaveRow,
              SaveFails, Unlink
<1>5. SameButFd(TheClient', TheClient)
  BY <1>1, OthersStay DEF TheClient
<1>6. \A id : HasRow(id) => HasRow(id)'
  BY <1>1, <1>3, RowsStay DEF HasRow
<1>7. RecvInv'
  <2>1. TheAsset' = TheAsset
    BY <1>5 DEF SameButFd, TheAsset, TheClient
  <2>2. PutInv => PutInv'
    BY <1>1, <1>5, <1>6, <2>1 DEF PutInv, SameButFd
  <2> QED BY <1>1, <1>3, <1>5, <1>6, <2>1, <2>2 DEF RecvInv, SameButFd, demoTables, Stored
<1> QED BY <1>1, <1>2, <1>3, <1>4, <1>7, QuietDemos DEF CleanInv

\* While it waits for an upload the receiver's row stays as PutInv says.
LEMMA PutStep == ASSUME DInv, recv.pc = "put", AContinue(Receiver), UNCHANGED recv PROVE PutInv'
<1> Receiver \in Clients
  BY DemoAssumption
<1> DEFINE k == TheClient
<1> /\ AssetTypeOK /\ OldIds /\ PutInv /\ recv.file \in Hashes /\ k \in Client
    /\ nextAsset \in 1 .. (MaxAssets + 1) /\ MaxAssets \in Nat /\ clients \in [Clients -> Client]
  BY AssetAssumption DEF DInv, DemosTypeOK, AssetTypeOK, RecvInv, TheClient
<1>0. k = clients[Receiver] /\ TheAsset = k.id
  BY DEF TheClient, TheAsset
<1>1. \A id : HasRow(id) /\ k.pc # "drop" => HasRow(id)'
  BY RowsStay DEF HasRow, TheClient
<1>2. ASSUME NEW r \in {"failed", "removed"}, TheClient' = ADone(0, r) PROVE PutInv'
  BY <1>2 DEF PutInv, ADone
<1>3. CASE AFail(Receiver)
  BY <1>2, <1>3 DEF AFail, AFailed, AAnswer, TheClient
<1>4. CASE Unlink(Receiver)
  BY <1>2, <1>4 DEF Unlink, Unlinks, TheClient, WithFd
<1>5. CASE PutLookup(Receiver)
  <2>1. CASE AGoto(Receiver, "deleted")
    <3>1. TheClient' = [k EXCEPT !.pc = "deleted"]
      BY <2>1, <1>0 DEF AGoto, TheClient
    <3> QED BY <1>0, <1>5, <3>1 DEF PutInv, TheAsset, TheClient, PutLookup, Client
  <2>2. CASE \E id \in LiveOf(k.hash) : AAnswer(Receiver, id, "stored")
    <3>1. PICK id \in LiveOf(k.hash) : TheClient' = ADone(id, "stored")
      BY <2>2 DEF AAnswer, TheClient
    <3>2. HasRow(id)
      BY <1>0, <1>5 DEF LiveOf, LiveAsset, HasRow, PutInv, PutLookup
    <3> QED BY <1>0, <1>1, <1>5, <3>1, <3>2 DEF PutInv, ADone, TheAsset, TheClient, PutLookup
  <2> QED BY <1>0, <1>5, <2>1, <2>2 DEF PutLookup
<1>6. CASE PutLookupDeleted(Receiver)
  <2>1. CASE AGoto(Receiver, "create")
    <3>1. TheClient' = [k EXCEPT !.pc = "create"]
      BY <2>1, <1>0 DEF AGoto, TheClient
    <3> QED BY <1>0, <1>6, <3>1 DEF PutInv, TheAsset, TheClient, PutLookupDeleted, Client
  <2>2. CASE \E id \in DeletedOf(k.hash) : clients' = [clients EXCEPT ![Receiver].id = id, ![Receiver].pc = "restore"]
    <3>1. PICK id \in DeletedOf(k.hash) : TheClient' = [k EXCEPT !.id = id, !.pc = "restore"]
      BY <2>2, <1>0 DEF TheClient
    <3>2. HasRow(id)
      BY <1>0, <1>6 DEF DeletedOf, HasRow, PutInv, PutLookupDeleted
    <3> QED BY <1>0, <1>1, <1>6, <3>1, <3>2 DEF PutInv, TheAsset, TheClient, PutLookupDeleted, Client
  <2> QED BY <1>0, <1>6, <2>1, <2>2 DEF PutLookupDeleted
<1>7. CASE RestoreFind(Receiver)
  <2>1. CASE AGoto(Receiver, "create")
    <3>1. TheClient' = [k EXCEPT !.pc = "create"]
      BY <2>1, <1>0 DEF AGoto, TheClient
    <3> QED BY <1>0, <1>1, <1>7, <3>1 DEF PutInv, TheAsset, TheClient, RestoreFind, Client
  <2>2. CASE AFailed(Receiver)
    BY <1>2, <2>2 DEF AFailed, AAnswer, TheClient
  <2> QED BY <1>7, <2>1, <2>2 DEF RestoreFind
<1>8. CASE CreateFile(Receiver)
  <2>1. SameButFd([TheClient' EXCEPT !.pc = k.pc], k) /\ TheClient'.pc = "copy"
    BY <1>0, <1>8 DEF CreateFile, WithFd, SameButFd, TheClient, Client
  <2> QED BY <1>0, <1>1, <1>8, <2>1 DEF PutInv, TheAsset, TheClient, CreateFile, SameButFd, Client
<1>9. CASE CopyFile(Receiver)
  <2>1. TheClient' = [k EXCEPT !.pc = "save"]
    BY <1>9, <1>0 DEF CopyFile, AGoto, TheClient
  <2> QED BY <1>0, <1>1, <1>9, <2>1 DEF PutInv, TheAsset, TheClient, CopyFile, Client
<1>10. CASE SaveFails(Receiver)
  <2>1. TheClient' = [k EXCEPT !.pc = "unlink"]
    BY <1>10, <1>0 DEF SaveFails, AGoto, TheClient
  <2> QED BY <1>0, <1>10, <2>1 DEF PutInv, TheAsset, TheClient, SaveFails, Client
<1>11. CASE SaveRow(Receiver)
  <2>1. CASE k.id = 0
    <3>1. /\ asset' = [asset EXCEPT ![nextAsset] = [hash |-> k.hash, deleted |-> FALSE]]
          /\ TheClient' = ADone(nextAsset, "stored") /\ nextAsset \in AssetIds
      BY <1>0, <1>11, <2>1 DEF SaveRow, AAnswer, TheClient, AssetIds
    <3>2. k.hash = recv.file
      BY <1>0, <1>11 DEF SaveRow, PutInv
    <3>3. asset'[nextAsset].hash = recv.file /\ asset'[nextAsset] # NoAsset
      <4>1. asset'[nextAsset] = [hash |-> recv.file, deleted |-> FALSE]
        BY <3>1, <3>2 DEF AssetTypeOK
      <4>2. [hash |-> recv.file, deleted |-> FALSE] \in Record
        BY DEF Record
      <4>3. asset'[nextAsset].hash = recv.file
        BY <4>1
      <4> QED BY <4>1, <4>2, <4>3, NoAssetAssumption, Zenon
    <3> QED BY <3>1, <3>3 DEF PutInv, ADone, HasRow, Kept, TheAsset, TheClient
  <2>2. CASE k.id # 0
    <3>1. TheClient' = ADone(k.id, "stored") /\ HasRow(k.id)
      BY <1>0, <1>11, <2>2 DEF SaveRow, AAnswer, TheClient, PutInv
    <3> QED BY <1>0, <1>1, <1>11, <3>1 DEF PutInv, ADone, TheAsset, TheClient, SaveRow
  <2> QED BY <2>1, <2>2
<1> QED BY <1>0, <1>3, <1>4, <1>5, <1>6, <1>7, <1>8, <1>9, <1>10, <1>11
        DEF AContinue, PutInv, MarkDeleted, DropRow, RemoveFile

\* The asset of a failed reception goes, and no demo the receiver still counts on.
LEMMA ReceiverStore == ASSUME DInv, StoreStep(Receiver) PROVE DInv'
<1> Cleaner \in Clients /\ Receiver \in Clients /\ Cleaner # Receiver
  BY DemoAssumption
<1> AssetTypeOK /\ OldIds /\ RecvInv /\ CleanInv /\ clients \in [Clients -> Client]
  BY DEF DInv, DemosTypeOK, AssetTypeOK
<1>1. AContinue(Receiver) /\ UNCHANGED <<remote, recv, clean, reported>>
  BY Continues
<1>2. AssetTypeOK' /\ Named' /\ OldIds'
  BY <1>1, StepTyped
<1>3. CleanInv'
  BY <1>1, OthersStay DEF CleanInv, SameButFd
<1>4. TheClient.pc # "idle"
  BY <1>1 DEF TheClient, AContinue, PutLookup, PutLookupDeleted, RestoreFind, CreateFile, CopyFile, SaveRow,
              SaveFails, Unlink, MarkDeleted, DropRow, RemoveFile, AFail
<1>5. CASE recv.pc = "put"
  <2>1. PutInv' /\ TheClient.pc \notin {"drop"}
    BY <1>1, <1>5, PutStep DEF RecvInv, PutInv
  <2>2. UNCHANGED demoTables
    BY <2>1 DEF StoreStep, DropDemos, DropRow, TheClient
  <2>3. RecvInv'
    BY <1>1, <1>5, <2>1 DEF RecvInv, AfterPut
  <2> QED BY <1>1, <1>2, <1>3, <2>2, <2>3, QuietDemos
<1>6. CASE recv.pc = "undo"
  <2>1. TheClient'.pc \in {"idle", "remove"}
    <3>1. CASE DropRow(Receiver)
      BY <3>1 DEF DropRow, AGoto, TheClient, Client
    <3>2. CASE AFail(Receiver)
      BY <3>2 DEF AFail, AFailed, AAnswer, ADone, TheClient
    <3>3. CASE RemoveFile(Receiver)
      BY <3>3 DEF RemoveFile, Unlinks, WithFd, ADone, TheClient
    <3> QED BY <1>1, <1>6, <3>1, <3>2, <3>3
            DEF RecvInv, TheClient, AContinue, PutLookup, PutLookupDeleted, RestoreFind, CreateFile, CopyFile,
                SaveRow, SaveFails, Unlink, MarkDeleted
  <2>2. RecvInv'
    BY <1>1, <1>6, <2>1 DEF RecvInv, AfterPut
  <2>3. CASE UNCHANGED demoTables
    BY <1>1, <1>2, <1>3, <2>2, <2>3, QuietDemos
  <2>4. CASE DropDemos(Receiver)
    <3>1. DemosTypeOK' /\ OldDemos'
      BY <1>1, <1>2, <2>4 DEF DropDemos, DInv, DemosTypeOK, OldDemos, Stored
    <3> QED BY <1>2, <1>3, <2>2, <3>1 DEF DInv
  <2> QED BY <2>3, <2>4 DEF StoreStep
<1>7. recv.pc \in {"put", "undo"}
  BY <1>4 DEF RecvInv, AfterPut, DInv, DemosTypeOK, ReceiveSteps
<1> QED BY <1>5, <1>6, <1>7

-----------------------------------------------------------------------------
(* The receiver's own steps.                                               *)

ReceiverRec == [pc : ReceiveSteps, file : Hashes \cup {NoHash}, demo : DemoIds \cup {0}]

LEMMA NextDemoKept ==
    ASSUME DInv
    PROVE  /\ nextDemo \in 1 .. (MaxDemos + 1) /\ MaxDemos \in Nat
           /\ \A d \in DemoIds : Stored(d) => demo[d] \in DemoRow /\ demo[d].asset \in AssetIds
BY DemoAssumption DEF DInv, DemosTypeOK, Stored, DemoRow

\* A step that moves the receiver and leaves the tables and the store alone.
LEMMA ReceiverMoves ==
    ASSUME DInv, UNCHANGED <<avars, demo, nextDemo, clean, reported>>, remote' \subseteq Hashes,
           match' \subseteq DemoIds, recv' \in ReceiverRec,
           RecvInv'
    PROVE  DInv'
BY DEF DInv, DemosTypeOK, AssetTypeOK, Named, avars, OldIds, Kept, OldDemos, Stored, CleanInv, ReceiverRec

LEMMA IdleRecv == ASSUME TheClient.pc = "idle", recv = IdleReceiver PROVE RecvInv
BY DEF RecvInv, IdleReceiver, AfterPut

LEMMA IdleTyped == IdleReceiver \in ReceiverRec
BY DEF IdleReceiver, ReceiveSteps, ReceiverRec

LEMMA RecvTyped ==
    ASSUME DInv, NEW step \in ReceiveSteps, NEW d \in DemoIds \cup {0}
    PROVE  /\ [recv EXCEPT !.pc = step] \in ReceiverRec
           /\ [recv EXCEPT !.pc = step, !.demo = d] \in ReceiverRec
BY DEF DInv, DemosTypeOK, ReceiverRec

LEMMA ReceiveKeeps == ASSUME DInv, NEW x \in Hashes, Receive(x) PROVE DInv'
<1> Receiver \in Clients /\ Cleaner \in Clients /\ Cleaner # Receiver
  BY DemoAssumption
<1>1. Put(Receiver, x) /\ UNCHANGED <<demoTables, remote, clean, reported>> /\ recv' = [pc |-> "put", file |-> x, demo |-> 0]
  BY DEF Receive, Other
<1>2. AssetTypeOK' /\ Named'
  BY <1>1, TypesKept DEF DInv, DemosTypeOK, ANext, ABegin
<1>3. /\ TheClient' = [pc |-> "lookup", op |-> "put", id |-> 0, hash |-> x, fd |-> "none", result |-> "none"]
      /\ clients'[Cleaner] = clients[Cleaner] /\ UNCHANGED <<asset, nextAsset>>
  BY <1>1 DEF Put, AStart, TheClient, DInv, DemosTypeOK, AssetTypeOK
<1>4. RecvInv'
  BY <1>1, <1>3 DEF RecvInv, PutInv, AfterPut, TheAsset, TheClient
<1>5. DemosTypeOK'
  BY <1>1, <1>2 DEF DInv, DemosTypeOK, demoTables, ReceiveSteps
<1>6. OldIds' /\ OldDemos' /\ CleanInv'
  BY <1>1, <1>3 DEF DInv, OldIds, Kept, OldDemos, Stored, CleanInv, demoTables
<1> QED BY <1>2, <1>4, <1>5, <1>6 DEF DInv

LEMMA ReturnsKeep == ASSUME DInv, PutReturns \/ UndoReturns PROVE DInv'
<1>1. /\ UNCHANGED <<avars, demoTables, remote, clean, reported>> /\ TheClient.pc = "idle"
      /\ recv' = IdleReceiver \/ (recv.pc = "put" /\ TheClient.result = "stored" /\ RStep("existing"))
  BY DEF PutReturns, UndoReturns, Other, TheClient, RStep
<1>2. RecvInv'
  <2>1. CASE recv' = IdleReceiver
    BY <1>1, <2>1 DEF RecvInv, IdleReceiver, AfterPut, TheClient, avars
  <2>2. CASE recv.pc = "put" /\ TheClient.result = "stored" /\ recv' = [recv EXCEPT !.pc = "existing"]
    <3>1. HasRow(TheAsset) /\ recv.file \in Hashes
      BY <1>1, <2>2 DEF DInv, RecvInv, PutInv
    <3>2. recv'.pc = "existing" /\ recv'.file = recv.file
      BY <2>2 DEF DInv, DemosTypeOK
    <3> QED BY <1>1, <3>1, <3>2 DEF RecvInv, AfterPut, HasRow, Kept, TheAsset, TheClient, avars
  <2> QED BY <1>1, <2>1, <2>2 DEF RStep
<1>3. recv' \in ReceiverRec /\ match' \subseteq DemoIds /\ remote' \subseteq Hashes
  BY <1>1, IdleTyped, RecvTyped DEF RStep, ReceiveSteps, DInv, DemosTypeOK, demoTables
<1> QED BY <1>1, <1>2, <1>3, ReceiverMoves DEF demoTables

LEMMA LooksKeep == ASSUME DInv, FindExisting \/ DeleteStats \/ ImportStats \/ ImportChat PROVE DInv'
<1> DEFINE Same == UNCHANGED <<avars, demo, nextDemo, remote, clean, reported>>
<1>0. RecvInv /\ match \subseteq DemoIds /\ remote \subseteq Hashes
      /\ recv \in ReceiverRec /\ {"save", "unstat", "chat", "erase"} \subseteq ReceiveSteps
  BY DEF DInv, DemosTypeOK, ReceiverRec, ReceiveSteps
<1>1. CASE FindExisting /\ RStep("save")
  <2>1. Same /\ match' = match /\ recv.pc = "existing" /\ recv' = [recv EXCEPT !.pc = "save"]
    BY <1>1 DEF FindExisting, Other, RStep, demoTables
  <2>2. RecvInv'
    BY <1>0, <2>1 DEF RecvInv, AfterPut, HasRow, Kept, TheAsset, TheClient, avars, ReceiverRec
  <2>3. recv' \in ReceiverRec /\ match' \subseteq DemoIds /\ remote' \subseteq Hashes
    BY <1>0, <2>1, <2>2, RecvTyped DEF DemosOf
  <2> QED BY <1>0, <2>1, <2>2, <2>3, ReceiverMoves
<1>2. CASE FindExisting /\ ~RStep("save")
  <2>1. PICK d \in DemosOf(TheAsset) : recv' = [recv EXCEPT !.pc = "unstat", !.demo = d]
    BY <1>2 DEF FindExisting
  <2>2. Same /\ match' = match /\ recv.pc = "existing" /\ d \in DemoIds
    BY <1>2 DEF FindExisting, Other, demoTables, DemosOf
  <2>3. RecvInv'
    BY <1>0, <2>1, <2>2 DEF RecvInv, AfterPut, HasRow, Kept, TheAsset, TheClient, avars, ReceiverRec
  <2>4. recv' \in ReceiverRec /\ match' \subseteq DemoIds /\ remote' \subseteq Hashes
    BY <1>0, <2>1, <2>2, <2>3, RecvTyped DEF DemosOf
  <2> QED BY <1>0, <2>1, <2>2, <2>3, <2>4, ReceiverMoves
<1>3. CASE DeleteStats
  <2>1. Same /\ match' = match \ {recv.demo} /\ recv.pc = "unstat" /\ recv' = [recv EXCEPT !.pc = "save"]
    BY <1>3 DEF DeleteStats, Other, RStep
  <2>2. RecvInv'
    BY <1>0, <2>1 DEF RecvInv, AfterPut, HasRow, Kept, TheAsset, TheClient, avars, ReceiverRec
  <2>3. recv' \in ReceiverRec /\ match' \subseteq DemoIds /\ remote' \subseteq Hashes
    BY <1>0, <2>1, <2>2, RecvTyped DEF DemosOf
  <2> QED BY <1>0, <2>1, <2>2, <2>3, ReceiverMoves
<1>4. CASE ImportStats
  <2>1. Same /\ match' = match \cup {recv.demo} /\ recv.pc = "import" /\ recv' = [recv EXCEPT !.pc = "chat"]
    BY <1>4 DEF ImportStats, Other, RStep
  <2>2. recv.demo \in DemoIds
    BY <1>0, <2>1 DEF RecvInv
  <2>3. RecvInv'
    BY <1>0, <2>1, <2>2 DEF RecvInv, AfterPut, HasRow, Kept, Stored, TheAsset, TheClient, avars, ReceiverRec
  <2>4. recv' \in ReceiverRec /\ match' \subseteq DemoIds /\ remote' \subseteq Hashes
    BY <1>0, <2>1, <2>2, <2>3, RecvTyped DEF DemosOf
  <2> QED BY <1>0, <2>1, <2>2, <2>3, <2>4, ReceiverMoves
<1>5. CASE ImportChat
  <2>1. Same /\ match' = match /\ recv.pc = "chat" /\ recv' = [recv EXCEPT !.pc = "erase"]
    BY <1>5 DEF ImportChat, Other, RStep, demoTables
  <2>2. RecvInv'
    BY <1>0, <2>1 DEF RecvInv, AfterPut, HasRow, Kept, Stored, TheAsset, TheClient, avars, ReceiverRec
  <2>3. recv' \in ReceiverRec /\ match' \subseteq DemoIds /\ remote' \subseteq Hashes
    BY <1>0, <2>1, <2>2, RecvTyped DEF DemosOf
  <2> QED BY <1>0, <2>1, <2>2, <2>3, ReceiverMoves
<1> QED BY <1>1, <1>2, <1>3, <1>4, <1>5

LEMMA SaveDemoKeeps == ASSUME DInv, SaveDemo PROVE DInv'
<1>0. /\ RecvInv /\ DemosTypeOK /\ OldDemos /\ nextDemo \in DemoIds /\ TheAsset \in AssetIds
  BY NextDemoKept DEF DInv, SaveDemo, DemoIds, RecvInv, AfterPut, HasRow
<1>1. /\ demo' = [demo EXCEPT ![nextDemo] = [asset |-> TheAsset, archive |-> FALSE]]
      /\ recv' = [recv EXCEPT !.pc = "import", !.demo = nextDemo] /\ recv.pc = "save"
      /\ nextDemo' = nextDemo + 1 /\ UNCHANGED <<avars, match, remote, clean, reported>>
  BY DEF SaveDemo, Other
<1>2. [asset |-> TheAsset, archive |-> FALSE] \in DemoRow
  BY <1>0 DEF DemoRow
<1>3. DemosTypeOK'
  <2>1. recv' \in ReceiverRec
    <3>1. "import" \in ReceiveSteps
      BY DEF ReceiveSteps
    <3> QED BY <1>0, <1>1, <3>1, RecvTyped
  <2>2. AssetTypeOK'
    BY <1>0, <1>1 DEF DemosTypeOK, AssetTypeOK, avars
  <2>3. nextDemo' \in 1 .. (MaxDemos + 1)
    BY <1>0, <1>1, DemoAssumption DEF DemoIds
  <2> QED BY <1>0, <1>1, <1>2, <2>1, <2>2, <2>3 DEF DemosTypeOK, ReceiverRec
<1>4. OldDemos'
  BY <1>0, <1>1, NextDemoKept DEF OldDemos, Stored, DemoIds
<1>5. RecvInv'
  <2>1. demo'[nextDemo] = [asset |-> TheAsset, archive |-> FALSE] /\ demo'[nextDemo] # NoDemo
    BY <1>0, <1>1, <1>2, NoDemoAssumption DEF DemosTypeOK
  <2>2. recv'.pc = "import" /\ recv'.demo = nextDemo /\ recv'.file = recv.file
    BY <1>0, <1>1 DEF DemosTypeOK
  <2> QED BY <1>0, <1>1, <2>1, <2>2 DEF RecvInv, AfterPut, HasRow, Kept, Stored, TheAsset, TheClient, avars
<1> QED BY <1>1, <1>3, <1>4, <1>5 DEF DInv, Named, OldIds, Kept, CleanInv, avars

\* A request for the store whose look-up fails, or that has found its row.
LEMMA FailsKeep == ASSUME DInv, ReceiveFails PROVE DInv'
<1> Receiver \in Clients /\ Cleaner \in Clients /\ Cleaner # Receiver
  BY DemoAssumption
<1>0. RecvInv /\ DemosTypeOK /\ HasRow(TheAsset)
  BY DEF DInv, ReceiveFails, RecvInv, AfterPut
<1>1. /\ Delete(Receiver, TheAsset) /\ UNCHANGED <<demoTables, remote, clean, reported>>
      /\ recv' = [recv EXCEPT !.pc = "undo"] /\ recv.pc # "idle"
  BY DEF ReceiveFails, Other, RStep
<1>2. AssetTypeOK' /\ Named'
  BY <1>0, <1>1, TypesKept DEF DInv, DemosTypeOK, ANext, ABegin, HasRow
<1>3. /\ TheClient'.pc = "drop" /\ clients'[Cleaner] = clients[Cleaner] /\ UNCHANGED <<asset, nextAsset>>
  BY <1>0, <1>1 DEF Delete, AStart, TheClient, DemosTypeOK, AssetTypeOK, HasRow
<1>4. RecvInv'
  BY <1>0, <1>1, <1>3 DEF RecvInv, AfterPut, DemosTypeOK
<1>5. DemosTypeOK'
  <2>1. recv' \in ReceiverRec
    <3>1. "undo" \in ReceiveSteps
      BY DEF ReceiveSteps
    <3> QED BY <1>0, <1>1, <3>1, RecvTyped
  <2> QED BY <1>0, <1>1, <1>2, <2>1 DEF DemosTypeOK, demoTables, ReceiverRec
<1>6. OldIds' /\ OldDemos' /\ CleanInv'
  BY <1>1, <1>3 DEF DInv, OldIds, Kept, OldDemos, Stored, CleanInv, demoTables
<1> QED BY <1>2, <1>4, <1>5, <1>6 DEF DInv

LEMMA EraseKeeps == ASSUME DInv, Erase PROVE DInv'
<1>1. /\ UNCHANGED <<avars, demoTables, clean, reported>> /\ recv' = IdleReceiver /\ remote' \subseteq Hashes
      /\ TheClient.pc = "idle"
  BY DEF Erase, Other, DInv, DemosTypeOK, RecvInv, AfterPut
<1>2. RecvInv'
  BY <1>1 DEF RecvInv, IdleReceiver, AfterPut, TheClient, avars
<1> QED BY <1>1, <1>2, IdleTyped, ReceiverMoves DEF DInv, DemosTypeOK, demoTables

-----------------------------------------------------------------------------
(* The cleaner, the reports and the restart.                               *)

\* A step of the cleaner that leaves the tables, and of the clients all but itself.
LEMMA CleanerMoves ==
    ASSUME DInv, UNCHANGED <<asset, nextAsset, file, demoTables, remote, recv, reported>>,
           clients' \in [Clients -> Client], Named', clients'[Cleaner].pc \in {"idle", "mark", "remove"},
           clients'[Receiver] = clients[Receiver],
           clean' \in [pc : CleanSteps, todo : SUBSET DemoIds],
           clean'.pc = "remove" => clients'[Cleaner].pc = "idle"
    PROVE  DInv'
<1>1. RecvInv'
  <2>1. RecvInv /\ TheClient' = TheClient /\ TheAsset' = TheAsset
    BY DEF DInv, TheClient, TheAsset
  <2>2. PutInv' <=> PutInv
    BY <2>1 DEF PutInv, HasRow, Kept
  <2> QED BY <2>1, <2>2 DEF RecvInv, HasRow, Kept, Stored, demoTables
<1>2. DemosTypeOK'
  BY DEF DInv, DemosTypeOK, AssetTypeOK, demoTables
<1>3. OldIds' /\ OldDemos' /\ CleanInv'
  BY DEF DInv, OldIds, Kept, OldDemos, Stored, CleanInv, demoTables
<1> QED BY <1>1, <1>2, <1>3 DEF DInv

LEMMA HideMoves ==
    ASSUME DInv, NEW d \in DemoIds, clients[Cleaner].pc = "idle", Hide(d)
    PROVE  /\ UNCHANGED <<asset, nextAsset, file>> /\ clients' \in [Clients -> Client] /\ Named'
           /\ clients'[Cleaner].pc \in {"idle", "mark"} /\ clients'[Receiver] = clients[Receiver]
<1> Cleaner \in Clients /\ Receiver \in Clients /\ Cleaner # Receiver
  BY DemoAssumption
<1> AssetTypeOK /\ Named /\ clients \in [Clients -> Client]
  BY DEF DInv, DemosTypeOK, AssetTypeOK
<1>1. CASE AFailed(Cleaner) /\ UNCHANGED <<asset, nextAsset, file>>
  BY <1>1, FailedTyped DEF AFailed, AAnswer, ADone
<1>2. CASE Stored(d) /\ SoftDelete(Cleaner, demo[d].asset)
  <2>1. demo[d].asset \in AssetIds
    BY <1>2, NextDemoKept
  <2>2. SoftDelete(Cleaner, demo[d].asset)
    BY <1>2
  <2>3. AssetTypeOK' /\ Named'
    BY <2>1, <2>2, TypesKept DEF ANext, ABegin
  <2>4. CASE LiveAsset(demo[d].asset)
    BY <2>2, <2>3, <2>4 DEF SoftDelete, AStart, AssetTypeOK
  <2>5. CASE ~LiveAsset(demo[d].asset)
    BY <1>1, <2>2, <2>5 DEF SoftDelete
  <2> QED BY <2>4, <2>5
<1> QED BY <1>1, <1>2 DEF Hide

LEMMA CleanerKeeps == ASSUME DInv, CleanerNext PROVE DInv'
<1> DEFINE Rec == [pc : CleanSteps, todo : SUBSET DemoIds]
<1>0. /\ clean \in Rec /\ Named /\ CleanInv /\ clients \in [Clients -> Client]
      /\ Listed \subseteq DemoIds /\ \A n \in Nat : Expired(n) \subseteq DemoIds
  BY DEF DInv, DemosTypeOK, AssetTypeOK, Listed, Expired, Flushable
<1>1. CASE StoreStep(Cleaner)
  BY <1>1, CleanerStore
<1>2. CASE Truncate \/ ListDemos \/ CleanEnds
  <2>1. UNCHANGED <<avars, demoTables, remote, recv, reported>>
    BY <1>2 DEF Truncate, ListDemos, CleanEnds, Rest
  <2>2. clean' \in Rec /\ clean'.pc # "remove"
    BY <1>0, <1>2, DemoAssumption DEF Truncate, ListDemos, CleanEnds, IdleCleaner, CleanSteps
  <2> QED BY <1>0, <2>1, <2>2, CleanerMoves DEF avars, CleanInv, Named
<1>3. CASE \E d \in DemoIds : CheckOrphan(d)
  <2>1. UNCHANGED <<avars, demoTables, remote, recv, reported>>
    BY <1>3 DEF CheckOrphan, Rest
  <2>2. clean' \in Rec /\ clients'[Cleaner].pc = "idle"
    BY <1>0, <1>3 DEF CheckOrphan, CleanSteps, CleanerFree, avars
  <2> QED BY <1>0, <2>1, <2>2, CleanerMoves DEF avars, CleanInv, Named
<1>4. ASSUME NEW d \in DemoIds, Flush(d) \/ RemoveOrphan(d) PROVE DInv'
  <2>1. clients[Cleaner].pc = "idle"
    <3>1. CASE Flush(d)
      BY <3>1 DEF Flush, CleanerFree
    <3>2. CASE RemoveOrphan(d)
      BY <1>0, <3>2 DEF RemoveOrphan, CleanInv
    <3> QED BY <1>4, <3>1, <3>2
  <2>2. Hide(d) /\ UNCHANGED <<demoTables, remote, recv, reported>>
    BY <1>4 DEF Flush, RemoveOrphan, Rest
  <2>3. clean' \in Rec /\ clean'.pc # "remove"
    BY <1>0, <1>4 DEF Flush, RemoveOrphan, CleanSteps
  <2> QED BY <2>1, <2>2, <2>3, HideMoves, CleanerMoves
<1> QED BY <1>1, <1>2, <1>3, <1>4 DEF CleanerNext

LEMMA ReporterKeeps == ASSUME DInv, ReporterNext PROVE DInv'
<1>0. /\ UNCHANGED <<avars, nextDemo, match, remote, recv, clean>>
      /\ demo \in [DemoIds -> DemoRow \cup {NoDemo}] /\ reported \in DemoIds \cup {0}
  BY DEF ReporterNext, MarkArchived, ReportFails, ReportReads, demoTables, DInv, DemosTypeOK
<1>1. reported' \in DemoIds \cup {0}
  BY DEF ReporterNext, MarkArchived, ReportFails, ReportReads
<1>2. /\ demo' \in [DemoIds -> DemoRow \cup {NoDemo}]
      /\ \A d \in DemoIds : (Stored(d)' <=> Stored(d)) /\ (Stored(d) => demo'[d].asset = demo[d].asset)
  <2>1. CASE MarkArchived /\ Stored(reported)
    <3>1. /\ demo' = [demo EXCEPT ![reported] = [demo[reported] EXCEPT !.archive = TRUE]]
          /\ demo[reported] \in DemoRow /\ reported \in DemoIds
      BY <1>0, <2>1 DEF MarkArchived, Stored
    <3>2. /\ [demo[reported] EXCEPT !.archive = TRUE] \in DemoRow
          /\ [demo[reported] EXCEPT !.archive = TRUE].asset = demo[reported].asset
      BY <3>1 DEF DemoRow
    <3> QED BY <1>0, <3>1, <3>2, NoDemoAssumption DEF Stored
  <2>2. CASE UNCHANGED demo
    BY <1>0, <2>2 DEF Stored
  <2> QED BY <2>1, <2>2 DEF ReporterNext, MarkArchived, ReportFails, ReportReads, demoTables
<1>3. DemosTypeOK' /\ Named' /\ OldIds' /\ OldDemos' /\ CleanInv'
  BY <1>0, <1>1, <1>2
     DEF DInv, DemosTypeOK, AssetTypeOK, Named, OldIds, Kept, OldDemos, CleanInv, avars
<1>4. RecvInv'
  <2>1. RecvInv /\ (PutInv' <=> PutInv)
    BY <1>0 DEF DInv, PutInv, HasRow, Kept, TheAsset, TheClient, avars
  <2> QED BY <1>0, <1>2, <2>1 DEF RecvInv, HasRow, Kept, TheAsset, TheClient, avars
<1> QED BY <1>3, <1>4 DEF DInv

LEMMA RestartKeeps == ASSUME DInv, DRestart PROVE DInv'
<1>1. /\ ARestart /\ UNCHANGED <<asset, nextAsset, demoTables, remote>>
      /\ recv' = IdleReceiver /\ clean' = IdleCleaner /\ reported' = 0
  BY DEF DRestart, ARestart
<1>2. AssetTypeOK' /\ Named'
  BY <1>1, TypesKept DEF DInv, DemosTypeOK, ANext
<1>3. \A c \in Clients : clients'[c].pc = "idle"
  BY <1>1 DEF ARestart, Resets, ADone
<1>4. RecvInv' /\ CleanInv'
  BY <1>1, <1>3, DemoAssumption DEF RecvInv, CleanInv, IdleReceiver, IdleCleaner, AfterPut, TheClient
<1>5. clean' \in [pc : CleanSteps, todo : SUBSET DemoIds]
  BY <1>1 DEF IdleCleaner, CleanSteps
<1>6. DemosTypeOK'
  BY <1>1, <1>2, <1>5, IdleTyped DEF DInv, DemosTypeOK, demoTables, ReceiverRec
<1>7. OldIds' /\ OldDemos'
  BY <1>1 DEF DInv, OldIds, Kept, OldDemos, Stored, demoTables
<1> QED BY <1>2, <1>4, <1>6, <1>7 DEF DInv

LEMMA InitDInv == DInit => DInv
<1> SUFFICES ASSUME DInit PROVE DInv
  OBVIOUS
<1>1. AssetTypeOK /\ Named
  BY InitTyped DEF DInit
<1>2. \A c \in Clients : clients[c].pc = "idle"
  BY DEF DInit, AInit, Resets, ADone
<1>3. recv = IdleReceiver /\ clean = IdleCleaner
  BY DEF DInit
<1>4. RecvInv /\ CleanInv
  BY <1>2, <1>3, IdleRecv, DemoAssumption DEF CleanInv, TheClient
<1>5. clean \in [pc : CleanSteps, todo : SUBSET DemoIds]
  BY <1>3 DEF IdleCleaner, CleanSteps
<1>6. DemosTypeOK
  BY <1>1, <1>3, <1>5, IdleTyped, DemoAssumption DEF DInit, DemosTypeOK, ReceiverRec, DemoIds
<1>7. OldIds /\ OldDemos
  BY DEF DInit, AInit, OldIds, Kept, OldDemos, Stored
<1> QED BY <1>1, <1>4, <1>6, <1>7 DEF DInv

LEMMA StepDInv == DInv /\ [DNext]_dvars => DInv'
<1> SUFFICES ASSUME DInv, [DNext]_dvars PROVE DInv'
  OBVIOUS
<1>1. CASE UNCHANGED dvars
  BY <1>1 DEF dvars, avars, DInv, DemosTypeOK, AssetTypeOK, Named, OldIds, Kept, OldDemos, Stored, RecvInv,
              PutInv, HasRow, TheAsset, TheClient, CleanInv
<1>2. CASE ReceiverNext
  BY <1>2, ReceiverStore, ReceiveKeeps, ReturnsKeep, LooksKeep, SaveDemoKeeps, FailsKeep, EraseKeeps
     DEF ReceiverNext
<1> QED BY <1>1, <1>2, CleanerKeeps, ReporterKeeps, RestartKeeps DEF DNext

-----------------------------------------------------------------------------
(* Theorems.                                                               *)

\* Every variable of the demos and of the store below them keeps its type (demo.go).
THEOREM DemosTyped == DSpec => []DemosTypeOK
<1>1. DInv => DemosTypeOK
  BY DEF DInv
<1> QED BY <1>1, InitDInv, StepDInv, PTL DEF DSpec

\* A demo file leaves the game server only with its demo stored, whatever the cleaner
\* and the reports do meanwhile (DownloadHandler, onDemoReceived, Cleanup).
THEOREM ErasedStored == DSpec => ErasedOnlyWhenStored
<1> DEFINE StoredDemo(x) == \E d \in match : Stored(d) /\ Kept(demo[d].asset) /\ asset[demo[d].asset].hash = x
<1>1. ASSUME DInv, [DNext]_dvars, NEW x \in remote \ remote' PROVE StoredDemo(x)
  <2>1. Erase
    BY <1>1 DEF DNext, DRestart, ReceiverNext, CleanerNext, ReporterNext, StoreStep, Receive, PutReturns,
                FindExisting, DeleteStats, SaveDemo, ImportStats, ImportChat, ReceiveFails, UndoReturns,
                Truncate, ListDemos, CleanEnds, Flush, CheckOrphan, RemoveOrphan, Rest, MarkArchived,
                ReportFails, ReportReads, dvars
  <2>2. recv.pc = "erase" /\ x = recv.file
    BY <1>1, <2>1 DEF Erase
  <2>3. recv.demo \in match /\ Stored(recv.demo) /\ demo[recv.demo].asset = TheAsset /\ HasRow(TheAsset)
    BY <1>1, <2>2 DEF DInv, RecvInv, AfterPut
  <2> QED BY <2>2, <2>3 DEF HasRow
<1>2. DInv /\ [DNext]_dvars => [\A x \in remote \ remote' : StoredDemo(x)]_dvars
  BY <1>1
<1> QED BY <1>2, InitDInv, StepDInv, PTL DEF DSpec, ErasedOnlyWhenStored
=============================================================================
