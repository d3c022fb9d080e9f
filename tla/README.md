# A verification of gbans

gbans is the server behind a group of Team Fortress 2 game servers: it keeps
bans, appeals and reports, stores the recordings of games, reads the game
servers' logs, filters chat, runs a forum, and offers all of it over RPC, a
Discord bot and a website. The server is Go (`internal/`, `pkg/`), its state a
PostgreSQL database, a directory of files, and the memory of some twenty
goroutines. The website is TypeScript (`frontend/src`): a single page whose
state is a query cache, a form or two and what the browser stores.

This directory holds TLA+ models of both: of the server the parts where
goroutines, statements and failures interleave, of the website every page, what
it asks for, what it does to the cache, and who gets in. TLC checks the models
on small instances, and TLAPS proofs carry the most important properties to
all instances. Paths below are relative to `src/`.

## 1. Inventory

Almost no operation of gbans runs inside a transaction. A handler reads a row,
works on its copy and writes the whole row back; an operation on two tables is
two calls; periodic work runs in goroutines that a ticker starts beside the
handlers (`internal/cmd/app.go:372-440`). What follows from that is what the
models are about.

| component | state | operations | interacts with | hard behaviour | what makes it correct |
|---|---|---|---|---|---|
| Bans, appeals (`ban/ban*.go`, `appeal.go`) | ban table | create, unban, edit, appeal message, expire | reports (closed by a ban), servers (kick), notifications | stale whole-row writes, check then insert, a monitor beside handlers | one live ban per player, an unban frees, lapsed bans end, only stale copies undo work |
| Reports (`ban/report*.go`) | report table | file, set status, reply | bans, demos (archives one) | stale writes, two tables without a transaction | a ban and its report stay in step, a second open report of a pair only by an overlap |
| Group bans (`ban/ban_group.go`, `groups.go`) | cache of members | refresh, look-up at connect | Steam API | cache emptied before it is filled | a member of a banned group is kept out |
| Assets (`asset/`) | asset table, files on disk | Create, Delete, SoftDelete, Restore inside Create | demos, media, the wiki | table and disk change one after the other | a live row has its file, one row per content |
| Demos (`demo/`) | demo, match and chat tables, files on game servers | receive, truncate, remove orphans, archive | assets, reports, file transfer | retries, clean-up of failures, three actors | no file deleted before it is stored, archived demos stay, clean-up makes progress |
| Log pipeline (`pkg/logparse`, `pkg/broadcaster`, `chat`, `votes`, `network`, `metrics`, `notification`) | reader registry, votes in progress, queue of 64 | listen, emit, handle | all game servers, Discord | unbuffered sends under locks, lossy UDP, memory lost on restart | a line reaches every reader, no result stored twice, an outcome goes to its own vote |
| Word filters (`chat/wordfilter.go`) | filter table and cached copies | add, edit, drop, check | chat | copies of a struct by value, remove then add | an edit takes effect |
| Game servers (`servers/`) | list of servers, their players | poll, find, broadcast, edit | everything | a list replaced while others walk it | a command reaches the server it names |
| Plugin API, seeding (`sourcemod/`) | seed requests | connect check, seed | bans, groups | several caches consulted in turn | a banned player is refused |
| Anti-cheat (`anticheat/`) | detections | import, count, ban | bans, file transfer | files imported again | one ban, counted once |
| File transfer (`network/scp`, `cmd`) | connections | walk, fetch, delete | demos, anti-cheat | failing hosts | every file is tried again |
| Blocklists (`blocklist/`) | cache of networks | refresh, look-up | plugin API | as group bans | as group bans |
| Forum (`forum/`, the pages `_auth.forums.*`) | forums with a count of threads, threads, messages | create, reply, edit, lock, delete a thread or a message | people, the page of a thread | read, then delete by what was read; a count that is read and written back | a thread goes with its first message, a lock holds, the count is right |
| Settings (`config/`, `_admin.admin.settings.tsx`) | one row, the copy the process started with, pages that show the copy | read, save the whole row, restart | every part that uses a setting | a form over a stale copy, secrets that are hidden and required | secrets survive, what nobody typed stays |
| Sessions (`auth/`, `auth.tsx`, the layouts) | tokens, codes of logins, two cookies (token and fingerprint), a stored profile, one profile a tab | login through Steam, exchange, logout, expiry, change of rank | Steam, every page and every procedure | two copies of who somebody is, two cookies set apart, effects that run again, several tabs | who is let in is served, links lead in, a login ends |
| Services (`*_service.go`, `rpc/`) | none | 29 services and the privilege of each procedure | routes, sessions | lists in two languages that must agree | see sessions |
| Pages (`routes/`, `component/`) | the query cache, a filter, a dialog, calls under way | filter, go elsewhere, open, submit, cancel | services; everybody else who changes a table | answers out of order, stale keys, polling | what is shown fits the filter, own changes show, polled pages catch up |
| Others (people, statistics, news, contests, wiki, MGE, maps, metrics, Patreon, Discord commands, exports) | one table each | create, read, update, delete | | none of their own | |

The SourceMod plugins, generated clients and the database layer are outside: the
first two are the environment, the last is the assumption that a statement is
atomic. Of the website the rendering is outside, and the inside of the query
library (`@tanstack/react-query`), whose rules `Browser` takes as given.

## 2. Modules

    BlobStore      what a store of contents promises          abstract
    AssetStore     the asset table and its files              implements BlobStore
    Demos          demos over AssetStore (EXTENDS it)
    Bans           the ban table, its handlers, the monitor
    Reports        the report table and its handlers
    Moderation     Bans and Reports composed
    Events         log lines from the listener to the readers
    Forum          the forum statement by statement, and the page of a thread
    Settings       the row of settings, its copies, and the page that edits it
    Services       every procedure and its privilege
    Routes         every page and every link, over Services
    Session        who is signed in, over Routes (EXTENDS it)
    Screens        the words in which a page is described
    Catalogue      every page with rows of the server, in these words
    Browser        what the words mean: a tab, its cache and the server

    BansProofs, ModerationProofs, DemosProofs, EventsProofs, ForumProofs,
    SettingsProofs, SessionProofs, BrowserProofs              theorems
    MCBans, MCModeration, MCAssets, MCDemos, MCEvents, MCForum, MCSettings,
    MCSession, MCBrowser                                      bounds for TLC
    MCOverlaps     two at once of Reports, AssetStore, Session and Events

**Bans.** `rows` is the table, `h` the goroutines serving requests (step,
operation, the row they copied), `sweep` the rows the expiration monitor has
listed. A step is one database statement: `Create`, `CreateCheck` (the duplicate
query of `Repository.Save`, which looks at `existing[0]` of an unordered result:
any of them), `CreateInsert`, `ReportReturns`, `CreateFinish`; `UnbanCommand`,
`DeleteRPC` then `UnbanOfDelete` (the RPC reads a ban by id and unbans its
*target*), `Update`, `MessageCheck` and `MessageRead` (an appeal message reads
the ban twice and saves it), all of which end in `WriteBack`, the update of
every column from the copy. `Fail` ends any request with an error, `Restart`
forgets everything but the table. `fresh` is a history flag of a copy: nobody
else has written its row since.

**Reports** has the same shape for the report table: `ReportCreate` checks for
an open report and `ReportInsert` stores one, `SetReportStatus` and a reply
read the row and save all of it later. A copy, and the check of a report about to
be stored, is `fresh` until somebody writes what it has read. **Moderation** joins
both in one process: the goroutine that creates a ban runs `SetReportStatus` in the
middle of it, and its error ends the creation. The history `parted` collects the
bans that a failure, a restart, a status request or a reply saved from an overtaken
copy has taken apart from their report.

**AssetStore** models `Repository.Put` (live row? deleted row to restore?
otherwise write the file, then the row; remove the file if the row fails),
`SoftDelete` (row, then file) and `Delete`, one statement or file call a step.
A file is absent, whole, or cut short; writers truncate and rewrite in place.
**BlobStore** says what this should add up to: a set of available contents, and
requests that are answered or fail without a trace other than their own.

**Demos** runs the receiver of demo files (`onDemoReceived`,
`createFromAsset`), the 15-minute cleaner (`TruncateByCount`, `RemoveOrphans`)
and a report that archives a demo, as clients of the asset store.

**Events** models the way of a log line: the goroutine that reads UDP, the one
that parses and calls `Emit`, the readers registered with `Consume`, the queue of
notifications. `emit` holds the line being sent and the readers still to be
served; while it is set the two read locks are held and no reader can register.
A send on an unbuffered channel and its receipt are one step. Game servers are
the environment: any line at any time, which covers lost, repeated and
reordered packets. The votes reader keeps `active` (the outcome a server has
announced) and `recent` (results of the last 20 seconds) as the code does. A vote
has a server (`ServerOf`), an initiator and a target (`PairOf`), and an outcome it
really had (`Won`); the code sees of a line the server and the people only, so that
which vote a line is about is the model's knowledge. The history `heard` is the last
line of each server the votes reader has handled.

**Forum.** `thread`, `owner`, `present` and `forum` are the three tables,
`client` the requests under way, each with the step it is at and what it has
read. A step is one statement: a thread is inserted, counted in the forum's row,
and gets its first message (`CreateThread`, `CountThread`, `Post`,
`ReadParents`, and `RollBack` when the message fails); a reply checks the lock and
is stored; `MessageDelete` is `CheckMessage`, `ListMessages`, `RemoveMessage`,
`Decide`, and with the first message goes on to the deletion of the thread; the
forum is read and written back whole (`ReadForum`, `SaveForum`) after a deletion
and by an edit of the forum. Foreign keys are part of the statements: a row
whose thread is gone is refused, a deleted thread takes its messages along. One
client is the page of the first thread, which shows some state of it (`shown`)
and leaves when the message it had deleted is the first it shows (`SentAway`).
`StatementFails` and `ProcessDies` happen once, anywhere.

**Settings.** `row` is the row of the table, `running` the copy of it the process
read when it started, `page` the forms in the tabs, `sent` their saves under
way. `Get` answers from the copy and leaves out the secrets; `Save` is
`Update` and `Write`, which build the whole row from the message, a column
without a field included; the URL of the assets gets its slash on the way
(`Ended`). Messages (`Config`), answers (`Answered`) and the
inputs of the page (`Sections`) are listed field by field, and a run or a
theorem looks at any set of them.

**Services, Routes, Session.** `Services` gives each of the procedures the least
privilege its registration asks for, as its constructor does; one with none is
anyone's, one with any needs a token. `Routes` says of each page which layout it
stands under, which feature it belongs to and what its queries ask for, and of each
link of the bar, the menus, the first page, the network tools and the footer where
it leads. `Session` moves tabs through them: the layout looks at the profile the
*tab* has (`Lands`), the server at the rank the *token* was made with, and at
whether the fingerprint in the token is that of the second cookie (`Claims`,
`Served`, `Refused`); all of them age separately. A login goes to Steam, comes back
with both cookies and a code (`Callback`), exchanges the code, which sets the token
again and leaves the fingerprint, and asks for the profile, in an effect that a
change of its dependencies cancels and does not start again. The history `overlapped`
says that the last login began while the code of another was still to be used.

**Screens, Catalogue, Browser.** A page is a record of what its query depends
on, what it waits for, whether it polls, keeps or copies its answer, and of its
commands: which dialog, what the user is told, what is sent, when it closes,
what success does to the cache. `Catalogue` describes every component that shows
rows of the server, under the component's name. The key of its query is the whole
filter, none of it ("ignored"), or a part of it ("partly"): the tables of chat
messages and of votes drop two servers chosen at once, the statistics their group,
the people three of their columns (`Dropped` in `Browser`, constant `Lost`). `Browser` runs one of them
beside a server table that others change too: `past` holds every state of the
table, and an answer is the number of a state. `Choose`, `Remount`, `Forgets`,
`GoesStale`, `Poll`, `Reconnect` and `Refetched` are the rules of the query
cache.

## 3. Runs

| run | question | bounds | states |
|---|---|---|---|
| `bans` | One request at a time beside the monitor: does the duplicate check give one live ban, does an unban free, do lapsed bans end, does any write of a stale row move or lose a ban? | 1 player, 1 group, 1 report, 3 bans, 1 tick | 363 416 |
| `moderation` | Bans, appeals and reports served by two goroutines: who undoes whose change, and what takes a ban and its report apart? | 1 player, 1 ban, 1 report, 2 handlers | 639 043 |
| `overlaps` | Two of a kind at once: reports filed, uploads of one content, logins in two tabs, votes whose lines mix. What lets it go wrong? | 2 callers and 2 reports; 2 clients, 1 content, 2 rows; 2 tabs, 2 codes, 1 rank, 3 pages; 3 votes on 2 servers, 4 lines | 1 146 831 |
| `assets` | One client, failures and crashes between any two steps; refinement of `BlobStore` | 2 contents, 3 rows | 1 875 |
| `demos` | Receiver, cleaner, reports over the asset store | 1 content, 2 rows of each table, limit 1 | 99 984 |
| `demos_archive` | violated: an archived demo goes with a flushed one | 1 asset, 3 demos | counterexample |
| `events` | Lines, readers, queue and restarts: what stops the flow? | 1 server, 1 vote, 3 lines, queue of 1 | 255 262 |
| `forum` | Two requests statement by statement beside the page of a thread, with a failure | 2 clients, 2 threads, 3 messages | 1 849 014 |
| `settings` | Saves in any order, restarts, pages of any age | 1 tab, 2 saves, 3 settings, 2 values | 55 404 |
| `session` | Logins, logouts, expiry and changes of rank: who is refused, where do links lead, does a login end? | 1 tab, 4 ranks, 1 code, a page of every kind that asks for something | 120 904 |
| `session_logout` | violated: a logout reaches every tab | 2 tabs, 1 rank, 2 codes | counterexample |
| `browser` | Every page of the catalogue: answers, commands, dialogs, changes by others in any order | 2 rows, 2 values, one of them lost by some pages, 2 states of the table, 1 call | 389 000 |

*Why these bounds are enough.* A stale write needs one row, one reader of it and
one other writer. Two live bans need two rows; the third leaves room for a ban
of a deleted and a fresh one. In `moderation` time stands still, so nothing lapses
there: the monitor against a handler's copy is the business of `bans`, and the
theorems `FreshWrites` and `Identity` have any number of handlers, bans and ticks.
Duplicate reports need two. The parts of `overlaps` share nothing, so each behaviour
works one of them and the states add up instead of multiplying. In the asset store a
second content shows that clients of different hashes do not meet, and three
rows allow a content to be stored, deleted and stored again with a row in
between. A demo that goes wrong needs one content received twice, hence two
rows; a truncation by count needs a limit below that. The queue of
notifications has 64 places; one place is full sooner and behaves no
differently. In `events` three lines are an outcome, its details and a repetition of
them. For votes to be mixed up it takes two on one server, and the third, on another,
shows that servers do not meet; the fourth line lets a vote be mixed up and then
repeated. The readers beside that of votes have no part in it and are left out there.
`events` leaves the networks reader out (it is the metrics reader for
fewer lines) and with it the type `connected`, which chat handles as `say`. In the
forum a deletion overtaken by another needs two requests and two messages; the
third message and the second thread let a creation be overtaken as well. The
three settings are the three kinds there are: the URL of the assets, which has an
input and gets its slash, a secret, and one without an input; the fourth kind, the
limit of warnings that is never stored, is in the theorems. Pages that agree in layout,
rank and what they ask for behave alike in `Session`; the run visits one of each kind
that asks for something, and the two that layouts send people to. The ranks of the run
are Guest, User, Moderator and Admin; Reserved and Editor lie between two of them and
no page or procedure asks for either. Overlapping logins take two tabs, and no more
than one rank. A stale answer needs one change behind it, hence two states.

*Fairness.* `bans` assumes that the monitor starts its query again and
again (a 60-second ticker, `cmd/app.go`) and that the deletion of a row that is
tried over and over succeeds some time; nothing is assumed of handlers. `demos`
assumes the same of the 15-minute cleaner, and that the process stays up in the
end: a process that dies during every clean-up never finishes one. `events`
assumes that runnable goroutines run, that one waiting for a lock or for room in
the queue gets its turn (Go queues both), and that Discord calls return;
nothing of game servers. `session` assumes that a call the browser has sent is
answered or fails. `browser` assumes that time passes and intervals fire, that
the gate of a page opens or fails, and, in the strong form, that a server asked
again and again answers again and again; nothing of users or of commands.

Checks worth spelling out:

* `FreshWriteKeepsOtherColumns` says who is to blame. Lost updates do occur (no
  version column), and the property says that they occur *only* from copies
  somebody has overtaken, so that a handler's own columns are right.
  `OnlyStatusRequestsMoveStatus` is the same of reports.
* `PairedUnlessParted` lists all that can leave a ban beside a report that is not
  closed for it. Once parted, nothing repairs the pair.
* `SecondOpenOnlyOvertaken` is checked with the overlap it is about: a second open
  report of a pair does come about, by a check somebody has overtaken, by a status
  request that opens a closed report again, or by a reply saved from an old copy.
* `OutcomeIsItsOwn` says when a vote's outcome can be relied on: if it was the last
  line of the server before the details, whatever was lost or repeated earlier. It
  says no more, since a lost outcome behind lost details does give a vote the outcome
  of the one before.
* `CountRespected` and `BrokenDemosHidden` say "again and again": a demo received
  between the query and the deletions is hidden at a later clean-up.
* `OnlyWarningsBlock` is the strongest flow property the code has: `Emit` returns
  unless the chat reader is at its warning. Without the exception it is
  `EmitEnds`, and false.
* `ThreadsKeepFirstPost` holds under *all* overlaps, `CountExact` under none, and
  `LockOnlyOvertaken` says exactly which overlap lets a reply into a locked thread.
* `RefusedOnlyOutOfStep` lists what can refuse somebody a page they were let onto: a
  cookie has expired, two logins overlapped and left the token of one beside the
  fingerprint of the other, the token is older than a promotion, or the person is no
  user any more. In the second case everything is refused, the logout included, and
  the button to sign in is shown only to those without a profile.
* `RefusedOnlyOutOfStep` and `LinksLeadIn` compare lists that are kept in two
  languages. The pages and links they do not hold of are named in `Misplaced` and
  `Misleading`: the lists are part of the claim, for the properties fail when a
  page is missing from them.
* `OwnChangesShow` says that no answer from before an own change survives it as
  fresh, which is what the refetch, rather than the join of a fetch under way, is
  for. Pages whose commands invalidate no key of theirs owe nothing, and the
  catalogue says which those are.

Every property of a passing run has a mutant, a bug of the kind the code could
have had (`\* Mutant of ...` in the modules), that makes it fail in the same run.

## 4. Findings

1. **A file received again endangers archived demos** (`demos_archive`). When the
   deletion on the game server fails the file comes again, `Create` answers with
   the asset that is there, and a second demo row shares it. The cleaner hides by
   asset, so it takes the archived row along.
2. **A logout stays in its tab** (`session_logout`). The `queryFn` of
   `frontend/src/auth.tsx:105` returns nothing, which the query library takes for
   an error, so what follows the call is never reached: the message to the other
   tabs and the removal of the stored profile. The server keeps the cookie, and
   the next load of the site is signed in again.

Properties the comments or names suggest and the code does not have; the modules
state them, and no run checks them:

* `InsertSupersedes` (`Bans`): a third ban is stored as if new. `Repository.Save`
  compares a new ban with `existing[0]` of a query without `ORDER BY`. With a mute
  and a ban of one player live, another ban passes when the mute comes first.
* `UndoKeepsArchived` (`Demos`): a second reception that fails deletes the asset
  "not attached to a valid demo", which an archived demo may share.
* `EmitEnds` (`Events`): one filtered chat message stops the log. `WarningChan` is
  never made; the send at `chat/chat.go:222` does not return, `Emit` stays in its
  send to the chat reader at the next line for it, and metrics, votes and
  networks get nothing any more. `Emit` keeps its read locks, so nobody can
  register either.
* `VoteStoredOnce` (`Events`): "Track recent votes and reject duplicates. Sometimes
  vote results get logged twice" (`votes/vote.go:95`). The first details of a won vote
  take its outcome away, so that a copy of them gets the default of `:154`, failed;
  the comparison of `:175-178` includes the outcome, and the failed vote is stored
  beside the won one.

Seen while modelling, with nothing in the repository that claims otherwise:

* The comment of `Unban` (`ban/ban.go`) says a missing ban answers false without
  an error; the query answers `ErrBanDoesNotExist` and it is an error.
* The RPC `Delete` takes a ban id and ends the *first* live ban of its target.
* A query with `GroupsOnly` and without `IncludeGroups` asks for ids both below and
  above the first group id, so it is always empty; a group ban is stored, but its
  creation then answers with an error because the final read does not see it.
* A report without a demo reads through a nil demo; two reports of one pair filed
  at once are both stored (a TODO in the code asks for a transaction); a reply
  saved from an old copy opens a closed report again.
* `Put` answers with a row it finds without looking at its file. A deletion that
  overlaps an upload of the same content leaves the row live without a file,
  until the orphan sweep hides it.
* A file received three times leaves two matches of one game: the row whose match
  is deleted is any one of the earlier two.
* A demo file may be hidden as surplus with an older row although it is the
  newest, when both share an asset. Truncation by disk space asks for the demos
  after the first, newest first, and so removes the second newest.
* Votes: the target's name in the message is the initiator's (the second
  look-up uses `SourceID`), and when only that look-up fails the process panics
  on a nil error; the model restarts there.
* Chat: expired warnings are taken out with `w[idx+1]` where `w[idx+1:]` is meant,
  of a list that is being ranged over (`chat/chat.go:172`): warnings are lost with
  them, and at the end of the list the index is out of range.
* Forum: a creation that fails between its statements leaves the count or an
  empty thread behind; two requests at once count a thread twice or not at all;
  an edit of the forum writes back the count it read. When two requests delete
  the last messages of a thread, the list can be empty and `messages[0]` panics.
* Settings: `Get` answers from the copy of the process, so a saved setting is not
  shown before a restart, and a save from an untouched form puts the old values
  back. Secrets are never answered and always required, so every save needs all of
  them typed again. The URL of the assets gets another slash with every save unless
  it ends in one. `anticheatChannelId` and others have no input; the public log
  channel is written from the match log's.
* Dialogs are hidden by what they are, not by the row they were opened for
  (`Hides` in `Browser`): a late answer closes a dialog opened since.
* Most administration tables write their answers under keys of an earlier version
  of the site ("unread" in `Catalogue`), so a change shows when the table is next
  fetched. "Edit Ban" on the page of a ban opens the modal that creates one. Some
  filters never reach the message ("ignored", "partly"): two servers chosen at once
  become NaN in the tables of chat messages and of votes, the statistics set
  `statsBucketID` and read `statsBucketId`, the subject of a vote links to `targeId`.
  Some messages lack what the server requires.
* Eleven pages ask more of the token than their layout asks of the profile, and eleven
  links lead nowhere or to a refusal for some who see them (`Misplaced`,
  `Misleading` in `Routes`); the procedures of Patreon are not mounted.

## 5. Proofs

Eight modules, 40 theorems, 8 059 obligations, all checked. Every safety and
action property of a passing run is stated by one of the theorems.

| module | obligations | theorems |
|---|---|---|
| `BansProofs` | 892 | `TypeCorrect`, `FreshWrites`, `Identity`, `MonitorSafe`, `OneLiveBan`, `UnbanFrees` |
| `ModerationProofs` | 858 | of `Reports`: `ReportsTyped`, `StatusMoves`, `SecondOpenOvertaken`; of `Moderation`: `ClosesForABan`, `ModerationTyped`, `RepliesMoveNothing`, `CreatedCloses`, `SecondOpenBesideBans`, `Paired` |
| `DemosProofs` | 1 911 | of `AssetStore`: `AssetsTyped`, `FilesKept`, `OneRow`, `StoreIsBlobStore`, `PartialByFailure`; of `Demos`: `DemosTyped`, `ErasedStored` |
| `EventsProofs` | 426 | `EventsTyped`, `NoTwin`, `OwnOutcome` |
| `ForumProofs` | 1 754 | `ForumTyped`, `FirstPostsKept`, `LocksHold`, `LeavesRightly`, `CountsRight` |
| `SettingsProofs` | 424 | `SettingsTyped`, `PagesCompletable`, `SecretsKept`, `UntypedStays`, over `SettingsInvariant` |
| `SessionProofs` | 1 056 | `SessionTyped`, `RefusedOutOfStep`, `LinksLead` |
| `BrowserProofs` | 738 | `BrowserTyped`, `OwnChangesShown`, `FiltersHonoured` |

*Bans.* The inductive invariant `IInv` is `TypeOK`, ids given out in order
(`RowsInv`) and, for each copy held by a handler or the monitor,
`CopyInv`/`EntryInv`: a copy is of a stored row, has the row's target and report
(this gives `Identity`), and if it is fresh differs from the row in the
operation's own columns only (`FreshWrites`); a copy of the monitor is of a
player's ban that has lapsed (`MonitorSafe`). Freshness has to be part
of the invariant because the properties speak of the step that writes, several
steps after the read. `OneLiveBan` and `UnbanFrees` take as hypotheses that
there is one handler and one kind of ban, and strengthen `IInv` by `SerialInv`:
no player has two live bans, and what the handler has found out about a target
(that it has no live ban, or only the one it holds) stays true, since of the
other goroutines only the monitor writes bans, and the monitor only deletes.
Nothing is assumed about the number of players, groups, bans or ticks.

*Reports.* `RInv` says of each caller's copy what `CopyInv` says of a ban's, and of a
request about to store a report that, while it is fresh, its pair has no open report.
`SecondOpenOvertaken` follows for any number of callers: whoever stores or opens a
second one was overtaken, or was asked for the status.

*Moderation.* A step of the composition is a step of `Bans` or leaves its variables
alone (a lemma, `ImplementsBans`), since a goroutine that waits for `SetReportStatus`
is, to `Bans`, in a call that returns with or without an error. The invariants of
`Bans` therefore hold of the composition. With the steps on reports the composition
does nothing `Reports` does not, except that a goroutine forgets its last answer
(`Forgets`); so `RInv` holds too (`MInv`), and with it `SecondOpenBesideBans`.
`ClosesForABan` needs that a request which has inserted its ban still finds it
stored, with its report, until it finishes (`CreatedStored`). `Paired` holds for any
number of goroutines; its invariant, `PInv`, follows the report from the insertion of
the ban through the read and the save in `SetReportStatus`, beside replies whose copies
are overtaken by then or not. `CreatedCloses` assumes one goroutine; with two, another
request can open a report again behind the ban's back.

*Assets.* `AssetsTyped` and `PartialByFailure` hold for any clients. `FilesKept`,
`OneRow` and `StoreIsBlobStore` assume `Serial`, one client; two that overlap can
break them (section 4). The invariant `SerialInv` adds to the types that a
client at work has a content in hand (`Named`), that live rows have whole files,
contents one row and rows their numbers in order (`RowsInv`), and what the client
knows at each of its steps (`ClientInv`: before the row is saved the file is whole
and no live row exists, before the file is removed no live row is left). The
properties alone are not inductive: that a saved row has a file depends on the
copy made two steps before. The refinement maps the table to the set `Available`
of contents with a live row and the client's steps to a request; each step of the
code is one of `BlobStore` or none.

*Demos.* `ErasedStored` needs what the receiver knows from its upload to the
deletion of the remote file (`RecvInv`: the row it was answered with, then the demo
it stored, then the match), and that the cleaner, working on the same tables in
between, takes none of it away: it flags rows and drops none (`CleanInv`). The
proof uses the lemmas about the asset store for the steps of the store.

*Events.* `NoTwin` rests on an invariant that ties the memory of the votes reader
(`recent`) to the rows the process has stored, with their ages; `OwnOutcome` on
one that ties `active` to the last line heard of each server (`OutcomeInv`): it is the
outcome in that line, and none after details. Neither can be seen from a state of the
table alone.

*Forum.* `FInv` fixes what a request has settled (`ClientInv`) under three facts
that only grow: messages are numbered in order, a message keeps its thread, a
message that has gone stays away (`Grows`). On top of it each theorem has an
invariant of its own. `FirstPostsKept`: a live thread is `Attended`, that is, it
has its opener, or its creator is still on the way to post it, or somebody who
removed the opener is on the way to delete the thread; this survives any overlap
because a reply needs a message to be there already and two removers of one opener
cannot both find it first. `LocksHold`: a request that would be let in knows the
thread was open (`LockInv`). `LeavesRightly`: a page that shows messages shows the
first while it exists (`PageInv`), and messages do not return. `CountsRight`: as
long as nobody overlaps, the count is ahead of the threads by what the one request
at work has still to do (`Counted`, `Ahead`).

*Settings.* The invariant `SInv` says of the copy, of each page and of each
request what they may differ in from the row of the process they are from
(`Owes`); `LimitIsShown` and `SecretsNamed` are facts about the lists of fields,
proved section by section. `UntypedStays` makes one exception: the URL of the assets
may get the slash it lacks.

*Session.* Most of this proof is about the site itself, which is not a parameter:
what each procedure asks for is worked out from its registration, what each page
asks for from its procedures (`PagesAsk`), what each layout lets through
(`LayoutsSend`), and where the links of each rank lead (`Serves`,
`EverybodysLinks`, `ModeratorsLinks`). A procedure registered with another
privilege, or a page moved under another layout, breaks a lemma that names it.
What is general is the rest: any tabs, codes and ranks, and any choice of pages.
The invariant `SInv` says of a tab that whoever is past a layout came with a
profile the layout let through (`LetIn`), which a change of rank or the end of a
cookie does not undo, and of the cookies that without overlapping logins they are of
one login, and the code under way of the same (`Matched`). `RefusedOutOfStep` follows:
the page asks no more than the layout did, unless it is one of `Misplaced`, so a
refusal comes from a missing cookie, from two that do not belong together, or from a
token that gives less than the profile. Ranks are any numbers.

*Browser.* For any screens of the shape `Screen`, any rows, filters and number of
changes and calls. What is cached is not enough to see that it is right: `FlightInv`
says of the fetch under way that it was sent for the key of the page as it is
now and, once answered, with a state of the table no older than what the page is
owed; `OwedInv` that nothing is owed that has not happened. A page that counts an
appended row as fresh must not also be told to fetch again, or the older rows
would count as fresh with it. No component does both; the model now says so
(`AppendingAssumption`), and TLC evaluates it for the whole catalogue.

Assumptions of the models, and so of the theorems: a statement of the database
is atomic, an error means that it was not applied, and one monitor and one
cleaner run at a time (a round slower than its ticker could overlap the next).
The theorems' constants are arbitrary where the runs have two or three of each:
any number of clients, threads, messages, lines, readers, tabs and rows. The
operator `@@` of `Services` is that of the standard module `TLC`, written out,
because the prover has no definition of the latter.

*Only model-checked:* every liveness property (`LapsedBansEnd`,
`BrokenDemosHidden`, `CountRespected`, `OnlyWarningsBlock`, `LoginEnds`,
`PolledPageCatchesUp`), since fairness and ENABLED are beyond the prover. The two
violated runs are counterexamples and have nothing to prove.

## 6. Not modelled

* Of bans: edits and drops of appeal messages and the evade check; of reports:
  edits and drops of messages and statistics. They write tables of their own.
* Of demos: truncation by disk space (needs a model of the disk), import from the
  command line.
* Of the log pipeline: `Unregister` (no caller), the recorder of raw lines (its
  send never blocks), what would follow a warning that is never received.
* Of the forum: edits of messages, categories, the list of active users. They
  touch one row each, and no decision depends on them.
* Of the settings: the validation of single values, and the parts that use them.
* Of sessions: the tokens of game servers, the OAuth of Discord and Patreon.
* Of the website: the fields of forms other than the settings, charts, maps,
  sorting and paging of tables, the look of it all.
* The server list of `servers/` is replaced while others walk it, which needs a
  model of Go's memory. The caches of group bans and blocklists are emptied before
  they are filled; nothing says what the connection check may answer meanwhile,
  and the check itself belongs to the plugin API.
* The components of the inventory without a module, each with its reason in
  `PROJECT.json`.

## 7. What could follow

1. Group bans: the refresh of the membership cache and the connection check, with
   the blocklists in the same module; abstract specification: a member of a group
   banned throughout is refused.
2. Word filters: copies by value and remove-then-add, feeding `Events`.
3. The anti-cheat import and the seed queue.
4. Proofs: `FilesKept` for clients that overlap on different
   contents; the lemmas under the liveness properties, such as that a lapsed ban
   stays lapsed until the monitor or a handler writes it.
