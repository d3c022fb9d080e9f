------------------------------ MODULE Settings ------------------------------
(***************************************************************************)
(* The settings of the site: one row of the database, the copy of it the   *)
(* process was started with, and the pages moderators edit it on.  A page  *)
(* is one form for all sections and every save sends all of it.  Get       *)
(* answers from the copy, Update writes the row and leaves the copy alone. *)
(*                                                                         *)
(* A setting is named by its section and its field.  Of the conversions,   *)
(* the slash Write ends the URL of the assets with is modelled; those of   *)
(* the forms are left out.                                                 *)
(***************************************************************************)
EXTENDS Naturals

\* The messages: every field of each is required.
General     == {"siteName", "siteDescription", "mode", "fileServeMode", "srcdsLogAddr", "assetUrl", "favicon",
                "defaultRoute", "newsEnabled", "forumsEnabled", "contestsEnabled", "wikiEnabled",
                "statsEnabled", "serversEnabled", "reportsEnabled", "chatlogsEnabled", "demosEnabled",
                "speedrunsEnabled", "mgeEnabled", "sentryDsn", "sentryDsnWeb"}
Debug       == {"skipOpenIdValidation", "addRconLogAddress"}
Demo        == {"cleanupEnabled", "strategy", "cleanupMinPct", "cleanupMount", "countLimit", "parserUrl"}
Filters     == {"enabled", "warningTimeout", "warningLimit", "dry", "pingDiscord", "maxWeight",
                "checkTimeout", "matchTimeout"}
Discord     == {"enabled", "botEnabled", "integrationsEnabled", "appId", "appSecret", "linkId", "token",
                "guildId", "publicLogChannelEnable", "logChannelId", "publicMatchLogChannelId",
                "voteLogChannelId", "appealLogChannelId", "banLogChannelId", "forumLogChannelId",
                "kickLogChannelId", "modPingRoleId", "anticheatChannelId", "seedChannelId",
                "wordFilterLogChannelId", "chatLogChannelId"}
Log         == {"level", "file", "httpEnabled", "httpOtelEnabled", "httpLevel"}
GeoLocation == {"enabled", "cachePath", "token"}
Patreon     == {"enabled", "integrationsEnabled", "clientId", "clientSecret", "creatorAccessToken",
                "creatorRefreshToken"}
SSH         == {"enabled", "username", "port", "privateKeyPath", "hostKeyStrategy", "password",
                "updateInterval", "timeout", "demoPathFmt", "stacPathFmt"}
Network     == {"sdrEnabled"}
LocalStore  == {"pathRoot"}
Exports     == {"bdEnabled", "valveEnabled", "authorizedKeys"}
Anticheat   == {"enabled", "action", "duration", "maxAimSnaps", "maxPsilent", "maxBhop", "maxFakeAng",
                "maxCmdNum", "maxTooManyConnections", "maxOobVar", "maxInvalidUserCmd", "maxCheatCvar"}

Config == [general |-> General, debug |-> Debug, demo |-> Demo, filters |-> Filters, discord |-> Discord,
           log |-> Log, geoLocation |-> GeoLocation, patreon |-> Patreon, ssh |-> SSH, network |-> Network,
           localStore |-> LocalStore, exports |-> Exports, anticheat |-> Anticheat]

\* toConfig: what Get answers is all but the secrets.
Answered == [Config EXCEPT !.discord = @ \ {"appSecret", "token"}, !.geoLocation = @ \ {"token"},
                           !.patreon = @ \ {"clientSecret", "creatorAccessToken", "creatorRefreshToken"},
                           !.ssh = @ \ {"privateKeyPath", "password"}]

\* The sections of the page: the fields each has an input for.
GeneralSection     == General \ {"mode", "fileServeMode"}
FiltersSection     == Filters
DemoSection        == Demo
PatreonSection     == Patreon
\* Mutant of DiscordSection: no input for the token.
DiscordSectionTokenless == Discord \ {"anticheatChannelId", "token"}
DiscordSection     == Discord \ {"anticheatChannelId"}
LoggingSection     == Log
GeoLocationSection == GeoLocation
LocalStoreSection  == LocalStore
NetworkSection     == Network
AnticheatSection   == Anticheat
SSHSection         == SSH \ {"hostKeyStrategy"}
ExportsSection     == Exports
DebugSection       == Debug

Sections == [general |-> GeneralSection, debug |-> DebugSection, demo |-> DemoSection,
             filters |-> FiltersSection, discord |-> DiscordSection, log |-> LoggingSection,
             geoLocation |-> GeoLocationSection, patreon |-> PatreonSection, ssh |-> SSHSection,
             network |-> NetworkSection, localStore |-> LocalStoreSection,
             exports |-> ExportsSection, anticheat |-> AnticheatSection]

Paths(config) == UNION {{<<s, f>> : f \in config[s]} : s \in DOMAIN config}
MatchLog      == <<"discord", "publicMatchLogChannelId">>
PublicLog     == <<"discord", "publicLogChannelId">>
Playerqueue   == <<"general", "playerqueueEnabled">>
AssetUrl      == <<"general", "assetUrl">>

-----------------------------------------------------------------------------
CONSTANTS Fields,    \* the settings looked at
          Values,    \* what a setting can be
          Blank,     \* the zero value: "", 0 or false
          Unset,     \* not a value: the field is absent
          Slash,     \* what a value becomes that must end with a slash
          Admins,    \* the tabs with the page
          Slots,     \* bound: saves of a tab on their way at once
          Nothing    \* no answer, no request

ASSUME SettingsAssumption == /\ Fields \subseteq Paths(Config)
                             /\ Blank \in Values /\ Unset \notin Values
                             /\ Slash \in [Values -> Values]

Hidden   == Fields \ Paths(Answered)
Inputs   == Fields \cap Paths(Sections)
\* Neither written nor read: the limit of warnings.
Unstored == Fields \cap {<<"filters", "warningLimit">>}
\* There are columns that no message has a field for.
Columns  == (Fields \ Unstored) \cup {Playerqueue} \cup {c \in {PublicLog} : MatchLog \in Fields}

Contents == [Fields -> Values \cup {Unset}]
\* current: history, the contents come from the process that runs now.
Answers  == [values : Contents, current : BOOLEAN]
Requests == [values : Contents, typed : SUBSET Fields, current : BOOLEAN]
Pages    == [open : BOOLEAN, touched : BOOLEAN, values : Contents, typed : SUBSET Fields, current : BOOLEAN]

VARIABLES row, running, cache, page, sent
settingsVars == <<row, running, cache, page, sent>>

-----------------------------------------------------------------------------
\* Mutant of Loaded: the secrets are read as they are answered.
LoadedAsAnswered(r) == [f \in Fields |-> IF f \in Hidden THEN Unset ELSE r[f]]

\* Repository.Read at the start of a process.
Loaded(r) == [f \in Fields |-> IF f \in Unstored THEN Blank ELSE r[f]]
Get       == [f \in Fields |-> IF f \in Hidden THEN Unset ELSE running[f]]

\* Mutant of Complete: fields may be left out.
CompleteAnyway(values) == TRUE
\* The validation, in the browser and again in the server.
Complete(values) == \A f \in Fields : values[f] # Unset

\* A getter of a field that is absent.
Got(values, f) == IF values[f] = Unset THEN Blank ELSE values[f]

\* Configuration.Write: whoever typed it, the URL of the assets ends with a slash.
Ended(c, v) == IF c = AssetUrl THEN Slash[v] ELSE v

\* Mutant of Written: what has no input is not written back.
WrittenFromInputs(values) == [c \in Columns |-> IF c \in Inputs THEN Ended(c, Got(values, c)) ELSE Blank]

\* Update builds the whole row from the request.
Written(values) == [c \in Columns |-> IF c = Playerqueue THEN Blank
                                      ELSE Ended(c, Got(values, IF c = PublicLog THEN MatchLog ELSE c))]

Closed == [open |-> FALSE, touched |-> FALSE, values |-> [f \in Fields |-> Unset], typed |-> {},
           current |-> FALSE]
Showing(x) == [open |-> TRUE, touched |-> FALSE, values |-> x.values, typed |-> {}, current |-> x.current]

SettingsInit == /\ row \in [Columns -> Values]
                /\ running = Loaded(row)
                /\ cache = [a \in Admins |-> Nothing]
                /\ page  = [a \in Admins |-> Closed]
                /\ sent  = [a \in Admins |-> [k \in Slots |-> Nothing]]

\* The answer of Get: a form nobody has touched takes it over.
Answer(a) == LET x == [values |-> Get, current |-> TRUE]
             IN  /\ cache' = [cache EXCEPT ![a] = x]
                 /\ page' = [page EXCEPT ![a] = IF @.open /\ ~@.touched THEN Showing(x) ELSE @]
                 /\ UNCHANGED <<row, running, sent>>

\* The page shows what the tab has; asking again is up to the age of that.
Open(a) == /\ ~page[a].open /\ cache[a] # Nothing
           /\ page' = [page EXCEPT ![a] = Showing(cache[a])]
           /\ UNCHANGED <<row, running, cache, sent>>
Leave(a) == /\ page[a].open
            /\ page' = [page EXCEPT ![a] = Closed]
            /\ UNCHANGED <<row, running, cache, sent>>
\* The tab is loaded anew, or has not needed the answer for five minutes.
Forget(a) == /\ cache[a] # Nothing
             /\ cache' = [cache EXCEPT ![a] = Nothing]
             /\ page'  = [page EXCEPT ![a] = Closed]
             /\ UNCHANGED <<row, running, sent>>

Type(a, f, v) == /\ page[a].open
                 /\ page' = [page EXCEPT ![a].values[f] = v, ![a].typed = @ \cup {f}, ![a].touched = TRUE]
                 /\ UNCHANGED <<row, running, cache, sent>>

\* Submitting touches every field, also when the validation keeps the request back.
Submit(a) == /\ page[a].open
             /\ page' = [page EXCEPT ![a].touched = TRUE]
             /\ IF Complete(page[a].values)
                THEN \E k \in Slots : /\ sent[a][k] = Nothing
                                      /\ sent' = [sent EXCEPT ![a][k] = [values  |-> page[a].values,
                                                                         typed   |-> page[a].typed,
                                                                         current |-> page[a].current]]
                ELSE UNCHANGED sent
             /\ UNCHANGED <<row, running, cache>>

\* Update and Write: the requests of a tab are answered in any order.
Save(a, k) == /\ sent[a][k] # Nothing /\ Complete(sent[a][k].values)
              /\ row' = Written(sent[a][k].values)
              /\ sent' = [sent EXCEPT ![a][k] = Nothing]
              /\ UNCHANGED <<running, cache, page>>
SaveFails(a, k) == /\ sent[a][k] # Nothing
                   /\ sent' = [sent EXCEPT ![a][k] = Nothing]
                   /\ UNCHANGED <<row, running, cache, page>>

\* A new process: what the tabs have is from before it.
Old(x) == IF x = Nothing THEN Nothing ELSE [x EXCEPT !.current = FALSE]
Restart == /\ running' = Loaded(row)
           /\ cache' = [a \in Admins |-> Old(cache[a])]
           /\ page'  = [a \in Admins |-> [page[a] EXCEPT !.current = FALSE]]
           /\ sent'  = [a \in Admins |-> [k \in Slots |-> Old(sent[a][k])]]
           /\ UNCHANGED row

SettingsNext == \/ Restart
                \/ \E a \in Admins : \/ Answer(a) \/ Open(a) \/ Leave(a) \/ Forget(a) \/ Submit(a)
                                     \/ \E f \in Inputs, v \in Values : Type(a, f, v)
                                     \/ \E k \in Slots : Save(a, k) \/ SaveFails(a, k)

SettingsSpec == SettingsInit /\ [][SettingsNext]_settingsVars

-----------------------------------------------------------------------------
\* Every variable keeps its type: the row is always complete.
SettingsTypeOK == /\ row \in [Columns -> Values] /\ running \in [Fields -> Values]
                  /\ cache \in [Admins -> Answers \cup {Nothing}]
                  /\ page \in [Admins -> Pages]
                  /\ sent \in [Admins -> [Slots -> Requests \cup {Nothing}]]

\* Whatever the page lacks can be typed into it: the secrets Get leaves out, which the
\* validation asks for, each have an input, or no setting could ever be saved.
PageCanBeCompleted == \A a \in Admins : page[a].open =>
                          \A f \in Fields : page[a].values[f] = Unset => f \in Inputs

\* A secret, which Get never answers, is replaced only by what was typed for it: a save
\* of other settings cannot blank it.
SecretsOnlyTyped == [][\A f \in Hidden : row'[f] # row[f] =>
                          \E a \in Admins, k \in Slots :
                             /\ sent[a][k] # Nothing
                             /\ f \in sent[a][k].typed /\ row'[f] = sent[a][k].values[f]]_settingsVars

\* A save changes a setting nobody typed only to undo what was saved since the process
\* started, or what the page has from an earlier process; but for the slash it ends the
\* URL of the assets with.
UntypedKept == [][\A a \in Admins, k \in Slots :
                     Save(a, k) /\ sent[a][k].current =>
                       \A f \in (Fields \ Unstored) \ sent[a][k].typed :
                          row[f] = running[f] =>
                            \/ row'[f] = row[f]
                            \/ f = AssetUrl /\ row'[f] = Slash[row[f]]]_settingsVars
=============================================================================
