--------------------------- MODULE SettingsProofs ---------------------------
(***************************************************************************)
(* Theorems about Settings, for any tabs, settings and values.             *)
(*                                                                         *)
(* The invariant says what the contents of a form owe to the answer they   *)
(* came from: a save is several steps of anybody after that answer.        *)
(***************************************************************************)
EXTENDS Settings, TLAPS

\* Nothing typed: a secret is absent, everything else is there, and what comes from the
\* process that runs now is what it runs with.
Owes(values, typed, current, run) ==
    /\ \A f \in typed : values[f] \in Values
    /\ \A f \in Fields \ typed : /\ f \in Hidden => values[f] = Unset
                                 /\ f \notin Hidden => /\ values[f] \in Values
                                                       /\ current => values[f] = run[f]

CacheInv == \A a \in Admins : cache[a] # Nothing => Owes(cache[a].values, {}, cache[a].current, running)
PageInv  == \A a \in Admins : page[a].open => Owes(page[a].values, page[a].typed, page[a].current, running)
SentInv  == \A a \in Admins, k \in Slots : sent[a][k] # Nothing =>
                Owes(sent[a][k].values, sent[a][k].typed, sent[a][k].current, running)

SInv == SettingsTypeOK /\ CacheInv /\ PageInv /\ SentInv

-----------------------------------------------------------------------------
(* The messages.                                                           *)

LEMMA SecretsNamed ==
    \A s \in DOMAIN Config : \A f \in Config[s] : f \notin Answered[s] => f \in Sections[s]
<1> SUFFICES ASSUME NEW s \in DOMAIN Config, NEW f \in Config[s], f \notin Answered[s]
             PROVE  f \in Sections[s]
  OBVIOUS
<1>1. CASE s = "discord"
  <2>1. Answered[s] = Discord \ {"appSecret", "token"} /\ Config[s] = Discord
    BY <1>1 DEF Answered, Config
  <2>2. Sections[s] = Discord \ {"anticheatChannelId"}
    BY <1>1 DEF Sections, DiscordSection
  <2> QED BY <2>1, <2>2
<1>2. CASE s = "geoLocation"
  BY <1>2 DEF Config, Sections, GeoLocationSection
<1>3. CASE s = "patreon"
  BY <1>3 DEF Config, Sections, PatreonSection
<1>4. CASE s = "ssh"
  <2>1. Answered[s] = SSH \ {"privateKeyPath", "password"} /\ Config[s] = SSH
    BY <1>4 DEF Answered, Config
  <2>2. Sections[s] = SSH \ {"hostKeyStrategy"}
    BY <1>4 DEF Sections, SSHSection
  <2> QED BY <2>1, <2>2
<1>5. CASE s \notin {"discord", "geoLocation", "patreon", "ssh"}
  BY <1>5 DEF Answered
<1> QED BY <1>1, <1>2, <1>3, <1>4, <1>5

LEMMA SecretsHaveInputs == Hidden \subseteq Inputs
<1> SUFFICES ASSUME NEW f \in Hidden PROVE f \in Inputs
  OBVIOUS
<1>1. f \in Paths(Config) /\ f \in Fields /\ f \notin Paths(Answered)
  BY SettingsAssumption DEF Hidden
<1>2. PICK s \in DOMAIN Config : \E n \in Config[s] : f = <<s, n>>
  BY <1>1 DEF Paths
<1>2b. PICK n \in Config[s] : f = <<s, n>>
  BY <1>2
<1>3. DOMAIN Answered = DOMAIN Config /\ DOMAIN Sections = DOMAIN Config
  BY DEF Answered, Sections, Config
<1>4. n \notin Answered[s]
  BY <1>1, <1>2, <1>2b, <1>3 DEF Paths
<1>5. n \in Sections[s]
  BY <1>2, <1>2b, <1>4, SecretsNamed
<1>6. f \in Paths(Sections)
  BY <1>2, <1>2b, <1>3, <1>5 DEF Paths
<1> QED BY <1>1, <1>6 DEF Inputs

LEMMA LimitIsShown == Hidden \cap Unstored = {}
<1>1. "filters" \in DOMAIN Answered /\ "warningLimit" \in Answered["filters"]
  BY DEF Answered, Config, Filters
<1>2. <<"filters", "warningLimit">> \in Paths(Answered)
  BY <1>1 DEF Paths
<1> QED BY <1>2 DEF Hidden, Unstored

\* The URL of the assets is not a secret.
LEMMA AssetUrlIsShown == AssetUrl \notin Hidden
<1>1. "general" \in DOMAIN Answered /\ "assetUrl" \in Answered["general"]
  BY DEF Answered, Config, General
<1>2. AssetUrl \in Paths(Answered)
  BY <1>1 DEF Paths, AssetUrl
<1> QED BY <1>2 DEF Hidden

\* Two columns have no field in any message.
LEMMA ColumnsApart == Playerqueue \notin Fields /\ PublicLog \notin Fields
<1>1. "playerqueueEnabled" \notin Config["general"]
  BY DEF Config, General
<1>2. "publicLogChannelId" \notin Config["discord"]
  BY DEF Config, Discord
<1>3. Playerqueue \notin Paths(Config)
  BY <1>1 DEF Paths, Playerqueue
<1>4. PublicLog \notin Paths(Config)
  BY <1>2 DEF Paths, PublicLog
<1> QED BY <1>3, <1>4, SettingsAssumption

\* What a request with the field stores in it.
LEMMA WrittenFields ==
    ASSUME NEW values, NEW f \in Fields \ Unstored, values[f] # Unset
    PROVE  Written(values)[f] = Ended(f, values[f])
<1>1. f \in Columns /\ f # Playerqueue /\ f # PublicLog
  BY ColumnsApart DEF Columns
<1> QED BY <1>1 DEF Written, Got

LEMMA WrittenIsRow ==
    ASSUME NEW values \in Contents
    PROVE  Written(values) \in [Columns -> Values]
<1>1. \A f \in Fields : Got(values, f) \in Values
  BY SettingsAssumption DEF Got, Contents
<1>2. Blank \in Values /\ \A c, v : v \in Values => Ended(c, v) \in Values
  BY SettingsAssumption DEF Ended
<1>3. ASSUME NEW c \in Columns PROVE Written(values)[c] \in Values
  <2>1. CASE c = Playerqueue
    BY <1>2, <2>1 DEF Written
  <2>2. CASE c # Playerqueue /\ c = PublicLog
    <3>1. MatchLog \in Fields
      BY <2>2, ColumnsApart DEF Columns
    <3> QED BY <1>1, <1>2, <2>2, <3>1 DEF Written
  <2>3. CASE c # Playerqueue /\ c # PublicLog
    <3>1. c \in Fields
      BY <2>3 DEF Columns
    <3> QED BY <1>1, <1>2, <2>3, <3>1 DEF Written
  <2> QED BY <2>1, <2>2, <2>3
<1> QED BY <1>3 DEF Written

LEMMA LoadedIsConfig ==
    ASSUME row \in [Columns -> Values]
    PROVE  Loaded(row) \in [Fields -> Values]
BY SettingsAssumption DEF Loaded, Columns

LEMMA GetIsContents ==
    ASSUME SettingsTypeOK
    PROVE  Get \in Contents /\ Owes(Get, {}, TRUE, running)
BY SettingsAssumption DEF SettingsTypeOK, Get, Contents, Owes

-----------------------------------------------------------------------------
(* The actions.                                                            *)

LEMMA InitSInv == SettingsInit => SInv
<1> SUFFICES ASSUME SettingsInit PROVE SInv
  OBVIOUS
<1>1. running \in [Fields -> Values]
  BY LoadedIsConfig DEF SettingsInit
<1>2. Closed \in Pages /\ ~Closed.open
  BY DEF Closed, Pages, Contents
<1>3. SettingsTypeOK
  BY <1>1, <1>2 DEF SettingsInit, SettingsTypeOK
<1> QED BY <1>2, <1>3 DEF SettingsInit, SInv, CacheInv, PageInv, SentInv

LEMMA ShowingOwes ==
    ASSUME NEW x \in Answers, Owes(x.values, {}, x.current, running)
    PROVE  /\ Showing(x) \in Pages /\ Showing(x).open
           /\ Owes(Showing(x).values, Showing(x).typed, Showing(x).current, running)
BY DEF Showing, Answers, Pages

LEMMA ClosedIsPage == Closed \in Pages /\ ~Closed.open
BY DEF Closed, Pages, Contents

LEMMA AnswerSInv ==
    ASSUME SInv, NEW a \in Admins, Answer(a)
    PROVE  SInv'
<1> DEFINE x == [values |-> Get, current |-> TRUE]
<1>1. x \in Answers /\ Owes(x.values, {}, x.current, running)
  BY GetIsContents DEF SInv, Answers
<1>2. /\ cache' = [cache EXCEPT ![a] = x]
      /\ page' = [page EXCEPT ![a] = IF @.open /\ ~@.touched THEN Showing(x) ELSE @]
      /\ UNCHANGED <<row, running, sent>>
  BY DEF Answer
<1> HIDE DEF x
<1>3. SettingsTypeOK'
  BY <1>1, <1>2, ShowingOwes DEF SInv, SettingsTypeOK
<1>4. CacheInv'
  BY <1>1, <1>2 DEF SInv, SettingsTypeOK, CacheInv, Owes
<1>5. PageInv'
  <2> SUFFICES ASSUME NEW b \in Admins, page'[b].open
               PROVE  Owes(page'[b].values, page'[b].typed, page'[b].current, running)
    BY <1>2 DEF PageInv
  <2>1. page'[b] = page[b] \/ page'[b] = Showing(x)
    BY <1>2 DEF SInv, SettingsTypeOK
  <2> QED BY <1>1, <2>1, ShowingOwes DEF SInv, PageInv
<1>6. SentInv'
  BY <1>2 DEF SInv, SentInv, Owes
<1> QED BY <1>3, <1>4, <1>5, <1>6 DEF SInv

\* A step of the page alone.
LEMMA PageSInv ==
    ASSUME SInv, NEW a \in Admins, NEW x \in Pages, page' = [page EXCEPT ![a] = x],
           x.open => Owes(x.values, x.typed, x.current, running),
           UNCHANGED <<row, running, cache, sent>>
    PROVE  SInv'
<1>1. SettingsTypeOK'
  BY DEF SInv, SettingsTypeOK
<1>2. PageInv'
  BY DEF SInv, SettingsTypeOK, PageInv
<1>3. CacheInv' /\ SentInv'
  BY DEF SInv, CacheInv, SentInv
<1> QED BY <1>1, <1>2, <1>3 DEF SInv

\* The page of a tab, its parts, and what they owe.
LEMMA PageParts ==
    ASSUME SInv, NEW a \in Admins
    PROVE  /\ page[a] \in Pages /\ page[a].values \in Contents /\ page[a].typed \in SUBSET Fields
           /\ page[a].open => Owes(page[a].values, page[a].typed, page[a].current, running)
BY DEF SInv, SettingsTypeOK, PageInv, Pages

LEMMA TypeSInv ==
    ASSUME SInv, NEW a \in Admins, NEW f \in Inputs, NEW v \in Values, Type(a, f, v)
    PROVE  SInv'
<1> DEFINE x == [page[a] EXCEPT !.values[f] = v, !.typed = @ \cup {f}, !.touched = TRUE]
<1>1. f \in Fields
  BY DEF Inputs
<1>2. x \in Pages
  BY <1>1, PageParts DEF Pages, Contents
<1>3. /\ x.values = [page[a].values EXCEPT ![f] = v]
      /\ x.typed = page[a].typed \cup {f} /\ x.current = page[a].current
  BY PageParts DEF Pages
<1>4. Owes(page[a].values, page[a].typed, page[a].current, running)
  BY PageParts DEF Type
<1>5. \A g \in Fields : x.values[g] = IF g = f THEN v ELSE page[a].values[g]
  BY <1>1, <1>3, PageParts DEF Contents
<1>6. Owes(x.values, x.typed, x.current, running)
  BY <1>1, <1>3, <1>4, <1>5, PageParts DEF Owes
<1>7. page' = [page EXCEPT ![a] = x] /\ UNCHANGED <<row, running, cache, sent>>
  BY DEF Type
<1> HIDE DEF x
<1> QED BY <1>2, <1>6, <1>7, PageSInv

LEMMA SubmitSInv ==
    ASSUME SInv, NEW a \in Admins, Submit(a)
    PROVE  SInv'
<1> DEFINE x == [page[a] EXCEPT !.touched = TRUE]
           r == [values |-> page[a].values, typed |-> page[a].typed, current |-> page[a].current]
<1>1. /\ x \in Pages /\ x.values = page[a].values /\ x.typed = page[a].typed
      /\ x.current = page[a].current /\ x.open
  BY PageParts DEF Pages, Submit
<1>2. Owes(page[a].values, page[a].typed, page[a].current, running)
  BY PageParts DEF Submit
<1>3. r \in Requests /\ Owes(r.values, r.typed, r.current, running)
  BY <1>2, PageParts DEF Requests, Pages
<1>4. page' = [page EXCEPT ![a] = x] /\ UNCHANGED <<row, running, cache>>
  BY DEF Submit
<1>5. sent' = sent \/ \E k \in Slots : sent' = [sent EXCEPT ![a][k] = r]
  BY DEF Submit
<1> HIDE DEF x, r
<1>6. SettingsTypeOK'
  BY <1>1, <1>3, <1>4, <1>5 DEF SInv, SettingsTypeOK
<1>7. PageInv'
  BY <1>1, <1>2, <1>4 DEF SInv, SettingsTypeOK, PageInv
<1>8. SentInv'
  <2> SUFFICES ASSUME NEW b \in Admins, NEW j \in Slots, sent'[b][j] # Nothing
               PROVE  Owes(sent'[b][j].values, sent'[b][j].typed, sent'[b][j].current, running)
    BY <1>4 DEF SentInv
  <2>1. sent'[b][j] = sent[b][j] \/ sent'[b][j] = r
    BY <1>5 DEF SInv, SettingsTypeOK
  <2> QED BY <1>3, <2>1 DEF SInv, SentInv
<1>9. CacheInv'
  BY <1>4 DEF SInv, CacheInv
<1> QED BY <1>6, <1>7, <1>8, <1>9 DEF SInv

\* A request leaves its slot; the row may have been written.
LEMMA AnsweredSInv ==
    ASSUME SInv, NEW a \in Admins, NEW k \in Slots, sent' = [sent EXCEPT ![a][k] = Nothing],
           row' \in [Columns -> Values], UNCHANGED <<running, cache, page>>
    PROVE  SInv'
<1>1. SettingsTypeOK'
  BY DEF SInv, SettingsTypeOK
<1>2. SentInv'
  <2> SUFFICES ASSUME NEW b \in Admins, NEW j \in Slots, sent'[b][j] # Nothing
               PROVE  Owes(sent'[b][j].values, sent'[b][j].typed, sent'[b][j].current, running)
    BY DEF SentInv
  <2>1. sent'[b][j] = sent[b][j]
    BY DEF SInv, SettingsTypeOK
  <2> QED BY <2>1 DEF SInv, SentInv
<1>3. CacheInv' /\ PageInv'
  BY DEF SInv, CacheInv, PageInv
<1> QED BY <1>1, <1>2, <1>3 DEF SInv

\* Contents from an earlier process owe nothing to this one.
LEMMA OldOwes ==
    ASSUME NEW values, NEW typed, NEW current, NEW run, NEW other,
           Owes(values, typed, current, run)
    PROVE  Owes(values, typed, FALSE, other)
BY DEF Owes

LEMMA RestartSInv ==
    ASSUME SInv, Restart
    PROVE  SInv'
<1>1. ASSUME NEW x \in Answers \cup {Nothing} PROVE Old(x) \in Answers \cup {Nothing}
  BY DEF Old, Answers
<1>2. ASSUME NEW x \in Requests \cup {Nothing} PROVE Old(x) \in Requests \cup {Nothing}
  BY DEF Old, Requests
<1>3. ASSUME NEW a \in Admins
      PROVE  /\ page'[a] \in Pages /\ page'[a].open = page[a].open
             /\ page'[a].open =>
                  Owes(page'[a].values, page'[a].typed, page'[a].current, running')
  <2>1. page'[a] = [page[a] EXCEPT !.current = FALSE]
    BY DEF Restart
  <2>2. /\ page'[a] \in Pages /\ page'[a].open = page[a].open /\ page'[a].current = FALSE
        /\ page'[a].values = page[a].values /\ page'[a].typed = page[a].typed
    BY <2>1, PageParts DEF Pages
  <2>3. page'[a].open => Owes(page[a].values, page[a].typed, FALSE, running')
    <3> SUFFICES ASSUME page[a].open PROVE Owes(page[a].values, page[a].typed, FALSE, running')
      BY <2>2
    <3>1. Owes(page[a].values, page[a].typed, page[a].current, running)
      BY PageParts
    <3> QED BY <3>1, OldOwes
  <2> QED BY <2>2, <2>3
<1>4. ASSUME NEW a \in Admins, cache'[a] # Nothing
      PROVE  Owes(cache'[a].values, {}, cache'[a].current, running')
  <2>1. cache'[a] = Old(cache[a])
    BY DEF Restart
  <2>2. cache[a] # Nothing /\ cache'[a] = [cache[a] EXCEPT !.current = FALSE]
    BY <1>4, <2>1 DEF Old
  <2>3. cache[a] \in Answers /\ Owes(cache[a].values, {}, cache[a].current, running)
    BY <2>2 DEF SInv, SettingsTypeOK, CacheInv
  <2>4. cache'[a].values = cache[a].values /\ cache'[a].current = FALSE
    BY <2>2, <2>3 DEF Answers
  <2>5. Owes(cache[a].values, {}, FALSE, running')
    BY <2>3, OldOwes
  <2> QED BY <2>4, <2>5
<1>5. ASSUME NEW a \in Admins, NEW k \in Slots, sent'[a][k] # Nothing
      PROVE  Owes(sent'[a][k].values, sent'[a][k].typed, sent'[a][k].current, running')
  <2>1. sent'[a][k] = Old(sent[a][k])
    BY DEF Restart
  <2>2. sent[a][k] # Nothing /\ sent'[a][k] = [sent[a][k] EXCEPT !.current = FALSE]
    BY <1>5, <2>1 DEF Old
  <2>3. /\ sent[a][k] \in Requests
        /\ Owes(sent[a][k].values, sent[a][k].typed, sent[a][k].current, running)
    BY <2>2 DEF SInv, SettingsTypeOK, SentInv
  <2>4. /\ sent'[a][k].values = sent[a][k].values /\ sent'[a][k].typed = sent[a][k].typed
        /\ sent'[a][k].current = FALSE
    BY <2>2, <2>3 DEF Requests
  <2>5. Owes(sent[a][k].values, sent[a][k].typed, FALSE, running')
    BY <2>3, OldOwes
  <2> QED BY <2>4, <2>5
<1>6. SettingsTypeOK'
  <2>1. row' \in [Columns -> Values] /\ running' \in [Fields -> Values]
    BY LoadedIsConfig DEF Restart, SInv, SettingsTypeOK
  <2>2. cache' \in [Admins -> Answers \cup {Nothing}]
    BY <1>1 DEF Restart, SInv, SettingsTypeOK
  <2>3. page' \in [Admins -> Pages]
    BY <1>3 DEF Restart
  <2>4. sent' \in [Admins -> [Slots -> Requests \cup {Nothing}]]
    BY <1>2 DEF Restart, SInv, SettingsTypeOK
  <2> QED BY <2>1, <2>2, <2>3, <2>4 DEF SettingsTypeOK
<1> QED BY <1>3, <1>4, <1>5, <1>6 DEF SInv, CacheInv, PageInv, SentInv

LEMMA OpenSInv ==
    ASSUME SInv, NEW a \in Admins, Open(a)
    PROVE  SInv'
<1>1. cache[a] \in Answers /\ Owes(cache[a].values, {}, cache[a].current, running)
  BY DEF Open, SInv, SettingsTypeOK, CacheInv
<1> QED BY <1>1, ShowingOwes, PageSInv DEF Open

LEMMA ForgetSInv ==
    ASSUME SInv, NEW a \in Admins, Forget(a)
    PROVE  SInv'
<1>1. SettingsTypeOK'
  BY ClosedIsPage DEF Forget, SInv, SettingsTypeOK
<1>2. CacheInv'
  BY DEF Forget, SInv, SettingsTypeOK, CacheInv
<1>3. PageInv'
  BY ClosedIsPage DEF Forget, SInv, SettingsTypeOK, PageInv
<1>4. SentInv'
  BY DEF Forget, SInv, SentInv
<1> QED BY <1>1, <1>2, <1>3, <1>4 DEF SInv

LEMMA SaveSInv ==
    ASSUME SInv, NEW a \in Admins, NEW k \in Slots, Save(a, k)
    PROVE  SInv'
<1>1. sent[a][k].values \in Contents
  BY DEF Save, SInv, SettingsTypeOK, Requests
<1>2. row' \in [Columns -> Values]
  BY <1>1, WrittenIsRow DEF Save
<1> QED BY <1>2, AnsweredSInv DEF Save

LEMMA StepSInv == SInv /\ [SettingsNext]_settingsVars => SInv'
<1> SUFFICES ASSUME SInv, [SettingsNext]_settingsVars PROVE SInv'
  OBVIOUS
<1>1. CASE Restart
  BY <1>1, RestartSInv
<1>2. ASSUME NEW a \in Admins, Answer(a) PROVE SInv'
  BY <1>2, AnswerSInv
<1>3. ASSUME NEW a \in Admins, Open(a) PROVE SInv'
  BY <1>3, OpenSInv
<1>4. ASSUME NEW a \in Admins, Leave(a) PROVE SInv'
  BY <1>4, ClosedIsPage, PageSInv DEF Leave
<1>5. ASSUME NEW a \in Admins, Forget(a) PROVE SInv'
  BY <1>5, ForgetSInv
<1>6. ASSUME NEW a \in Admins, Submit(a) PROVE SInv'
  BY <1>6, SubmitSInv
<1>7. ASSUME NEW a \in Admins, NEW f \in Inputs, NEW v \in Values, Type(a, f, v) PROVE SInv'
  BY <1>7, TypeSInv
<1>8. ASSUME NEW a \in Admins, NEW k \in Slots, Save(a, k) PROVE SInv'
  BY <1>8, SaveSInv
<1>9. ASSUME NEW a \in Admins, NEW k \in Slots, SaveFails(a, k) PROVE SInv'
  <2>1. row' \in [Columns -> Values]
    BY <1>9 DEF SaveFails, SInv, SettingsTypeOK
  <2> QED BY <1>9, <2>1, AnsweredSInv DEF SaveFails
<1>10. CASE UNCHANGED settingsVars
  BY <1>10 DEF settingsVars, SInv, SettingsTypeOK, CacheInv, PageInv, SentInv
<1> QED BY <1>1, <1>2, <1>3, <1>4, <1>5, <1>6, <1>7, <1>8, <1>9, <1>10 DEF SettingsNext

-----------------------------------------------------------------------------
(* The theorems.                                                           *)

\* The invariant holds of every state.
THEOREM SettingsInvariant == SettingsSpec => []SInv
BY InitSInv, StepSInv, PTL DEF SettingsSpec

\* The row is complete and of its type whatever is saved (Repository.Write).
THEOREM SettingsTyped == SettingsSpec => []SettingsTypeOK
<1>1. SInv => SettingsTypeOK
  BY DEF SInv
<1> QED BY <1>1, SettingsInvariant, PTL

\* Every field an open page lacks has an input (AdminSettings against toConfig and the
\* required fields of the messages).
THEOREM PagesCompletable == SettingsSpec => []PageCanBeCompleted
<1>1. SInv => PageCanBeCompleted
  <2> SUFFICES ASSUME SInv, NEW a \in Admins, page[a].open, NEW f \in Fields, page[a].values[f] = Unset
               PROVE  f \in Inputs
    BY DEF PageCanBeCompleted
  <2>1. Owes(page[a].values, page[a].typed, page[a].current, running)
    BY PageParts
  <2>2. f \in Hidden
    BY <2>1, SettingsAssumption DEF Owes
  <2> QED BY <2>2, SecretsHaveInputs
<1> QED BY <1>1, SettingsInvariant, PTL

\* A save that changes a secret has it typed (the validation of Update's request).
LEMMA SecretTyped ==
    ASSUME SInv, NEW a \in Admins, NEW k \in Slots, Save(a, k), NEW f \in Hidden
    PROVE  f \in sent[a][k].typed /\ row'[f] = sent[a][k].values[f]
<1>1. f \in Fields \ Unstored
  BY LimitIsShown DEF Hidden
<1>2. sent[a][k].values[f] # Unset
  BY <1>1 DEF Save, Complete
<1>3. Owes(sent[a][k].values, sent[a][k].typed, sent[a][k].current, running)
  BY DEF Save, SInv, SentInv
<1>4. f \in sent[a][k].typed
  BY <1>1, <1>2, <1>3 DEF Owes
<1>5. row' = Written(sent[a][k].values)
  BY DEF Save
<1> QED BY <1>1, <1>2, <1>4, <1>5, WrittenFields, AssetUrlIsShown DEF Ended

LEMMA OnlySavesWrite ==
    ASSUME [SettingsNext]_settingsVars, row' # row
    PROVE  \E a \in Admins, k \in Slots : Save(a, k)
BY DEF SettingsNext, settingsVars, Restart, Answer, Open, Leave, Forget, Submit, Type, SaveFails

\* A secret in the row changes only to what somebody typed for it (Get hides it, the
\* validation asks for it, Update writes it).
THEOREM SecretsKept == SettingsSpec => SecretsOnlyTyped
<1>1. SInv /\ [SettingsNext]_settingsVars =>
        [\A f \in Hidden : row'[f] # row[f] =>
           \E a \in Admins, k \in Slots :
             /\ sent[a][k] # Nothing
             /\ f \in sent[a][k].typed /\ row'[f] = sent[a][k].values[f]]_settingsVars
  <2> SUFFICES ASSUME SInv, [SettingsNext]_settingsVars, NEW f \in Hidden, row'[f] # row[f]
               PROVE  \E a \in Admins, k \in Slots :
                        /\ sent[a][k] # Nothing
                        /\ f \in sent[a][k].typed /\ row'[f] = sent[a][k].values[f]
    OBVIOUS
  <2>1. PICK a \in Admins, k \in Slots : Save(a, k)
    BY OnlySavesWrite
  <2>2. sent[a][k] # Nothing
    BY <2>1 DEF Save
  <2> QED BY <2>1, <2>2, SecretTyped
<1> QED BY <1>1, SettingsInvariant, PTL DEF SettingsSpec, SecretsOnlyTyped

\* A save from a page that shows what the process runs with leaves alone what nobody typed
\* or saved since, but for the slash at the end of the URL of the assets (the form sends
\* everything, Update writes everything, Write ends the URL).
THEOREM UntypedStays == SettingsSpec => UntypedKept
<1>1. SInv /\ [SettingsNext]_settingsVars =>
        [\A a \in Admins, k \in Slots :
           Save(a, k) /\ sent[a][k].current =>
             \A f \in (Fields \ Unstored) \ sent[a][k].typed :
                row[f] = running[f] =>
                  \/ row'[f] = row[f]
                  \/ f = AssetUrl /\ row'[f] = Slash[row[f]]]_settingsVars
  <2> SUFFICES ASSUME SInv, NEW a \in Admins, NEW k \in Slots, Save(a, k), sent[a][k].current,
                      NEW f \in (Fields \ Unstored) \ sent[a][k].typed, row[f] = running[f]
               PROVE  row'[f] = row[f] \/ (f = AssetUrl /\ row'[f] = Slash[row[f]])
    OBVIOUS
  <2>1. Owes(sent[a][k].values, sent[a][k].typed, sent[a][k].current, running)
    BY DEF Save, SInv, SentInv
  <2>2. sent[a][k].values[f] # Unset
    BY DEF Save, Complete
  <2>3. sent[a][k].values[f] = running[f]
    BY <2>1, <2>2 DEF Owes
  <2>4. row' = Written(sent[a][k].values)
    BY DEF Save
  <2>5. row'[f] = Ended(f, row[f])
    BY <2>2, <2>3, <2>4, WrittenFields
  <2> QED BY <2>5 DEF Ended
<1> QED BY <1>1, SettingsInvariant, PTL DEF SettingsSpec, UntypedKept
=============================================================================
