---------------------------- MODULE SessionProofs -----------------------------
(***************************************************************************)
(* Theorems about Session, for any tabs, codes, ranks and pages visited:   *)
(* the types, that a layout lets nobody onto a page whose queries the      *)
(* server would refuse them, and that links lead where they say.           *)
(*                                                                         *)
(* Most of it is about the site itself, a table of pages, layouts, queries *)
(* and privileges: what each page asks for is worked out here from the     *)
(* privileges its procedures were registered with.                         *)
(***************************************************************************)
EXTENDS Session, TLAPS

\* Every privilege a procedure can ask for.
Levels == {Anyone, Guest, User, Moderator, Admin, NoPerson}

LEMMA LevelValues == /\ Anyone = 0 /\ Guest = 1 /\ User = 10 /\ Moderator = 50 /\ Admin = 100
                     /\ NoPerson = 101
BY DEF Anyone, Guest, User, Moderator, Admin, NoPerson, Privilege

-----------------------------------------------------------------------------
(* What the procedures ask for.                                            *)

LEMMA AppealAsks == /\ NewAppealService.appeals = Moderator
                    /\ NewAppealService.messages = User
BY DEF NewAppealService, AppealService, Registered, UserRoute, ++

LEMMA BanAsks == /\ NewBanService.query = Moderator
                 /\ NewBanService.get = User
BY DEF NewBanService, BanService, Registered, UserRoute, ++

LEMMA ReportAsks == /\ NewReportService.reports = Moderator
                    /\ NewReportService.userReports = User
BY DEF NewReportService, ReportService, Registered, UserRoute, ++

LEMMA BlocklistAsks == /\ NewBlocklistService.blocklistSources = Moderator
                       /\ NewBlocklistService.whitelistAddress = Moderator
                       /\ NewBlocklistService.whitelistSteam = Moderator
BY DEF NewBlocklistService, BlocklistService, Registered, UserRoute, ++

LEMMA WordfilterAsks == /\ NewWordfilterService.filters = Moderator
                        /\ NewWordfilterService.warningState = Moderator
BY DEF NewWordfilterService, WordfilterService, Registered, UserRoute, ++

LEMMA ChatAsks == NewChatService.query = User
BY DEF NewChatService, ChatService, Registered, UserRoute, ++

LEMMA AnticheatAsks == NewAnticheatService.query = Moderator
BY DEF NewAnticheatService, AnticheatService, Registered, UserRoute, ++

LEMMA ContestAsks == NewContestService.contests = Moderator
BY DEF NewContestService, ContestService, Registered, UserRoute, ++

LEMMA ConfigAsks == NewConfigService.get = Moderator
BY DEF NewConfigService, ConfigService, Registered, UserRoute, NoRoute, ++

LEMMA DemoAsks == NewDemoService.getDemos = User
BY DEF NewDemoService, DemoService, Registered, UserRoute, ++

LEMMA DiscordOAuthAsks == NewDiscordOAuthService.profile = User
BY DEF NewDiscordOAuthService, DiscordOAuthService, Registered, UserRoute, ++

LEMMA ForumAsks == /\ NewForumService.overview = Guest /\ NewForumService.recentMessages = Guest
                   /\ NewForumService.activeUsers = Guest /\ NewForumService.threads = Guest
                   /\ NewForumService.forum = User /\ NewForumService.thread = User
                   /\ NewForumService.threadMessages = User
BY DEF NewForumService, ForumService, Registered, UserRoute, ++

LEMMA MGEAsks == NewMGEService.getRatingsOverall = Guest /\ NewMGEService.getHistory = Guest
BY DEF NewMGEService, MGEService, Registered, UserRoute, ++

LEMMA NetworkAsks ==
    NewNetworkService.queryConnections = Moderator /\ NewNetworkService.queryNetwork = Moderator
BY DEF NewNetworkService, NetworkService, Registered, UserRoute, ++

LEMMA NewsAsks == NewNewsService.latest = Anyone /\ NewNewsService.all = Moderator
BY DEF NewNewsService, NewsService, Registered, UserRoute, ++

LEMMA NotificationAsks == NewNotificationService.notifications = User
BY DEF NewNotificationService, NotificationService, Registered, UserRoute, ++

LEMMA PersonAsks == /\ NewPersonService.profile = User /\ NewPersonService.profileSettings = User
                    /\ NewPersonService.query = Moderator
BY DEF NewPersonService, PersonService, Registered, UserRoute, ++

LEMMA ServersAsks == /\ NewServersService.state = Guest /\ NewServersService.servers = Anyone
                     /\ NewServersService.queryLogs = Admin /\ NewServersService.serversAdmin = Admin
BY DEF NewServersService, ServersService, Registered, UserRoute, ++

LEMMA StatsAsks ==
    /\ NewStatsService.weaponList = Anyone /\ NewStatsService.mapList = Anyone
    /\ NewStatsService.queryMatches = Anyone /\ NewStatsService.matchesWithPlayer = Anyone
    /\ NewStatsService.buckets = User /\ NewStatsService.queryStats = User /\ NewStatsService.match = User
BY DEF NewStatsService, StatsService, Registered, UserRoute, ++

LEMMA VotesAsks == NewVotesService.query = Moderator
BY DEF NewVotesService, VotesService, Registered, UserRoute, ++

LEMMA WikiAsks == NewWikiService.get = Guest
BY DEF NewWikiService, WikiService, Registered, UserRoute, ++

-----------------------------------------------------------------------------
(* What the pages ask for.                                                 *)

LEMMA MaxOfLevels ==
    ASSUME NEW S \in SUBSET Levels, S # {} PROVE Max(S) \in S /\ \A x \in S : x <= Max(S)
<1>1. \E m \in S : \A x \in S : m >= x
  <2>1. CASE NoPerson \in S
    BY <2>1, LevelValues DEF Levels
  <2>2. CASE NoPerson \notin S /\ Admin \in S
    BY <2>2, LevelValues DEF Levels
  <2>3. CASE NoPerson \notin S /\ Admin \notin S /\ Moderator \in S
    BY <2>3, LevelValues DEF Levels
  <2>4. CASE NoPerson \notin S /\ Admin \notin S /\ Moderator \notin S /\ User \in S
    BY <2>4, LevelValues DEF Levels
  <2>5. CASE S \subseteq {Anyone, Guest} /\ Guest \in S
    <3>1. \A x \in S : Guest >= x
      BY <2>5, LevelValues
    <3> QED BY <2>5, <3>1
  <2>6. CASE S \subseteq {Anyone}
    <3>1. Anyone \in S /\ \A x \in S : x = Anyone
      BY <2>6
    <3> QED BY <3>1, LevelValues
  <2> QED BY <2>1, <2>2, <2>3, <2>4, <2>5, <2>6 DEF Levels
<1>2. Max(S) \in S /\ \A x \in S : Max(S) >= x
  BY <1>1 DEF Max
<1>3. S \subseteq Nat
  BY LevelValues DEF Levels
<1> QED BY <1>2, <1>3

\* A page asks for no more than the most that its procedures ask for.
LEMMA AskedAtMost ==
    ASSUME NEW asks \in SUBSET Levels, NEW most \in Nat, \A a \in asks : a <= most
    PROVE  \A feature : /\ Behind(feature, asks).asks \in 0 .. most
                        /\ Behind(feature, asks).feature = feature
                        /\ Free(asks) = Behind("none", asks)
<1>1. Anyone \in Levels /\ Anyone = 0 /\ Levels \subseteq Nat
  BY LevelValues DEF Levels
<1>2. asks \cup {Anyone} \in SUBSET Levels /\ asks \cup {Anyone} # {}
  BY <1>1
<1>3. Max(asks \cup {Anyone}) \in asks \cup {Anyone}
  BY <1>2, MaxOfLevels
<1>4. \A a \in asks \cup {Anyone} : a \in 0 .. most
  BY <1>1
<1>5. Max(asks \cup {Anyone}) \in 0 .. most
  BY <1>3, <1>4
<1> QED BY <1>5 DEF Behind, Free

LEMMA GuestNames ==
    DOMAIN GuestRoutes = {"index", "changelog", "privacyPolicy", "patreon", "servers", "mge", "mge1v1",
                          "mge2v2", "wiki", "wikiSlug", "profile"}
BY DEF GuestRoutes

AuthPages == AuthRoutes ++ AuthForumsRoutes ++ AuthReportRoutes

LEMMA AuthNames ==
    /\ DOMAIN AuthRoutes = {"chatlogs", "notifications", "pageNotFound", "permission", "settings", "stats",
                            "stv", "ban"}
    /\ DOMAIN AuthForumsRoutes = {"forums", "forum", "forumThread"}
    /\ DOMAIN AuthReportRoutes = {"reportCreate", "report"}
    /\ DOMAIN AuthMatchesRoutes = {"matches", "playerMatches", "match"}
    /\ DOMAIN AuthPages = DOMAIN AuthRoutes \cup DOMAIN AuthForumsRoutes \cup DOMAIN AuthReportRoutes
BY DEF AuthRoutes, AuthForumsRoutes, AuthReportRoutes, AuthMatchesRoutes, AuthPages, ++

LEMMA ModNames ==
    /\ DOMAIN ModRoutes = {"anticheat", "appeals", "bans", "contests", "filters", "cidrblocks", "ipInfo",
                           "playersbyip", "network", "news", "people", "reports", "votes"}
    /\ DOMAIN AdminRoutes = {"gameAdmins", "serverlogs", "serversAdmin", "adminSettings"}
BY DEF ModRoutes, AdminRoutes

\* Each page stands under one layout.
Entry(page, layout, needs, instead) ==
    [page |-> page, layout |-> layout, needs |-> needs, instead |-> instead]

LEMMA Layouts ==
    /\ DOMAIN Site = DOMAIN GuestRoutes \cup DOMAIN AuthPages \cup DOMAIN AuthMatchesRoutes
                     \cup DOMAIN ModRoutes \cup DOMAIN AdminRoutes
    /\ \A n \in DOMAIN GuestRoutes :
          Site[n] = Entry(GuestRoutes[n], "guest", Anyone, "none")
    /\ \A n \in DOMAIN AuthPages :
          Site[n] = Entry(AuthPages[n], "auth", Anyone, "none")
    /\ \A n \in DOMAIN AuthMatchesRoutes :
          Site[n] = Entry(AuthMatchesRoutes[n], "auth", Moderator, "index")
    /\ \A n \in DOMAIN ModRoutes :
          Site[n] = Entry(ModRoutes[n], "mod", Moderator, "permission")
    /\ \A n \in DOMAIN AdminRoutes :
          Site[n] = Entry(AdminRoutes[n], "admin", Admin, "permission")
<1> DEFINE guest == Under(GuestRoutes, "guest", Anyone, "none")
           auth == Under(AuthPages, "auth", Anyone, "none")
           matches == Under(AuthMatchesRoutes, "auth", Moderator, "index")
           moderated == Under(ModRoutes, "mod", Moderator, "permission")
           admin == Under(AdminRoutes, "admin", Admin, "permission")
<1>1. Site = guest ++ auth ++ matches ++ moderated ++ admin
  BY DEF Site, AuthPages
<1>2. /\ DOMAIN guest = DOMAIN GuestRoutes /\ DOMAIN auth = DOMAIN AuthPages
      /\ DOMAIN matches = DOMAIN AuthMatchesRoutes /\ DOMAIN moderated = DOMAIN ModRoutes
      /\ DOMAIN admin = DOMAIN AdminRoutes
  BY DEF Under
<1>3. /\ DOMAIN GuestRoutes \cap DOMAIN AuthPages = {}
      /\ DOMAIN GuestRoutes \cap DOMAIN AuthMatchesRoutes = {}
      /\ DOMAIN GuestRoutes \cap DOMAIN ModRoutes = {} /\ DOMAIN GuestRoutes \cap DOMAIN AdminRoutes = {}
  BY GuestNames, AuthNames, ModNames
<1>4. /\ DOMAIN AuthPages \cap DOMAIN AuthMatchesRoutes = {} /\ DOMAIN AuthPages \cap DOMAIN ModRoutes = {}
      /\ DOMAIN AuthPages \cap DOMAIN AdminRoutes = {}
  BY AuthNames, ModNames
<1>5. /\ DOMAIN AuthMatchesRoutes \cap DOMAIN ModRoutes = {}
      /\ DOMAIN AuthMatchesRoutes \cap DOMAIN AdminRoutes = {}
      /\ DOMAIN ModRoutes \cap DOMAIN AdminRoutes = {}
  BY AuthNames, ModNames
<1>6. /\ \A n \in DOMAIN guest : guest[n] = Entry(GuestRoutes[n], "guest", Anyone, "none")
      /\ \A n \in DOMAIN auth : auth[n] = Entry(AuthPages[n], "auth", Anyone, "none")
      /\ \A n \in DOMAIN matches :
            matches[n] = Entry(AuthMatchesRoutes[n], "auth", Moderator, "index")
      /\ \A n \in DOMAIN moderated : moderated[n] = Entry(ModRoutes[n], "mod", Moderator, "permission")
      /\ \A n \in DOMAIN admin : admin[n] = Entry(AdminRoutes[n], "admin", Admin, "permission")
  BY DEF Under, Entry
<1> HIDE DEF guest, auth, matches, moderated, admin
<1> DEFINE two == guest ++ auth
           three == two ++ matches
           four == three ++ moderated
<1>7. /\ DOMAIN two = DOMAIN GuestRoutes \cup DOMAIN AuthPages
      /\ \A n \in DOMAIN guest : two[n] = guest[n]
      /\ \A n \in DOMAIN auth : two[n] = auth[n]
  BY <1>2, <1>3 DEF ++
<1> HIDE DEF two
<1>8. /\ DOMAIN three = DOMAIN two \cup DOMAIN AuthMatchesRoutes
      /\ \A n \in DOMAIN two : three[n] = two[n]
      /\ \A n \in DOMAIN matches : three[n] = matches[n]
  <2>1. DOMAIN two \cap DOMAIN matches = {}
    BY <1>2, <1>3, <1>4, <1>7
  <2> QED BY <1>2, <2>1 DEF ++
<1> HIDE DEF three
<1>9. /\ DOMAIN four = DOMAIN three \cup DOMAIN ModRoutes
      /\ \A n \in DOMAIN three : four[n] = three[n]
      /\ \A n \in DOMAIN moderated : four[n] = moderated[n]
  <2>1. DOMAIN three \cap DOMAIN moderated = {}
    BY <1>2, <1>3, <1>4, <1>5, <1>7, <1>8
  <2> QED BY <1>2, <2>1 DEF ++
<1> HIDE DEF four
<1>10. /\ DOMAIN Site = DOMAIN four \cup DOMAIN AdminRoutes
       /\ \A n \in DOMAIN four : Site[n] = four[n]
       /\ \A n \in DOMAIN admin : Site[n] = admin[n]
  <2>1. DOMAIN four \cap DOMAIN admin = {}
    BY <1>2, <1>3, <1>4, <1>5, <1>7, <1>8, <1>9
  <2>2. Site = four ++ admin
    BY <1>1 DEF two, three, four
  <2> QED BY <1>2, <2>1, <2>2 DEF ++
<1>11. DOMAIN Site = DOMAIN GuestRoutes \cup DOMAIN AuthPages \cup DOMAIN AuthMatchesRoutes
                     \cup DOMAIN ModRoutes \cup DOMAIN AdminRoutes
  BY <1>7, <1>8, <1>9, <1>10
<1>12. /\ \A n \in DOMAIN guest : Site[n] = guest[n]
       /\ \A n \in DOMAIN auth : Site[n] = auth[n]
       /\ \A n \in DOMAIN matches : Site[n] = matches[n]
       /\ \A n \in DOMAIN moderated : Site[n] = moderated[n]
       /\ \A n \in DOMAIN admin : Site[n] = admin[n]
  <2>1. /\ DOMAIN guest \cup DOMAIN auth = DOMAIN two
        /\ DOMAIN two \cup DOMAIN matches = DOMAIN three
        /\ DOMAIN three \cup DOMAIN moderated = DOMAIN four
    BY <1>2, <1>7, <1>8, <1>9
  <2>2. \A n \in DOMAIN three : Site[n] = three[n]
    BY <1>9, <1>10, <2>1
  <2>3. \A n \in DOMAIN two : Site[n] = two[n]
    BY <1>8, <2>1, <2>2
  <2>4. \A n \in DOMAIN guest : Site[n] = guest[n]
    BY <1>7, <2>1, <2>3
  <2>5. \A n \in DOMAIN auth : Site[n] = auth[n]
    BY <1>7, <2>1, <2>3
  <2>6. \A n \in DOMAIN matches : Site[n] = matches[n]
    BY <1>8, <2>1, <2>2
  <2>7. \A n \in DOMAIN moderated : Site[n] = moderated[n]
    BY <1>9, <1>10, <2>1
  <2> QED BY <1>10, <2>4, <2>5, <2>6, <2>7
<1> QED BY <1>2, <1>6, <1>11, <1>12

LEMMA UsersAsk ==
    ASSUME NEW feature, NEW asks \in SUBSET {Anyone, Guest, User}
    PROVE  /\ Behind(feature, asks).asks \in 0 .. User /\ Behind(feature, asks).feature = feature
           /\ Free(asks).asks \in 0 .. User /\ Free(asks).feature = "none"
<1>1. asks \in SUBSET Levels /\ User \in Nat /\ \A a \in asks : a <= User
  BY LevelValues DEF Levels
<1> QED BY <1>1, AskedAtMost

LEMMA ModeratorsAsk ==
    ASSUME NEW asks \in SUBSET {Anyone, Guest, User, Moderator}
    PROVE  Free(asks).asks \in 0 .. Moderator /\ Free(asks).feature = "none"
<1>1. asks \in SUBSET Levels /\ Moderator \in Nat /\ \A a \in asks : a <= Moderator
  BY LevelValues DEF Levels
<1> QED BY <1>1, AskedAtMost

LEMMA AdminsAsk ==
    ASSUME NEW asks \in SUBSET {Anyone, Guest, User, Moderator, Admin}
    PROVE  Free(asks).asks \in 0 .. Admin /\ Free(asks).feature = "none"
<1>1. asks \in SUBSET Levels /\ Admin \in Nat /\ \A a \in asks : a <= Admin
  BY LevelValues DEF Levels
<1> QED BY <1>1, AskedAtMost

LEMMA GuestRoutesAsk ==
    /\ \A n \in DOMAIN GuestRoutes \ {"patreon", "changelog"} : GuestRoutes[n].asks \in 0 .. User
    /\ \A n \in {"index", "privacyPolicy", "profile"} : GuestRoutes[n].feature = "none"
    /\ GuestRoutes["servers"].feature = "servers"
    /\ \A n \in {"mge", "mge1v1", "mge2v2"} : GuestRoutes[n].feature = "mge"
    /\ \A n \in {"wiki", "wikiSlug"} : GuestRoutes[n].feature = "wiki"
<1>1. GuestRoutes["index"].asks \in 0 .. User /\ GuestRoutes["index"].feature = "none"
  BY UsersAsk, NewsAsks DEF GuestRoutes
<1>2. GuestRoutes["privacyPolicy"].asks \in 0 .. User /\ GuestRoutes["privacyPolicy"].feature = "none"
  BY UsersAsk DEF GuestRoutes
<1>3. GuestRoutes["servers"].asks \in 0 .. User /\ GuestRoutes["servers"].feature = "servers"
  BY UsersAsk, ServersAsks DEF GuestRoutes
<1>4. GuestRoutes["mge"].asks \in 0 .. User /\ GuestRoutes["mge"].feature = "mge"
  BY UsersAsk, MGEAsks DEF GuestRoutes
<1>5. GuestRoutes["mge1v1"].asks \in 0 .. User /\ GuestRoutes["mge1v1"].feature = "mge"
  BY UsersAsk, MGEAsks DEF GuestRoutes
<1>6. GuestRoutes["mge2v2"].asks \in 0 .. User /\ GuestRoutes["mge2v2"].feature = "mge"
  BY UsersAsk, MGEAsks DEF GuestRoutes
<1>7. GuestRoutes["wiki"].asks \in 0 .. User /\ GuestRoutes["wiki"].feature = "wiki"
  BY UsersAsk, WikiAsks DEF GuestRoutes
<1>8. GuestRoutes["wikiSlug"].asks \in 0 .. User /\ GuestRoutes["wikiSlug"].feature = "wiki"
  BY UsersAsk, WikiAsks DEF GuestRoutes
<1>9. GuestRoutes["profile"].asks \in 0 .. User /\ GuestRoutes["profile"].feature = "none"
  BY UsersAsk, PersonAsks DEF GuestRoutes
<1> QED BY <1>1, <1>2, <1>3, <1>4, <1>5, <1>6, <1>7, <1>8, <1>9, GuestNames

LEMMA AuthRoutesAsk ==
    /\ \A n \in DOMAIN AuthRoutes : AuthRoutes[n].asks \in 0 .. User
    /\ \A n \in {"chatlogs", "stats"} : AuthRoutes[n].feature = "chatlogs"
    /\ \A n \in {"notifications", "pageNotFound", "permission", "settings", "ban"} :
          AuthRoutes[n].feature = "none"
    /\ AuthRoutes["stv"].feature = "demos"
<1>1. AuthRoutes["chatlogs"].asks \in 0 .. User /\ AuthRoutes["chatlogs"].feature = "chatlogs"
  BY UsersAsk, ServersAsks, ChatAsks DEF AuthRoutes
<1>2. AuthRoutes["notifications"].asks \in 0 .. User /\ AuthRoutes["notifications"].feature = "none"
  BY UsersAsk, NotificationAsks DEF AuthRoutes
<1>3. AuthRoutes["pageNotFound"].asks \in 0 .. User /\ AuthRoutes["pageNotFound"].feature = "none"
  BY UsersAsk DEF AuthRoutes
<1>4. AuthRoutes["permission"].asks \in 0 .. User /\ AuthRoutes["permission"].feature = "none"
  BY UsersAsk DEF AuthRoutes
<1>5. AuthRoutes["settings"].asks \in 0 .. User /\ AuthRoutes["settings"].feature = "none"
  BY UsersAsk, PersonAsks, DiscordOAuthAsks DEF AuthRoutes
<1>6. AuthRoutes["stats"].asks \in 0 .. User /\ AuthRoutes["stats"].feature = "chatlogs"
  BY UsersAsk, StatsAsks DEF AuthRoutes
<1>7. AuthRoutes["stv"].asks \in 0 .. User /\ AuthRoutes["stv"].feature = "demos"
  BY UsersAsk, ServersAsks, DemoAsks DEF AuthRoutes
<1>8. AuthRoutes["ban"].asks \in 0 .. User /\ AuthRoutes["ban"].feature = "none"
  BY UsersAsk, BanAsks, AppealAsks, PersonAsks DEF AuthRoutes
<1> QED BY <1>1, <1>2, <1>3, <1>4, <1>5, <1>6, <1>7, <1>8, AuthNames

LEMMA ForumsRoutesAsk ==
    \A n \in DOMAIN AuthForumsRoutes :
        AuthForumsRoutes[n].asks \in 0 .. User /\ AuthForumsRoutes[n].feature = "forums"
<1>1. AuthForumsRoutes["forums"].asks \in 0 .. User /\ AuthForumsRoutes["forums"].feature = "forums"
  BY UsersAsk, ForumAsks DEF AuthForumsRoutes
<1>2. AuthForumsRoutes["forum"].asks \in 0 .. User /\ AuthForumsRoutes["forum"].feature = "forums"
  BY UsersAsk, ForumAsks DEF AuthForumsRoutes
<1>3. /\ AuthForumsRoutes["forumThread"].asks \in 0 .. User
      /\ AuthForumsRoutes["forumThread"].feature = "forums"
  BY UsersAsk, ForumAsks DEF AuthForumsRoutes
<1> QED BY <1>1, <1>2, <1>3, AuthNames

LEMMA ReportRoutesAsk ==
    \A n \in DOMAIN AuthReportRoutes \ {"report"} :
        AuthReportRoutes[n].asks \in 0 .. User /\ AuthReportRoutes[n].feature = "reports"
<1>1. /\ AuthReportRoutes["reportCreate"].asks \in 0 .. User
      /\ AuthReportRoutes["reportCreate"].feature = "reports"
  BY UsersAsk, ReportAsks DEF AuthReportRoutes
<1> QED BY <1>1, AuthNames

LEMMA MatchesRoutesAsk ==
    \A n \in DOMAIN AuthMatchesRoutes :
        AuthMatchesRoutes[n].asks \in 0 .. User /\ AuthMatchesRoutes[n].feature = "stats"
<1>1. AuthMatchesRoutes["matches"].asks \in 0 .. User /\ AuthMatchesRoutes["matches"].feature = "stats"
  BY UsersAsk, StatsAsks, ServersAsks DEF AuthMatchesRoutes
<1>2. /\ AuthMatchesRoutes["playerMatches"].asks \in 0 .. User
      /\ AuthMatchesRoutes["playerMatches"].feature = "stats"
  BY UsersAsk, ServersAsks, StatsAsks DEF AuthMatchesRoutes
<1>3. AuthMatchesRoutes["match"].asks \in 0 .. User /\ AuthMatchesRoutes["match"].feature = "stats"
  BY UsersAsk, StatsAsks DEF AuthMatchesRoutes
<1> QED BY <1>1, <1>2, <1>3, AuthNames

LEMMA ModRoutesAsk ==
    \A n \in DOMAIN ModRoutes :
        ModRoutes[n].asks \in 0 .. Moderator /\ ModRoutes[n].feature = "none"
<1>1. ModRoutes["anticheat"].asks \in 0 .. Moderator /\ ModRoutes["anticheat"].feature = "none"
  BY ModeratorsAsk, ServersAsks, AnticheatAsks DEF ModRoutes
<1>2. ModRoutes["appeals"].asks \in 0 .. Moderator /\ ModRoutes["appeals"].feature = "none"
  BY ModeratorsAsk, AppealAsks DEF ModRoutes
<1>3. ModRoutes["bans"].asks \in 0 .. Moderator /\ ModRoutes["bans"].feature = "none"
  BY ModeratorsAsk, BanAsks DEF ModRoutes
<1>4. ModRoutes["contests"].asks \in 0 .. Moderator /\ ModRoutes["contests"].feature = "none"
  BY ModeratorsAsk, ContestAsks DEF ModRoutes
<1>5. ModRoutes["filters"].asks \in 0 .. Moderator /\ ModRoutes["filters"].feature = "none"
  BY ModeratorsAsk, WordfilterAsks DEF ModRoutes
<1>6. ModRoutes["cidrblocks"].asks \in 0 .. Moderator /\ ModRoutes["cidrblocks"].feature = "none"
  BY ModeratorsAsk, BlocklistAsks DEF ModRoutes
<1>7. ModRoutes["ipInfo"].asks \in 0 .. Moderator /\ ModRoutes["ipInfo"].feature = "none"
  BY ModeratorsAsk, NetworkAsks DEF ModRoutes
<1>8. ModRoutes["playersbyip"].asks \in 0 .. Moderator /\ ModRoutes["playersbyip"].feature = "none"
  BY ModeratorsAsk, ServersAsks, NetworkAsks DEF ModRoutes
<1>9. ModRoutes["network"].asks \in 0 .. Moderator /\ ModRoutes["network"].feature = "none"
  BY ModeratorsAsk DEF ModRoutes
<1>10. ModRoutes["news"].asks \in 0 .. Moderator /\ ModRoutes["news"].feature = "none"
  BY ModeratorsAsk, NewsAsks DEF ModRoutes
<1>11. ModRoutes["people"].asks \in 0 .. Moderator /\ ModRoutes["people"].feature = "none"
  BY ModeratorsAsk, PersonAsks DEF ModRoutes
<1>12. ModRoutes["reports"].asks \in 0 .. Moderator /\ ModRoutes["reports"].feature = "none"
  BY ModeratorsAsk, ReportAsks DEF ModRoutes
<1>13. ModRoutes["votes"].asks \in 0 .. Moderator /\ ModRoutes["votes"].feature = "none"
  BY ModeratorsAsk, ServersAsks, VotesAsks DEF ModRoutes
<1> QED BY <1>1, <1>2, <1>3, <1>4, <1>5, <1>6, <1>7, <1>8, <1>9, <1>10, <1>11, <1>12, <1>13, ModNames

LEMMA AdminRoutesAsk ==
    \A n \in DOMAIN AdminRoutes \ {"gameAdmins"} :
        AdminRoutes[n].asks \in 0 .. Admin /\ AdminRoutes[n].feature = "none"
<1>1. AdminRoutes["serverlogs"].asks \in 0 .. Admin /\ AdminRoutes["serverlogs"].feature = "none"
  BY AdminsAsk, ServersAsks DEF AdminRoutes
<1>2. AdminRoutes["serversAdmin"].asks \in 0 .. Admin /\ AdminRoutes["serversAdmin"].feature = "none"
  BY AdminsAsk, StatsAsks, ServersAsks DEF AdminRoutes
<1>3. AdminRoutes["adminSettings"].asks \in 0 .. Admin /\ AdminRoutes["adminSettings"].feature = "none"
  BY AdminsAsk, ConfigAsks DEF AdminRoutes
<1> QED BY <1>1, <1>2, <1>3, ModNames

\* The pages that ask nothing of anybody.
LEMMA FreePages == GuestRoutes["index"].asks = Anyone /\ GuestRoutes["privacyPolicy"].asks = Anyone
<1>1. \A a \in {NewNewsService.latest} : a <= 0
  BY NewsAsks, LevelValues
<1>2. {NewNewsService.latest} \in SUBSET Levels /\ {} \in SUBSET Levels
  BY NewsAsks DEF Levels
<1>3. Free({NewNewsService.latest}).asks \in 0 .. 0 /\ Free({}).asks \in 0 .. 0
  BY <1>1, <1>2, AskedAtMost
<1> QED BY <1>3, LevelValues DEF GuestRoutes

LEMMA AuthPagesAsk ==
    /\ \A n \in DOMAIN AuthPages \ {"report"} : AuthPages[n].asks \in 0 .. User
    /\ \A n \in DOMAIN AuthRoutes : AuthPages[n] = AuthRoutes[n]
    /\ AuthPages["forums"] = AuthForumsRoutes["forums"]
    /\ AuthPages["reportCreate"] = AuthReportRoutes["reportCreate"]
<1>1. \A n \in DOMAIN AuthRoutes : AuthPages[n] = AuthRoutes[n]
  BY AuthNames DEF AuthPages, ++
<1>2. \A n \in DOMAIN AuthForumsRoutes : AuthPages[n] = AuthForumsRoutes[n]
  BY AuthNames DEF AuthPages, ++
<1>3. \A n \in DOMAIN AuthReportRoutes : AuthPages[n] = AuthReportRoutes[n]
  BY AuthNames DEF AuthPages, ++
<1> QED BY <1>1, <1>2, <1>3, AuthNames, AuthRoutesAsk, ForumsRoutesAsk, ReportRoutesAsk

-----------------------------------------------------------------------------
(* The site: where layouts send, what pages ask, where links lead.         *)

\* A layout asks for nothing but a login, or sends those with too little to a page that
\* lets them in.
LEMMA LayoutsSend ==
    /\ \A n \in DOMAIN Site : Site[n].layout # "guest" =>
          \/ Site[n].needs = Anyone
          \/ Site[n].needs \in {Moderator, Admin} /\ Site[n].instead \in {"index", "permission"}
    /\ {"index", "permission"} \subseteq DOMAIN Site
    /\ Site["index"].layout = "guest" /\ Site["permission"].layout # "guest"
    /\ Site["permission"].needs = Anyone
    /\ {"login", "success", "steam"} \cap DOMAIN Site = {}
<1>1. \A n \in DOMAIN Site : Site[n].layout # "guest" =>
          \/ Site[n].needs = Anyone
          \/ Site[n].needs \in {Moderator, Admin} /\ Site[n].instead \in {"index", "permission"}
  BY Layouts DEF Entry
<1>2. "index" \in DOMAIN GuestRoutes /\ "permission" \in DOMAIN AuthPages
  BY GuestNames, AuthNames
<1>3. {"login", "success", "steam"} \cap DOMAIN Site = {}
  BY Layouts, GuestNames, AuthNames, ModNames DEF Entry
<1> QED BY <1>1, <1>2, <1>3, Layouts DEF Entry

\* Except where it is named, a page asks no more of a token than its layout asks of the
\* profile; those of the guests ask nothing.
LEMMA PagesAsk ==
    ASSUME NEW n \in DOMAIN Site \ Misplaced
    PROVE  /\ Site[n].layout = "guest" => Site[n].page.asks = Anyone
           /\ Site[n].layout # "guest" =>
                /\ Site[n].page.asks \in Nat
                /\ Site[n].page.asks <= User \/ Site[n].page.asks <= Site[n].needs
<1>1. CASE n \in DOMAIN GuestRoutes
  <2>1. n \in {"index", "privacyPolicy"}
    BY <1>1, GuestNames DEF Misplaced
  <2> QED BY <1>1, <2>1, FreePages, Layouts DEF Entry
<1>2. CASE n \in DOMAIN AuthPages
  <2>1. n # "report"
    BY DEF Misplaced
  <2> QED BY <1>2, <2>1, AuthPagesAsk, Layouts, LevelValues DEF Entry
<1>3. CASE n \in DOMAIN AuthMatchesRoutes
  BY <1>3, MatchesRoutesAsk, Layouts, LevelValues DEF Entry
<1>4. CASE n \in DOMAIN ModRoutes
  BY <1>4, ModRoutesAsk, Layouts, LevelValues DEF Entry
<1>5. CASE n \in DOMAIN AdminRoutes
  <2>1. n # "gameAdmins"
    BY DEF Misplaced
  <2> QED BY <1>5, <2>1, AdminRoutesAsk, Layouts, LevelValues DEF Entry
<1> QED BY <1>1, <1>2, <1>3, <1>4, <1>5, Layouts DEF Entry

\* A page of the feature that a profile with least is let onto, and a token with most served.
Serves(n, feature, least, most) ==
    /\ n \in DOMAIN Site /\ Site[n].page.feature \in {"none", feature}
    /\ Site[n].layout = "guest" \/ Site[n].needs = least
    /\ Site[n].page.asks \in 0 .. most

LEMMA GuestServes ==
    /\ \A n \in {"index", "privacyPolicy", "profile"} : Serves(n, "none", Anyone, User)
    /\ Serves("servers", "servers", Anyone, User)
    /\ Serves("mge", "mge", Anyone, User)
    /\ \A n \in {"wiki", "wikiSlug"} : Serves(n, "wiki", Anyone, User)
BY GuestNames, GuestRoutesAsk, Layouts DEF Entry, Serves

LEMMA AuthServes ==
    /\ \A n \in {"notifications", "settings"} : Serves(n, "none", Anyone, User)
    /\ Serves("ban", "reports", Anyone, User)
    /\ Serves("chatlogs", "chatlogs", Anyone, User)
    /\ Serves("stv", "demos", Anyone, User)
    /\ Serves("forums", "forums", Anyone, User)
    /\ Serves("reportCreate", "reports", Anyone, User)
<1>1. {"notifications", "settings", "ban", "chatlogs", "stv", "forums", "reportCreate"}
          \subseteq DOMAIN AuthPages
  BY AuthNames
<1>2. /\ \A n \in {"notifications", "settings", "ban"} : AuthPages[n].feature = "none"
      /\ AuthPages["chatlogs"].feature = "chatlogs" /\ AuthPages["stv"].feature = "demos"
      /\ AuthPages["forums"].feature = "forums" /\ AuthPages["reportCreate"].feature = "reports"
  BY AuthNames, AuthPagesAsk, AuthRoutesAsk, ForumsRoutesAsk, ReportRoutesAsk
<1> QED BY <1>1, <1>2, AuthPagesAsk, Layouts DEF Entry, Serves

LEMMA ModServes ==
    /\ \A n \in DOMAIN ModRoutes : Serves(n, "none", Moderator, Moderator)
    /\ Serves("matches", "stats", Moderator, Moderator)
<1>1. \A n \in DOMAIN ModRoutes : Serves(n, "none", Moderator, Moderator)
  BY ModRoutesAsk, Layouts DEF Entry, Serves
<1>2. "matches" \in DOMAIN AuthMatchesRoutes
  BY AuthNames
<1>3. Serves("matches", "stats", Moderator, Moderator)
  BY <1>2, MatchesRoutesAsk, Layouts, LevelValues DEF Entry, Serves
<1> QED BY <1>1, <1>3

\* What everybody is shown, and what users and moderators are shown besides.
LEMMA EverybodysLinks ==
    \A l \in MenuItems \cup Dashboard(FALSE) \cup Footer \cup UserItems \cup Always({"notifications"}) :
        l.to \in Misleading \/ Serves(l.to, l.feature, Anyone, User)
<1>1. \A l \in MenuItems : Serves(l.to, l.feature, Anyone, User)
  BY GuestServes, AuthServes DEF MenuItems, Always, Link
<1>2. \A l \in Dashboard(FALSE) : l.to \in Misleading \/ Serves(l.to, l.feature, Anyone, User)
  BY GuestServes, AuthServes DEF Dashboard, Link, Misleading
<1>3. \A l \in UserItems \cup Always({"notifications"}) :
          l.to \in Misleading \/ Serves(l.to, l.feature, Anyone, User)
  BY GuestServes, AuthServes DEF UserItems, Always, Link, Misleading
<1>4. \A l \in Footer : l.to \in Misleading \/ Serves(l.to, l.feature, Anyone, User)
  BY GuestServes DEF Footer, Always, Link, Misleading
<1> QED BY <1>1, <1>2, <1>3, <1>4

LEMMA ModeratorsLinks ==
    \A l \in AdminItems \cup NetworkTools \cup (Dashboard(TRUE) \ Dashboard(FALSE)) :
        l.to \in Misleading \/ Serves(l.to, l.feature, Moderator, Moderator)
<1>1. \A l \in AdminItems : l.to \in Misleading \/ Serves(l.to, l.feature, Moderator, Moderator)
  BY ModServes, ModNames DEF AdminItems, Always, Link, Misleading
<1>2. \A l \in NetworkTools : l.to \in Misleading
  BY DEF NetworkTools, Always, Link, Misleading
<1>3. \A l \in Dashboard(TRUE) \ Dashboard(FALSE) : Serves(l.to, l.feature, Moderator, Moderator)
  <2>1. \A l \in Dashboard(TRUE) \ Dashboard(FALSE) : l = Link("matches", "stats")
    BY DEF Dashboard
  <2>2. Link("matches", "stats").to = "matches" /\ Link("matches", "stats").feature = "stats"
    BY DEF Link
  <2> QED BY <2>1, <2>2, ModServes
<1> QED BY <1>1, <1>2, <1>3

-----------------------------------------------------------------------------
(* The tabs.                                                               *)

\* Whoever is on a page past a layout had, on the way in, a profile the layout let through.
LetIn(x) == x.place \in Visited =>
               \/ Site[x.place].layout = "guest"
               \/ x.as \in Ranks /\ x.as # None /\ x.as >= Site[x.place].needs
\* The page of a login has its code.
HasCode(x) == x.place = "success" \/ x.login = "exchanging" => x.code \in Codes
Sound(x)   == LetIn(x) /\ HasCode(x)
\* As long as no two logins overlapped, there is one fingerprint: that of the token, and of
\* whatever token a code still stands for.
Matched == ~overlapped =>
              /\ \A c \in Codes : codes[c] # None => cookie.print \in {c, None}
              /\ cookie.token # None /\ cookie.print # None => cookie.token.print = cookie.print
SInv    == SessionTypeOK /\ Matched /\ \A t \in Tabs : Sound(tab[t])

LEMMA RanksTyped == /\ Ranks \subseteq Nat
                    /\ Visited \subseteq Places /\ {"index", "permission"} \subseteq Visited
                    /\ {"index", "login", "success", "steam"} \subseteq Places
                    /\ {"login", "success", "steam"} \cap Visited = {}
<1>1. Ranks \subseteq Nat
  BY SessionAssumption
<1>3. Visited \subseteq Places /\ {"index", "permission"} \subseteq Visited
  BY SessionAssumption DEF Places
<1>4. {"index", "login", "success", "steam"} \subseteq Places
  BY <1>3 DEF Places
<1>5. {"login", "success", "steam"} \cap DOMAIN Site = {}
  BY LayoutsSend
<1>6. {"login", "success", "steam"} \cap Visited = {}
  BY <1>5, SessionAssumption
<1> QED BY <1>1, <1>3, <1>4, <1>6

LEMMA VisitedNeeds ==
    ASSUME NEW n \in Visited, Site[n].layout # "guest"
    PROVE  Site[n].needs \in {0, 50, 100}
BY SessionAssumption, LayoutsSend, LevelValues

\* Whoever goes to a page comes out where they are let in.
LEMMA LandsLetsIn ==
    ASSUME NEW n \in Visited, NEW p \in Profiles
    PROVE  /\ Lands(n, p) \in Visited \cup {"login"}
           /\ Lands(n, p) \in Visited =>
                \/ Site[Lands(n, p)].layout = "guest"
                \/ p \in Ranks /\ p # None /\ p >= Site[Lands(n, p)].needs
<1>1. CASE Site[n].layout = "guest"
  BY <1>1 DEF Lands
<1>2. CASE Site[n].layout # "guest" /\ p = None
  BY <1>2, RanksTyped DEF Lands
<1>3. CASE Site[n].layout # "guest" /\ p # None
  <2>1. p \in Ranks /\ p \in Nat /\ Site[n].needs \in {0, 50, 100}
    BY <1>3, RanksTyped, VisitedNeeds DEF Profiles
  <2>2. Lands(n, p) = IF p >= Site[n].needs THEN n ELSE Site[n].instead
    BY <1>3 DEF Lands
  <2>3. CASE p >= Site[n].needs
    BY <1>3, <2>1, <2>2, <2>3
  <2>4. CASE ~(p >= Site[n].needs)
    <3>1. Site[n].needs # Anyone
      BY <2>1, <2>4, LevelValues
    <3>2. Site[n].instead \in {"index", "permission"}
      BY <1>3, <3>1, SessionAssumption, LayoutsSend
    <3>3. Lands(n, p) \in {"index", "permission"}
      BY <2>2, <2>4, <3>2
    <3> QED BY <1>3, <2>1, <3>3, RanksTyped, LayoutsSend, LevelValues
  <2> QED BY <2>3, <2>4
<1> QED BY <1>1, <1>2, <1>3

\* A tab as it comes to a place, as the browser loads it, and as it is told a profile.
LEMMA AtTyped ==
    ASSUME NEW x \in Tab, NEW n \in Places, NEW p \in Profiles
    PROVE  /\ At(x, n, p) \in Tab /\ At(x, n, p).place = n /\ At(x, n, p).as = p
           /\ At(x, n, p).code = x.code /\ At(x, n, p).login = x.login
BY DEF At, Tab

LEMMA LoadedTyped ==
    ASSUME NEW n \in Visited, stored \in Profiles
    PROVE  Loaded(n) \in Tab /\ Sound(Loaded(n))
<1>1. Lands(n, stored) \in Places
  BY LandsLetsIn, RanksTyped
<1>2. Loaded(n) \in Tab /\ LetIn(Loaded(n))
  BY <1>1, LandsLetsIn DEF Loaded, Tab, LetIn
<1>3. HasCode(Loaded(n))
  BY LandsLetsIn, RanksTyped DEF Loaded, HasCode
<1> QED BY <1>2, <1>3 DEF Sound

LEMMA LoadedWithTyped ==
    ASSUME NEW c \in Codes, stored \in Profiles
    PROVE  LoadedWith(c) \in Tab /\ Sound(LoadedWith(c))
<1>1. Loaded("index") \in Tab
  BY LoadedTyped, RanksTyped
<1> HIDE DEF Loaded
<1> QED BY <1>1, RanksTyped DEF LoadedWith, Tab, LetIn, HasCode, Sound

LEMMA ToldTyped ==
    ASSUME NEW x \in Tab, NEW p \in Profiles
    PROVE  /\ Told(x, p) \in Tab /\ Told(x, p).place = x.place /\ Told(x, p).as = x.as
           /\ Told(x, p).code = x.code /\ Told(x, p).login = x.login
BY DEF Told, Tab

LEMMA IndexSound ==
    ASSUME NEW x, x.place \in {"index", "login", "steam"}, x.login # "exchanging" \/ x.code \in Codes
    PROVE  Sound(x)
BY RanksTyped, LayoutsSend DEF LetIn, HasCode, Sound

LEMMA TabsTyped == ASSUME SInv, NEW t \in Tabs PROVE tab[t] \in Tab /\ Sound(tab[t])
BY DEF SInv, SessionTypeOK

\* One tab changes, and the rest keeps its types.
LEMMA TabKeeps ==
    ASSUME SInv, NEW t \in Tabs, NEW x \in Tab, Sound(x), tab' = [tab EXCEPT ![t] = x],
           rank' \in Ranks, cookie' \in Cookies, stored' \in Profiles, out' \in BOOLEAN,
           overlapped' \in BOOLEAN, codes' \in [Codes -> Profiles], Matched'
    PROVE  SInv'
<1>1. tab \in [Tabs -> Tab]
  BY DEF SInv, SessionTypeOK
<1>2. tab' \in [Tabs -> Tab] /\ \A u \in Tabs : tab'[u] = IF u = t THEN x ELSE tab[u]
  BY <1>1
<1>3. \A u \in Tabs : Sound(tab'[u])
  BY <1>2 DEF SInv
<1> QED BY <1>2, <1>3 DEF SInv, SessionTypeOK, Sound, LetIn, HasCode

\* A tab that stays where it is stays let in.
LEMMA StaysSound ==
    ASSUME NEW x, Sound(x), NEW y, y.place = x.place, y.as = x.as, y.code = x.code,
           y.login = x.login \/ y.login # "exchanging"
    PROVE  Sound(y)
BY DEF LetIn, HasCode, Sound

LEMMA InitSInv == SessionInit => SInv
<1> SUFFICES ASSUME SessionInit PROVE SInv
  OBVIOUS
<1>1. /\ rank \in Ranks /\ cookie \in Cookies /\ stored \in Profiles
      /\ out \in BOOLEAN /\ overlapped \in BOOLEAN /\ codes \in [Codes -> Profiles] /\ Matched
  BY DEF SessionInit, Profiles, Cookies, Matched
<1>2. Loaded("index") \in Tab /\ Sound(Loaded("index"))
  BY <1>1, LoadedTyped, RanksTyped
<1>3. tab = [t \in Tabs |-> Loaded("index")]
  BY DEF SessionInit
<1> QED BY <1>1, <1>2, <1>3 DEF SInv, SessionTypeOK

LEMMA VisitKeeps == ASSUME SInv, NEW t \in Tabs, NEW n \in Visited, Visit(t, n) PROVE SInv'
<1> DEFINE x == At(tab[t], Lands(n, tab[t].profile), tab[t].profile)
<1>1. tab' = [tab EXCEPT ![t] = x] /\ UNCHANGED <<rank, cookie, codes, stored, out, overlapped>>
  BY DEF Visit, SInv, SessionTypeOK
<1>2. tab[t] \in Tab /\ tab[t].profile \in Profiles
  BY TabsTyped DEF Tab
<1>3. Lands(n, tab[t].profile) \in Places
  BY <1>2, LandsLetsIn, RanksTyped
<1>4. /\ x \in Tab /\ x.place = Lands(n, tab[t].profile) /\ x.as = tab[t].profile
      /\ x.code = tab[t].code /\ x.login = tab[t].login
  BY <1>2, <1>3, AtTyped
<1> HIDE DEF x
<1>5. LetIn(x)
  BY <1>2, <1>4, LandsLetsIn DEF LetIn
<1>6. HasCode(x)
  BY <1>2, <1>4, TabsTyped, LandsLetsIn, RanksTyped DEF HasCode, Sound
<1> QED BY <1>1, <1>4, <1>5, <1>6, TabKeeps DEF Sound, SInv, SessionTypeOK, Matched

LEMMA ReloadKeeps == ASSUME SInv, NEW t \in Tabs, Reload(t) PROVE SInv'
<1> DEFINE x == IF tab[t].place = "success" THEN LoadedWith(tab[t].code) ELSE Loaded(tab[t].place)
<1>1. /\ tab' = [tab EXCEPT ![t] = x] /\ UNCHANGED <<rank, cookie, codes, stored, out, overlapped>>
      /\ tab[t].place \notin {"steam", "login"}
  BY DEF Reload, SInv, SessionTypeOK
<1>2. /\ tab[t].place \in Places /\ stored \in Profiles
      /\ tab[t].place = "success" => tab[t].code \in Codes
  BY TabsTyped DEF Tab, SInv, SessionTypeOK, Sound, HasCode
<1>3. tab[t].place # "success" => tab[t].place \in Visited
  BY <1>1, <1>2 DEF Places
<1>4. x \in Tab /\ Sound(x)
  BY <1>2, <1>3, LoadedTyped, LoadedWithTyped
<1> HIDE DEF x
<1> QED BY <1>1, <1>4, TabKeeps DEF SInv, SessionTypeOK, Matched

LEMMA GoToSteamKeeps == ASSUME SInv, NEW t \in Tabs, GoToSteam(t) PROVE SInv'
<1> DEFINE x == [Loaded("index") EXCEPT !.place = "steam", !.profile = None, !.as = None, !.trying = FALSE]
<1>1. tab' = [tab EXCEPT ![t] = x] /\ UNCHANGED <<rank, cookie, codes, stored, out, overlapped>>
  BY DEF GoToSteam
<1>2. x \in Tab /\ x.place = "steam" /\ x.login # "exchanging"
  <2> DEFINE y == Loaded("index")
  <2>1. y \in Tab /\ y.login = "none"
    BY LoadedTyped, RanksTyped DEF SInv, SessionTypeOK, Loaded
  <2>2. "steam" \in Places /\ None \in Profiles
    BY RanksTyped DEF Profiles
  <2> HIDE DEF y
  <2> DEFINE y1 == [y EXCEPT !.place = "steam"]
             y2 == [y1 EXCEPT !.profile = None]
             y3 == [y2 EXCEPT !.as = None]
  <2>3. y1 \in Tab /\ y1.place = "steam" /\ y1.login = "none"
    BY <2>1, <2>2 DEF Tab
  <2> HIDE DEF y1
  <2>4. y2 \in Tab /\ y2.place = "steam" /\ y2.login = "none"
    BY <2>2, <2>3 DEF Tab
  <2> HIDE DEF y2
  <2>5. y3 \in Tab /\ y3.place = "steam" /\ y3.login = "none"
    BY <2>2, <2>4 DEF Tab
  <2> HIDE DEF y3
  <2>6. x = [y3 EXCEPT !.trying = FALSE]
    BY DEF y, y1, y2, y3
  <2> HIDE DEF x
  <2> QED BY <2>5, <2>6 DEF Tab
<1> HIDE DEF x
<1>3. Sound(x)
  BY <1>2, IndexSound
<1> QED BY <1>1, <1>2, <1>3, TabKeeps DEF SInv, SessionTypeOK, Matched

LEMMA CallbackKeeps == ASSUME SInv, NEW t \in Tabs, NEW c \in Codes, Callback(t, c) PROVE SInv'
<1>1. /\ tab' = [tab EXCEPT ![t] = LoadedWith(c)] /\ UNCHANGED <<rank, stored>> /\ out' = FALSE
      /\ cookie' = [token |-> [rank |-> rank, print |-> c], print |-> c]
      /\ codes' = [codes EXCEPT ![c] = rank] /\ overlapped' = \E d \in Codes : codes[d] # None
  BY DEF Callback
<1>2. rank \in Ranks /\ rank \in Profiles /\ codes \in [Codes -> Profiles] /\ stored \in Profiles
  BY DEF SInv, SessionTypeOK, Profiles
<1>3. LoadedWith(c) \in Tab /\ Sound(LoadedWith(c))
  BY <1>2, LoadedWithTyped
<1>4. cookie' \in Cookies /\ codes' \in [Codes -> Profiles]
  BY <1>1, <1>2 DEF Cookies, Token
<1>5. Matched'
  <2>1. ~overlapped' => \A d \in Codes : codes'[d] # None => d = c
    BY <1>1, <1>2
  <2> QED BY <1>1, <2>1 DEF Matched
<1> QED BY <1>1, <1>2, <1>3, <1>4, <1>5, TabKeeps

LEMMA ComesBackKeeps == ASSUME SInv, NEW t \in Tabs, NEW n \in Visited, ComesBack(t, n) PROVE SInv'
<1>1. tab' = [tab EXCEPT ![t] = Loaded(n)] /\ UNCHANGED <<rank, cookie, codes, stored, out, overlapped>>
  BY DEF ComesBack
<1>2. Loaded(n) \in Tab /\ Sound(Loaded(n))
  BY LoadedTyped DEF SInv, SessionTypeOK
<1> QED BY <1>1, <1>2, TabKeeps DEF SInv, SessionTypeOK, Matched

LEMMA ExchangeKeeps == ASSUME SInv, NEW t \in Tabs, Exchange(t) PROVE SInv'
<1> DEFINE c == tab[t].code
           x == [tab[t] EXCEPT !.login = "asking"]
<1>1. /\ tab' = [tab EXCEPT ![t] = x] /\ UNCHANGED <<rank, stored, out, overlapped>>
      /\ cookie' = [cookie EXCEPT !.token = [rank |-> codes[c], print |-> c]]
      /\ codes' = [codes EXCEPT ![c] = None] /\ codes[c] # None
  BY DEF Exchange
<1>2. x \in Tab /\ Sound(x)
  <2>1. /\ x \in Tab /\ x.place = tab[t].place /\ x.as = tab[t].as
        /\ x.code = tab[t].code /\ x.login = "asking"
    BY TabsTyped DEF Tab
  <2> QED BY <2>1, TabsTyped, StaysSound
<1>3. c \in Codes
  BY TabsTyped DEF Exchange, Sound, HasCode
<1> HIDE DEF x, c
<1>4. /\ codes' \in [Codes -> Profiles] /\ codes[c] \in Ranks
      /\ cookie \in Cookies /\ codes \in [Codes -> Profiles]
  BY <1>1, <1>3 DEF SInv, SessionTypeOK, Profiles
<1>5. cookie' \in Cookies /\ cookie'.token.print = c /\ cookie'.print = cookie.print
  BY <1>1, <1>3, <1>4 DEF Cookies, Token
<1>6. Matched'
  BY <1>1, <1>3, <1>4, <1>5 DEF SInv, Matched
<1> QED BY <1>1, <1>2, <1>4, <1>5, <1>6, TabKeeps DEF SInv, SessionTypeOK

LEMMA LoginSucceedsKeeps == ASSUME SInv, NEW t \in Tabs, NEW n \in Visited, LoginSucceeds(t, n) PROVE SInv'
<1>1. PICK seen \in {rank, tab[t].profile} :
         tab' = [tab EXCEPT ![t] = [At([Told(tab[t], rank) EXCEPT !.login = "none"], Lands(n, seen), seen)
                                       EXCEPT !.trying = tab[t].trying]]
  BY DEF LoginSucceeds, SInv, SessionTypeOK
<1>2. /\ UNCHANGED <<rank, cookie, codes, out, overlapped>> /\ stored' = rank
      /\ rank \in Ranks /\ rank \in Profiles /\ seen \in Profiles
  BY <1>1, TabsTyped DEF LoginSucceeds, SInv, SessionTypeOK, Profiles, Tab
<1> DEFINE w == Told(tab[t], rank)
           y == [w EXCEPT !.login = "none"]
           z == At(y, Lands(n, seen), seen)
           x == [z EXCEPT !.trying = tab[t].trying]
<1>3. w \in Tab
  BY <1>2, TabsTyped, ToldTyped
<1>4. tab' = [tab EXCEPT ![t] = x]
  BY <1>1
<1> HIDE DEF w
<1>5. y \in Tab /\ y.login = "none"
  BY <1>3 DEF Tab
<1> HIDE DEF y
<1>6. Lands(n, seen) \in Places
  BY <1>2, LandsLetsIn, RanksTyped
<1>7. z \in Tab /\ z.place = Lands(n, seen) /\ z.as = seen /\ z.login = "none"
  BY <1>2, <1>5, <1>6, AtTyped
<1> HIDE DEF z
<1>8. x \in Tab /\ x.place = z.place /\ x.as = z.as /\ x.login = z.login
  BY <1>7, TabsTyped DEF Tab
<1> HIDE DEF x
<1>9. LetIn(x) /\ HasCode(x)
  BY <1>2, <1>7, <1>8, LandsLetsIn, RanksTyped DEF LetIn, HasCode
<1> QED BY <1>2, <1>4, <1>8, <1>9, TabKeeps DEF SInv, SessionTypeOK, Matched, Sound

LEMMA LoginFailsKeeps == ASSUME SInv, NEW t \in Tabs, LoginFails(t) PROVE SInv'
<1> DEFINE y == [tab[t] EXCEPT !.login = "none"]
           x == IF y.cancelled THEN y ELSE At(y, "index", y.profile)
<1>1. tab' = [tab EXCEPT ![t] = x] /\ UNCHANGED <<rank, cookie, codes, stored, out, overlapped>>
  BY DEF LoginFails, SInv, SessionTypeOK
<1>2. /\ y \in Tab /\ y.place = tab[t].place /\ y.as = tab[t].as /\ y.code = tab[t].code
      /\ y.login = "none" /\ y.profile \in Profiles
  BY TabsTyped DEF Tab
<1> HIDE DEF y
<1>3. x \in Tab /\ Sound(x)
  <2>1. CASE y.cancelled
    BY <1>2, <2>1, TabsTyped, StaysSound
  <2>2. CASE ~y.cancelled
    <3>1. At(y, "index", y.profile) \in Tab /\ At(y, "index", y.profile).place = "index"
          /\ At(y, "index", y.profile).login = "none"
      BY <1>2, AtTyped, RanksTyped
    <3> QED BY <2>2, <3>1, IndexSound
  <2> QED BY <2>1, <2>2
<1> HIDE DEF x
<1> QED BY <1>1, <1>3, TabKeeps DEF SInv, SessionTypeOK, Matched

LEMMA BackKeeps == ASSUME SInv, NEW t \in Tabs, Back(t) PROVE SInv'
<1> DEFINE x == At(tab[t], "success", tab[t].profile)
<1>1. /\ tab' = [tab EXCEPT ![t] = x] /\ UNCHANGED <<rank, cookie, codes, stored, out, overlapped>>
      /\ tab[t].code # None
  BY DEF Back, SInv, SessionTypeOK
<1>2. tab[t] \in Tab /\ tab[t].profile \in Profiles /\ tab[t].code \in Codes
  BY <1>1, TabsTyped DEF Tab
<1>3. x \in Tab /\ x.place = "success" /\ x.code \in Codes
  <2>1. "success" \in Places
    BY RanksTyped
  <2>2. x \in Tab /\ x.place = "success" /\ x.code = tab[t].code
    BY <1>2, <2>1, AtTyped
  <2> QED BY <1>2, <2>2
<1> HIDE DEF x
<1>4. Sound(x)
  BY <1>3, RanksTyped DEF Sound, LetIn, HasCode
<1> QED BY <1>1, <1>3, <1>4, TabKeeps DEF SInv, SessionTypeOK, Matched

\* The answer to a logout, or to a try to be recognised, only tells the tab its profile.
LEMMA ToldKeeps == ASSUME SInv, NEW t \in Tabs, TryAnswers(t) \/ LogoutAnswers(t) PROVE SInv'
<1>1. CASE TryAnswers(t) /\ ~Served(NewPersonService.currentProfile)
  <2> DEFINE x == [tab[t] EXCEPT !.trying = FALSE]
  <2>1. tab' = [tab EXCEPT ![t] = x] /\ UNCHANGED <<rank, cookie, codes, stored, out, overlapped>>
    BY <1>1 DEF TryAnswers
  <2>2. /\ x \in Tab /\ x.place = tab[t].place /\ x.as = tab[t].as /\ x.code = tab[t].code
        /\ x.login = tab[t].login
    BY TabsTyped DEF Tab
  <2> HIDE DEF x
  <2>3. Sound(x)
    BY <2>2, TabsTyped, StaysSound
  <2> QED BY <2>1, <2>2, <2>3, TabKeeps DEF SInv, SessionTypeOK, Matched
<1>2. CASE TryAnswers(t) /\ Served(NewPersonService.currentProfile)
  <2> DEFINE w == Told(tab[t], rank)
             x == [w EXCEPT !.trying = FALSE]
  <2>1. /\ tab' = [tab EXCEPT ![t] = x] /\ UNCHANGED <<rank, cookie, codes, out, overlapped>> /\ stored' = rank
        /\ rank \in Profiles
    BY <1>2 DEF TryAnswers, SInv, SessionTypeOK, Profiles
  <2>2. /\ w \in Tab /\ w.place = tab[t].place /\ w.as = tab[t].as /\ w.code = tab[t].code
        /\ w.login = tab[t].login
    BY <2>1, TabsTyped, ToldTyped
  <2> HIDE DEF w
  <2>3. x \in Tab /\ x.place = w.place /\ x.as = w.as /\ x.code = w.code /\ x.login = w.login
    BY <2>2 DEF Tab
  <2> HIDE DEF x
  <2>4. Sound(x)
    BY <2>2, <2>3, TabsTyped, StaysSound
  <2> QED BY <2>1, <2>3, <2>4, TabKeeps DEF SInv, SessionTypeOK, Matched
<1>3. CASE LogoutAnswers(t)
  <2> DEFINE w == Told(tab[t], None)
             x == [w EXCEPT !.leaving = FALSE]
  <2>1. tab' = [tab EXCEPT ![t] = x] /\ UNCHANGED <<rank, cookie, codes, stored, overlapped>> /\ out' = TRUE
    BY <1>3 DEF LogoutAnswers, SInv, SessionTypeOK
  <2>2. /\ w \in Tab /\ w.place = tab[t].place /\ w.as = tab[t].as /\ w.code = tab[t].code
        /\ w.login = tab[t].login
    BY TabsTyped, ToldTyped DEF Profiles
  <2> HIDE DEF w
  <2>3. x \in Tab /\ x.place = w.place /\ x.as = w.as /\ x.code = w.code /\ x.login = w.login
    BY <2>2 DEF Tab
  <2> HIDE DEF x
  <2>4. Sound(x)
    BY <2>2, <2>3, TabsTyped, StaysSound
  <2> QED BY <2>1, <2>3, <2>4, TabKeeps DEF SInv, SessionTypeOK, Matched
<1> QED BY <1>1, <1>2, <1>3

LEMMA FailureKeeps == ASSUME SInv, NEW t \in Tabs, TryFails(t) \/ LogoutFails(t) PROVE SInv'
<1>1. /\ UNCHANGED <<rank, cookie, codes, stored, out, overlapped>>
      /\ \/ tab' = [tab EXCEPT ![t] = [tab[t] EXCEPT !.trying = FALSE]]
         \/ tab' = [tab EXCEPT ![t] = [tab[t] EXCEPT !.leaving = FALSE]]
  BY DEF TryFails, LogoutFails
<1>2. PICK x \in {[tab[t] EXCEPT !.trying = FALSE], [tab[t] EXCEPT !.leaving = FALSE]} :
         tab' = [tab EXCEPT ![t] = x]
  BY <1>1
<1>3. /\ x \in Tab /\ x.place = tab[t].place /\ x.as = tab[t].as /\ x.code = tab[t].code
      /\ x.login = tab[t].login
  BY TabsTyped DEF Tab
<1>4. Sound(x)
  BY <1>3, TabsTyped, StaysSound
<1> QED BY <1>1, <1>2, <1>3, <1>4, TabKeeps DEF SInv, SessionTypeOK, Matched

LEMMA LogoutKeeps == ASSUME SInv, NEW t \in Tabs, Logout(t) PROVE SInv'
<1> DEFINE y == At(tab[t], "index", tab[t].profile)
           x == [y EXCEPT !.leaving = TRUE]
<1>1. tab' = [tab EXCEPT ![t] = x] /\ UNCHANGED <<rank, cookie, codes, stored, out, overlapped>>
  BY DEF Logout, SInv, SessionTypeOK
<1>2. /\ y \in Tab /\ y.place = "index" /\ y.code = tab[t].code /\ y.login = tab[t].login
  BY TabsTyped, AtTyped, RanksTyped DEF Tab
<1> HIDE DEF y
<1>3. x \in Tab /\ x.place = "index" /\ x.code = tab[t].code /\ x.login = tab[t].login
  BY <1>2 DEF Tab
<1> HIDE DEF x
<1>4. Sound(x)
  BY <1>3, TabsTyped, IndexSound DEF Sound, HasCode
<1> QED BY <1>1, <1>3, <1>4, TabKeeps DEF SInv, SessionTypeOK, Matched

\* Cookies and codes expire, and the person's rank changes: the tabs stay as they are.
LEMMA ExpiryKeeps ==
    ASSUME SInv, RankChanges \/ TokenExpires \/ PrintExpires \/ \E c \in Codes : CodeExpires(c)
    PROVE  SInv'
<1>1. UNCHANGED <<tab, stored, out, overlapped>>
  BY DEF RankChanges, TokenExpires, PrintExpires, CodeExpires
<1>2. rank' \in Ranks /\ codes' \in [Codes -> Profiles]
  BY DEF RankChanges, TokenExpires, PrintExpires, CodeExpires, SInv, SessionTypeOK, Profiles
<1>3. cookie' \in Cookies /\ Matched'
  <2>1. cookie \in Cookies /\ codes \in [Codes -> Profiles] /\ Matched
    BY DEF SInv, SessionTypeOK
  <2>2. CASE RankChanges
    BY <2>1, <2>2 DEF RankChanges, Matched
  <2>3. CASE TokenExpires
    BY <2>1, <2>3 DEF TokenExpires, Matched, Cookies
  <2>4. CASE PrintExpires
    BY <2>1, <2>4 DEF PrintExpires, Matched, Cookies
  <2>5. CASE \E c \in Codes : CodeExpires(c)
    BY <2>1, <2>5 DEF CodeExpires, Matched
  <2> QED BY <2>2, <2>3, <2>4, <2>5
<1> QED BY <1>1, <1>2, <1>3 DEF SInv, SessionTypeOK, Sound, LetIn, HasCode

LEMMA StepSInv == SInv /\ [SessionNext]_sessionVars => SInv'
<1> SUFFICES ASSUME SInv, [SessionNext]_sessionVars PROVE SInv'
  OBVIOUS
<1>1. CASE UNCHANGED sessionVars
  BY <1>1 DEF sessionVars, SInv, SessionTypeOK, Matched, Sound, LetIn, HasCode
<1>2. CASE RankChanges \/ TokenExpires \/ PrintExpires \/ \E c \in Codes : CodeExpires(c)
  BY <1>2, ExpiryKeeps
<1>3. CASE \E t \in Tabs : \/ Reload(t) \/ GoToSteam(t) \/ Exchange(t) \/ LoginFails(t) \/ Back(t)
                           \/ TryAnswers(t) \/ TryFails(t) \/ Logout(t) \/ LogoutAnswers(t) \/ LogoutFails(t)
  BY <1>3, ReloadKeeps, GoToSteamKeeps, ExchangeKeeps, LoginFailsKeeps, BackKeeps, ToldKeeps, FailureKeeps,
     LogoutKeeps
<1>4. CASE \E t \in Tabs : \/ \E c \in Codes : Callback(t, c)
                           \/ \E n \in Visited : Visit(t, n) \/ ComesBack(t, n) \/ LoginSucceeds(t, n)
  BY <1>4, CallbackKeeps, VisitKeeps, ComesBackKeeps, LoginSucceedsKeeps
<1> QED BY <1>1, <1>2, <1>3, <1>4 DEF SessionNext

LEMMA SInvariance == SessionSpec => []SInv
BY InitSInv, StepSInv, PTL DEF SessionSpec

-----------------------------------------------------------------------------
(* The theorems.                                                           *)

\* The types of the person's rank, the cookies, the stored profile, the codes and the tabs.
THEOREM SessionTyped == SessionSpec => []SessionTypeOK
<1>1. SInv => SessionTypeOK
  BY DEF SInv
<1> QED BY <1>1, SInvariance, PTL

\* Whoever a layout let onto a page is refused what the page asks for only with cookies out
\* of step with their profile, by expiry, by logins that overlapped or by a change of rank:
\* layouts and procedures agree, except on the pages named.
THEOREM RefusedOutOfStep == SessionSpec => []RefusedOnlyOutOfStep
<1>1. SInv => RefusedOnlyOutOfStep
  <2> SUFFICES ASSUME SInv, NEW t \in Tabs,
                      tab[t].place \in Visited \ Misplaced, Refused(tab[t].place)
               PROVE  /\ tab[t].as # None
                      /\ \/ cookie.token = None \/ cookie.print = None \/ overlapped
                         \/ cookie.token.rank < tab[t].as \/ tab[t].as < User
    BY DEF RefusedOnlyOutOfStep
  <2> DEFINE n == tab[t].place
             asks == Site[n].page.asks
  <2>1. n \in DOMAIN Site \ Misplaced /\ ~Served(asks) /\ asks # Anyone
    BY SessionAssumption DEF Refused, Served
  <2>2. Site[n].layout # "guest" /\ asks \in Nat /\ (asks <= User \/ asks <= Site[n].needs)
    BY <2>1, PagesAsk
  <2>3. tab[t].as \in Ranks /\ tab[t].as # None /\ tab[t].as >= Site[n].needs
    BY <2>2, TabsTyped DEF Sound, LetIn
  <2>4. Site[n].needs \in {0, 50, 100} /\ User = 10 /\ tab[t].as \in Nat
    BY <2>2, <2>3, VisitedNeeds, LevelValues, RanksTyped
  <2> HIDE DEF n, asks
  <2>5. SUFFICES ASSUME cookie.token # None, cookie.print # None, ~overlapped, tab[t].as >= User
                 PROVE  cookie.token.rank < tab[t].as
    BY <2>3, <2>4
  <2>6. Claims
    BY <2>5 DEF SInv, Matched, Claims
  <2>7. cookie.token.rank \in Nat
    BY <2>5, RanksTyped DEF SInv, SessionTypeOK, Cookies, Token
  <2>8. ~(cookie.token.rank >= asks)
    BY <2>1, <2>6 DEF Served
  <2> QED BY <2>2, <2>3, <2>4, <2>5, <2>7, <2>8
<1> QED BY <1>1, SInvariance, PTL

\* A link of the bar, the first page, the network tools or the footer leads to its page or to
\* the login, for whoever is shown it, and a user's token as good as the profile is served
\* there: menus, layouts and procedures agree, except on the links named.
THEOREM LinksLead == SessionSpec => []LinksLeadIn
<1>1. SInv => LinksLeadIn
  <2> SUFFICES ASSUME SInv, NEW t \in Tabs, NEW p, p = tab[t].profile,
                      NEW l \in Links(p # None, IF p = None THEN Guest ELSE p), l.to \notin Misleading
               PROVE  /\ Site[l.to].page.feature \in {"none", l.feature}
                      /\ Lands(l.to, p) \in {l.to, "login"}
                      /\ Served(User) /\ (p = None \/ cookie.token.rank >= p) => ~Refused(l.to)
    BY DEF LinksLeadIn
  <2>1. p \in Profiles /\ (p # None => p \in Ranks /\ p \in Nat)
    BY TabsTyped, RanksTyped DEF Tab, Profiles
  <2>2. Served(User) => Claims /\ cookie.token.rank \in Nat /\ cookie.token.rank >= User
    <3>1. Served(User) => Claims /\ cookie.token.rank >= User
      BY LevelValues DEF Served
    <3>2. Claims => cookie.token \in Token
      BY DEF SInv, SessionTypeOK, Cookies, Claims
    <3> QED BY <3>1, <3>2, RanksTyped DEF Token
  <2>3. \/ Serves(l.to, l.feature, Anyone, User)
        \/ Serves(l.to, l.feature, Moderator, Moderator) /\ p # None /\ p >= Moderator
    <3> DEFINE r == IF p = None THEN Guest ELSE p
    <3>1. CASE p # None /\ r >= Moderator
      <4>1. \/ l \in MenuItems \cup Dashboard(FALSE) \cup Footer \cup UserItems \cup Always({"notifications"})
            \/ l \in AdminItems \cup NetworkTools \cup (Dashboard(TRUE) \ Dashboard(FALSE))
        BY <3>1 DEF Links
      <4> QED BY <3>1, <4>1, EverybodysLinks, ModeratorsLinks
    <3>2. CASE ~(p # None /\ r >= Moderator)
      <4>1. l \in MenuItems \cup Dashboard(FALSE) \cup Footer \cup UserItems \cup Always({"notifications"})
        BY <3>2 DEF Links
      <4> QED BY <4>1, EverybodysLinks
    <3> QED BY <3>1, <3>2
  <2>4. CASE Serves(l.to, l.feature, Anyone, User)
    <3>1. Lands(l.to, p) \in {l.to, "login"}
      BY <2>1, <2>4, LevelValues DEF Lands, Serves
    <3>2. Served(User) => ~Refused(l.to)
      BY <2>2, <2>4, LevelValues DEF Refused, Served, Serves
    <3> QED BY <2>4, <3>1, <3>2 DEF Serves
  <2>5. CASE Serves(l.to, l.feature, Moderator, Moderator) /\ p # None /\ p >= Moderator
    <3>1. Lands(l.to, p) \in {l.to, "login"}
      BY <2>1, <2>5, LevelValues DEF Lands, Serves
    <3>2. Served(User) /\ cookie.token.rank >= p => ~Refused(l.to)
      BY <2>1, <2>2, <2>5, LevelValues DEF Refused, Served, Serves
    <3> QED BY <2>5, <3>1, <3>2 DEF Serves
  <2> QED BY <2>3, <2>4, <2>5
<1> QED BY <1>1, SInvariance, PTL
=============================================================================
