------------------------------- MODULE Routes -------------------------------
(***************************************************************************)
(* The pages of the website: under which layout each one stands, which     *)
(* feature of the site it belongs to, and the most that the queries it     *)
(* makes when it is shown ask of the token.  The links to them that are    *)
(* shown beside the pages' own data: the bar, the first page, the list of  *)
(* network tools and the footer.                                           *)
(***************************************************************************)
EXTENDS Services, FiniteSetsExt

Behind(feature, asks) == [feature |-> feature, asks |-> Max(asks \cup {Anyone})]
Free(asks)            == Behind("none", asks)

GuestRoutes ==
    [index         |-> Free({NewNewsService.latest}),
     changelog     |-> Free({NewConfigService.changelog}),
     privacyPolicy |-> Free({}),
     patreon       |-> Behind("patreon", {NewPatreonService.patronCampaigns}),
     servers       |-> Behind("servers", {NewServersService.state}),
     mge           |-> Behind("mge", {NewMGEService.getRatingsOverall}),
     mge1v1        |-> Behind("mge", {NewMGEService.getHistory}),
     mge2v2        |-> Behind("mge", {NewMGEService.getHistory}),
     wiki          |-> Behind("wiki", {NewWikiService.get}),
     wikiSlug      |-> Behind("wiki", {NewWikiService.get}),
     profile       |-> Free({NewPersonService.profile})]

AuthRoutes ==
    [chatlogs      |-> Behind("chatlogs", {NewServersService.servers, NewChatService.query}),
     notifications |-> Free({NewNotificationService.notifications}),
     pageNotFound  |-> Free({}),
     permission    |-> Free({}),
     settings      |-> Free({NewPersonService.profileSettings, NewDiscordOAuthService.profile}),
     stats         |-> Behind("chatlogs", {NewStatsService.weaponList, NewStatsService.buckets,
                                           NewStatsService.queryStats}),
     stv           |-> Behind("demos", {NewServersService.servers, NewDemoService.getDemos}),
     ban           |-> Free({NewBanService.get, NewAppealService.messages, NewPersonService.profile})]

AuthForumsRoutes ==
    [forums      |-> Behind("forums", {NewForumService.overview, NewForumService.recentMessages,
                                       NewForumService.activeUsers}),
     forum       |-> Behind("forums", {NewForumService.forum, NewForumService.threads}),
     forumThread |-> Behind("forums", {NewForumService.thread, NewForumService.threadMessages})]

AuthReportRoutes ==
    [reportCreate |-> Behind("reports", {NewReportService.userReports}),
     report       |-> Behind("reports", {NewReportService.report, NewReportService.reportMessages,
                                         NewDemoService.getDemo, NewBanService.getBanByReportID,
                                         NewPersonService.profile})]

\* These send whoever is no moderator to the first page.
AuthMatchesRoutes ==
    [matches       |-> Behind("stats", {NewStatsService.mapList, NewStatsService.buckets,
                                        NewServersService.servers, NewStatsService.queryMatches}),
     playerMatches |-> Behind("stats", {NewServersService.servers, NewStatsService.matchesWithPlayer}),
     match         |-> Behind("stats", {NewStatsService.match})]

ModRoutes ==
    [anticheat   |-> Free({NewServersService.servers, NewAnticheatService.query}),
     appeals     |-> Free({NewAppealService.appeals}),
     bans        |-> Free({NewBanService.query}),
     contests    |-> Free({NewContestService.contests}),
     filters     |-> Free({NewWordfilterService.filters, NewWordfilterService.warningState}),
     cidrblocks  |-> Free({NewBlocklistService.whitelistAddress, NewBlocklistService.blocklistSources,
                           NewBlocklistService.whitelistSteam}),
     ipInfo      |-> Free({NewNetworkService.queryNetwork}),
     playersbyip |-> Free({NewServersService.servers, NewNetworkService.queryConnections}),
     network     |-> Free({}),
     news        |-> Free({NewNewsService.all}),
     people      |-> Free({NewPersonService.query}),
     reports     |-> Free({NewReportService.reports}),
     votes       |-> Free({NewServersService.servers, NewVotesService.query})]

AdminRoutes ==
    [gameAdmins    |-> Free({NewSourcemodService.groups, NewSourcemodService.admins, NewPluginService.sMGroups,
                             NewSourcemodService.groupImmunities, NewSourcemodService.overrides}),
     serverlogs    |-> Free({NewServersService.servers, NewServersService.queryLogs}),
     serversAdmin  |-> Free({NewStatsService.buckets, NewServersService.serversAdmin}),
     adminSettings |-> Free({NewConfigService.get})]

\* The profile a layout asks for, and where it sends one that has too little.
Under(routes, layout, needs, instead) ==
    [n \in DOMAIN routes |-> [page |-> routes[n], layout |-> layout, needs |-> needs, instead |-> instead]]
Site == Under(GuestRoutes, "guest", Anyone, "none")
        ++ Under(AuthRoutes ++ AuthForumsRoutes ++ AuthReportRoutes, "auth", Anyone, "none")
        ++ Under(AuthMatchesRoutes, "auth", Moderator, "index")
        ++ Under(ModRoutes, "mod", Moderator, "permission")
        ++ Under(AdminRoutes, "admin", Admin, "permission")

-----------------------------------------------------------------------------
Link(to, feature) == [to |-> to, feature |-> feature]
Always(names)     == {Link(n, "none") : n \in names}

\* The bar's own links: reports for those not banned, the appeal for the banned.
MenuItems == Always({"index"}) \cup {Link("servers", "servers"), Link("forums", "forums"), Link("wiki", "wiki"),
                                     Link("reportCreate", "reports"), Link("ban", "reports")}
UserItems == Always({"profile", "settings"}) \cup {Link("playerMatches", "stats")}
AdminItems == Always({"filters", "bans", "reports", "appeals", "news", "playersbyip", "ipInfo", "cidrblocks",
                      "contests", "people", "votes", "anticheat", "serversAdmin", "serverlogs",
                      "gameAdmins", "adminSettings"})

\* The buttons of the first page.
Dashboard(mod) == {Link("servers", "servers"), Link("ban", "reports"), Link("wikiSlug", "wiki"),
                   Link("patreon", "patreon"), Link("contestsOfUsers", "contests"), Link("mge", "mge"),
                   Link("chatlogs", "chatlogs"), Link("stv", "demos")}
                  \cup (IF mod THEN {Link("matches", "stats")} ELSE {})
\* The list of network tools names its pages differently from the routes.
NetworkTools == Always({"players_by_ip", "ip_info", "cidr_blocks"})

\* Under every page.
Footer == Always({"changelog", "privacyPolicy"})

\* Mutant of Links: the administration is shown to everybody.
LinksForAll(signedIn, rank) ==
    MenuItems \cup Dashboard(signedIn /\ rank >= Moderator) \cup Footer \cup AdminItems

Links(signedIn, rank) ==
    MenuItems \cup Dashboard(signedIn /\ rank >= Moderator) \cup Footer
    \cup (IF signedIn THEN UserItems ELSE {})
    \cup (IF signedIn /\ rank >= User THEN Always({"notifications"}) ELSE {})
    \cup (IF signedIn /\ rank >= Moderator THEN AdminItems \cup NetworkTools ELSE {})

\* Pages that ask more of the token than their layout asks of the profile.
Misplaced == {"changelog", "servers", "wiki", "wikiSlug", "mge", "mge1v1", "mge2v2", "profile", "patreon",
              "report", "gameAdmins"}
\* Links that lead nowhere, to a page whose query nobody may make, or that send some of
\* those who see them away: the match history of a user, and the administration shown to
\* moderators.
Misleading == {"changelog", "contestsOfUsers", "players_by_ip", "ip_info", "cidr_blocks", "playerMatches",
               "serversAdmin", "serverlogs", "gameAdmins", "adminSettings", "patreon"}
=============================================================================
