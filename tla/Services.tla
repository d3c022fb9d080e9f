------------------------------ MODULE Services ------------------------------
(***************************************************************************)
(* The procedures of the server and who may call them.  A service is the   *)
(* set of its procedures, named as in the client; its constructor, named   *)
(* as in the server where the name tells the services apart, gives each    *)
(* the least privilege it was registered with.  A procedure registered     *)
(* with none is anyone's; any other needs a token, whatever the privilege. *)
(***************************************************************************)
EXTENDS Naturals

\* f, and g where f is not defined: TLC's operator, with a definition that provers can read.
f ++ g == [x \in DOMAIN f \cup DOMAIN g |-> IF x \in DOMAIN f THEN f[x] ELSE g[x]]

Privilege == [Guest |-> 1, User |-> 10, Reserved |-> 15, Editor |-> 25, Moderator |-> 50, Admin |-> 100]
Guest     == Privilege.Guest
User      == Privilege.User
Moderator == Privilege.Moderator
Admin     == Privilege.Admin

Anyone     == 0
NoPerson == Admin + 1   \* more than any person's token gives

UserRoute(least, procedures) == [p \in procedures |-> least]
ServerRoute(procedures)      == [p \in procedures |-> NoPerson]   \* a game server's token
NoRoute(procedures)          == [p \in procedures |-> NoPerson]   \* mounted, and not implemented
Registered(service, routes)  == routes ++ [p \in service |-> Anyone]

-----------------------------------------------------------------------------
AnticheatService == {"query"}
NewAnticheatService == Registered(AnticheatService, UserRoute(Moderator, {"query"}))

AssetService == {"create", "delete"}
NewAssetService == Registered(AssetService, UserRoute(User, {"create", "delete"}))

AuthService == {"logout"}
NewAuthService == Registered(AuthService, UserRoute(User, {"logout"}))

AppealService == {"appeals", "messages", "reply", "editAppealMessage", "deleteAppealMessage", "setAppealState"}
NewAppealService == Registered(AppealService,
    UserRoute(Moderator, {"appeals", "setAppealState"})
    ++ UserRoute(User, {"messages", "reply", "editAppealMessage", "deleteAppealMessage"}))

BanService == {"query", "delete", "get", "getBanByReportID", "querySourceBans", "update", "create"}
NewBanService == Registered(BanService,
    UserRoute(Moderator, {"query", "delete", "querySourceBans", "update", "create"}) ++ UserRoute(User, {"get"}))

ReportService == {"reportCreate", "report", "reportStatusEdit", "userReports", "reportMessages",
                  "reportMessageCreate", "reportMessageEdit", "reportMessageDelete", "reports"}
NewReportService == Registered(ReportService,
    UserRoute(Moderator, {"report", "reportStatusEdit", "reports"})
    ++ UserRoute(User, {"reportCreate", "userReports", "reportMessages", "reportMessageCreate",
                        "reportMessageEdit", "reportMessageDelete"}))

BlocklistService == {"blocklistSources", "blocklistSourcesCreate", "blocklistSourcesEdit", "blocklistSourcesDelete",
                     "whitelistAddress", "whitelistAddressCreate", "whitelistAddressDelete", "whitelistAddressEdit",
                     "whitelistSteam", "whitelistSteamDelete", "whitelistSteamCreate", "checkBlock"}
NewBlocklistService == Registered(BlocklistService, UserRoute(Moderator, BlocklistService))

ChatService == {"query", "queryContext"}
NewChatService == Registered(ChatService, UserRoute(User, ChatService))

WordfilterService == {"filters", "warningState", "filterCreate", "filterEdit", "filterDelete", "filterMatch"}
NewWordfilterService == Registered(WordfilterService, UserRoute(Moderator, WordfilterService))

ConfigService == {"info", "get", "update", "changelog"}
NewConfigService == Registered(ConfigService, UserRoute(Moderator, {"get", "update"}) ++ NoRoute({"changelog"}))

ContestService == {"contests", "contest", "entries", "upload", "vote", "entryCreate", "entryDelete",
                   "contestCreate", "contestDelete", "contestEdit"}
NewContestService == Registered(ContestService,
    UserRoute(Moderator, {"contests", "contestCreate", "contestDelete", "contestEdit"})
    ++ UserRoute(User, {"contest", "entries", "upload", "vote", "entryCreate", "entryDelete"}))

DemoService == {"getDemo", "getDemos", "runCleanup"}
NewDemoService == Registered(DemoService, UserRoute(User, {"getDemos"}) ++ UserRoute(Admin, {"runCleanup"}))

DiscordOAuthService == {"login", "logout", "profile"}
NewDiscordOAuthService == Registered(DiscordOAuthService, UserRoute(User, DiscordOAuthService))

DiscordService == {"seedRoleIDs"}
NewDiscordService == Registered(DiscordService, UserRoute(Moderator, DiscordService))

ForumService == {"activeUsers", "overview", "recentMessages", "thread", "threads", "threadDelete",
                 "threadMessages", "threadCreate", "threadEdit", "threadReplyCreate", "threadReplyEdit",
                 "threadMessageDelete", "categoryCreate", "categoryEdit", "category", "forum",
                 "forumCreate", "forumEdit"}
NewForumService == Registered(ForumService,
    UserRoute(Guest, {"activeUsers", "overview", "recentMessages", "threads"})
    ++ UserRoute(User, {"thread", "threadDelete", "forum", "threadMessages", "threadCreate", "threadEdit",
                        "threadReplyCreate", "threadReplyEdit", "threadMessageDelete"})
    ++ UserRoute(Moderator, {"categoryCreate", "categoryEdit", "category", "forumCreate", "forumEdit"}))

MGEService == {"getRatingsOverall", "getHistory"}
NewMGEService == Registered(MGEService, UserRoute(Guest, MGEService))

NetworkService == {"queryConnections", "queryNetwork", "updateDB"}
NewNetworkService == Registered(NetworkService,
    UserRoute(Moderator, {"queryConnections", "queryNetwork"}) ++ UserRoute(Admin, {"updateDB"}))

NewsService == {"latest", "edit", "create", "delete", "all"}
NewNewsService == Registered(NewsService, UserRoute(Moderator, {"edit", "create", "delete", "all"}))

NotificationService == {"notifications", "markRead", "markReadAll", "deleteAll", "delete"}
NewNotificationService == Registered(NotificationService, UserRoute(User, NotificationService))

\* No handler is mounted for it.
PatreonService == {"patronCampaigns", "patronLogout", "patronLogin"}
NewPatreonService == [p \in PatreonService |-> NoPerson]

PersonService == {"profile", "resolveSteamID", "currentProfile", "profileSettings", "editProfileSettings",
                  "query", "editPermissions"}
NewPersonService == Registered(PersonService,
    UserRoute(User, {"profile", "resolveSteamID", "currentProfile", "profileSettings", "editProfileSettings"})
    ++ UserRoute(Moderator, {"query"}) ++ UserRoute(Admin, {"editPermissions"}))

ServersService == {"state", "servers", "editServer", "deleteServer", "serversAdmin", "queryLogs"}
NewServersService == Registered(ServersService,
    UserRoute(Guest, {"state"}) ++ UserRoute(Admin, {"editServer", "deleteServer", "serversAdmin", "queryLogs"}))

PluginService == {"sMAuthenticate", "sMCheck", "sMOverrides", "sMUsers", "sMGroups", "sMSeed", "sMPingMod"}
NewPluginService == Registered(PluginService,
    ServerRoute({"sMCheck", "sMOverrides", "sMUsers", "sMGroups", "sMSeed"}))

SourcemodService == {"groups", "createGroup", "editGroups", "deleteGroup", "groupOverrides",
                     "createGroupOverride", "editGroupOverride", "deleteGroupOverride", "admins",
                     "createAdmin", "editAdmin", "deleteAdmin", "addAdminGroup", "deleteAdminGroup",
                     "overrides", "createOverrides", "editOverrides", "deleteOverrides",
                     "groupImmunities", "createImmunity", "deleteImmunity"}
NewSourcemodService == Registered(SourcemodService, UserRoute(Admin, SourcemodService \ {"deleteImmunity"}))

SpeedrunsService == {"mapSpeedruns", "overallTopN", "overallRecent", "speedrunCreate", "query"}
NewSpeedrunsService == Registered(SpeedrunsService,
    UserRoute(User, SpeedrunsService \ {"speedrunCreate"}) ++ UserRoute(Moderator, {"speedrunCreate"}))

StatsService == {"match", "queryMatches", "matchesWithPlayer", "queryStats", "weaponList", "mapList", "buckets"}
NewStatsService == Registered(StatsService, UserRoute(User, {"match", "buckets", "queryStats"}))

VotesService == {"query"}
NewVotesService == Registered(VotesService, UserRoute(Moderator, VotesService))

WikiService == {"get", "update"}
NewWikiService == Registered(WikiService, UserRoute(Guest, {"get"}) ++ UserRoute(Moderator, {"update"}))
=============================================================================
