----------------------------- MODULE Catalogue ------------------------------
(***************************************************************************)
(* The components of the website that show rows of the server or change    *)
(* them, each described in the words of Screens and named as in the        *)
(* source.  A modal is the set of its commands; a page adds to them what   *)
(* it does with the cache once one of them has succeeded.                  *)
(*                                                                         *)
(* Most tables write the new rows under keys of an earlier version of the  *)
(* site (["serverGroups"], ["newsList"] and so on), which no query of this *)
(* one uses: "unread".                                                     *)
(***************************************************************************)
EXTENDS Screens

\* The question before a deletion: it is answered, and hidden, before the call.
ConfirmationModal(c) == [c EXCEPT !.dialog = "confirm", !.closes = "asked"]
Confirmed == {ConfirmationModal(Deleting)}

-----------------------------------------------------------------------------
\* Bans, appeals and reports.

BanCreateModal == After("refetch", {[Creating EXCEPT !.dialog = "ban"]})
BanEditModal   == {Editing}
UnbanModal     == {[Deleting EXCEPT !.dialog = "unban"]}
AdminBansTable == Narrowed
AdminBans      == With(AdminBansTable, BanCreateModal \cup After("unread", BanEditModal \cup UnbanModal))

AppealMessageView == {Inline(Nameless(Editing))}
\* "Edit Ban" opens the modal that creates one; the list it refreshes is another page's.
BanModPanel == UnbanModal \cup {Inline(Editing)}
               \cup {[c EXCEPT !.offers = "edit", !.after = "unread"] : c \in BanCreateModal}
BanPage == With(OfRoute, AppealMessageView \cup BanModPanel \cup {Inline(Creating)}
                         \cup After("unread", {[Inline(Deleting) EXCEPT !.awaits = TRUE]}))
AdminAppeals == Narrowed

ReportMessageView == {Inline(Nameless(Editing)), Inline(Deleting)}
\* After a ban from here the state is changed by a message that is empty.
ReportModPanel == {Inline(Editing), Inline(Nameless(Editing))} \cup After("unread", BanCreateModal)
\* The reply is added to the cached messages; the button waits for it.
ReportViewComponent == With(OfRoute, ReportMessageView
                            \cup After("appends", {[Inline(Creating) EXCEPT !.awaits = TRUE]}))
ReportView        == With(OfRoute, ReportModPanel)
ReportCreateForm  == {Inline(Creating)}
UserReportHistory == Plain
ReportCreate      == With(UserReportHistory, ReportCreateForm)
AdminReports      == Narrowed

-----------------------------------------------------------------------------
\* Servers and their SourceMod administration.

\* Both the new server and the changed one are sent as an edit, a new one without identity.
ServerEditorModal  == {Creating, Editing}
AdminServersTable  == Narrowed
AdminServers       == With(AdminServersTable, After("unread", ServerEditorModal))
ServersTable       == Narrowed
Servers            == [ServersTable EXCEPT !.polls = TRUE]

SMOverrideEditorModal      == {Creating, Nameless(Editing)}
SMOverridesTable           == With(Narrowed, After("unread", SMOverrideEditorModal \cup Confirmed))
SMGroupEditorModal         == {Creating, Editing}
SMGroupsTable              == With(Narrowed, After("unread", SMGroupEditorModal \cup Confirmed))
SMGroupOverrideEditorModal == {Creating, Editing}
SMGroupOverridesModal      == With([Narrowed EXCEPT !.keyed = "missing"],
                                   After("unread", SMGroupOverrideEditorModal \cup Confirmed))
SMAdminEditorModal         == {Creating, Nameless(Editing)}
SMAdminsView               == Narrowed
SMAdminsTable              == With(SMAdminsView, After("unread", SMAdminEditorModal \cup Confirmed))
SMGroupImmunityCreateModal == {Creating}
SMImmunityTable            == With(Narrowed, After("unread", SMGroupImmunityCreateModal \cup Confirmed))

-----------------------------------------------------------------------------
\* Networks and block lists.

SteamWhitelistEditorModal == {Creating}
SteamWhitelistTable       == With(Narrowed, After("unread", SteamWhitelistEditorModal \cup Confirmed))
\* What is offered as an edit adds an address.
IPWhitelistEditorModal    == {Creating, [Editing EXCEPT !.sends = "create"]}
IPWhitelistTable          == With(Narrowed, After("unread", IPWhitelistEditorModal \cup Confirmed))
\* New and changed sources are both sent as an edit that names none.
CIDRBlockEditorModal      == {Nameless([Creating EXCEPT !.sends = "edit"]), Nameless(Editing)}
NetworkBlocklist          == With(Narrowed, After("unread", CIDRBlockEditorModal \cup Confirmed))
AdminNetworkInfo          == Filtered
\* The address searched for narrows the table and is no part of the message.
AdminNetworkPlayersTable  == Narrowed
AdminNetworkPlayersByCIDR == AdminNetworkPlayersTable
IPHistoryTable            == OfRoute

-----------------------------------------------------------------------------
\* People, chat, votes and anti-cheat.

PersonEditModal   == {[Nameless(Editing) EXCEPT !.closes = "answered"]}
\* Visibility, creation and first sight have filters that the message is not filled from.
AdminPeopleTable  == Partial
AdminPeople       == With(AdminPeopleTable, PersonEditModal)
FilterEditModal   == {Creating, Editing}
AdminFilters      == With(Narrowed, After("unread", FilterEditModal
                                    \cup {[c EXCEPT !.awaits = TRUE] : c \in Confirmed}))
WarningStateTable == Narrowed
\* Several servers can be chosen, and their list is read as one number: it is none.
ChatLogsTable     == Partial
ChatLogs          == [ChatLogsTable EXCEPT !.keeps = TRUE]
ChatTable         == OfRoute
PlayerMessageContext == OfRoute
\* The same; and the link of a vote's subject filters by a column that there is not.
AdminVotes        == Partial
AdminAnticheat    == [Narrowed EXCEPT !.waits = "settled"]
\* The column is named serverIds where the message is filled from serverId.
AdminServerLogs   == Ignoring

-----------------------------------------------------------------------------
\* News, contests, wiki and forum.

NewsEditModal   == {Creating, Nameless(Editing)}
AdminNewsTable  == Narrowed
AdminNews       == With(AdminNewsTable, After("unread", NewsEditModal \cup Confirmed))
NewsView        == Plain
NewsList        == Plain
\* A changed contest is sent as a new one.
ContestEditor   == {Creating, [Editing EXCEPT !.sends = "create"]}
AdminContests   == With(Narrowed, ContestEditor \cup Confirmed)

\* The page is copied into the state of the component when it is first shown.
WikiPage == With([OfRoute EXCEPT !.holds = TRUE], {[Inline(Editing) EXCEPT !.awaits = TRUE]})
WikiSlug == WikiPage
WikiHome == WikiPage

ForumForumEditorModal    == {Creating, [Editing EXCEPT !.sends = "create"]}
ForumCategoryEditorModal == {Creating, Editing}
CategoryBlock            == {c \in ForumCategoryEditorModal : c.offers = "edit"}
ForumOverview            == With(Plain, CategoryBlock \cup ForumCategoryEditorModal
                                        \cup {c \in ForumForumEditorModal : c.offers = "create"})
ForumThreadCreatorModal  == {Creating}
ForumPage                == With(OfRoute, ForumThreadCreatorModal
                                          \cup {c \in ForumForumEditorModal : c.offers = "edit"})
\* Deleting from the modal waits for the answer and leaves the page.
ForumThreadEditorModal   == After("refetch", {Editing}) \cup {[Deleting EXCEPT !.awaits = TRUE]}
ThreadMessageContainer   == {Inline(Editing)}
ForumThreadPage          == With(OfRoute, ForumThreadEditorModal
                                          \cup After("refetch", ThreadMessageContainer \cup Confirmed
                                                                \cup {Inline(Creating)}))
ForumRecentMessageActivity == Plain
ForumRecentUserActivity    == Plain

-----------------------------------------------------------------------------
\* Statistics, demos and profiles.

\* Filters are parsed for paging and order only.
MatchesIndexPage   == [Ignoring EXCEPT !.waits = "settled"]
ProfileMatchesPage == [OfRoute EXCEPT !.waits = "settled"]
MatchPage          == OfRoute
\* The form sets statsBucketID where the message is filled from statsBucketId.
StatsTable         == Partial
StatsComponent     == [StatsTable EXCEPT !.waits = "loaded"]
STV                == Narrowed
MGEOverall         == Ignoring
MGEDuels           == Ignoring
MGEDoubles         == Ignoring

ProfilePage     == OfRoute
ProfileInfoBox  == OfRoute
SourceBansList  == OfRoute
ProfileSettings == With(Plain, {[Inline(Editing) EXCEPT !.awaits = TRUE]})
TopBar          == [Plain EXCEPT !.polls = TRUE, !.waits = "loaded"]
Changelogs      == Plain
Patreon         == Plain
NotificationsPage == Narrowed

SiteScreens ==
    {AdminBans, BanPage, AdminAppeals, ReportViewComponent, ReportView, ReportCreate, AdminReports,
     AdminServers, Servers, SMOverridesTable, SMGroupsTable, SMGroupOverridesModal, SMAdminsTable,
     SMImmunityTable, SteamWhitelistTable, IPWhitelistTable, NetworkBlocklist, AdminNetworkInfo,
     AdminNetworkPlayersByCIDR, IPHistoryTable, AdminPeople, AdminFilters, WarningStateTable, ChatLogs,
     ChatTable, PlayerMessageContext, AdminVotes, AdminAnticheat, AdminServerLogs, AdminNews, NewsView,
     NewsList, AdminContests, WikiSlug, WikiHome, ForumOverview, ForumPage, ForumThreadPage,
     ForumRecentMessageActivity, ForumRecentUserActivity, MatchesIndexPage, ProfileMatchesPage, MatchPage,
     StatsComponent, STV, MGEOverall, MGEDuels, MGEDoubles, ProfilePage, ProfileInfoBox, SourceBansList,
     ProfileSettings, TopBar, Changelogs, Patreon, NotificationsPage}
=============================================================================
