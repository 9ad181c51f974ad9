-------------------------- MODULE DashboardQueries --------------------------
(***************************************************************************)
(* The dashboard's tables for QueryCache: what every query is computed     *)
(* from, what every mutation changes and invalidates, what every page      *)
(* shows and offers.  A query is the set of the parts of the database its  *)
(* answer depends on, for one team, one user, one email template and one   *)
(* block of content.  Tokens of paired devices are API tokens with a kind; *)
(* the user's own membership and role are told from the other members'.    *)
(***************************************************************************)
EXTENDS TLC

(* ---- what the statements behind the endpoints read ---- *)
MembershipParts == {"memberships", "own_membership"}
RoleParts == {"member_roles", "own_role"}

Stats == {"users", "teams"} \cup MembershipParts
AdminTeams == {"users", "teams", "team_names", "plans", "emails"} \cup MembershipParts \cup RoleParts
AdminUsers == {"users", "emails", "names", "global_roles"} \cup MembershipParts
Payments == {"payments"}
Revenue == {"payments", "plans", "teams", "team_names"}
Audit == {"audit"}
SSO == {"sso", "teams", "team_names"}
TeamFlags == {"flags", "teams"}
CrossWebhooks == {"webhooks", "other_webhooks", "emails"}
CrossTokens == {"tokens", "device_tokens", "other_tokens", "emails"}
MyTeams == {"teams", "team_names", "plans", "own_membership", "own_role"}
Beta == {"teams"}
Members == {"users", "emails", "names"} \cup MembershipParts \cup RoleParts
Summary == {"users", "names"} \cup MembershipParts
Projects == {"projects"}
\* The author is the name, or else the email; a deleted team's commits are no team's.
Commits == {"commits", "users", "names", "emails"}
EmailTemplates == {"templates"}
Content == {"content"}
Reports == {"reports"}
Events == {"events"}
Profile == {"emails", "names", "locale"}
Onboarding == {"own_membership", "dismissed", "events"}
Tokens == {"tokens", "device_tokens"}
Devices == {"device_tokens"}
Webhooks == {"webhooks"}
Push == {"push"}
Passkeys == {"passkeys"}
Identities == {"identities"}

(* ---- query keys: those under adminKeys.all, by what they are about ---- *)
(* The key of plan overrides is not among them: the backend has no route   *)
(* of that name (it has plan-limits), so that query never has data.        *)
PlatformKeys == {"stats", "admin_teams", "admin_users", "payments"}
LogKeys == {"revenue", "audit"}
SsoKeys == {"sso"}
TemplateKeys == {"templates", "template"}
FlagKeys == {"team_flags"}
CrossWebhookKeys == {"cross_webhooks"}
CrossTokenKeys == {"cross_tokens"}
ContentKeys == {"content_list", "content_block"}
AdminKeys == PlatformKeys \cup LogKeys \cup SsoKeys \cup TemplateKeys \cup FlagKeys
             \cup CrossWebhookKeys \cup CrossTokenKeys \cup ContentKeys

TeamsKeys == {"teams", "beta", "members", "summary", "projects", "commits"}
EventsKeys == {"recent", "categories", "provenance", "languages", "heatmap", "trend"}

\* What the server was configured with: no mutation changes it.
ConfigKeys == {"auth_config", "vapid"}

Reads ==
    [stats |-> Stats, admin_teams |-> AdminTeams, admin_users |-> AdminUsers,
     payments |-> Payments, revenue |-> Revenue, audit |-> Audit, sso |-> SSO,
     team_flags |-> TeamFlags,
     cross_webhooks |-> CrossWebhooks, cross_tokens |-> CrossTokens,
     teams |-> MyTeams, beta |-> Beta, members |-> Members, summary |-> Summary,
     projects |-> Projects, commits |-> Commits, me |-> Profile, profile |-> Profile,
     onboarding |-> Onboarding, tokens |-> Tokens, devices |-> Devices,
     webhooks |-> Webhooks, push |-> Push, passkeys |-> Passkeys,
     identities |-> Identities, reports |-> Reports]
    @@ [q \in TemplateKeys |-> EmailTemplates] @@ [q \in ContentKeys |-> Content]
    @@ [q \in EventsKeys |-> Events] @@ [q \in ConfigKeys |-> {}]

(* Queries that are stale as soon as they are there (staleTime: 0).        *)
AlwaysStale == {"beta", "onboarding"}

-----------------------------------------------------------------------------
(* A mutation: the parts the server changes, and the queries its onSuccess *)
(* invalidates.                                                            *)
Write(changes, invalidates) == [changes |-> changes, invalidates |-> invalidates]

(* ---- administrator ---- *)
TeamRows == {"teams", "memberships", "own_membership", "payments", "sso", "projects", "commits"}

SsoDisable == Write({"sso", "audit"}, {"sso"})
AdminDeleteTeam == Write(TeamRows \cup {"audit"}, AdminKeys)
AdminDeleteUser ==
    Write({"users", "memberships", "other_tokens", "other_webhooks", "payments", "projects", "audit"},
          AdminKeys)
UpdateUser == Write({"global_roles", "audit"}, {"admin_users"})
AddMember == Write(MembershipParts \cup RoleParts, {"admin_teams", "admin_users"})
SetSubscription == Write({"plans", "payments", "audit"}, {"admin_teams", "payments"})
UpdateTeamFlags == Write({"flags", "audit"}, {"admin_teams", "team_flags"})
\* The backend has no route for these two: it refuses them, nothing changes and
\* onSuccess, which would invalidate the table, does not run.
Refused == Write({}, {})
AdminRevokeWebhook == Refused
AdminRevokeToken == Refused
SaveEmailTemplate == Write({"templates", "audit"}, TemplateKeys)
RevertEmailTemplate == Write({"templates", "audit"}, TemplateKeys)
SaveContent == Write({"content", "audit"}, ContentKeys)
RevertContent == Write({"content", "audit"}, ContentKeys)

(* ---- teams ---- *)
CreateTeam == Write({"teams", "own_membership"}, TeamsKeys)
UpdateTeam == Write({"team_names"}, {"teams"})
DeleteTeam == Write(TeamRows, TeamsKeys)
UpdateMemberRole == Write(RoleParts, {"members"})
RemoveMember == Write(MembershipParts, {"members"})
CreateInvite == Write({}, {"members"})
CreateProject == Write({"projects"}, {"projects"})
CreateCompany == Write({"teams", "own_membership"}, TeamsKeys)

(* ---- the user's own things ---- *)
DismissOnboarding == Write({"dismissed"}, {"onboarding"})
ChangeMyEmail == Write({"emails"}, {"me", "profile"})
ChangeMyName == Write({"names"}, {"me", "profile"})
UpdateLocale == Write({"locale"}, {})
CreateToken == Write({"tokens"}, {"tokens"})
\* The hook without its onSuccess (mutant).
RevokeTokenSilent == Write({"tokens", "device_tokens"}, {})
RevokeToken == Write({"tokens", "device_tokens"}, {"tokens"})
ClaimDevice == Write({"device_tokens"}, {"devices"})
RevokeDevice == Write({"device_tokens"}, {"devices"})
CreateWebhook == Write({"webhooks"}, {"webhooks"})
DeleteWebhook == Write({"webhooks"}, {"webhooks"})
SubscribePush == Write({"push"}, {"push"})
UnsubscribePush == Write({"push"}, {"push"})
RegisterPasskey == Write({"passkeys"}, {"passkeys"})
RevokePasskey == Write({"passkeys"}, {"passkeys"})
UnlinkIdentity == Write({"identities"}, {"identities"})
GenerateReport == Write({"reports"}, {"reports"})

Table ==
    [sso_disable |-> SsoDisable, admin_delete_team |-> AdminDeleteTeam,
     admin_delete_user |-> AdminDeleteUser, update_user |-> UpdateUser,
     add_member |-> AddMember, set_subscription |-> SetSubscription,
     update_flags |-> UpdateTeamFlags,
     admin_revoke_webhook |-> AdminRevokeWebhook, admin_revoke_token |-> AdminRevokeToken,
     save_template |-> SaveEmailTemplate, revert_template |-> RevertEmailTemplate,
     save_content |-> SaveContent, revert_content |-> RevertContent,
     create_team |-> CreateTeam, update_team |-> UpdateTeam, delete_team |-> DeleteTeam,
     update_role |-> UpdateMemberRole, remove_member |-> RemoveMember,
     create_invite |-> CreateInvite, create_project |-> CreateProject,
     create_company |-> CreateCompany, dismiss |-> DismissOnboarding,
     change_email |-> ChangeMyEmail, change_name |-> ChangeMyName,
     change_locale |-> UpdateLocale, generate_report |-> GenerateReport,
     create_token |-> CreateToken, revoke_token |-> RevokeToken,
     claim |-> ClaimDevice, revoke_device |-> RevokeDevice,
     create_webhook |-> CreateWebhook, delete_webhook |-> DeleteWebhook,
     subscribe |-> SubscribePush, unsubscribe |-> UnsubscribePush,
     register_passkey |-> RegisterPasskey, revoke_passkey |-> RevokePasskey,
     unlink |-> UnlinkIdentity]

(* What the mutation's button waits for: not the two whose onSuccess does  *)
(* not return its promises, nor the one that clears its own busy first,    *)
(* nor the request nobody waits for.                                       *)
NotAwaited == {"change_email", "change_name", "create_company", "change_locale"}

-----------------------------------------------------------------------------
(* A component: the queries whose data it shows, whether it asks for them  *)
(* or its page hands them down, and the mutations its controls start.      *)
Screen(shows, offers) == [shows |-> shows, offers |-> offers]
Showing(queries) == Screen(queries, {})
Control(mutation) == Screen({}, {mutation})
Together(parts) == Screen(UNION {p.shows : p \in parts}, UNION {p.offers : p \in parts})

(* Controls of a row, of an editor opened for a row, or never disabled:    *)
(* several may run the same mutation at a time.                            *)
UserRoleSelect == Control("update_user")
MemberRoleSelect == Control("update_role")
RemoveMemberButton == Control("remove_member")
RevokeTokenButton == Control("revoke_token")
RevokeDeviceButton == Control("revoke_device")
DeleteWebhookButton == Control("delete_webhook")
DisablePushButton == Control("unsubscribe")
LocaleSelect == Control("change_locale")
EmailTemplateEditor == Screen({"template"}, {"save_template", "revert_template"})
ContentBlockEditor == Screen({"content_block"}, {"save_content", "revert_content"})
PerRow == Together({UserRoleSelect, MemberRoleSelect, RemoveMemberButton, RevokeTokenButton,
                    RevokeDeviceButton, DeleteWebhookButton, DisablePushButton, LocaleSelect,
                    EmailTemplateEditor, ContentBlockEditor}).offers

(* Forms and buttons that are disabled while their mutation runs.          *)
AddMemberForm == Control("add_member")
CreateInviteBlock == Control("create_invite")
RenameTeamForm == Control("update_team")
DeleteTeamButton == Control("delete_team")
CreateProjectButton == Control("create_project")
CreateTeamButton == Control("create_team")
ChangeNameForm == Control("change_name")
ChangeEmailForm == Control("change_email")
ClaimDeviceForm == Control("claim")
CreateTokenDialog == Control("create_token")
CreateWebhookDialog == Control("create_webhook")
EnablePushButton == Screen({"vapid"}, {"subscribe"})
AddPasskeyButton == Control("register_passkey")
GenerateReportButton == Control("generate_report")
CompanyStep == Control("create_company")

-----------------------------------------------------------------------------
(* ---- the user's pages ---- *)
DevicesTable == Together({Showing({"devices"}), RevokeDeviceButton})
DevicesWidget == Together({DevicesTable, ClaimDeviceForm})
TokensWidget == Together({Showing({"tokens"}), CreateTokenDialog, RevokeTokenButton})
WebhooksWidget == Together({Showing({"webhooks"}), CreateWebhookDialog, DeleteWebhookButton})
PushWidget == Together({Showing({"push", "vapid"}), EnablePushButton, DisablePushButton})
PasskeyList == Together({Showing({"passkeys"}), Control("revoke_passkey"), AddPasskeyButton})
LinkedAccounts == Screen({"identities", "auth_config"}, {"unlink"})
ProfileCard == Showing({"profile", "teams", "devices"})

KpiGrid == Showing({"categories"})
HeatmapCard == Showing({"heatmap"})
GaugeCard == Showing({"categories"})
ProvenanceDonut == Showing({"provenance"})
LanguageBars == Showing({"languages"})
TrendChart == Showing({"trend"})
AttributionLog == Showing({"recent"})
DashboardRoute == Together({GenerateReportButton, KpiGrid, HeatmapCard, GaugeCard,
                            ProvenanceDonut, LanguageBars, TrendChart, AttributionLog})

(* ---- a team ---- *)
MemberRow == Together({Showing({"members", "summary"}), MemberRoleSelect, RemoveMemberButton})
MembersTab == Together({CreateInviteBlock, MemberRow})
ProjectsTab == Together({Showing({"projects"}), CreateProjectButton})
CommitsTab == Showing({"commits"})
SettingsTab == Together({Showing({"teams"}), RenameTeamForm, DeleteTeamButton})
TeamDetail(tab) == Together({Showing({"teams", "members", "summary"}), tab})
TeamsPage(tab) == Together({Showing({"teams", "beta", "me"}), CreateTeamButton, TeamDetail(tab)})

(* ---- the administrator's tabs ---- *)
Overview == Showing({"stats", "admin_teams"})
TeamsTable == Together({Screen({"admin_teams", "admin_users"}, {"admin_delete_team"}), AddMemberForm})
SubscriptionModal == Screen({"payments"}, {"set_subscription"})
TeamFlagsForm == Screen({"team_flags"}, {"update_flags"})
\* Without its query's data the form shows an error and no controls.
PlanLimitsForm == Showing({})
\* Opened over the table, which stays.
TeamDrawer(tab) == Together({TeamsTable, tab})
UsersTable == Together({Screen({"admin_users"}, {"admin_delete_user"}), UserRoleSelect})
RevenueTab == Showing({"revenue"})
SSOConfigs == Screen({"sso"}, {"sso_disable"})
EmailTemplatesPage == Together({Showing({"templates"}), EmailTemplateEditor})
ContentEditorPage == ContentBlockEditor
WebhooksCrossTeam == Screen({"cross_webhooks"}, {"admin_revoke_webhook"})
APITokensCrossUser == Screen({"cross_tokens"}, {"admin_revoke_token"})
AuditLog == Showing({"audit"})

-----------------------------------------------------------------------------
(* The shell around the pages shows the user; the redirect to onboarding   *)
(* reads the teams.  The wizard has a route of its own, and its last step  *)
(* polls.                                                                  *)
Shell == Showing({"me", "teams"})
Page(widgets) == Together({Shell} \cup widgets)

OnEveryAdminTab == {"stats", "admin_teams", "admin_users"}
AdminTab(tab) == Page({Showing(OnEveryAdminTab), tab})

Settings == Page({ProfileCard, ChangeNameForm, LinkedAccounts, PasskeyList, DevicesWidget,
                  ChangeEmailForm, LocaleSelect})
IntegrationsPage == Page({PushWidget, DevicesWidget, TokensWidget, WebhooksWidget})

EventStep == Showing({"onboarding"})
Wizard == Together({CompanyStep, EventStep, Control("dismiss")})
OnboardingRoute == Together({Showing({"onboarding", "teams"}), Wizard})

Pages ==
    [overview |-> AdminTab(Overview),
     teams_table |-> AdminTab(TeamsTable),
     subscription |-> AdminTab(TeamDrawer(SubscriptionModal)),
     flags |-> AdminTab(TeamDrawer(TeamFlagsForm)),
     limits |-> AdminTab(TeamDrawer(PlanLimitsForm)),
     users_table |-> AdminTab(UsersTable),
     revenue |-> AdminTab(RevenueTab),
     sso |-> AdminTab(SSOConfigs),
     templates |-> AdminTab(EmailTemplatesPage),
     content |-> AdminTab(ContentEditorPage),
     cross_webhooks |-> AdminTab(WebhooksCrossTeam),
     cross_tokens |-> AdminTab(APITokensCrossUser),
     audit |-> AdminTab(AuditLog),
     members |-> Page({TeamsPage(MembersTab)}),
     projects |-> Page({TeamsPage(ProjectsTab)}),
     commits |-> Page({TeamsPage(CommitsTab)}),
     team_settings |-> Page({TeamsPage(SettingsTab)}),
     dashboard |-> Page({DashboardRoute}),
     settings |-> Settings,
     integrations |-> IntegrationsPage,
     onboarding |-> OnboardingRoute,
     elsewhere |-> Showing({})]

AdminPages == {p \in DOMAIN Pages : OnEveryAdminTab \subseteq Pages[p].shows}

-----------------------------------------------------------------------------
(* Changes that their mutation does not invalidate, found when the tables  *)
(* above were written: what the user sees of them is up to staleTime and   *)
(* the polls.                                                              *)
NotInvalidated ==
    [sso_disable |-> {"audit"}, update_user |-> {"audit"},
     update_flags |-> {"audit"},
     save_template |-> {"audit"}, revert_template |-> {"audit"},
     save_content |-> {"audit"}, revert_content |-> {"audit"},
     set_subscription |-> {"revenue", "audit", "teams"},
     admin_delete_team |-> TeamsKeys \cup {"onboarding"},
     admin_delete_user |-> {"members", "summary", "projects", "commits"},
     add_member |-> {"stats", "teams", "members", "summary", "onboarding"},
     create_team |-> AdminKeys \cup {"onboarding"},
     create_company |-> AdminKeys \cup {"onboarding"},
     update_team |-> {"admin_teams", "revenue", "sso"},
     delete_team |-> AdminKeys \cup {"onboarding"},
     update_role |-> {"admin_teams", "teams"},
     remove_member |-> {"stats", "admin_teams", "admin_users", "summary", "teams", "onboarding"},
     change_email |-> {"admin_teams", "admin_users", "cross_webhooks", "cross_tokens", "members", "commits"},
     change_name |-> {"admin_users", "members", "summary", "commits"},
     change_locale |-> {"me", "profile"},
     create_token |-> {"cross_tokens"}, revoke_token |-> {"cross_tokens", "devices"},
     claim |-> {"cross_tokens", "tokens"}, revoke_device |-> {"cross_tokens", "tokens"},
     create_webhook |-> {"cross_webhooks"}, delete_webhook |-> {"cross_webhooks"}]
=============================================================================
