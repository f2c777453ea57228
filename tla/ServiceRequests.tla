-------------------------- MODULE ServiceRequests --------------------------
(***************************************************************************)
(* The service facades of services/*.py.  Each facade method performs one  *)
(* transport call: a verb, a path built by an f-string from a fixed        *)
(* template and the caller's path arguments, and a query dict assembled    *)
(* from its named arguments, each added unconditionally ("required"),      *)
(* under `if arg:` ("truthy") or under `if arg is not None:` ("notnone"),  *)
(* plus, for the methods with `**params`, whatever extra keyword arguments *)
(* the caller passed.  httpx then renders every query value as a string.   *)
(*                                                                         *)
(* A route is [verb, path, query, extra, enc]: path is a sequence of       *)
(* segments in which a segment of ParamNames (written ":name") is replaced *)
(* by the caller's argument; query maps each named query key to its test;  *)
(* extra says whether **params is passed through; enc is the encoder of    *)
(* the query values ("httpx", or "urlencode" for the authorize URL).       *)
(* Bodies are left out: no property below is about them.                   *)
(***************************************************************************)
EXTENDS Naturals, Sequences, FiniteSets, SequencesExt

(* The path arguments a caller passes, each given as the sequence of path *)
(* segments it yields once interpolated into the URL: the argument "a/b"   *)
(* is <<"a", "b">>, since neither the f-string nor httpx escapes "/".      *)
CONSTANT Ids

ASSUME IdsAssumption == Ids # {} /\ Ids \subseteq Seq(STRING) \ {<<>>}

VARIABLES
    call,     \* the facade call last made: [op, args, qargs]
    request   \* the request the transport was handed for it

vars == <<call, request>>

(* Abstract Python values of the optional/keyword arguments.              *)
PyValues == {"none", "empty", "zero", "false", "text"}

(* What a query value renders as: httpx renders None as "", booleans as   *)
(* "true"/"false"; urllib's urlencode uses str(): "None", "False".        *)
Encode(v, enc) ==
    CASE v = "none"  -> IF enc = "httpx" THEN "" ELSE "None"
      [] v = "empty" -> ""
      [] v = "zero"  -> "0"
      [] v = "false" -> IF enc = "httpx" THEN "false" ELSE "False"
      [] v = "text"  -> "text"

(* The values a caller may pass for a query argument: a required str, an  *)
(* optional str, int or bool, or, through **params, anything.             *)
ArgValues(q) ==
    CASE q.test = "required" -> {"empty", "text"}
      [] q.type = "str"      -> {"none", "empty", "text"}
      [] q.type = "int"      -> {"none", "zero", "text"}
      [] q.type = "bool"     -> {"none", "false", "text"}
      [] OTHER               -> {"none", "empty", "zero", "text"}

(* A query argument: how the method tests it, and its Python type.        *)
Req == [test |-> "required", type |-> "str"]
IfSet(type) == [test |-> "truthy", type |-> type]
IfNotNone(type) == [test |-> "notnone", type |-> type]
Passed == [test |-> "extra", type |-> "any"]

(* The key a **params argument is passed under.                            *)
ExtraKey == "x"

NoQuery == [k \in {} |-> Req]

RQ(verb, path, q, extra) ==
    [verb |-> verb, path |-> path, query |-> q, extra |-> extra, enc |-> "httpx"]

R(verb, path) == RQ(verb, path, NoQuery, FALSE)

ParamNames ==
    {":tenant_id", ":org_id", ":action_id", ":app_id", ":user_id", ":slug",
     ":method_id", ":template_type", ":log_id", ":connection_id", ":group_id",
     ":role_id", ":invitation_id", ":namespace", ":object_id", ":subject_type",
     ":subject_id", ":relation", ":store_id", ":version", ":key_id",
     ":provider_id", ":token_id", ":session_id", ":provider_type",
     ":webhook_id", ":delivery_id"}


(* services/auth.py: AuthService.                                          *)
AuthRoutes ==
    ("auth.register" :> R("POST", <<"api", "auth", "register">>)) @@
    ("auth.login" :> R("POST", <<"api", "auth", "login">>)) @@
    ("auth.login_hierarchical" :> R("POST", <<"api", "auth", "login-hierarchical">>)) @@
    ("auth.refresh_token" :> R("POST", <<"api", "auth", "refresh">>)) @@
    ("auth.logout" :> R("POST", <<"api", "auth", "logout">>)) @@
    ("auth.get_profile" :> R("GET", <<"api", "auth", "me">>)) @@
    ("auth.update_profile" :> R("PATCH", <<"api", "auth", "me">>)) @@
    ("auth.change_password" :> R("POST", <<"api", "auth", "change-password">>)) @@
    ("auth.verify_email" :>
        RQ("GET", <<"api", "verify-email">>, "token" :> Req, FALSE)) @@
    ("auth.resend_verification" :> R("POST", <<"api", "auth", "resend-verification">>)) @@
    ("auth.forgot_password" :> R("POST", <<"api", "auth", "forgot-password">>)) @@
    ("auth.verify_reset_token" :>
        RQ("GET", <<"api", "auth", "verify-reset-token">>, "token" :> Req, FALSE)) @@
    ("auth.reset_password" :> R("POST", <<"api", "auth", "reset-password">>)) @@
    ("auth.passwordless_start" :>
        R("POST", <<"api", "tenants", ":tenant_id", "passwordless", "start">>)) @@
    ("auth.passwordless_verify" :>
        R("POST", <<"api", "tenants", ":tenant_id", "passwordless", "verify">>)) @@
    ("auth.passwordless_resend" :>
        R("POST", <<"api", "tenants", ":tenant_id", "passwordless", "resend">>)) @@
    ("auth.create_login_flow_browser" :>
        RQ("GET", <<"self-service", "login", "browser">>,
           ("organization_id" :> IfSet("str")) @@ ("request_id" :> IfSet("str")), FALSE)) @@
    ("auth.create_login_flow_api" :>
        RQ("GET", <<"self-service", "login", "api">>,
           ("organization_id" :> IfSet("str")) @@ ("request_id" :> IfSet("str")), FALSE)) @@
    ("auth.get_login_flow" :>
        RQ("GET", <<"self-service", "login">>, "flow" :> Req, FALSE)) @@
    ("auth.submit_login_flow" :> R("POST", <<"self-service", "login">>)) @@
    ("auth.create_registration_flow_browser" :>
        RQ("GET", <<"self-service", "registration", "browser">>,
           "organization_id" :> IfSet("str"), FALSE)) @@
    ("auth.create_registration_flow_api" :>
        RQ("GET", <<"self-service", "registration", "api">>,
           "organization_id" :> IfSet("str"), FALSE)) @@
    ("auth.get_registration_flow" :>
        RQ("GET", <<"self-service", "registration">>, "flow" :> Req, FALSE)) @@
    ("auth.submit_registration_flow" :> R("POST", <<"self-service", "registration">>)) @@
    ("auth.whoami" :> R("GET", <<"sessions", "whoami">>))

(* services/admin.py: AdminService, its tenant registry section.          *)
AdminTenantRoutes ==
    ("admin.list_tenants" :> R("GET", <<"api", "admin", "tenants">>)) @@
    ("admin.create_tenant" :> R("POST", <<"api", "admin", "tenants">>)) @@
    ("admin.get_stats" :> R("GET", <<"api", "admin", "tenants", "stats">>)) @@
    ("admin.get_tenant" :> R("GET", <<"api", "admin", "tenants", ":tenant_id">>)) @@
    ("admin.configure_database" :>
        R("POST", <<"api", "admin", "tenants", ":tenant_id", "database">>)) @@
    ("admin.activate" :> R("POST", <<"api", "admin", "tenants", ":tenant_id", "activate">>)) @@
    ("admin.suspend" :> R("POST", <<"api", "admin", "tenants", ":tenant_id", "suspend">>)) @@
    ("admin.test_connection" :>
        R("POST", <<"api", "admin", "tenants", ":tenant_id", "test-connection">>))

(* services/admin.py: actions, rate limits, token claims and health.      *)
AdminActionRoutes ==
    ("admin.create_action" :> R("POST", <<"api", "organizations", ":org_id", "actions">>)) @@
    ("admin.list_actions" :> R("GET", <<"api", "organizations", ":org_id", "actions">>)) @@
    ("admin.get_action" :>
        R("GET", <<"api", "organizations", ":org_id", "actions", ":action_id">>)) @@
    ("admin.update_action" :>
        R("PUT", <<"api", "organizations", ":org_id", "actions", ":action_id">>)) @@
    ("admin.delete_action" :>
        R("DELETE", <<"api", "organizations", ":org_id", "actions", ":action_id">>)) @@
    ("admin.test_action" :>
        R("POST", <<"api", "organizations", ":org_id", "actions", ":action_id", "test">>)) @@
    ("admin.get_action_executions" :>
        R("GET", <<"api", "organizations", ":org_id", "actions", ":action_id", "executions">>)) @@
    ("admin.get_org_executions" :>
        R("GET", <<"api", "organizations", ":org_id", "actions", "executions">>)) @@
    ("admin.get_rate_limits" :> R("GET", <<"api", "tenants", ":tenant_id", "rate-limits">>)) @@
    ("admin.update_rate_limits" :> R("PUT", <<"api", "tenants", ":tenant_id", "rate-limits">>)) @@
    ("admin.get_token_claims" :>
        R("GET", <<"api", "tenants", ":tenant_id", "applications", ":app_id", "token-claims">>)) @@
    ("admin.update_token_claims" :>
        R("PUT", <<"api", "tenants", ":tenant_id", "applications", ":app_id", "token-claims">>)) @@
    ("admin.health" :> R("GET", <<"health">>))

(* services/tenants.py: TenantService.                                     *)
TenantRoutes ==
    ("tenants.create" :> R("POST", <<"api", "tenants">>)) @@
    ("tenants.get_by_slug" :> R("GET", <<"api", "organizations", "by-slug", ":slug">>)) @@
    ("tenants.list_users" :> R("GET", <<"api", "tenants", ":tenant_id", "users">>)) @@
    ("tenants.update_user_role" :>
        R("PUT", <<"api", "tenants", ":tenant_id", "users", ":user_id", "role">>)) @@
    ("tenants.get_security" :> R("GET", <<"api", "organizations", ":org_id", "security">>)) @@
    ("tenants.update_security" :> R("PUT", <<"api", "organizations", ":org_id", "security">>)) @@
    ("tenants.get_branding" :> R("GET", <<"api", "organizations", ":org_id", "branding">>)) @@
    ("tenants.update_branding" :> R("PUT", <<"api", "organizations", ":org_id", "branding">>))

(* services/mfa.py: MfaService.                                            *)
MfaRoutes ==
    ("mfa.enroll_totp" :> R("POST", <<"api", "mfa", "enroll", "totp">>)) @@
    ("mfa.verify_totp" :> R("POST", <<"api", "mfa", "totp", ":method_id", "verify">>)) @@
    ("mfa.enroll_sms" :> R("POST", <<"api", "mfa", "enroll", "sms">>)) @@
    ("mfa.verify_sms" :> R("POST", <<"api", "mfa", "sms", ":method_id", "verify">>)) @@
    ("mfa.resend_sms" :> R("POST", <<"api", "mfa", "sms", ":method_id", "resend">>)) @@
    ("mfa.list_methods" :> R("GET", <<"api", "mfa", "methods">>)) @@
    ("mfa.delete_method" :> R("DELETE", <<"api", "mfa", "methods", ":method_id">>)) @@
    ("mfa.regenerate_backup_codes" :> R("POST", <<"api", "mfa", "backup-codes", "regenerate">>)) @@
    ("mfa.enroll_totp_with_token" :> R("POST", <<"api", "mfa", "enroll-with-token", "totp">>)) @@
    ("mfa.verify_totp_with_token" :>
        R("POST", <<"api", "mfa", "verify-with-token", "totp", ":method_id">>))


(* services/applications.py: ApplicationService.                           *)
ApplicationRoutes ==
    ("apps.create" :> R("POST", <<"api", "applications">>)) @@
    ("apps.list" :> R("GET", <<"api", "tenants", ":tenant_id", "applications">>)) @@
    ("apps.get" :> R("GET", <<"api", "applications", ":app_id", "tenants", ":tenant_id">>)) @@
    ("apps.update" :> R("POST", <<"api", "applications", ":app_id", "tenants", ":tenant_id">>)) @@
    ("apps.rotate_secret" :>
        R("POST", <<"api", "applications", ":app_id", "tenants", ":tenant_id", "rotate-secret">>)) @@
    ("apps.delete" :>
        R("DELETE", <<"api", "applications", ":app_id", "tenants", ":tenant_id">>)) @@
    ("apps.authenticate" :> R("POST", <<"api", "applications", "authenticate">>)) @@
    ("apps.create_oauth_app" :>
        R("POST", <<"api", "organizations", ":org_id", "applications">>)) @@
    ("apps.list_oauth_apps" :>
        R("GET", <<"api", "organizations", ":org_id", "applications">>)) @@
    ("apps.get_oauth_app" :>
        R("GET", <<"api", "organizations", ":org_id", "applications", ":app_id">>)) @@
    ("apps.update_oauth_app" :>
        R("PUT", <<"api", "organizations", ":org_id", "applications", ":app_id">>)) @@
    ("apps.rotate_oauth_secret" :>
        R("POST", <<"api", "organizations", ":org_id", "applications", ":app_id", "rotate-secret">>)) @@
    ("apps.delete_oauth_app" :>
        R("DELETE", <<"api", "organizations", ":org_id", "applications", ":app_id">>)) @@
    ("apps.list_email_templates" :>
        R("GET", <<"api", "organizations", ":org_id", "email-templates">>)) @@
    ("apps.get_email_template" :>
        R("GET", <<"api", "organizations", ":org_id", "email-templates", ":template_type">>)) @@
    ("apps.update_email_template" :>
        R("PUT", <<"api", "organizations", ":org_id", "email-templates", ":template_type">>)) @@
    ("apps.delete_email_template" :>
        R("DELETE", <<"api", "organizations", ":org_id", "email-templates", ":template_type">>)) @@
    ("apps.preview_email_template" :>
        R("POST", <<"api", "organizations", ":org_id", "email-templates", ":template_type",
                    "preview">>))

(* services/audit.py: AuditService; query() adds its five str filters     *)
(* under `if arg:` and limit/offset under `if arg is not None:`.          *)
AuditRoutes ==
    ("audit.query" :>
        RQ("GET", <<"api", "audit", "logs">>,
           [k \in {"tenant_id", "event_types", "user_id", "start_date", "end_date"}
              |-> IfSet("str")] @@ [k \in {"limit", "offset"} |-> IfNotNone("int")], FALSE)) @@
    ("audit.get" :> R("GET", <<"api", "audit", "logs", ":log_id">>)) @@
    ("audit.security_events" :> R("GET", <<"api", "audit", "security-events">>)) @@
    ("audit.failed_logins" :> R("GET", <<"api", "audit", "failed-logins", ":user_id">>)) @@
    ("audit.export" :> R("GET", <<"api", "audit", "export">>)) @@
    ("audit.stats" :> R("GET", <<"api", "audit", "stats">>)) @@
    ("audit.login_history" :> R("GET", <<"api", "login-history">>)) @@
    ("audit.security_audit_logs" :> R("GET", <<"api", "security", "audit-logs">>))

(* services/connections.py: ConnectionService.                             *)
ConnectionRoutes ==
    ("conn.list" :> R("GET", <<"api", "organizations", ":org_id", "connections">>)) @@
    ("conn.create" :> R("POST", <<"api", "organizations", ":org_id", "connections">>)) @@
    ("conn.get" :>
        R("GET", <<"api", "organizations", ":org_id", "connections", ":connection_id">>)) @@
    ("conn.update" :>
        R("PUT", <<"api", "organizations", ":org_id", "connections", ":connection_id">>)) @@
    ("conn.delete" :>
        R("DELETE", <<"api", "organizations", ":org_id", "connections", ":connection_id">>)) @@
    ("conn.get_auth_methods" :>
        R("GET", <<"api", "organizations", ":org_id", "connections", "auth-methods">>)) @@
    ("conn.list_all" :> R("GET", <<"api", "admin", "connections">>)) @@
    ("conn.create_platform" :> R("POST", <<"api", "admin", "connections">>))

(* services/groups.py: GroupService, with members, roles and invitations.  *)
GroupRoutes ==
    ("groups.create" :> R("POST", <<"api", "tenants", ":tenant_id", "groups">>)) @@
    ("groups.list" :> R("GET", <<"api", "tenants", ":tenant_id", "groups">>)) @@
    ("groups.get" :> R("GET", <<"api", "tenants", ":tenant_id", "groups", ":group_id">>)) @@
    ("groups.update" :> R("PUT", <<"api", "tenants", ":tenant_id", "groups", ":group_id">>)) @@
    ("groups.delete" :> R("DELETE", <<"api", "tenants", ":tenant_id", "groups", ":group_id">>)) @@
    ("groups.add_member" :>
        R("POST", <<"api", "tenants", ":tenant_id", "groups", ":group_id", "members">>)) @@
    ("groups.list_members" :>
        R("GET", <<"api", "tenants", ":tenant_id", "groups", ":group_id", "members">>)) @@
    ("groups.update_member" :>
        R("PATCH", <<"api", "tenants", ":tenant_id", "groups", ":group_id", "members",
                     ":user_id">>)) @@
    ("groups.remove_member" :>
        R("DELETE", <<"api", "tenants", ":tenant_id", "groups", ":group_id", "members",
                      ":user_id">>)) @@
    ("groups.assign_role" :>
        R("POST", <<"api", "tenants", ":tenant_id", "groups", ":group_id", "roles">>)) @@
    ("groups.list_roles" :>
        R("GET", <<"api", "tenants", ":tenant_id", "groups", ":group_id", "roles">>)) @@
    ("groups.remove_role" :>
        R("DELETE", <<"api", "tenants", ":tenant_id", "groups", ":group_id", "roles",
                      ":role_id">>)) @@
    ("groups.get_user_groups" :>
        R("GET", <<"api", "tenants", ":tenant_id", "users", ":user_id", "groups">>)) @@
    ("groups.create_invitation" :> R("POST", <<"api", "tenants", ":tenant_id", "invitations">>)) @@
    ("groups.list_invitations" :> R("GET", <<"api", "tenants", ":tenant_id", "invitations">>)) @@
    ("groups.revoke_invitation" :>
        R("DELETE", <<"api", "tenants", ":tenant_id", "invitations", ":invitation_id">>)) @@
    ("groups.resend_invitation" :>
        R("POST", <<"api", "tenants", ":tenant_id", "invitations", ":invitation_id", "resend">>)) @@
    ("groups.verify_invitation" :>
        RQ("GET", <<"api", "invitations", "verify">>, "token" :> Req, FALSE)) @@
    ("groups.accept_invitation" :> R("POST", <<"api", "invitations", "accept">>))


(* services/oauth2.py: OAuth2Service.  authorize() sends nothing: it       *)
(* returns base_url + "/authorize?" + urlencode(query) for a browser to    *)
(* open; it is the route of verb "URL".                                    *)
OAuth2Routes ==
    ("oauth2.discovery" :> R("GET", <<".well-known", "openid-configuration">>)) @@
    ("oauth2.jwks" :> R("GET", <<".well-known", "jwks.json">>)) @@
    ("oauth2.authorize" :>
        [RQ("URL", <<"authorize">>,
            [k \in {"client_id", "redirect_uri", "response_type", "scope"} |-> Req],
            TRUE) EXCEPT !.enc = "urlencode"]) @@
    ("oauth2.token" :> R("POST", <<"oauth", "token">>)) @@
    ("oauth2.userinfo" :> R("GET", <<"userinfo">>)) @@
    ("oauth2.revoke" :> R("POST", <<"oauth", "revoke">>)) @@
    ("oauth2.introspect" :> R("POST", <<"oauth", "introspect">>)) @@
    ("oauth2.oidc_logout" :>
        RQ("GET", <<"logout">>,
           [k \in {"id_token_hint", "post_logout_redirect_uri", "state"} |-> IfSet("str")],
           FALSE))

(* services/fga.py: FGAService, tuples, check, expand and stores.          *)
FgaTupleRoutes ==
    ("fga.create_tuple" :> R("POST", <<"api", "authz", "tuples">>)) @@
    ("fga.delete_tuple" :> R("DELETE", <<"api", "authz", "tuples">>)) @@
    ("fga.query_tuples" :> R("POST", <<"api", "authz", "tuples", "query">>)) @@
    ("fga.get_object_tuples" :>
        R("GET", <<"api", "authz", "tuples", "by-object", ":tenant_id", ":namespace",
                   ":object_id">>)) @@
    ("fga.get_subject_tuples" :>
        R("GET", <<"api", "authz", "tuples", "by-subject", ":tenant_id", ":subject_type",
                   ":subject_id">>)) @@
    ("fga.check" :> R("POST", <<"api", "authz", "check">>)) @@
    ("fga.expand" :>
        R("GET", <<"api", "authz", "expand", ":tenant_id", ":namespace", ":object_id",
                   ":relation">>)) @@
    ("fga.forward_auth" :> R("POST", <<"authz", "forward-auth">>)) @@
    ("fga.create_store" :> R("POST", <<"api", "fga", "stores">>)) @@
    ("fga.list_stores" :>
        RQ("GET", <<"api", "fga", "stores">>, "include_inactive" :> IfNotNone("bool"), FALSE)) @@
    ("fga.get_store" :> R("GET", <<"api", "fga", "stores", ":store_id">>)) @@
    ("fga.update_store" :> R("PATCH", <<"api", "fga", "stores", ":store_id">>)) @@
    ("fga.delete_store" :> R("DELETE", <<"api", "fga", "stores", ":store_id">>))

(* Mutant: get_current_model's path without its "current" segment.        *)
FgaModelRoutes_dropped_segment ==
    ("fga.write_model" :> R("POST", <<"api", "fga", "stores", ":store_id", "models">>)) @@
    ("fga.list_models" :> R("GET", <<"api", "fga", "stores", ":store_id", "models">>)) @@
    ("fga.get_current_model" :> R("GET", <<"api", "fga", "stores", ":store_id", "models">>)) @@
    ("fga.get_model_version" :>
        R("GET", <<"api", "fga", "stores", ":store_id", "models", ":version">>))

(* services/fga.py: FGAService, authorization models.                      *)
FgaModelRoutes ==
    ("fga.write_model" :> R("POST", <<"api", "fga", "stores", ":store_id", "models">>)) @@
    ("fga.list_models" :> R("GET", <<"api", "fga", "stores", ":store_id", "models">>)) @@
    ("fga.get_current_model" :>
        R("GET", <<"api", "fga", "stores", ":store_id", "models", "current">>)) @@
    ("fga.get_model_version" :>
        R("GET", <<"api", "fga", "stores", ":store_id", "models", ":version">>))

(* services/fga.py: FGAService, API keys and store-scoped operations.      *)
FgaStoreRoutes ==
    ("fga.create_api_key" :> R("POST", <<"api", "fga", "stores", ":store_id", "api-keys">>)) @@
    ("fga.list_api_keys" :> R("GET", <<"api", "fga", "stores", ":store_id", "api-keys">>)) @@
    ("fga.revoke_api_key" :>
        R("DELETE", <<"api", "fga", "stores", ":store_id", "api-keys", ":key_id">>)) @@
    ("fga.store_check" :> R("POST", <<"api", "fga", "stores", ":store_id", "check">>)) @@
    ("fga.read_store_tuples" :>
        RQ("GET", <<"api", "fga", "stores", ":store_id", "tuples">>, NoQuery, TRUE)) @@
    ("fga.write_store_tuples" :> R("POST", <<"api", "fga", "stores", ":store_id", "tuples">>))

(* Mutant: list_users tests `if count:`, dropping count=0.                 *)
ScimUserRoutes_truthy_count ==
    ("scim.get_config" :> R("GET", <<"scim", "v2", "ServiceProviderConfig">>)) @@
    ("scim.get_resource_types" :> R("GET", <<"scim", "v2", "ResourceTypes">>)) @@
    ("scim.get_schemas" :> R("GET", <<"scim", "v2", "Schemas">>)) @@
    ("scim.list_users" :>
        RQ("GET", <<"scim", "v2", "Users">>,
           ("filter" :> IfSet("str")) @@ ("count" :> IfSet("int")) @@ ("startIndex" :> IfNotNone("int")), TRUE)) @@
    ("scim.create_user" :> R("POST", <<"scim", "v2", "Users">>)) @@
    ("scim.get_user" :> R("GET", <<"scim", "v2", "Users", ":user_id">>)) @@
    ("scim.replace_user" :> R("PUT", <<"scim", "v2", "Users", ":user_id">>)) @@
    ("scim.patch_user" :> R("PATCH", <<"scim", "v2", "Users", ":user_id">>)) @@
    ("scim.delete_user" :> R("DELETE", <<"scim", "v2", "Users", ":user_id">>))

(* services/scim.py: SCIMService, discovery and users.  list_users() sends *)
(* **params, then filter under `if filter:`, count and startIndex under    *)
(* `if ... is not None:`.                                                   *)
ScimUserRoutes ==
    ("scim.get_config" :> R("GET", <<"scim", "v2", "ServiceProviderConfig">>)) @@
    ("scim.get_resource_types" :> R("GET", <<"scim", "v2", "ResourceTypes">>)) @@
    ("scim.get_schemas" :> R("GET", <<"scim", "v2", "Schemas">>)) @@
    ("scim.list_users" :>
        RQ("GET", <<"scim", "v2", "Users">>,
           ("filter" :> IfSet("str")) @@ [k \in {"count", "startIndex"} |-> IfNotNone("int")], TRUE)) @@
    ("scim.create_user" :> R("POST", <<"scim", "v2", "Users">>)) @@
    ("scim.get_user" :> R("GET", <<"scim", "v2", "Users", ":user_id">>)) @@
    ("scim.replace_user" :> R("PUT", <<"scim", "v2", "Users", ":user_id">>)) @@
    ("scim.patch_user" :> R("PATCH", <<"scim", "v2", "Users", ":user_id">>)) @@
    ("scim.delete_user" :> R("DELETE", <<"scim", "v2", "Users", ":user_id">>))

(* services/scim.py: SCIM groups and tokens, sessions, OIDC providers.     *)
ScimOtherRoutes ==
    ("scim.list_scim_groups" :>
        RQ("GET", <<"scim", "v2", "Groups">>,
           ("filter" :> IfSet("str")) @@ [k \in {"count", "startIndex"} |-> IfNotNone("int")], TRUE)) @@
    ("scim.create_scim_group" :> R("POST", <<"scim", "v2", "Groups">>)) @@
    ("scim.get_scim_group" :> R("GET", <<"scim", "v2", "Groups", ":group_id">>)) @@
    ("scim.patch_scim_group" :> R("PATCH", <<"scim", "v2", "Groups", ":group_id">>)) @@
    ("scim.delete_scim_group" :> R("DELETE", <<"scim", "v2", "Groups", ":group_id">>)) @@
    ("scim.list_scim_tokens" :>
        R("GET", <<"api", "organizations", ":org_id", "scim", "tokens">>)) @@
    ("scim.create_scim_token" :>
        R("POST", <<"api", "organizations", ":org_id", "scim", "tokens">>)) @@
    ("scim.revoke_scim_token" :>
        R("DELETE", <<"api", "organizations", ":org_id", "scim", "tokens", ":token_id">>)) @@
    ("scim.list_sessions" :>
        RQ("GET", <<"api", "sessions">>, "user_id" :> IfSet("str"), FALSE)) @@
    ("scim.revoke_session" :> R("DELETE", <<"api", "sessions", ":session_id">>)) @@
    ("scim.revoke_all_sessions" :> R("POST", <<"api", "sessions", "revoke-all">>)) @@
    ("scim.list_oidc_providers" :>
        RQ("GET", <<"api", "oidc", "providers">>, "tenant_id" :> Req, FALSE)) @@
    ("scim.create_oidc_provider" :> R("POST", <<"api", "oidc", "providers">>)) @@
    ("scim.update_oidc_provider" :> R("PATCH", <<"api", "oidc", "providers", ":provider_id">>)) @@
    ("scim.delete_oidc_provider" :> R("DELETE", <<"api", "oidc", "providers", ":provider_id">>)) @@
    ("scim.list_public_providers" :>
        RQ("GET", <<"api", "oidc", "providers", "public">>, "tenant_id" :> Req, FALSE)) @@
    ("scim.list_provider_templates" :> R("GET", <<"api", "oidc", "templates">>)) @@
    ("scim.get_provider_template" :>
        R("GET", <<"api", "oidc", "templates", ":provider_type">>)) @@
    ("scim.sso_check" :> RQ("GET", <<"api", "oidc", "sso-check">>, "email" :> Req, FALSE))

(* services/webhooks.py: WebhookService.                                   *)
WebhookRoutes ==
    ("hooks.create" :> R("POST", <<"api", "organizations", ":org_id", "webhooks">>)) @@
    ("hooks.list" :> R("GET", <<"api", "organizations", ":org_id", "webhooks">>)) @@
    ("hooks.get" :> R("GET", <<"api", "organizations", ":org_id", "webhooks", ":webhook_id">>)) @@
    ("hooks.update" :> R("PUT", <<"api", "organizations", ":org_id", "webhooks", ":webhook_id">>)) @@
    ("hooks.delete" :>
        R("DELETE", <<"api", "organizations", ":org_id", "webhooks", ":webhook_id">>)) @@
    ("hooks.rotate_secret" :>
        R("POST", <<"api", "organizations", ":org_id", "webhooks", ":webhook_id",
                    "rotate-secret">>)) @@
    ("hooks.test" :>
        R("POST", <<"api", "organizations", ":org_id", "webhooks", ":webhook_id", "test">>)) @@
    ("hooks.list_deliveries" :>
        RQ("GET", <<"api", "organizations", ":org_id", "webhooks", ":webhook_id",
                    "deliveries">>, NoQuery, TRUE)) @@
    ("hooks.get_delivery" :>
        R("GET", <<"api", "organizations", ":org_id", "webhooks", ":webhook_id",
                   "deliveries", ":delivery_id">>)) @@
    ("hooks.retry_delivery" :>
        R("POST", <<"api", "organizations", ":org_id", "webhooks", ":webhook_id",
                    "deliveries", ":delivery_id", "retry">>)) @@
    ("hooks.list_event_types" :> R("GET", <<"api", "webhooks", "event-types">>))


Routes ==
    AuthRoutes @@ AdminTenantRoutes @@ AdminActionRoutes @@ TenantRoutes @@
    MfaRoutes @@ ApplicationRoutes @@ AuditRoutes @@ ConnectionRoutes @@
    GroupRoutes @@ OAuth2Routes @@ FgaTupleRoutes @@ FgaModelRoutes @@
    FgaStoreRoutes @@ ScimUserRoutes @@ ScimOtherRoutes @@ WebhookRoutes

Ops == DOMAIN Routes

PathParams(o) ==
    {Routes[o].path[i] : i \in DOMAIN Routes[o].path} \cap ParamNames

(* The query tests of a method: its named query arguments, and the       *)
(* **params it passes through, which are copied into the dict first.      *)
QueryTests(o) ==
    LET q == Routes[o].query
    IN  [k \in DOMAIN q \cup (IF Routes[o].extra THEN {ExtraKey} ELSE {}) |->
           IF k \in DOMAIN q THEN q[k] ELSE Passed]

(* Whether a method puts an argument's key into its query dict.           *)
Added(q, v) ==
    CASE q.test = "truthy"  -> v \notin {"none", "empty", "zero", "false"}
      [] q.test = "notnone" -> v # "none"
      [] OTHER              -> TRUE

(* Mutant: a template written without its f prefix keeps "{name}" as text. *)
PathOf_uninterpolated(o, args) == Routes[o].path

(* The path: the template with each ":name" segment replaced by the        *)
(* segments the argument's text yields.                                    *)
PathOf(o, args) ==
    LET t == Routes[o].path
    IN  FlattenSeq([i \in DOMAIN t |->
                      IF t[i] \in ParamNames THEN args[t[i]] ELSE <<t[i]>>])

(* The query string the method sends: the keys it added, with the text   *)
(* the encoder renders each value as.                                     *)
BuildQuery(o, qargs) ==
    LET T == QueryTests(o)
    IN  {<<k, Encode(qargs[k], Routes[o].enc)>> :
            k \in {j \in DOMAIN T : Added(T[j], qargs[j])}}

(* What HttpClient hands httpx.  Its delete() passes json=, which          *)
(* httpx.Client.delete does not accept: the call raises TypeError before  *)
(* any request is built.                                                   *)
Rejected == [verb |-> "none", path |-> <<>>, query |-> {}]

Dispatch(o, args, qargs) ==
    IF Routes[o].verb = "DELETE"
    THEN Rejected
    ELSE [verb |-> Routes[o].verb, path |-> PathOf(o, args),
          query |-> BuildQuery(o, qargs)]

PathArgs(o) == [PathParams(o) -> Ids]

QueryArgs(o) ==
    LET T == QueryTests(o)
    IN  {f \in [DOMAIN T -> PyValues] : \A k \in DOMAIN T : f[k] \in ArgValues(T[k])}

NoCall == [op |-> "none", args |-> NoQuery, qargs |-> NoQuery]
NoRequest == [verb |-> "none", path |-> <<"none">>, query |-> {}]

-----------------------------------------------------------------------------

Init ==
    /\ call = NoCall
    /\ request = NoRequest

(* A caller invokes facade method o with path arguments and query          *)
(* arguments; the facade builds the request and the transport hands it   *)
(* to httpx, in one step (nothing in between is shared).                   *)
Invoke(o) ==
    /\ call = NoCall
    /\ \E args \in PathArgs(o), qargs \in QueryArgs(o) :
          /\ call' = [op |-> o, args |-> args, qargs |-> qargs]
          /\ request' = Dispatch(o, args, qargs)

(* The call returns (or raises) and the caller is free to call again.     *)
Return ==
    /\ call # NoCall
    /\ call' = NoCall
    /\ request' = NoRequest

Next == (\E o \in Ops : Invoke(o)) \/ Return

Spec == Init /\ [][Next]_vars

-----------------------------------------------------------------------------

Verbs == {"GET", "POST", "PUT", "PATCH", "URL"}

(* Every request is a verb, a path whose segments are all text (no        *)
(* template placeholder left in it) and a query of rendered values.       *)
TypeOK ==
    /\ call.op \in Ops \cup {"none"}
    /\ request \in {NoRequest, Rejected} \cup
                   [verb : Verbs, path : Seq(STRING \ ParamNames),
                    query : SUBSET (STRING \X STRING)]

Sent == request \notin {NoRequest, Rejected}

(* Targets: what each method sends for each choice of path arguments.     *)
Targets ==
    UNION {{[op |-> o, args |-> a, verb |-> Routes[o].verb, path |-> PathOf(o, a)] :
               a \in PathArgs(o)} : o \in Ops}

(* Section 6: every facade method is its own endpoint.  The verb and path *)
(* of a request determine the method that sent it and its path arguments:  *)
(* no two facade methods, and no two argument choices, reach the same      *)
(* endpoint through the f-string path templates.                           *)
RequestIdentifiesCall ==
    Sent =>
      \A x \in Targets :
          x.verb = request.verb /\ x.path = request.path
            => x.op = call.op /\ x.args = call.args

(* Method o guards only str arguments with `if arg:`, where it drops None *)
(* and "" alone; its int and bool optional arguments are tested `if arg   *)
(* is not None:`, so that 0 and False are sent.                            *)
TruthyOnStr(o) ==
    \A k \in DOMAIN Routes[o].query :
        Routes[o].query[k].test = "truthy" => Routes[o].query[k].type = "str"

(* Section 8: an optional named query argument the caller leaves unset     *)
(* (None) is absent from the query, and one the caller sets to a value     *)
(* that is not the empty string (0 and False included) is sent.  This is   *)
(* what `if arg:` versus `if arg is not None:` decides.                    *)
OptionalQueryArgsSentIffSet ==
    Sent =>
      LET T == Routes[call.op].query
          enc == Routes[call.op].enc
      IN  \A k \in {j \in DOMAIN T : T[j].test \in {"truthy", "notnone"}} :
             /\ call.qargs[k] = "none" => \A p \in request.query : p[1] # k
             /\ call.qargs[k] \in {"zero", "false", "text"}
                  => <<k, Encode(call.qargs[k], enc)>> \in request.query

(* Section 8, for every query argument: an argument passed as None,        *)
(* **params included, does not appear in the query string at all.         *)
OmittedQueryArgsAbsent ==
    Sent =>
      \A k \in DOMAIN call.qargs :
          call.qargs[k] = "none" => \A p \in request.query : p[1] # k

(* Section 4.2: each facade method performs its transport call; none is    *)
(* refused by the HTTP library before a request is built.                  *)
EveryCallSendsRequest ==
    call # NoCall => request # Rejected

=============================================================================
