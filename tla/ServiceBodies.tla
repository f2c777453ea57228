--------------------------- MODULE ServiceBodies ---------------------------
(***************************************************************************)
(* The request bodies the facades of services/*.py build, against the     *)
(* request schemas of types/*.py.                                          *)
(*                                                                         *)
(* A facade method builds its JSON (or, in oauth2, form) body in one of    *)
(* three ways, always in this order:                                       *)
(*   1. a dict literal of fixed keys, each the value of a named parameter  *)
(*      (usually of the same name: "flow" takes flow_id, "Operations"      *)
(*      takes operations);                                                 *)
(*   2. `**kwargs` merged into that literal, after the fixed keys, so a    *)
(*      keyword argument of the same name replaces a fixed key; or the     *)
(*      caller's `data` dict passed as the body (connections);             *)
(*   3. `if arg: body["arg"] = arg` for each optional named parameter.     *)
(* webhooks.test passes `json=body or None`: an empty body is no body.     *)
(*                                                                         *)
(* Python refuses a keyword argument named like a parameter of the method  *)
(* (TypeError: multiple values), so **kwargs never holds such a key.       *)
(*                                                                         *)
(* Schemas are [req, opt]: the fields without and with a default.  The    *)
(* values of arguments are abstracted to a few tokens: what matters is     *)
(* which argument a body value came from and whether it is truthy.         *)
(***************************************************************************)
EXTENDS Naturals, FiniteSets, TLC

(* Keys a caller may pass through **kwargs (or its data dict) besides the *)
(* fields of the method's request schema.                                  *)
CONSTANT Extra

(* How many optional keyword arguments one call passes at most.          *)
CONSTANT MaxKwargs

ASSUME ExtraAssumption == Extra \subseteq STRING
ASSUME MaxKwargsAssumption == MaxKwargs \in Nat

VARIABLES
    call,   \* the facade call last made: [op, args, kw]
    body    \* the body handed to the transport for it

vars == <<call, body>>

Schema(req, opt) == [req |-> req, opt |-> opt]

(* The methods that take no request schema of types/.                     *)
NoSchema == Schema({}, {})

-----------------------------------------------------------------------------
(* types/auth.py                                                           *)
RegisterRequest == Schema({"tenant_id", "email", "password"}, {"phone"})
LoginRequest == Schema({"tenant_id", "email", "password"}, {})
HierarchicalLoginRequest == Schema({"email", "password"}, {"organization_slug"})
RefreshTokenRequest == Schema({"refresh_token"}, {})
UpdateProfileRequest ==
    Schema({}, {"first_name", "last_name", "full_name", "phone", "avatar_url",
                "language", "timezone"})
ChangePasswordRequest == Schema({"current_password", "new_password"}, {})
PasswordlessStartRequest == Schema({"method", "email"}, {})
PasswordlessVerifyRequest == Schema({"token_or_code"}, {})

(* types/admin.py                                                          *)
CreateRegistryTenantRequest == Schema({"slug", "name"}, {"isolation_mode"})
ConfigureDedicatedDbRequest == Schema({"connection_string"}, {})
CreateActionRequest ==
    Schema({"name", "trigger_type", "code"},
           {"description", "runtime", "timeout_seconds", "secrets", "execution_order"})
UpdateActionRequest ==
    Schema({}, {"name", "description", "code", "runtime", "timeout_seconds",
                "secrets", "execution_order", "is_enabled"})
UpdateRateLimitRequest == Schema({}, {"data"})
UpdateTokenClaimsRequest == Schema({}, {"data"})

(* types/applications.py                                                   *)
CreateApplicationRequest ==
    Schema({"tenant_id", "name"},
           {"description", "application_type", "redirect_uris", "allowed_scopes", "metadata"})
CreateOAuthAppRequest ==
    Schema({"name"},
           {"slug", "description", "logo_url", "app_type", "callback_urls",
            "logout_urls", "web_origins", "access_token_lifetime_seconds",
            "refresh_token_lifetime_seconds", "grant_types", "allowed_scopes",
            "organization_id"})
UpdateApplicationRequest ==
    Schema({}, {"name", "description", "redirect_uris", "allowed_scopes",
                "is_active", "metadata"})
UpdateEmailTemplateRequest == Schema({}, {"subject", "html_body", "text_body"})
AuthenticateAppRequest == Schema({"client_id", "client_secret"}, {})

(* types/connections.py                                                    *)
CreateConnectionRequest == Schema({"name", "connection_type"}, {"config"})
UpdateConnectionRequest == Schema({}, {"name", "config", "is_enabled"})

(* types/fga.py                                                            *)
TupleFields == {"tenant_id", "namespace", "object_id", "relation",
                "subject_type", "subject_id"}
CreateTupleRequest == Schema(TupleFields, {"subject_relation"})
QueryTuplesRequest ==
    Schema({"tenant_id"}, TupleFields \ {"tenant_id"})
CheckRequest == Schema(TupleFields, {"context"})
ForwardAuthRequest == Schema(TupleFields, {})
CreateStoreRequest == Schema({"name"}, {"description"})
UpdateStoreRequest == Schema({}, {"name", "description", "is_active"})
WriteModelRequest == Schema({"schema"}, {})
CreateApiKeyRequest ==
    Schema({"name"}, {"permissions", "rate_limit_per_minute", "expires_at"})
WriteTuplesRequest == Schema({}, {"writes", "deletes"})

(* types/groups.py                                                         *)
CreateGroupRequest == Schema({"name"}, {"description", "external_id"})
UpdateGroupRequest == Schema({}, {"name", "description"})
AddGroupMemberRequest == Schema({"user_id"}, {"role"})
UpdateGroupMemberRequest == Schema({"role"}, {})
AssignGroupRoleRequest == Schema({"role_id"}, {})
CreateInvitationRequest ==
    Schema({"email"}, {"role_id", "metadata", "expires_in_days"})
AcceptInvitationRequest == Schema({"token", "password", "full_name"}, {"metadata"})

(* types/mfa.py                                                            *)
VerifyMfaRequest == Schema({"code"}, {})
EnrollSmsRequest == Schema({"phone_number"}, {})
EnrollWithTokenRequest == Schema({"enrollment_token"}, {})
VerifyWithTokenRequest == Schema({"enrollment_token", "code"}, {})

(* types/oauth2.py                                                         *)
TokenRequest ==
    Schema({"grant_type"},
           {"code", "redirect_uri", "client_id", "client_secret", "code_verifier",
            "refresh_token", "scope", "audience"})
IntrospectionRequest == Schema({"token"}, {"token_type_hint"})
RevocationRequest == Schema({"token"}, {"token_type_hint"})

(* types/scim.py                                                           *)
CreateScimUserRequest ==
    Schema({"user_name", "name"},
           {"schemas", "external_id", "display_name", "emails", "phone_numbers",
            "active", "password"})
CreateScimGroupRequest ==
    Schema({"display_name"}, {"schemas", "external_id", "members"})
ScimPatchRequest == Schema({}, {"schemas", "operations"})
CreateScimTokenRequest == Schema({"name"}, {"expires_at"})
CreateOidcProviderRequest ==
    Schema({"tenant_id", "name", "provider_type", "issuer", "client_id",
            "client_secret", "authorization_endpoint", "token_endpoint", "jwks_uri"},
           {"userinfo_endpoint", "scopes", "groups_claim", "group_role_mappings",
            "allowed_group_id"})
UpdateOidcProviderRequest ==
    Schema({}, {"is_enabled", "name", "client_id", "client_secret"})

(* types/tenants.py                                                        *)
CreateTenantRequest ==
    Schema({"name", "slug", "admin_email", "admin_password"},
           {"admin_full_name", "account_type", "isolation_mode"})
UpdateSecuritySettingsRequest ==
    Schema({}, {"mfa_required", "password_min_length", "max_login_attempts",
                "lockout_duration_minutes", "session_timeout_hours",
                "require_email_verification", "password_require_uppercase",
                "password_require_lowercase", "password_require_number",
                "password_require_special", "enforce_sso"})
UpdateBrandingRequest ==
    Schema({}, {"logo_url", "primary_color", "favicon_url", "custom_css", "app_name",
                "background_color", "terms_url", "privacy_url", "support_url"})
UpdateUserRoleRequest == Schema({"role"}, {})

(* types/webhooks.py                                                       *)
CreateWebhookRequest ==
    Schema({"name", "url"}, {"events", "is_enabled", "retry_policy", "custom_headers"})
UpdateWebhookRequest ==
    Schema({}, {"name", "url", "events", "is_enabled", "retry_policy", "custom_headers"})
TestWebhookRequest == Schema({}, {"event_type"})

-----------------------------------------------------------------------------
(* How a method builds its body: the schema it sends, its path parameters *)
(* (names Python keeps out of **kwargs), the fixed keys with the parameter *)
(* each is taken from, the optional parameters added under `if arg:`, and *)
(* where the caller's extra keys come from: nowhere, **kwargs, or a data   *)
(* dict.  orNone is `json=body or None`.                                   *)
Method(schema, path, fixed, opt, kw) ==
    [schema |-> schema, path |-> path, fixed |-> fixed, opt |-> opt,
     kw |-> kw, orNone |-> FALSE]

(* Fixed keys named like the parameter they are taken from.               *)
Same(S) == [k \in S |-> k]
NoFixed == Same({})

AuthBodies ==
    ("auth.register" :> Method(RegisterRequest, {},
        Same({"tenant_id", "email", "password"}), {"phone"}, "none")) @@
    ("auth.login" :> Method(LoginRequest, {},
        Same({"tenant_id", "email", "password"}), {}, "none")) @@
    ("auth.login_hierarchical" :> Method(HierarchicalLoginRequest, {},
        Same({"email", "password"}), {"organization_slug"}, "none")) @@
    ("auth.refresh_token" :> Method(RefreshTokenRequest, {},
        Same({"refresh_token"}), {}, "none")) @@
    ("auth.update_profile" :> Method(UpdateProfileRequest, {}, NoFixed, {}, "kwargs")) @@
    ("auth.change_password" :> Method(ChangePasswordRequest, {},
        Same({"current_password", "new_password"}), {}, "none")) @@
    ("auth.forgot_password" :> Method(NoSchema, {},
        Same({"tenant_id", "email"}), {}, "none")) @@
    ("auth.reset_password" :> Method(NoSchema, {},
        Same({"token", "new_password"}), {}, "none")) @@
    ("auth.passwordless_start" :> Method(PasswordlessStartRequest, {"tenant_id"},
        Same({"method", "email"}), {}, "none")) @@
    ("auth.passwordless_verify" :> Method(PasswordlessVerifyRequest, {"tenant_id"},
        Same({"token_or_code"}), {}, "none")) @@
    ("auth.passwordless_resend" :> Method(NoSchema, {"tenant_id"}, NoFixed, {}, "kwargs")) @@
    ("auth.submit_login_flow" :> Method(NoSchema, {},
        "flow" :> "flow_id", {}, "kwargs")) @@
    ("auth.submit_registration_flow" :> Method(NoSchema, {},
        "flow" :> "flow_id", {}, "kwargs"))

AdminBodies ==
    ("admin.create_tenant" :> Method(CreateRegistryTenantRequest, {},
        Same({"slug", "name"}), {"isolation_mode"}, "none")) @@
    ("admin.configure_database" :> Method(ConfigureDedicatedDbRequest, {"tenant_id"},
        Same({"connection_string"}), {}, "none")) @@
    ("admin.create_action" :> Method(CreateActionRequest, {"org_id"},
        Same({"name", "trigger_type", "code"}), {}, "kwargs")) @@
    ("admin.update_action" :> Method(UpdateActionRequest, {"org_id", "action_id"},
        NoFixed, {}, "kwargs")) @@
    ("admin.test_action" :> Method(NoSchema, {"org_id", "action_id"}, NoFixed, {}, "kwargs")) @@
    ("admin.update_rate_limits" :> Method(UpdateRateLimitRequest, {"tenant_id"},
        NoFixed, {}, "kwargs")) @@
    ("admin.update_token_claims" :> Method(UpdateTokenClaimsRequest, {"tenant_id", "app_id"},
        NoFixed, {}, "kwargs"))

TenantBodies ==
    ("tenants.create" :> Method(CreateTenantRequest, {},
        Same({"name", "slug", "admin_email", "admin_password"}), {"admin_full_name"},
        "kwargs")) @@
    ("tenants.update_user_role" :> Method(UpdateUserRoleRequest, {"tenant_id", "user_id"},
        Same({"role"}), {}, "none")) @@
    ("tenants.update_security" :> Method(UpdateSecuritySettingsRequest, {"org_id"},
        NoFixed, {}, "kwargs")) @@
    ("tenants.update_branding" :> Method(UpdateBrandingRequest, {"org_id"},
        NoFixed, {}, "kwargs"))

ApplicationBodies ==
    ("applications.create" :> Method(CreateApplicationRequest, {},
        Same({"tenant_id", "name", "application_type", "redirect_uris", "allowed_scopes"}),
        {}, "kwargs")) @@
    ("applications.update" :> Method(UpdateApplicationRequest, {"app_id", "tenant_id"},
        NoFixed, {}, "kwargs")) @@
    ("applications.authenticate" :> Method(AuthenticateAppRequest, {},
        Same({"client_id", "client_secret"}), {}, "none")) @@
    ("applications.create_oauth_app" :> Method(CreateOAuthAppRequest, {"org_id"},
        Same({"name", "slug", "app_type", "callback_urls"}), {}, "kwargs")) @@
    ("applications.update_oauth_app" :> Method(NoSchema, {"org_id", "app_id"},
        NoFixed, {}, "kwargs")) @@
    ("applications.update_email_template" :> Method(UpdateEmailTemplateRequest,
        {"org_id", "template_type"}, NoFixed, {}, "kwargs")) @@
    ("applications.preview_email_template" :> Method(NoSchema,
        {"org_id", "template_type"}, NoFixed, {}, "kwargs"))

FgaBodies ==
    ("fga.create_tuple" :> Method(CreateTupleRequest, {},
        Same(TupleFields), {"subject_relation"}, "none")) @@
    ("fga.delete_tuple" :> Method(NoSchema, {}, NoFixed, {}, "kwargs")) @@
    ("fga.query_tuples" :> Method(QueryTuplesRequest, {},
        Same({"tenant_id"}), {}, "kwargs")) @@
    ("fga.check" :> Method(CheckRequest, {}, Same(TupleFields), {"context"}, "none")) @@
    ("fga.forward_auth" :> Method(ForwardAuthRequest, {}, NoFixed, {}, "kwargs")) @@
    ("fga.create_store" :> Method(CreateStoreRequest, {},
        Same({"name"}), {"description"}, "none")) @@
    ("fga.update_store" :> Method(UpdateStoreRequest, {"store_id"}, NoFixed, {}, "kwargs")) @@
    ("fga.write_model" :> Method(WriteModelRequest, {"store_id"},
        Same({"schema"}), {"created_by"}, "none")) @@
    ("fga.create_api_key" :> Method(CreateApiKeyRequest, {"store_id"},
        Same({"name", "permissions"}), {}, "kwargs")) @@
    ("fga.store_check" :> Method(NoSchema, {"store_id"}, NoFixed, {}, "kwargs")) @@
    ("fga.write_store_tuples" :> Method(WriteTuplesRequest, {"store_id"},
        NoFixed, {}, "kwargs"))

GroupBodies ==
    ("groups.create" :> Method(CreateGroupRequest, {"tenant_id"},
        Same({"name"}), {}, "kwargs")) @@
    ("groups.update" :> Method(UpdateGroupRequest, {"tenant_id", "group_id"},
        NoFixed, {}, "kwargs")) @@
    ("groups.add_member" :> Method(AddGroupMemberRequest, {"tenant_id", "group_id"},
        Same({"user_id"}), {"role"}, "none")) @@
    ("groups.update_member" :> Method(UpdateGroupMemberRequest,
        {"tenant_id", "group_id", "user_id"}, NoFixed, {}, "kwargs")) @@
    ("groups.assign_role" :> Method(AssignGroupRoleRequest, {"tenant_id", "group_id"},
        Same({"role_id"}), {}, "none")) @@
    ("groups.create_invitation" :> Method(CreateInvitationRequest, {"tenant_id"},
        Same({"email"}), {}, "kwargs")) @@
    ("groups.accept_invitation" :> Method(AcceptInvitationRequest, {},
        Same({"token", "password", "full_name"}), {"metadata"}, "none"))

(* Mutant: verify_totp_with_token forgets the code in its dict literal.    *)
MfaBodies_dropped_code ==
    ("mfa.verify_totp" :> Method(VerifyMfaRequest, {"method_id"}, Same({"code"}), {}, "none")) @@
    ("mfa.enroll_sms" :> Method(EnrollSmsRequest, {}, Same({"phone_number"}), {}, "none")) @@
    ("mfa.verify_sms" :> Method(VerifyMfaRequest, {"method_id"}, Same({"code"}), {}, "none")) @@
    ("mfa.enroll_totp_with_token" :> Method(EnrollWithTokenRequest, {},
        Same({"enrollment_token"}), {}, "none")) @@
    ("mfa.verify_totp_with_token" :> Method(VerifyWithTokenRequest, {"method_id"},
        Same({"enrollment_token"}), {}, "none"))

MfaBodies ==
    ("mfa.verify_totp" :> Method(VerifyMfaRequest, {"method_id"}, Same({"code"}), {}, "none")) @@
    ("mfa.enroll_sms" :> Method(EnrollSmsRequest, {}, Same({"phone_number"}), {}, "none")) @@
    ("mfa.verify_sms" :> Method(VerifyMfaRequest, {"method_id"}, Same({"code"}), {}, "none")) @@
    ("mfa.enroll_totp_with_token" :> Method(EnrollWithTokenRequest, {},
        Same({"enrollment_token"}), {}, "none")) @@
    ("mfa.verify_totp_with_token" :> Method(VerifyWithTokenRequest, {"method_id"},
        Same({"enrollment_token", "code"}), {}, "none"))

(* The form bodies of post_form.                                           *)
OAuth2Bodies ==
    ("oauth2.token" :> Method(TokenRequest, {}, Same({"grant_type"}), {}, "kwargs")) @@
    ("oauth2.revoke" :> Method(RevocationRequest, {},
        Same({"token"}), {"token_type_hint"}, "none")) @@
    ("oauth2.introspect" :> Method(IntrospectionRequest, {},
        Same({"token"}), {"token_type_hint"}, "none"))

ScimBodies ==
    ("scim.create_user" :> Method(CreateScimUserRequest, {}, NoFixed, {}, "kwargs")) @@
    ("scim.replace_user" :> Method(NoSchema, {"user_id"}, NoFixed, {}, "kwargs")) @@
    ("scim.patch_user" :> Method(ScimPatchRequest, {"user_id"},
        "Operations" :> "operations", {}, "none")) @@
    ("scim.create_scim_group" :> Method(CreateScimGroupRequest, {}, NoFixed, {}, "kwargs")) @@
    ("scim.patch_scim_group" :> Method(ScimPatchRequest, {"group_id"},
        "Operations" :> "operations", {}, "none")) @@
    ("scim.create_scim_token" :> Method(CreateScimTokenRequest, {"org_id"},
        Same({"name"}), {"expires_at"}, "none")) @@
    ("scim.create_oidc_provider" :> Method(CreateOidcProviderRequest, {},
        NoFixed, {}, "kwargs")) @@
    ("scim.update_oidc_provider" :> Method(UpdateOidcProviderRequest, {"provider_id"},
        NoFixed, {}, "kwargs"))

WebhookBodies ==
    ("webhooks.create" :> Method(CreateWebhookRequest, {"org_id"},
        Same({"name", "url", "events", "is_enabled"}), {}, "kwargs")) @@
    ("webhooks.update" :> Method(UpdateWebhookRequest, {"org_id", "webhook_id"},
        NoFixed, {}, "kwargs")) @@
    ("webhooks.test" :>
        [Method(TestWebhookRequest, {"org_id", "webhook_id"}, NoFixed, {"event_type"}, "none")
            EXCEPT !.orNone = TRUE])

(* The connections facade passes the caller's data dict as the body.      *)
ConnectionBodies ==
    ("connections.create" :> Method(CreateConnectionRequest, {"org_id"},
        NoFixed, {}, "dict")) @@
    ("connections.update" :> Method(UpdateConnectionRequest, {"org_id", "connection_id"},
        NoFixed, {}, "dict")) @@
    ("connections.create_platform" :> Method(CreateConnectionRequest, {},
        NoFixed, {}, "dict"))

-----------------------------------------------------------------------------
Bodies ==
    AuthBodies @@ AdminBodies @@ TenantBodies @@ ApplicationBodies @@ FgaBodies @@
    GroupBodies @@ MfaBodies @@ OAuth2Bodies @@ ScimBodies @@ WebhookBodies @@
    ConnectionBodies

Ops == DOMAIN Bodies

Fields(s) == s.req \cup s.opt

(* The names of the method's parameters.                                  *)
Params(o) ==
    LET m == Bodies[o]
    IN  {m.fixed[k] : k \in DOMAIN m.fixed} \cup m.opt \cup m.path

(* The keys a caller may pass beyond the named parameters: **kwargs cannot *)
(* repeat a parameter's name, a data dict can hold any key.               *)
ExtraKeys(o) ==
    LET m == Bodies[o]
        K == Fields(m.schema) \cup Extra
    IN  CASE m.kw = "kwargs" -> K \ Params(o)
          [] m.kw = "dict"   -> K
          [] OTHER           -> {}

(* The tables name keys, parameters and schema fields by strings.        *)
ASSUME TablesTyped ==
    \A o \in Ops :
        DOMAIN Bodies[o].fixed \cup Bodies[o].opt \cup Fields(Bodies[o].schema)
            \subseteq STRING

(* Abstract argument values: two distinct texts, and for an optional      *)
(* parameter also None and the empty string.                               *)
ArgValues == {"v1", "v2"}
OptValues == {"none", "empty", "v1"}
Truthy(v) == v \notin {"none", "empty"}

(* The arguments of a call to o: its named parameters, and extra keys      *)
(* that include the schema's required fields the parameters do not        *)
(* supply and at most MaxKwargs others.                                    *)
NamedArgs(o) ==
    LET m == Bodies[o]
        F == {m.fixed[k] : k \in DOMAIN m.fixed}
    IN  {a \in [F \cup m.opt -> ArgValues \cup OptValues] :
            /\ \A p \in F : a[p] \in ArgValues
            /\ \A p \in m.opt : a[p] \in OptValues}

KwArgs(o) ==
    LET K == ExtraKeys(o)
        R == Bodies[o].schema.req \cap K
    IN  UNION {[R \cup E -> ArgValues] :
                  E \in {E \in SUBSET (K \ R) : Cardinality(E) <= MaxKwargs}}

(* What the transport is handed: no body (json=None), or a JSON/form dict. *)
NoBody == [present |-> FALSE, fields |-> NoFixed]
Sent(d) == [present |-> TRUE, fields |-> d]

(* Mutant: the optional parameters are assigned without `if arg:`.       *)
BuildBody_unguarded(o, a, kw) ==
    LET m == Bodies[o]
        keys == DOMAIN m.fixed \cup DOMAIN kw \cup m.opt
    IN  Sent([k \in keys |->
                IF k \in m.opt THEN a[k]
                ELSE IF k \in DOMAIN kw THEN kw[k]
                ELSE a[m.fixed[k]]])

(* Mutant: the dict literal forgets to merge **kwargs.                     *)
BuildBody_kwargs_dropped(o, a, kw) ==
    LET m == Bodies[o]
        set == {p \in m.opt : Truthy(a[p])}
    IN  Sent([k \in DOMAIN m.fixed \cup set |->
                IF k \in set THEN a[k] ELSE a[m.fixed[k]]])

(* The body the method builds: the fixed keys, then the extra keys over   *)
(* them, then each optional parameter that is truthy; `body or None`.     *)
BuildBody(o, a, kw) ==
    LET m == Bodies[o]
        set == {p \in m.opt : Truthy(a[p])}
        keys == DOMAIN m.fixed \cup DOMAIN kw \cup set
        b == [k \in keys |->
                IF k \in set THEN a[k]
                ELSE IF k \in DOMAIN kw THEN kw[k]
                ELSE a[m.fixed[k]]]
    IN  IF m.orNone /\ keys = {} THEN NoBody ELSE Sent(b)

NoCall == [op |-> "none", args |-> NoFixed, kw |-> NoFixed]

-----------------------------------------------------------------------------
Init ==
    /\ call = NoCall
    /\ body = NoBody

(* A caller invokes method o; it builds the body and hands it to the      *)
(* transport in one step.                                                  *)
Invoke(o) ==
    /\ call = NoCall
    /\ \E a \in NamedArgs(o), kw \in KwArgs(o) :
          /\ call' = [op |-> o, args |-> a, kw |-> kw]
          /\ body' = BuildBody(o, a, kw)

(* The call returns and the caller may call again.                        *)
Return ==
    /\ call # NoCall
    /\ call' = NoCall
    /\ body' = NoBody

Next == (\E o \in Ops : Invoke(o)) \/ Return

Spec == Init /\ [][Next]_vars

-----------------------------------------------------------------------------
Keys(b) == IF b.present THEN DOMAIN b.fields ELSE {}

(* A body is no body, or a dict of field names to argument values.        *)
TypeOK ==
    /\ call.op \in Ops \cup {"none"}
    /\ body.present \in BOOLEAN
    /\ DOMAIN body.fields \subseteq STRING
    /\ \A k \in DOMAIN body.fields : body.fields[k] \in ArgValues

(* The sources of keys of method o are disjoint: no key a caller may pass *)
(* beyond the named parameters (through **kwargs or a data dict) is a     *)
(* fixed key of the dict literal or an optional parameter, and no         *)
(* optional parameter is also a fixed key.                                 *)
KeysDisjoint(o) ==
    /\ ExtraKeys(o) \cap (DOMAIN Bodies[o].fixed \cup Bodies[o].opt) = {}
    /\ DOMAIN Bodies[o].fixed \cap Bodies[o].opt = {}

(* Every required field of o's request schema is a fixed key of its dict *)
(* literal or a key its caller may pass.                                   *)
RequiredCovered(o) ==
    Bodies[o].schema.req \subseteq DOMAIN Bodies[o].fixed \cup ExtraKeys(o)

(* Section 4.2: a body is "assembled from the call's named arguments" and  *)
(* omits a field only if it is not supplied.  Each fixed key of the dict   *)
(* literal carries the argument of its parameter, each keyword argument    *)
(* its own value, an optional parameter left as None is absent and one     *)
(* set to a text is sent; no other key appears.  This is about the order   *)
(* of the dict literal, the **kwargs merge and the `if arg:` assignments.  *)
BodyReflectsCall ==
    call # NoCall =>
      LET m == Bodies[call.op]
          a == call.args
          kw == call.kw
      IN  /\ \A k \in DOMAIN m.fixed : k \in Keys(body) /\ body.fields[k] = a[m.fixed[k]]
          /\ \A k \in DOMAIN kw : k \in Keys(body) /\ body.fields[k] = kw[k]
          /\ \A p \in m.opt :
                /\ a[p] = "none" => p \notin Keys(body)
                /\ a[p] = "v1" => p \in Keys(body) /\ body.fields[p] = a[p]
          /\ Keys(body) \subseteq DOMAIN m.fixed \cup DOMAIN kw \cup m.opt

(* The request schemas of types/ describe the bodies: a call that passes  *)
(* the schema's required fields its parameters do not cover sends every    *)
(* required field of the schema.                                           *)
RequiredFieldsSent ==
    call # NoCall => Bodies[call.op].schema.req \subseteq Keys(body)

(* ... and a caller who passes only schema fields gets a body whose keys   *)
(* are all fields of the method's schema.                                  *)
FieldsWithinSchema ==
    call # NoCall /\ Bodies[call.op].schema # NoSchema =>
      Keys(body) \subseteq Fields(Bodies[call.op].schema)

=============================================================================
