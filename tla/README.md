# Formal models of the CoreAuth Python SDK

TLA+ models, TLC runs and TLAPS proofs for `src/sdk/python/coreauth/`.

## The system

| Part | Source | What it is |
|---|---|---|
| Transport | `_http.py` (`HttpClient`) | The one stateful object: a mutable bearer token (`_token`), an `httpx.Client` with a 30 s timeout, header construction (`_headers`, `_form_headers`), one method per verb and the response classifier `_handle_response`. |
| Exceptions | `exceptions.py` | `CoreAuthError` and `ApiError` with its six status subclasses: the outcomes of a call. |
| Client aggregator | `client.py` | `CoreAuthClient` owns one `HttpClient` and twelve facades. `set_token`, `clear_token`, `close` and `__exit__` delegate to the transport. |
| Service facades | `services/*.py` | Stateless. Each method builds a verb, an f-string path and a query or body, then makes one transport call. |
| Types | `types/*.py` | Pydantic schemas. The facades never instantiate them; the `*Request` classes describe the bodies the facades send, so they are modelled as schemas (required and defaulted fields) to compare bodies against. |

How they interact: callers, possibly several threads, call facade methods. Each method ends in `HttpClient.get/post/post_form/put/patch/delete`, and that method:
1. reads the token to build the headers;
2. hands the request to httpx;
3. classifies the response.

`set_token`, `clear_token` and `close` act on the same transport at any moment.

## Modules

- **`HttpTransport`** models the transport with caller threads. Its variables:
  - `token`: `_token`;
  - `pool`: the httpx client, unopened, opened or closed;
  - per thread, `pc` (the point of a call), `hdr` (the header built) and `result` (what the call returned or raised).

  Its actions:
  - `Call`: the verb method enters and `_headers` tests `if self._token:`;
  - `Format`: the f-string reads `_token` again;
  - `Send`: the httpx call, which raises `RuntimeError` on a closed client. httpx's own check of the client's state and its marking the client opened are one step here, because httpx is not part of this repository;
  - `Receive`: a transport error becomes `CoreAuthError`, otherwise `_handle_response` classifies the response;
  - `set_token`, `clear_token` and `close` (`CoreAuthClient.close` and `__exit__`).

  `handle_response`, `error_map` and `ErrorFields` translate `_handle_response` line by line. Statuses and bodies are abstracted to five shapes: empty, a JSON object, an object missing fields, JSON that is not an object, and text that is not JSON.

  The threads run `get`, `post`, `post_form`, `put` and `patch`. `delete` raises `TypeError` at its httpx call before anything is sent. `ServiceRequests.Dispatch` models it, and the `delete_rejected` run shows it, so the transport's properties and its refinement cover the other five verbs.

  The constant `SerializedTokenUpdates` says whether callers serialize token updates against header construction, as spec section 5 asks of them.
- **`TransportSpec`** is the abstract transport of spec.md section 4.1. A call is two atomic steps:
  - `Begin`: the header is `Bearer <credential>` iff a credential is set;
  - `Finish`: the outcome the status table gives, a connectivity error, or a failure on a closed client.
- **`ServiceRequests`** models the facades. One table per facade file (or per section of a large file) gives each method:
  - its verb;
  - its path template, where `":name"` marks a path argument;
  - its query arguments, each with its test (unconditional, `if arg:`, or `if arg is not None:`) and its Python type;
  - whether `**params` passes through.

  `PathOf` interpolates the arguments. An argument is given as the segments its text yields, so `"a/b"` is two segments. `BuildQuery` assembles the query dict. `Encode` renders its values the way httpx does (`None` becomes `""`, `False` becomes `"false"`) or the way `urlencode` does for `authorize` (`"None"`, `"False"`). `Dispatch` is the verb method: `delete` is refused because `httpx.Client.delete` takes no `json=`.

  The state is the call just made and the request it produced. `Invoke(o)` makes one call; `Return` ends it.
- **`ServiceBodies`** models how the facades build JSON and form bodies. One definition per `*Request` class of `types/` gives its required and defaulted fields. One table per facade file gives each body-sending method:
  - its schema;
  - its fixed keys, each with the parameter it is taken from (`"flow"` <- `flow_id`, `"Operations"` <- `operations`; every other key is named like its parameter);
  - its optional parameters, assigned under `if arg:`;
  - how extra keys arrive: none, `**kwargs` (which Python refuses to name like a parameter), or a `data` dict;
  - whether it sends `body or None` (`webhooks.test`).

  `BuildBody` is the common construction: the dict literal, `**kwargs` merged after it (so an extra key overrides a fixed one), then the `if arg:` assignments. A body is a record: `present` is FALSE for `json=None`. The constant `Extra` holds the keys a caller may pass beyond the schema's fields; `MaxKwargs` bounds how many. Argument values are abstracted to two texts, and for optional parameters also `None` and `""`. The assumption `TablesTyped` says the tables name keys and fields by strings; it has no constants, so TLC checks it completely on every run.

  Two conditions on a method's table entry state what the body properties rest on:
  - `KeysDisjoint(o)`: no extra key a caller may pass is a fixed key or an optional parameter, and no optional parameter is a fixed key;
  - `RequiredCovered(o)`: every required schema field is a fixed key or a key the caller may pass.

  They are hypotheses of the theorems in `ServiceBodiesProofs`, not runs of their own. A table entry that broke `KeysDisjoint` would make some explored call fail `BodyReflectsCall`. One that broke `RequiredCovered` would leave a required field unsent in some explored call, failing `RequiredFieldsSent`. So the passing `service_bodies` run shows that every method meets both conditions.
- **`HttpTransportProofs`**, **`ServiceBodiesProofs`** and **`ServiceRequestsProofs`** hold the TLAPS proofs.
- **`MCHttpTransport`**, **`MCServiceRequests`** and **`MCServiceBodies`** hold the constants for TLC.

## Runs

| Run | Cfg | Expect | Shows |
|---|---|---|---|
| transport | MCHttpTransport.cfg | pass | With 2 threads, 2 tokens, 10 statuses (every mapped one plus 200, 204, 301 and 500) and all body shapes, and token updates serialized: `AuthHeaderCarriesSetToken`, `UntypedFailureOnlyAfterClose` (a thread holds httpx's `RuntimeError` only while the client is closed, never when it is unopened), and `TransportRefinement` (the transport implements `TransportSpec`). About 19.5k states. |
| header_race | MCHeaderRace.cfg | violation | Unserialized `clear_token` between `Call` and `Format` sends `Bearer None`. |
| empty_token | MCEmptyToken.cfg | violation | `set_token("")`: the code sends no header while a credential is set, so the refinement fails. |
| closed_client | MCClosedClient.cfg | violation | A call after `close` raises `RuntimeError`, which is not a `CoreAuthError` (`FailuresAreTyped`). |
| services | MCServiceRequests.cfg | pass | With two ordinary ids, every request identifies its method and path arguments (`RequestIdentifiesCall`). Optional query arguments are sent iff set (`OptionalQueryArgsSentIffSet`). |
| path_literal_id | MCPathLiteralId.cfg | violation | `get_tenant("stats")` sends `get_stats`'s request (likewise `executions`, `current`, `auth-methods`). |
| path_slash_id | MCPathSlashId.cfg | violation | `groups.get(t, "g/members")` sends `list_members(t, "g")`. |
| none_query_arg | MCNoneQueryArg.cfg | violation | `**params` values of `None` appear as `x=` (httpx) or `x=None` (`authorize`). |
| delete_rejected | MCDeleteRejected.cfg | violation | Every DELETE method raises `TypeError` before sending. |
| service_bodies | MCServiceBodies.cfg | pass | With every argument set, unset or empty, and at most one extra key (a schema field or an unrelated key `x`): every body carries each fixed argument, each extra key, exactly the truthy optional arguments, and nothing else (`BodyReflectsCall`). Every required field of the request schema is sent (`RequiredFieldsSent`). About 9k states. |
| flow_override | MCFlowOverride.cfg | violation | `submit_login_flow(f, flow=g)` sends `"flow": g`: the `**kwargs` merge overrides the fixed key, which is not named like its parameter. |
| schema_fields | MCSchemaFields.cfg | violation | `write_model` sends `created_by`, which `WriteModelRequest` lacks. The SCIM patch methods send `Operations`, where `ScimPatchRequest` says `operations` (`FieldsWithinSchema`). |

Each property of a passing run has a mutant in PROJECT.json: a plausible bug in a mapped definition that TLC detects.

**Bounds.** Two threads are enough for every interleaving of one caller against another: the token cell and the client are the only shared state, and each is written by single steps. Two tokens distinguish "a token" from "the token set last". The status set covers each branch of `_handle_response`: 204, another 2xx, a redirect, each `error_map` key and an unmapped 5xx. For the facades, two ids are enough for injectivity because path arguments are compared pairwise. The violation configs add just the ids that expose a collision. For bodies, one extra key is enough: a second one cannot override anything the first cannot. Three argument values (None, empty, a text) separate the `if arg:` test from `is not None`.

**Fairness.** None is assumed, and no liveness property is checked. A running Python thread does keep being scheduled. But `Timeout(30.0)` in `HttpClient.__init__` (`_http.py:27`) bounds each connect, read and write of httpx, not a whole request. So a server that trickles its answer keeps a call open, and the code guarantees no progress that a run could check. Fairness on `Format` and `Send` alone would only restate that those steps have no guard.

## Proofs (checked by tlapm)

### `HttpTransportProofs`


- `TypeCorrect`: `Spec => []TypeOK` for every value of the constants. It rests on:
  - the lemmas `ValueTypes` and `HandleResponseType` (every outcome `_handle_response` produces is well typed);
  - `TypeStep`, one step per action;
  - `InitType`.
- `HeaderSafety`: under `SerializedTokenUpdates`, `Spec => []AuthHeaderCarriesSetToken`. The invariant alone is not inductive, because a thread in `Format` reads the token again. The strengthening `IInv` adds `FormatSeesToken`: a thread between the test and the f-string sees a truthy token, which holds because updates wait for it. `IInvInit` and `IInvStep` (one step per action) give the induction.
- `Refinement`: under `SerializedTokenUpdates` and `EmptyStr \notin Tokens`, `Spec => TransportRefinement`, so `HttpTransport` implements `TransportSpec` for every value of the constants. The argument:
  - `RefinementInit` maps the initial state to an initial state;
  - `RefinementStep` maps each step, given `IInv`, to an abstract step or a stutter:
    - `Call` with a falsy token is `Begin` with no header. `Call` with a truthy token stutters.
    - `Format` is `Begin`, and `FormatSeesToken` says the header it builds is `Bearer` of the credential.
    - `Send` on an open client stutters. `Send` on a closed client is `Finish` with the closed-client error.
    - `Receive` is `Finish`. The token updates are `SetCredential` and `ClearCredential`, and `close` is `Close`.
  - `HandleResponseMeetsSpec` shows that `handle_response` returns `SpecOutcome` for every status and body. It rests on `ErrorMapIsKindOf`.

  The empty-token assumption is needed: `empty_token` shows the refinement fails without it. `SpecOutcome`'s `CASE` arms are mutually exclusive, so its value is determined for the prover as it is for TLC.

- `UntypedFailureNeedsClose`: `Spec => []UntypedFailureOnlyAfterClose`, for every value of the constants. It bounds the `closed_client` finding: httpx's `RuntimeError` can only come from a client that `close` has shut, never from one not yet opened. (`delete`'s `TypeError` is the other untyped failure; see `delete_rejected`.) The argument relies on `Send` being one step, as modelled. The invariant is inductive together with `TypeOK`, and `UntypedStep` has one case per action. `Send` writes the `RuntimeError` only in its closed branch. Every other step that writes a result writes a typed one; for `Receive`, the lemma `HandleResponseTyped` shows this. No step moves the pool out of `closed`.

### `ServiceBodiesProofs` and `ServiceRequestsProofs`

The facade tables are built with `:>` and `@@`, which the provers cannot unfold. So each theorem proves the construction correct for *any* table, under a named condition on the table. A passing run checks that condition for the method being called, and so for every method. A mutant shows TLC catches a table entry that breaks it.

- `KwargsOverrideOnlyRenamedKeys`: take any method that merges `**kwargs` into a dict literal whose keys are named like their parameters, and whose optional parameters are not fixed keys. For every argument and every extra key that Python accepts, the body reflects the call. It rests on `DisjointSourcesReflect`: when the three sources of keys are disjoint, `BuildBody` reports each of them. So the override found by `flow_override` can only happen at a key renamed from its parameter (`flow`, `Operations`).
- `TypeCorrect` (bodies): `Spec => []TypeOK`, from the lemma `BuildBodyType`, `KwArgsShape` and the assumptions `TablesTyped` and `ExtraAssumption`.
- `BodiesReflectCalls`: assuming `KeysDisjoint` of every method, `Spec => []BodyReflectsCall`.
- `RequiredFieldsAlwaysSent`: assuming `RequiredCovered` of every method, `Spec => []RequiredFieldsSent`.

  Both theorems rest on `ServiceBodiesProofs!IInv`, which TLC checked on the `service_bodies` instance before it was proved. Neither property is inductive on its own, since each speaks of the body alone. `IInv` adds that the recorded call was accepted by its method (`NamedArgs`, `KwArgs`) and that the body is `BuildBody` of it. The lemmas it uses are `DisjointSourcesReflect`, `KeysOfBuildBody` and `KwArgsShape`.
- `OptionalArgsSentIffSet` (`ServiceRequestsProofs`): assuming `TruthyOnStr` of every method, `Spec => []OptionalQueryArgsSentIffSet`. Its `IInv` says the request is `Dispatch` of an accepted call. The lemma `TestedArgSentIffSet` covers both tests. Under `if arg is not None:`, only `None` is dropped. Under `if arg:`, only `str` arguments are tested, so only `None` and `""` are dropped. To make the proof possible, `QueryTests` is written as one function over its keys rather than with `@@`; it is the same function.

Only TLC checks the following:
- the table conditions (`KeysDisjoint`, `RequiredCovered`, `TruthyOnStr`, `TablesTyped`). These are facts about finite tables that the provers cannot unfold. TLC evaluates `TablesTyped` exhaustively. The other three hold because the passing runs of the properties they would break pass: an `if arg:` on an `int` or `bool` would drop 0 or `False` and fail `OptionalQueryArgsSentIffSet`;
- `RequestIdentifiesCall`: pairwise injectivity over some 180 routes, again table data;
- `ServiceRequests!TypeOK`: its path conjunct says that `FlattenSeq` of the interpolated segments contains no placeholder. What a fold computes for every input needs induction over data, which is out of the provers' reach.

## Not modelled

- `types/` response classes: no code reads them.
- How form values render (`None` as `""` in the OAuth2 form bodies): the body model stops at the dict handed to the transport.
- Message text of exceptions, and `__repr__`: formatting only.

## Plan for later sittings

1. Render form bodies the way httpx does, with a property on None values like `OmittedQueryArgsAbsent`.
2. Composing the facades with the transport adds little. The facades are stateless, and the transport's shared state (token and client) is already modelled with concurrent callers.
3. Prove the `TransportSpec` promises (header iff credential) directly on the abstract spec, and the verb and query part of `ServiceRequests!TypeOK`.
