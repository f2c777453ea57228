--------------------------- MODULE HttpTransport ---------------------------
(***************************************************************************)
(* The SDK's HTTP transport (coreauth/_http.py, class HttpClient) as it is *)
(* shared by the caller threads of one CoreAuthClient (coreauth/client.py).*)
(*                                                                         *)
(* State of the transport: the bearer credential self._token and the state *)
(* of the underlying httpx.Client connection pool (unopened, opened,       *)
(* closed).  Every caller thread runs the body of get/post/post_form/put/  *)
(* patch, which the model splits where another thread can observe or      *)
(* change the shared state (delete never reaches httpx: it raises         *)
(* TypeError at its call, which ServiceRequests models):                   *)
(*   idle   --Call-->   format   (self._headers(): `if self._token:` true) *)
(*   idle   --Call-->   send     (`if self._token:` false, no header)      *)
(*   format --Format--> send     (f"Bearer {self._token}": a second read)  *)
(*   send   --Send-->   wait     (httpx sends; pool becomes opened)        *)
(* httpx's own check of a closed client and its marking the client opened *)
(* are one step: httpx is not part of this repository.                     *)
(*   send   --Send-->   idle     (pool closed: httpx raises RuntimeError)  *)
(*   wait   --Receive-> idle     (response classified, or HTTPError)       *)
(* set_token, clear_token and close run in any thread at any time.        *)
(*                                                                         *)
(* Data is abstracted to what the properties tell apart: a token is a      *)
(* model value, a response body one of five shapes, the server's error and *)
(* message fields the strings "E" and "M", a raw body text "raw".          *)
(***************************************************************************)
EXTENDS Integers, FiniteSets, TLC

CONSTANTS
    Threads,     \* caller threads sharing one client
    Tokens,      \* token strings a caller may pass to set_token
    None,        \* Python None
    EmptyStr,    \* the empty string "", falsy in Python
    Statuses,    \* HTTP status codes the server may answer with
    Bodies,      \* shapes of response body the server may send
    SerializedTokenUpdates
                 \* TRUE: callers never change the token while a request
                 \* is building its headers (spec.md, section 5)

(* The shapes of a response body that _handle_response tells apart.       *)
BodyShapes == {"empty",    \* no content
               "obj",      \* JSON object with "error" and "message"
               "partial",  \* JSON object without those keys
               "nonobj",   \* JSON that is not an object (list, string)
               "text"}     \* not JSON at all

ASSUME ThreadsAssumption == Threads # {} /\ IsFiniteSet(Threads)
ASSUME TokensAssumption == None \notin Tokens /\ Tokens # {}
ASSUME EmptyStrAssumption == EmptyStr # None
ASSUME StatusesAssumption == Statuses \subseteq 100..599
ASSUME BodiesAssumption == Bodies \subseteq BodyShapes /\ Bodies # {}
ASSUME SerializedAssumption == SerializedTokenUpdates \in BOOLEAN

VARIABLES
    token,   \* HttpClient._token
    pool,    \* state of HttpClient._client (httpx.Client)
    pc,      \* where each caller thread is in its request
    hdr,     \* Authorization header a thread has built for its request
    result   \* what the thread's last call returned or raised

vars == <<token, pool, pc, hdr, result>>

TokenValues == Tokens \cup {None}

(* Python truthiness of the value of self._token (`if self._token:`).     *)
Truthy(v) == v \notin {None, EmptyStr}

(* The Authorization header: absent, or "Bearer " followed by a value.    *)
NoAuth == [present |-> FALSE, value |-> None]
Bearer(v) == [present |-> TRUE, value |-> v]
HeaderValues == {NoAuth} \cup {Bearer(v) : v \in TokenValues}

(***************************************************************************)
(* What a call returns or raises.  kind is the Python outcome: a value, no *)
(* value, or the class of the exception; status, error and message are    *)
(* the fields of an ApiError (0 and "" for the other outcomes).            *)
(***************************************************************************)
Outcome(k, s, e, m) == [kind |-> k, status |-> s, error |-> e, message |-> m]
ApiErrorKinds == {"ValidationError", "AuthenticationError", "ForbiddenError",
                  "NotFoundError", "ConflictError", "RateLimitError", "ApiError"}
OutcomeKinds == ApiErrorKinds \cup
                {"ok_value", "ok_none", "decode_error", "request_failed",
                 "runtime_error", "pending"}
Pending == Outcome("pending", 0, "", "")
(* CoreAuthError("Request failed: ...") for an httpx.HTTPError.           *)
RequestFailed == Outcome("request_failed", 0, "", "")
(* httpx.Client.send on a closed client raises RuntimeError.               *)
ClientClosedError == Outcome("runtime_error", 0, "", "")
OutcomeValues ==
    [kind : OutcomeKinds, status : {0} \cup Statuses,
     error : {"E", ""}, message : {"M", "", "raw"}]

(* Mutant: 403 raised as NotFoundError (two rows of the table swapped).    *)
error_map_swapped ==
    [s \in {400, 401, 403, 404, 409, 429} |->
        CASE s = 400 -> "ValidationError"
          [] s = 401 -> "AuthenticationError"
          [] s = 403 -> "NotFoundError"
          [] s = 404 -> "ForbiddenError"
          [] s = 409 -> "ConflictError"
          [] s = 429 -> "RateLimitError"]

(* error_map in _handle_response.                                          *)
error_map ==
    [s \in {400, 401, 403, 404, 409, 429} |->
        CASE s = 400 -> "ValidationError"
          [] s = 401 -> "AuthenticationError"
          [] s = 403 -> "ForbiddenError"
          [] s = 404 -> "NotFoundError"
          [] s = 409 -> "ConflictError"
          [] s = 429 -> "RateLimitError"]

(* The error and message the error path reads from the body: resp.json()  *)
(* then body.get(...), or "" and resp.text when either raises.            *)
ErrorFields(b) ==
    CASE b = "obj"     -> [error |-> "E", message |-> "M"]
      [] b = "partial" -> [error |-> "",  message |-> ""]
      [] OTHER         -> [error |-> "",  message |-> "raw"]

(* Mutant: an unmapped status raises the base class CoreAuthError.        *)
handle_response_base_fallback(s, b) ==
    IF s = 204 \/ (200 <= s /\ s < 300 /\ b = "empty")
    THEN Outcome("ok_none", 0, "", "")
    ELSE IF 200 <= s /\ s < 300
    THEN IF b = "text" THEN Outcome("decode_error", 0, "", "")
                       ELSE Outcome("ok_value", 0, "", "")
    ELSE LET f == ErrorFields(b)
             cls == IF s \in DOMAIN error_map THEN error_map[s] ELSE "CoreAuthError"
         IN  Outcome(cls, s, f.error, f.message)

(* HttpClient._handle_response: the value returned or the error raised.   *)
handle_response(s, b) ==
    IF s = 204 \/ (200 <= s /\ s < 300 /\ b = "empty")
    THEN Outcome("ok_none", 0, "", "")
    ELSE IF 200 <= s /\ s < 300
    THEN IF b = "text" THEN Outcome("decode_error", 0, "", "")
                       ELSE Outcome("ok_value", 0, "", "")
    ELSE LET f == ErrorFields(b)
             cls == IF s \in DOMAIN error_map THEN error_map[s] ELSE "ApiError"
         IN  Outcome(cls, s, f.error, f.message)

-----------------------------------------------------------------------------
(* The type invariant: the token is a caller's token or None, each thread *)
(* is at one of the points of a call, and its header and outcome are ones *)
(* the code can produce (no exception class outside exceptions.py).       *)
TypeOK ==
    /\ token \in TokenValues
    /\ pool \in {"unopened", "opened", "closed"}
    /\ pc \in [Threads -> {"idle", "format", "send", "wait"}]
    /\ hdr \in [Threads -> HeaderValues]
    /\ result \in [Threads -> OutcomeValues]

(* HttpClient.__init__(base_url, token): the httpx client is not opened    *)
(* until its first request.                                                *)
Init ==
    /\ token \in TokenValues
    /\ pool = "unopened"
    /\ pc = [t \in Threads |-> "idle"]
    /\ hdr = [t \in Threads |-> NoAuth]
    /\ result = [t \in Threads |-> Pending]

(* Token updates are held back while a thread is between the two reads of *)
(* self._token, when the caller serializes them against requests.          *)
TokenUpdateAllowed ==
    SerializedTokenUpdates => \A t \in Threads : pc[t] # "format"

(* Mutant: the header is formatted without the `if self._token:` test.    *)
Call_untested(t) ==
    /\ pc[t] = "idle"
    /\ pc' = [pc EXCEPT ![t] = "format"]
    /\ UNCHANGED <<token, pool, hdr, result>>

(* A thread enters get/post/...: url is built and self._headers() (or     *)
(* _form_headers()) tests `if self._token:`.  When the test fails the      *)
(* headers are complete without Authorization.                             *)
Call(t) ==
    /\ pc[t] = "idle"
    /\ IF Truthy(token)
       THEN /\ pc' = [pc EXCEPT ![t] = "format"]
            /\ UNCHANGED <<hdr, result>>
       ELSE /\ pc' = [pc EXCEPT ![t] = "send"]
            /\ hdr' = [hdr EXCEPT ![t] = NoAuth]
            /\ result' = [result EXCEPT ![t] = Pending]
    /\ UNCHANGED <<token, pool>>

(* headers["Authorization"] = f"Bearer {self._token}": self._token is read *)
(* again, after the test.                                                  *)
Format(t) ==
    /\ pc[t] = "format"
    /\ pc' = [pc EXCEPT ![t] = "send"]
    /\ hdr' = [hdr EXCEPT ![t] = Bearer(token)]
    /\ result' = [result EXCEPT ![t] = Pending]
    /\ UNCHANGED <<token, pool>>

(* Mutant: a client that was never opened is taken for a closed one.     *)
Send_unopened_closed(t) ==
    /\ pc[t] = "send"
    /\ IF pool # "opened"
       THEN /\ pc' = [pc EXCEPT ![t] = "idle"]
            /\ result' = [result EXCEPT ![t] = ClientClosedError]
            /\ hdr' = [hdr EXCEPT ![t] = NoAuth]
            /\ UNCHANGED pool
       ELSE /\ pc' = [pc EXCEPT ![t] = "wait"]
            /\ pool' = "opened"
            /\ UNCHANGED <<hdr, result>>
    /\ UNCHANGED token

(* self._client.get/post/...(url, headers=...): httpx refuses a closed     *)
(* client with RuntimeError, which `except httpx.HTTPError` does not       *)
(* catch; otherwise it opens the client and the request goes out.          *)
Send(t) ==
    /\ pc[t] = "send"
    /\ IF pool = "closed"
       THEN /\ pc' = [pc EXCEPT ![t] = "idle"]
            /\ result' = [result EXCEPT ![t] = ClientClosedError]
            /\ hdr' = [hdr EXCEPT ![t] = NoAuth]
            /\ UNCHANGED pool
       ELSE /\ pc' = [pc EXCEPT ![t] = "wait"]
            /\ pool' = "opened"
            /\ UNCHANGED <<hdr, result>>
    /\ UNCHANGED token

(* The request ends: a transport failure or the 30 s timeout becomes      *)
(* CoreAuthError("Request failed: ..."); a response goes through           *)
(* _handle_response.                                                       *)
Receive(t) ==
    /\ pc[t] = "wait"
    /\ \/ result' = [result EXCEPT ![t] = RequestFailed]
       \/ \E s \in Statuses, b \in Bodies :
             result' = [result EXCEPT ![t] = handle_response(s, b)]
    /\ pc' = [pc EXCEPT ![t] = "idle"]
    /\ hdr' = [hdr EXCEPT ![t] = NoAuth]
    /\ UNCHANGED <<token, pool>>

(* CoreAuthClient.set_token -> HttpClient.set_token.                        *)
set_token(tk) ==
    /\ TokenUpdateAllowed
    /\ token' = tk
    /\ UNCHANGED <<pool, pc, hdr, result>>

(* CoreAuthClient.clear_token -> HttpClient.clear_token.                    *)
clear_token ==
    /\ TokenUpdateAllowed
    /\ token' = None
    /\ UNCHANGED <<pool, pc, hdr, result>>

(* CoreAuthClient.close or __exit__ -> HttpClient.close -> httpx close,    *)
(* which may be called again on a closed client.                           *)
close ==
    /\ pool' = "closed"
    /\ UNCHANGED <<token, pc, hdr, result>>

Next ==
    \/ \E t \in Threads : Call(t) \/ Format(t) \/ Send(t) \/ Receive(t)
    \/ \E tk \in Tokens : set_token(tk)
    \/ clear_token
    \/ close

(* No fairness is assumed: Timeout(30.0) in __init__ bounds each connect, *)
(* read and write of httpx, not the request, so a server that trickles its *)
(* answer keeps a call open, and the code promises no progress to check.  *)
Spec == Init /\ [][Next]_vars


-----------------------------------------------------------------------------
(***************************************************************************)
(* Properties.                                                             *)
(***************************************************************************)

(* A request that goes out with an Authorization header carries a token a *)
(* caller passed to set_token (or to the constructor), never "Bearer None": *)
(* the two reads of self._token in _headers/_form_headers must agree.      *)
AuthHeaderCarriesSetToken ==
    \A t \in Threads :
        pc[t] \in {"send", "wait"} /\ hdr[t].present => hdr[t].value \in Tokens

(* Section 4.1 and 7 of spec.md: every failure of a call surfaces as a     *)
(* CoreAuthError (an ApiError kind or the connectivity error), or as the  *)
(* decode failure of a non-JSON 2xx body; nothing else escapes get/post.   *)
FailuresAreTyped ==
    \A t \in Threads :
        result[t].kind \in ApiErrorKinds \cup
            {"request_failed", "decode_error", "ok_value", "ok_none", "pending"}

(* httpx's RuntimeError for a request on a closed client, which escapes  *)
(* `except httpx.HTTPError` in get/post/put/patch/post_form (delete's     *)
(* TypeError is the other untyped failure), is raised only by a client    *)
(* that close has shut, never by one not yet opened, and while a thread   *)
(* holds it the client stays closed whatever other threads do.            *)
UntypedFailureOnlyAfterClose ==
    \A t \in Threads : result[t].kind = "runtime_error" => pool = "closed"

(* The transport implements the abstract transport of spec.md section 4.1: *)
(* a call is atomic at the moment its header is complete (Call without a  *)
(* token, or Format), and it ends where the response is classified.        *)
Abs == INSTANCE TransportSpec
         WITH credential <- token,
              open <- pool # "closed",
              phase <- [t \in Threads |->
                          IF pc[t] \in {"idle", "format"} THEN "idle" ELSE "inflight"],
              header <- hdr,
              outcome <- result

TransportRefinement == Abs!ASpec

=============================================================================
