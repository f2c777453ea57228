--------------------------- MODULE TransportSpec ---------------------------
(***************************************************************************)
(* What spec.md (section 4.1) says the transport promises, with each call  *)
(* of a caller thread as two atomic steps:                                 *)
(*   Begin:  the request is built; it carries "Authorization: Bearer <t>"  *)
(*           iff a credential t is set at that moment;                     *)
(*   Finish: the call returns or raises what the status-code table says    *)
(*           of the response, or a connectivity error; a call on a closed  *)
(*           client fails.                                                 *)
(* The credential is replaced or removed by set/clear at any moment and    *)
(* close ends the client.                                                  *)
(***************************************************************************)
EXTENDS Integers

CONSTANTS Threads, Tokens, None, Statuses, Bodies

VARIABLES
    credential,  \* the credential cell (None when cleared)
    open,        \* the client has not been closed
    phase,       \* idle or inflight, per caller thread
    header,      \* header of the request a thread has in flight
    outcome      \* what a thread's last call returned or raised

avars == <<credential, open, phase, header, outcome>>

NoAuth == [present |-> FALSE, value |-> None]
Bearer(v) == [present |-> TRUE, value |-> v]
Outcome(k, s, e, m) == [kind |-> k, status |-> s, error |-> e, message |-> m]
Pending == Outcome("pending", 0, "", "")
ConnectivityError == Outcome("request_failed", 0, "", "")
ClosedError == Outcome("runtime_error", 0, "", "")

(* The status-to-error-kind table of section 4.1.                          *)
KindOf(s) ==
    CASE s = 400 -> "ValidationError"
      [] s = 401 -> "AuthenticationError"
      [] s = 403 -> "ForbiddenError"
      [] s = 404 -> "NotFoundError"
      [] s = 409 -> "ConflictError"
      [] s = 429 -> "RateLimitError"
      [] OTHER   -> "ApiError"

(* Section 4.1: 204, or a 2xx with an empty body, is success with no      *)
(* value; another 2xx is the decoded JSON, or a decode failure when the   *)
(* body is not JSON.  A non-2xx is the error kind of the table carrying   *)
(* the body's error and message when the body is a JSON object (a missing *)
(* field read as ""), else error "" and the raw text as message.           *)
SpecOutcome(s, b) ==
    LET success == s = 204 \/ (200 <= s /\ s < 300)
        parsed  == b \in {"obj", "partial"}
    IN  CASE success /\ (s = 204 \/ b = "empty")              -> Outcome("ok_none", 0, "", "")
          [] success /\ s # 204 /\ b = "text"                 -> Outcome("decode_error", 0, "", "")
          [] success /\ s # 204 /\ b \notin {"empty", "text"} -> Outcome("ok_value", 0, "", "")
          [] ~success /\ parsed -> Outcome(KindOf(s), s, IF b = "obj" THEN "E" ELSE "",
                                                         IF b = "obj" THEN "M" ELSE "")
          [] ~success /\ ~parsed -> Outcome(KindOf(s), s, "", "raw")

AInit ==
    /\ credential \in Tokens \cup {None}
    /\ open = TRUE
    /\ phase = [t \in Threads |-> "idle"]
    /\ header = [t \in Threads |-> NoAuth]
    /\ outcome = [t \in Threads |-> Pending]

Begin(t) ==
    /\ phase[t] = "idle"
    /\ phase' = [phase EXCEPT ![t] = "inflight"]
    /\ header' = [header EXCEPT ![t] =
                    IF credential = None THEN NoAuth ELSE Bearer(credential)]
    /\ outcome' = [outcome EXCEPT ![t] = Pending]
    /\ UNCHANGED <<credential, open>>

Finish(t) ==
    /\ phase[t] = "inflight"
    /\ \/ outcome' = [outcome EXCEPT ![t] = ConnectivityError]
       \/ ~open /\ outcome' = [outcome EXCEPT ![t] = ClosedError]
       \/ \E s \in Statuses, b \in Bodies :
             outcome' = [outcome EXCEPT ![t] = SpecOutcome(s, b)]
    /\ phase' = [phase EXCEPT ![t] = "idle"]
    /\ header' = [header EXCEPT ![t] = NoAuth]
    /\ UNCHANGED <<credential, open>>

SetCredential ==
    /\ \E tk \in Tokens : credential' = tk
    /\ UNCHANGED <<open, phase, header, outcome>>

ClearCredential ==
    /\ credential' = None
    /\ UNCHANGED <<open, phase, header, outcome>>

Close ==
    /\ open' = FALSE
    /\ UNCHANGED <<credential, phase, header, outcome>>

ANext ==
    \/ \E t \in Threads : Begin(t) \/ Finish(t)
    \/ SetCredential \/ ClearCredential \/ Close

ASpec == AInit /\ [][ANext]_avars

=============================================================================
