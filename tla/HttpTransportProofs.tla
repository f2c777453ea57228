------------------------ MODULE HttpTransportProofs ------------------------
(***************************************************************************)
(* Proofs about HttpTransport for every value of the constants.            *)
(***************************************************************************)
EXTENDS HttpTransport, TLAPS

(* The constant values the actions store have the types TypeOK names.    *)
LEMMA ValueTypes ==
    /\ NoAuth \in HeaderValues
    /\ \A v \in TokenValues : Bearer(v) \in HeaderValues
    /\ Pending \in OutcomeValues
    /\ RequestFailed \in OutcomeValues
    /\ ClientClosedError \in OutcomeValues
<1>1. NoAuth \in HeaderValues
  BY DEF NoAuth, HeaderValues, TokenValues
<1>2. \A v \in TokenValues : Bearer(v) \in HeaderValues
  BY DEF HeaderValues
<1>3. Pending \in OutcomeValues
  BY DEF Pending, Outcome, OutcomeValues, OutcomeKinds
<1>4. RequestFailed \in OutcomeValues
  BY DEF RequestFailed, Outcome, OutcomeValues, OutcomeKinds
<1>5. ClientClosedError \in OutcomeValues
  BY DEF ClientClosedError, Outcome, OutcomeValues, OutcomeKinds
<1>6. QED
  BY <1>1, <1>2, <1>3, <1>4, <1>5

(* _handle_response always returns or raises one of the modelled outcomes: *)
(* error_map sends each of its codes to an ApiError subclass.              *)
LEMMA HandleResponseType ==
    ASSUME NEW s \in Statuses, NEW b \in Bodies
    PROVE  handle_response(s, b) \in OutcomeValues
<1>1. \A x \in DOMAIN error_map : error_map[x] \in ApiErrorKinds
  BY DEF error_map, ApiErrorKinds
<1>2. ErrorFields(b) \in [error : {"E", ""}, message : {"M", "", "raw"}]
  BY DEF ErrorFields
<1>3. "ApiError" \in ApiErrorKinds
  BY DEF ApiErrorKinds
<1>4. CASE 200 <= s /\ s < 300
  BY <1>4 DEF handle_response, Outcome, OutcomeValues, OutcomeKinds
<1>5. CASE ~(200 <= s /\ s < 300)
  <2>1. s # 204
    BY <1>5
  <2>2. (IF s \in DOMAIN error_map THEN error_map[s] ELSE "ApiError") \in OutcomeKinds
    BY <1>1, <1>3 DEF OutcomeKinds
  <2>3. s \in {0} \cup Statuses
    OBVIOUS
  <2>. QED
    BY <1>5, <2>1, <2>2, <2>3, <1>2 DEF handle_response, Outcome, OutcomeValues
<1>6. QED
  BY <1>4, <1>5

(* Every step of the transport preserves the type invariant.              *)
LEMMA TypeStep == TypeOK /\ [Next]_vars => TypeOK'
<1> SUFFICES ASSUME TypeOK, [Next]_vars PROVE TypeOK'
  OBVIOUS
<1>. USE ValueTypes DEF TypeOK
<1>1. ASSUME NEW t \in Threads, Call(t) PROVE TypeOK'
  BY <1>1 DEF Call
<1>2. ASSUME NEW t \in Threads, Format(t) PROVE TypeOK'
  BY <1>2 DEF Format
<1>3. ASSUME NEW t \in Threads, Send(t) PROVE TypeOK'
  BY <1>3 DEF Send
<1>4. ASSUME NEW t \in Threads, Receive(t) PROVE TypeOK'
  <2>1. CASE result' = [result EXCEPT ![t] = RequestFailed]
    BY <1>4, <2>1 DEF Receive
  <2>2. ASSUME NEW s \in Statuses, NEW b \in Bodies,
               result' = [result EXCEPT ![t] = handle_response(s, b)]
        PROVE TypeOK'
    BY <1>4, <2>2, HandleResponseType DEF Receive
  <2>3. QED
    BY <1>4, <2>1, <2>2 DEF Receive
<1>5. ASSUME NEW tk \in Tokens, set_token(tk) PROVE TypeOK'
  BY <1>5 DEF set_token, TokenValues
<1>6. CASE clear_token
  BY <1>6 DEF clear_token, TokenValues
<1>7. CASE close
  BY <1>7 DEF close
<1>8. CASE UNCHANGED vars
  BY <1>8 DEF vars
<1>9. QED
  BY <1>1, <1>2, <1>3, <1>4, <1>5, <1>6, <1>7, <1>8 DEF Next

(* Initial states are well typed.                                          *)
LEMMA InitType == Init => TypeOK
  BY ValueTypes DEF Init, TypeOK

(* The type invariant of the transport holds in every reachable state.     *)
THEOREM TypeCorrect == Spec => []TypeOK
  BY InitType, TypeStep, PTL DEF Spec

-----------------------------------------------------------------------------
(***************************************************************************)
(* The header safety of a client whose callers serialize token updates    *)
(* against requests.  AuthHeaderCarriesSetToken is not inductive: a thread *)
(* between the test `if self._token:` and the f-string (pc = "format")     *)
(* reads the token again, so the strengthening records that the token is   *)
(* still truthy there, which the serialization guarantees.                 *)
(***************************************************************************)
FormatSeesToken ==
    \A t \in Threads : pc[t] = "format" => Truthy(token)

IInv == TypeOK /\ AuthHeaderCarriesSetToken /\ FormatSeesToken

(* The strengthened invariant holds initially.                             *)
LEMMA IInvInit == Init => IInv
  BY InitType DEF Init, IInv, AuthHeaderCarriesSetToken, FormatSeesToken

(* With token updates serialized, every step preserves the strengthened   *)
(* invariant: one step per action.                                         *)
LEMMA IInvStep ==
    ASSUME SerializedTokenUpdates
    PROVE  IInv /\ [Next]_vars => IInv'
<1> SUFFICES ASSUME IInv, [Next]_vars PROVE IInv'
  OBVIOUS
<1>1. TypeOK'
  BY TypeStep DEF IInv
<1>2. ASSUME NEW t \in Threads, Call(t)
      PROVE  AuthHeaderCarriesSetToken' /\ FormatSeesToken'
  BY <1>2 DEF IInv, TypeOK, Call, AuthHeaderCarriesSetToken, FormatSeesToken,
              NoAuth
<1>3. ASSUME NEW t \in Threads, Format(t)
      PROVE  AuthHeaderCarriesSetToken' /\ FormatSeesToken'
  BY <1>3 DEF IInv, TypeOK, Format, AuthHeaderCarriesSetToken,
              FormatSeesToken, Bearer, Truthy, TokenValues
<1>4. ASSUME NEW t \in Threads, Send(t)
      PROVE  AuthHeaderCarriesSetToken' /\ FormatSeesToken'
  BY <1>4 DEF IInv, TypeOK, Send, AuthHeaderCarriesSetToken, FormatSeesToken,
              NoAuth
<1>5. ASSUME NEW t \in Threads, Receive(t)
      PROVE  AuthHeaderCarriesSetToken' /\ FormatSeesToken'
  BY <1>5 DEF IInv, TypeOK, Receive, AuthHeaderCarriesSetToken,
              FormatSeesToken, NoAuth
<1>6. ASSUME NEW tk \in Tokens, set_token(tk)
      PROVE  AuthHeaderCarriesSetToken' /\ FormatSeesToken'
  BY <1>6 DEF IInv, set_token, TokenUpdateAllowed, AuthHeaderCarriesSetToken,
              FormatSeesToken
<1>7. ASSUME clear_token
      PROVE  AuthHeaderCarriesSetToken' /\ FormatSeesToken'
  BY <1>7 DEF IInv, clear_token, TokenUpdateAllowed, AuthHeaderCarriesSetToken,
              FormatSeesToken
<1>8. ASSUME close
      PROVE  AuthHeaderCarriesSetToken' /\ FormatSeesToken'
  BY <1>8 DEF IInv, close, AuthHeaderCarriesSetToken, FormatSeesToken
<1>9. ASSUME UNCHANGED vars
      PROVE  AuthHeaderCarriesSetToken' /\ FormatSeesToken'
  BY <1>9 DEF IInv, vars, AuthHeaderCarriesSetToken, FormatSeesToken
<1>10. QED
  BY <1>1, <1>2, <1>3, <1>4, <1>5, <1>6, <1>7, <1>8, <1>9 DEF Next, IInv

(* With token updates serialized against header construction, every       *)
(* request that carries an Authorization header carries a token a caller  *)
(* set: the header is never "Bearer None".                                 *)
THEOREM HeaderSafety ==
    ASSUME SerializedTokenUpdates
    PROVE  Spec => []AuthHeaderCarriesSetToken
<1>1. IInv => AuthHeaderCarriesSetToken
  BY DEF IInv
<1>2. QED
  BY IInvInit, IInvStep, <1>1, PTL DEF Spec

-----------------------------------------------------------------------------
(***************************************************************************)
(* The transport implements the abstract transport of TransportSpec under  *)
(* the refinement mapping Abs of HttpTransport.                            *)
(***************************************************************************)

(* error_map, with ApiError for the codes it lacks, is the status table of *)
(* spec.md section 4.1.                                                    *)
LEMMA ErrorMapIsKindOf ==
    ASSUME NEW s \in Int
    PROVE  Abs!KindOf(s) = IF s \in DOMAIN error_map THEN error_map[s] ELSE "ApiError"
<1>1. CASE s \in {400, 401, 403, 404, 409, 429}
  BY <1>1 DEF Abs!KindOf, error_map
<1>2. CASE s \notin {400, 401, 403, 404, 409, 429}
  BY <1>2 DEF Abs!KindOf, error_map
<1>3. QED
  BY <1>1, <1>2

(* _handle_response returns or raises what section 4.1 prescribes, for    *)
(* every status and every body shape.                                      *)
LEMMA HandleResponseMeetsSpec ==
    ASSUME NEW s \in Statuses, NEW b \in Bodies
    PROVE  handle_response(s, b) = Abs!SpecOutcome(s, b)
<1>1. s \in Int /\ b \in BodyShapes
  BY StatusesAssumption, BodiesAssumption
<1>3. CASE s = 204 \/ (200 <= s /\ s < 300 /\ b = "empty")
  <2>1. Abs!SpecOutcome(s, b) = Abs!Outcome("ok_none", 0, "", "")
    BY <1>1, <1>3 DEF Abs!SpecOutcome, Abs!Outcome, Abs!KindOf
  <2>2. handle_response(s, b) = Outcome("ok_none", 0, "", "")
    BY <1>3 DEF handle_response
  <2>3. QED
    BY <2>1, <2>2 DEF Abs!Outcome, Outcome
<1>4. CASE ~(s = 204 \/ (200 <= s /\ s < 300 /\ b = "empty")) /\ 200 <= s /\ s < 300
  <2>1. CASE b = "text"
    <3>1. Abs!SpecOutcome(s, b) = Abs!Outcome("decode_error", 0, "", "")
      BY <1>1, <1>4, <2>1 DEF Abs!SpecOutcome, Abs!Outcome, Abs!KindOf
    <3>2. handle_response(s, b) = Outcome("decode_error", 0, "", "")
      BY <1>4, <2>1 DEF handle_response
    <3>3. QED
      BY <3>1, <3>2 DEF Abs!Outcome, Outcome
  <2>2. CASE b # "text"
    <3>1. Abs!SpecOutcome(s, b) = Abs!Outcome("ok_value", 0, "", "")
      BY <1>1, <1>4, <2>2 DEF Abs!SpecOutcome, Abs!Outcome, Abs!KindOf
    <3>2. handle_response(s, b) = Outcome("ok_value", 0, "", "")
      BY <1>4, <2>2 DEF handle_response
    <3>3. QED
      BY <3>1, <3>2 DEF Abs!Outcome, Outcome
  <2>3. QED
    BY <2>1, <2>2
<1>5. CASE ~(200 <= s /\ s < 300)
  <2>1. Abs!KindOf(s) = IF s \in DOMAIN error_map THEN error_map[s] ELSE "ApiError"
    BY <1>1, ErrorMapIsKindOf
  <2>2. s # 204
    BY <1>5
  <2>3. CASE b = "obj"
    BY <1>5, <2>1, <2>2, <2>3 DEF handle_response, Abs!SpecOutcome, Abs!Outcome, Outcome, ErrorFields
  <2>4. CASE b = "partial"
    BY <1>5, <2>1, <2>2, <2>4 DEF handle_response, Abs!SpecOutcome, Abs!Outcome, Outcome, ErrorFields
  <2>5. CASE b \notin {"obj", "partial"}
    BY <1>5, <2>1, <2>2, <2>5 DEF handle_response, Abs!SpecOutcome, Abs!Outcome, Outcome, ErrorFields
  <2>6. QED
    BY <2>3, <2>4, <2>5
<1>6. QED
  BY <1>3, <1>4, <1>5

(* The initial states of the transport are initial states of the abstract *)
(* transport: a fresh HttpClient is open and no thread is in a call.       *)
LEMMA RefinementInit == Init => Abs!AInit
  BY DEF Init, Abs!AInit, TokenValues, Abs!NoAuth, NoAuth, Abs!Pending, Pending,
         Abs!Outcome, Outcome

(* Under the invariant, every step of the transport is a step of the      *)
(* abstract transport or leaves its variables unchanged.  The test and     *)
(* the f-string agree (FormatSeesToken), and no token is the empty string. *)
LEMMA RefinementStep ==
    ASSUME SerializedTokenUpdates, EmptyStr \notin Tokens
    PROVE  IInv /\ [Next]_vars => [Abs!ANext]_Abs!avars
<1> SUFFICES ASSUME IInv, [Next]_vars PROVE [Abs!ANext]_Abs!avars
  OBVIOUS
<1>. USE DEF IInv, TypeOK
<1>1. ASSUME NEW t \in Threads, Call(t) PROVE [Abs!ANext]_Abs!avars
  <2>1. CASE Truthy(token)
    BY <1>1, <2>1 DEF Call, Abs!avars
  <2>2. CASE ~Truthy(token)
    <3>1. token = None
      BY <2>2 DEF Truthy, TokenValues
    <3>2. Abs!Begin(t)
      BY <1>1, <2>2, <3>1 DEF Call, Abs!Begin, Abs!NoAuth, NoAuth, Abs!Pending,
                              Pending, Abs!Outcome, Outcome
    <3>3. QED
      BY <3>2 DEF Abs!ANext
  <2>3. QED
    BY <2>1, <2>2
<1>2. ASSUME NEW t \in Threads, Format(t) PROVE [Abs!ANext]_Abs!avars
  <2>1. token # None
    BY <1>2 DEF Format, FormatSeesToken, Truthy
  <2>2. Abs!Begin(t)
    BY <1>2, <2>1 DEF Format, Abs!Begin, Abs!Bearer, Bearer, Abs!Pending, Pending,
                      Abs!Outcome, Outcome
  <2>3. QED
    BY <2>2 DEF Abs!ANext
<1>3. ASSUME NEW t \in Threads, Send(t) PROVE [Abs!ANext]_Abs!avars
  <2>1. CASE pool = "closed"
    <3>1. Abs!Finish(t)
      BY <1>3, <2>1 DEF Send, Abs!Finish, Abs!NoAuth, NoAuth, Abs!ClosedError,
                        ClientClosedError, Abs!Outcome, Outcome
    <3>2. QED
      BY <3>1 DEF Abs!ANext
  <2>2. CASE pool # "closed"
    BY <1>3, <2>2 DEF Send, Abs!avars
  <2>3. QED
    BY <2>1, <2>2
<1>4. ASSUME NEW t \in Threads, Receive(t) PROVE [Abs!ANext]_Abs!avars
  <2>1. CASE result' = [result EXCEPT ![t] = RequestFailed]
    <3>1. Abs!Finish(t)
      BY <1>4, <2>1 DEF Receive, Abs!Finish, Abs!NoAuth, NoAuth,
                        Abs!ConnectivityError, RequestFailed, Abs!Outcome, Outcome
    <3>2. QED
      BY <3>1 DEF Abs!ANext
  <2>2. ASSUME NEW s \in Statuses, NEW b \in Bodies,
               result' = [result EXCEPT ![t] = handle_response(s, b)]
        PROVE  [Abs!ANext]_Abs!avars
    <3>1. handle_response(s, b) = Abs!SpecOutcome(s, b)
      BY HandleResponseMeetsSpec
    <3>2. Abs!Finish(t)
      BY <1>4, <2>2, <3>1 DEF Receive, Abs!Finish, Abs!NoAuth, NoAuth
    <3>3. QED
      BY <3>2 DEF Abs!ANext
  <2>3. QED
    BY <1>4, <2>1, <2>2 DEF Receive
<1>5. ASSUME NEW tk \in Tokens, set_token(tk) PROVE [Abs!ANext]_Abs!avars
  BY <1>5 DEF set_token, Abs!ANext, Abs!SetCredential
<1>6. CASE clear_token
  BY <1>6 DEF clear_token, Abs!ANext, Abs!ClearCredential
<1>7. CASE close
  BY <1>7 DEF close, Abs!ANext, Abs!Close
<1>8. CASE UNCHANGED vars
  BY <1>8 DEF vars, Abs!avars
<1>9. QED
  BY <1>1, <1>2, <1>3, <1>4, <1>5, <1>6, <1>7, <1>8 DEF Next

(* When callers serialize token updates against requests and never set    *)
(* the empty string, HttpClient implements the transport of spec.md        *)
(* section 4.1: the header of each request is "Bearer <token>" iff a token *)
(* is set, and each call ends in the outcome the status table prescribes. *)
THEOREM Refinement ==
    ASSUME SerializedTokenUpdates, EmptyStr \notin Tokens
    PROVE  Spec => TransportRefinement
<1>1. Spec => []IInv
  BY IInvInit, IInvStep, PTL DEF Spec
<1>2. QED
  BY <1>1, RefinementInit, RefinementStep, PTL DEF Spec, TransportRefinement, Abs!ASpec


-----------------------------------------------------------------------------
(***************************************************************************)
(* The untyped RuntimeError comes only from a closed client.  The         *)
(* invariant is inductive together with TypeOK: Send raises it only in    *)
(* its closed branch, no step moves the pool out of "closed" (Send, whose *)
(* httpx check and open are one step, opens only a client not closed),   *)
(* and the other steps that write a result write a typed one.             *)
(***************************************************************************)

(* _handle_response never produces the RuntimeError kind: every outcome  *)
(* it returns or raises is a value, a decode failure or an ApiError.      *)
LEMMA HandleResponseTyped ==
    ASSUME NEW s, NEW b
    PROVE  handle_response(s, b).kind # "runtime_error"
<1>1. \A x \in DOMAIN error_map : error_map[x] # "runtime_error"
  BY DEF error_map
<1>2. QED
  BY <1>1 DEF handle_response, Outcome

(* Every step preserves TypeOK /\ UntypedFailureOnlyAfterClose.           *)
LEMMA UntypedStep ==
    TypeOK /\ UntypedFailureOnlyAfterClose /\ [Next]_vars
        => UntypedFailureOnlyAfterClose'
<1> SUFFICES ASSUME TypeOK, UntypedFailureOnlyAfterClose, [Next]_vars,
                    NEW u \in Threads, result'[u].kind = "runtime_error"
             PROVE  pool' = "closed"
  BY DEF UntypedFailureOnlyAfterClose
<1>1. CASE \E t \in Threads : Call(t)
  <2>1. PICK t \in Threads : Call(t)
    BY <1>1
  <2>2. result'[u] = result[u] \/ result'[u] = Pending
    BY <2>1 DEF Call, TypeOK
  <2>3. Pending.kind # "runtime_error"
    BY DEF Pending, Outcome
  <2>4. pool' = pool
    BY <2>1 DEF Call
  <2>5. QED
    BY <2>2, <2>3, <2>4 DEF UntypedFailureOnlyAfterClose
<1>2. CASE \E t \in Threads : Format(t)
  <2>1. PICK t \in Threads : Format(t)
    BY <1>2
  <2>2. result'[u] = result[u] \/ result'[u] = Pending
    BY <2>1 DEF Format, TypeOK
  <2>3. Pending.kind # "runtime_error"
    BY DEF Pending, Outcome
  <2>4. pool' = pool
    BY <2>1 DEF Format
  <2>5. QED
    BY <2>2, <2>3, <2>4 DEF UntypedFailureOnlyAfterClose
<1>3. CASE \E t \in Threads : Send(t)
  <2>1. PICK t \in Threads : Send(t)
    BY <1>3
  <2>2. CASE pool = "closed"
    BY <2>1, <2>2 DEF Send
  <2>3. CASE pool # "closed"
    <3>1. result' = result
      BY <2>1, <2>3 DEF Send
    <3>2. QED
      BY <2>3, <3>1 DEF UntypedFailureOnlyAfterClose
  <2>4. QED
    BY <2>2, <2>3
<1>4. CASE \E t \in Threads : Receive(t)
  <2>1. PICK t \in Threads : Receive(t)
    BY <1>4
  <2>2. CASE u = t
    <3>1. result'[u].kind # "runtime_error"
      <4>1. CASE result' = [result EXCEPT ![t] = RequestFailed]
        BY <2>2, <4>1 DEF RequestFailed, Outcome, TypeOK
      <4>2. CASE \E s \in Statuses, b \in Bodies :
                   result' = [result EXCEPT ![t] = handle_response(s, b)]
        BY <2>2, <4>2, HandleResponseTyped DEF TypeOK
      <4>3. QED
        BY <2>1, <4>1, <4>2 DEF Receive
    <3>2. QED
      BY <3>1
  <2>3. CASE u # t
    <3>1. result'[u] = result[u]
      <4>1. CASE result' = [result EXCEPT ![t] = RequestFailed]
        BY <2>3, <4>1 DEF TypeOK
      <4>2. CASE \E s \in Statuses, b \in Bodies :
                   result' = [result EXCEPT ![t] = handle_response(s, b)]
        BY <2>3, <4>2 DEF TypeOK
      <4>3. QED
        BY <2>1, <4>1, <4>2 DEF Receive
    <3>2. QED
      BY <2>1, <3>1 DEF Receive, UntypedFailureOnlyAfterClose
  <2>4. QED
    BY <2>2, <2>3
<1>5. CASE \E tk \in Tokens : set_token(tk)
  BY <1>5 DEF set_token, UntypedFailureOnlyAfterClose
<1>6. CASE clear_token
  BY <1>6 DEF clear_token, UntypedFailureOnlyAfterClose
<1>7. CASE close
  BY <1>7 DEF close
<1>8. CASE UNCHANGED vars
  BY <1>8 DEF vars, UntypedFailureOnlyAfterClose
<1>9. QED
  BY <1>1, <1>2, <1>3, <1>4, <1>5, <1>6, <1>7, <1>8 DEF Next

(* For every number of threads, tokens, statuses and body shapes, a call *)
(* that escapes the typed errors of get/post/... with httpx's RuntimeError *)
(* does so only on a client that close has shut, and that stays true      *)
(* whatever the other threads do afterwards.                              *)
THEOREM UntypedFailureNeedsClose == Spec => []UntypedFailureOnlyAfterClose
<1> DEFINE UInv == TypeOK /\ UntypedFailureOnlyAfterClose
<1>1. Init => UInv
  <2> SUFFICES ASSUME Init PROVE UInv
    OBVIOUS
  <2>1. \A t \in Threads : result[t].kind = "pending"
    BY DEF Init, Pending, Outcome
  <2>2. QED
    BY <2>1, InitType DEF UntypedFailureOnlyAfterClose
<1>2. UInv /\ [Next]_vars => UInv'
  BY TypeStep, UntypedStep
<1>3. QED
  BY <1>1, <1>2, PTL DEF Spec

=============================================================================
