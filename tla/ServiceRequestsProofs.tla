----------------------- MODULE ServiceRequestsProofs -----------------------
(***************************************************************************)
(* Proofs about the query dicts the facades of services/*.py build, for    *)
(* every route table and every set of path arguments: what the `if arg:`  *)
(* and `if arg is not None:` tests of each method send.                    *)
(***************************************************************************)
EXTENDS ServiceRequests, TLAPS

(* The query key of an argument a method tests is among the keys of its   *)
(* query dict, with that test.                                             *)
LEMMA QueryTestsOfNamed ==
    ASSUME NEW o, NEW k \in DOMAIN Routes[o].query
    PROVE  k \in DOMAIN QueryTests(o) /\ QueryTests(o)[k] = Routes[o].query[k]
BY DEF QueryTests

(* Every key of the query string is one the method added.                 *)
LEMMA BuildQueryKeys ==
    ASSUME NEW o, NEW qargs, NEW p \in BuildQuery(o, qargs)
    PROVE  /\ p[1] \in DOMAIN QueryTests(o)
           /\ Added(QueryTests(o)[p[1]], qargs[p[1]])
BY DEF BuildQuery

(* A tested argument passed as None is never added; one the method's test *)
(* lets through is sent with its rendered value.                          *)
LEMMA TestedArgSentIffSet ==
    ASSUME NEW o \in Ops, TruthyOnStr(o), NEW qargs \in QueryArgs(o),
           NEW k \in DOMAIN Routes[o].query,
           Routes[o].query[k].test \in {"truthy", "notnone"}
    PROVE  /\ qargs[k] = "none" => \A p \in BuildQuery(o, qargs) : p[1] # k
           /\ qargs[k] \in {"zero", "false", "text"}
                => <<k, Encode(qargs[k], Routes[o].enc)>> \in BuildQuery(o, qargs)
<1> DEFINE q == Routes[o].query[k]
           T == QueryTests(o)
<1>1. k \in DOMAIN T /\ T[k] = q
  BY QueryTestsOfNamed
<1>2. qargs[k] \in ArgValues(q)
  BY <1>1 DEF QueryArgs
<1>3. ~Added(q, "none")
  BY DEF Added
<1>4. qargs[k] = "none" => \A p \in BuildQuery(o, qargs) : p[1] # k
  BY <1>1, <1>3, BuildQueryKeys
<1>5. ASSUME qargs[k] \in {"zero", "false", "text"} PROVE Added(q, qargs[k])
  <2>1. CASE q.test = "truthy"
    <3>1. q.type = "str"
      BY <2>1 DEF TruthyOnStr
    <3>2. ArgValues(q) = {"none", "empty", "text"}
      BY <2>1, <3>1 DEF ArgValues
    <3>3. qargs[k] = "text"
      BY <1>2, <1>5, <3>2
    <3>4. QED
      BY <2>1, <3>3 DEF Added
  <2>2. CASE q.test = "notnone"
    BY <1>5, <2>2 DEF Added
  <2>3. QED
    BY <2>1, <2>2
<1>6. qargs[k] \in {"zero", "false", "text"}
        => <<k, Encode(qargs[k], Routes[o].enc)>> \in BuildQuery(o, qargs)
  BY <1>1, <1>5 DEF BuildQuery
<1>7. QED
  BY <1>4, <1>6

-----------------------------------------------------------------------------
(* The inductive invariant: between calls nothing was sent; during a call *)
(* the call is one its method accepts and the request is what Dispatch    *)
(* hands httpx for it.                                                     *)
IInv ==
    \/ call = NoCall /\ request = NoRequest
    \/ /\ call.op \in Ops
       /\ call.args \in PathArgs(call.op)
       /\ call.qargs \in QueryArgs(call.op)
       /\ request = Dispatch(call.op, call.args, call.qargs)

(* Before the first call nothing was sent.                                  *)
LEMMA IInvInit == Init => IInv
BY DEF Init, IInv

(* Invoke records an accepted call and the request Dispatch builds for it; *)
(* Return clears both.                                                      *)
LEMMA IInvStep == IInv /\ [Next]_vars => IInv'
<1> SUFFICES ASSUME IInv, [Next]_vars PROVE IInv'
  OBVIOUS
<1>1. CASE \E o \in Ops : Invoke(o)
  BY <1>1 DEF Invoke, IInv
<1>2. CASE Return
  BY <1>2 DEF Return, IInv
<1>3. CASE UNCHANGED vars
  BY <1>3 DEF vars, IInv
<1>4. QED
  BY <1>1, <1>2, <1>3 DEF Next

(* Whenever every method guards only str arguments with `if arg:`        *)
(* (TruthyOnStr: an `if arg:` on an int or bool would drop 0 or False   *)
(* and fail OptionalQueryArgsSentIffSet in the services run),             *)
(* every request a facade method sends leaves out each optional named     *)
(* query argument passed as None and carries each one set to 0, False or *)
(* a text, for every route table entry and every set of path arguments.   *)
THEOREM OptionalArgsSentIffSet ==
    ASSUME \A o \in Ops : TruthyOnStr(o)
    PROVE  Spec => []OptionalQueryArgsSentIffSet
<1>1. IInv => OptionalQueryArgsSentIffSet
  <2> SUFFICES ASSUME IInv, Sent PROVE OptionalQueryArgsSentIffSet
    BY DEF OptionalQueryArgsSentIffSet
  <2> DEFINE o == call.op
  <2>1. ~(call = NoCall /\ request = NoRequest)
    BY DEF Sent
  <2>2. /\ o \in Ops
        /\ call.qargs \in QueryArgs(o)
        /\ request = Dispatch(o, call.args, call.qargs)
    BY <2>1 DEF IInv
  <2>3. request.query = BuildQuery(o, call.qargs)
    BY <2>2 DEF Dispatch, Sent
  <2>4. QED
    BY <2>2, <2>3, TestedArgSentIffSet DEF OptionalQueryArgsSentIffSet
<1>2. QED
  BY IInvInit, IInvStep, <1>1, PTL DEF Spec

=============================================================================
