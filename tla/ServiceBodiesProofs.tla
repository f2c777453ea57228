------------------------ MODULE ServiceBodiesProofs ------------------------
(***************************************************************************)
(* Proofs about the body construction of ServiceBodies, for every method   *)
(* table entry and every call: what makes the dict literal, the **kwargs   *)
(* merge and the `if arg:` assignments report the call faithfully.         *)
(***************************************************************************)
EXTENDS ServiceBodies, TLAPS

(* What BodyReflectsCall says of the body b of a call of o with named      *)
(* arguments a and extra keys kw.                                          *)
Reflects(o, a, kw, b) ==
    LET m == Bodies[o]
    IN  /\ \A k \in DOMAIN m.fixed : k \in Keys(b) /\ b.fields[k] = a[m.fixed[k]]
        /\ \A k \in DOMAIN kw : k \in Keys(b) /\ b.fields[k] = kw[k]
        /\ \A p \in m.opt :
              /\ ~Truthy(a[p]) => p \notin Keys(b)
              /\ Truthy(a[p]) => p \in Keys(b) /\ b.fields[p] = a[p]
        /\ Keys(b) \subseteq DOMAIN m.fixed \cup DOMAIN kw \cup m.opt

(* The body a method builds reports its call whenever no extra key names  *)
(* a fixed key or an optional parameter, and no optional parameter is     *)
(* also a fixed key: then the dict literal, the **kwargs merge and the    *)
(* `if arg:` assignments never overwrite each other (tenants.py 22-31).   *)
LEMMA DisjointSourcesReflect ==
    ASSUME NEW o, NEW a, NEW kw,
           DOMAIN kw \cap DOMAIN Bodies[o].fixed = {},
           DOMAIN kw \cap Bodies[o].opt = {},
           DOMAIN Bodies[o].fixed \cap Bodies[o].opt = {}
    PROVE  Reflects(o, a, kw, BuildBody(o, a, kw))
<1> DEFINE m == Bodies[o]
           set == {p \in m.opt : Truthy(a[p])}
           keys == DOMAIN m.fixed \cup DOMAIN kw \cup set
           d == [k \in keys |->
                   IF k \in set THEN a[k]
                   ELSE IF k \in DOMAIN kw THEN kw[k]
                   ELSE a[m.fixed[k]]]
<1>1. BuildBody(o, a, kw) = IF m.orNone /\ keys = {} THEN NoBody ELSE Sent(d)
  BY DEF BuildBody
<1>2. CASE m.orNone /\ keys = {}
  <2>1. Keys(BuildBody(o, a, kw)) = {}
    BY <1>1, <1>2 DEF Keys, NoBody
  <2>2. DOMAIN m.fixed = {} /\ DOMAIN kw = {} /\ set = {}
    BY <1>2
  <2>3. QED
    BY <2>1, <2>2 DEF Reflects
<1>3. CASE ~(m.orNone /\ keys = {})
  <2>1. BuildBody(o, a, kw) = Sent(d)
    BY <1>1, <1>3
  <2>2. Keys(Sent(d)) = keys /\ Sent(d).fields = d
    BY DEF Keys, Sent
  <2>3. \A k \in DOMAIN m.fixed : d[k] = a[m.fixed[k]]
    OBVIOUS
  <2>4. \A k \in DOMAIN kw : d[k] = kw[k]
    OBVIOUS
  <2>5. \A p \in set : d[p] = a[p]
    OBVIOUS
  <2>6. \A p \in m.opt : ~Truthy(a[p]) => p \notin keys
    OBVIOUS
  <2> DEFINE b == BuildBody(o, a, kw)
  <2>7. Keys(b) = keys /\ b.fields = d
    BY <2>1, <2>2
  <2>8. \A k \in DOMAIN m.fixed : k \in Keys(b) /\ b.fields[k] = a[m.fixed[k]]
    BY <2>3, <2>7
  <2>9. \A k \in DOMAIN kw : k \in Keys(b) /\ b.fields[k] = kw[k]
    BY <2>4, <2>7
  <2>10. \A p \in m.opt :
            /\ ~Truthy(a[p]) => p \notin Keys(b)
            /\ Truthy(a[p]) => p \in Keys(b) /\ b.fields[p] = a[p]
    BY <2>5, <2>6, <2>7
  <2>11. Keys(b) \subseteq DOMAIN m.fixed \cup DOMAIN kw \cup m.opt
    BY <2>7
  <2>12. QED
    BY <2>8, <2>9, <2>10, <2>11 DEF Reflects
<1>4. QED
  BY <1>2, <1>3

(* The **kwargs merge of `{"key": key, ..., **kwargs}` can override a     *)
(* fixed key only when the key differs from the parameter it is taken     *)
(* from (auth.py 104-105, "flow" <- flow_id; scim.py "Operations" <-      *)
(* operations).  Python refuses a keyword argument named like a           *)
(* parameter, so for every method whose fixed keys are named like their   *)
(* parameters, and whose optional parameters are not fixed keys, the body *)
(* reports the call for every argument and every extra key.               *)
THEOREM KwargsOverrideOnlyRenamedKeys ==
    ASSUME NEW o, NEW a, NEW kw,
           Bodies[o].kw = "kwargs",
           DOMAIN kw \subseteq ExtraKeys(o),
           \A k \in DOMAIN Bodies[o].fixed : Bodies[o].fixed[k] = k,
           DOMAIN Bodies[o].fixed \cap Bodies[o].opt = {}
    PROVE  Reflects(o, a, kw, BuildBody(o, a, kw))
<1> DEFINE m == Bodies[o]
<1>1. ExtraKeys(o) = (Fields(m.schema) \cup Extra) \ Params(o)
  BY DEF ExtraKeys
<1>2. DOMAIN m.fixed \subseteq Params(o)
  BY DEF Params
<1>3. m.opt \subseteq Params(o)
  BY DEF Params
<1>4. DOMAIN kw \cap DOMAIN m.fixed = {} /\ DOMAIN kw \cap m.opt = {}
  BY <1>1, <1>2, <1>3
<1>5. QED
  BY <1>4, DisjointSourcesReflect

(* The keys of the body are those of the dict literal, the extra keys and *)
(* the truthy optional parameters; with no key at all it is `{}` or, for  *)
(* `body or None`, no body, which has no keys either.                     *)
LEMMA KeysOfBuildBody ==
    ASSUME NEW o, NEW a, NEW kw
    PROVE  Keys(BuildBody(o, a, kw)) =
               DOMAIN Bodies[o].fixed \cup DOMAIN kw
                 \cup {p \in Bodies[o].opt : Truthy(a[p])}
BY DEF BuildBody, Keys, NoBody, Sent, NoFixed, Same

(* The extra keys of a method are schema fields or keys of Extra.        *)
LEMMA ExtraKeysBound ==
    ASSUME NEW o
    PROVE  ExtraKeys(o) \subseteq Fields(Bodies[o].schema) \cup Extra
BY DEF ExtraKeys

(* What KwArgs gives a call: keys among the extra keys, including every   *)
(* required field that is one, each with an argument value.               *)
LEMMA KwArgsShape ==
    ASSUME NEW o, NEW kw \in KwArgs(o)
    PROVE  /\ DOMAIN kw \subseteq ExtraKeys(o)
           /\ Bodies[o].schema.req \cap ExtraKeys(o) \subseteq DOMAIN kw
           /\ \A k \in DOMAIN kw : kw[k] \in ArgValues
<1> DEFINE K == ExtraKeys(o)
           R == Bodies[o].schema.req \cap K
<1>1. PICK E \in SUBSET (K \ R) : kw \in [R \cup E -> ArgValues]
  BY DEF KwArgs
<1>2. QED
  BY <1>1

(* Every body a call builds is no body or a dict of strings to argument  *)
(* values.                                                                 *)
LEMMA BuildBodyType ==
    ASSUME NEW o \in Ops, NEW a \in NamedArgs(o), NEW kw \in KwArgs(o)
    PROVE  LET b == BuildBody(o, a, kw)
           IN  /\ b.present \in BOOLEAN
               /\ DOMAIN b.fields \subseteq STRING
               /\ \A k \in DOMAIN b.fields : b.fields[k] \in ArgValues
<1> DEFINE m == Bodies[o]
           F == {m.fixed[k] : k \in DOMAIN m.fixed}
<1>1. /\ a \in [F \cup m.opt -> ArgValues \cup OptValues]
      /\ \A p \in F : a[p] \in ArgValues
      /\ \A p \in m.opt : a[p] \in OptValues
  BY DEF NamedArgs
<1>2. /\ DOMAIN kw \subseteq Fields(m.schema) \cup Extra
      /\ \A k \in DOMAIN kw : kw[k] \in ArgValues
  BY KwArgsShape, ExtraKeysBound
<1>3. DOMAIN m.fixed \cup m.opt \cup Fields(m.schema) \subseteq STRING
  BY TablesTyped
<1>4. \A p \in m.opt : Truthy(a[p]) => a[p] \in ArgValues
  BY <1>1 DEF Truthy, OptValues, ArgValues
<1>5. QED
  BY <1>1, <1>2, <1>3, <1>4, ExtraAssumption
     DEF BuildBody, NoBody, Sent, NoFixed, Same

-----------------------------------------------------------------------------
(* The inductive invariant: between calls there is no body; during a call *)
(* the call is one its method accepts and the body is the one it builds.  *)
IInv ==
    /\ TypeOK
    /\ \/ call = NoCall /\ body = NoBody
       \/ /\ call.op \in Ops
          /\ call.args \in NamedArgs(call.op)
          /\ call.kw \in KwArgs(call.op)
          /\ body = BuildBody(call.op, call.args, call.kw)


(* A call starts with no body, and a completed call leaves none.          *)
LEMMA IInvInit == Init => IInv
BY DEF Init, IInv, TypeOK, NoCall, NoBody, NoFixed, Same

(* Each step keeps the invariant: Invoke records an accepted call and     *)
(* hands the transport the body BuildBody gives; Return clears both.      *)
LEMMA IInvStep == IInv /\ [Next]_vars => IInv'
<1> SUFFICES ASSUME IInv, [Next]_vars PROVE IInv'
  OBVIOUS
<1>1. CASE \E o \in Ops : Invoke(o)
  <2>1. PICK o \in Ops : Invoke(o)
    BY <1>1
  <2>2. PICK a \in NamedArgs(o), kw \in KwArgs(o) :
            /\ call' = [op |-> o, args |-> a, kw |-> kw]
            /\ body' = BuildBody(o, a, kw)
    BY <2>1 DEF Invoke
  <2>3. LET b == BuildBody(o, a, kw)
        IN  /\ b.present \in BOOLEAN
            /\ DOMAIN b.fields \subseteq STRING
            /\ \A k \in DOMAIN b.fields : b.fields[k] \in ArgValues
    BY BuildBodyType
  <2>4. TypeOK'
    BY <2>2, <2>3 DEF TypeOK
  <2>5. QED
    BY <2>2, <2>4 DEF IInv
<1>2. CASE Return
  BY <1>2 DEF Return, IInv, TypeOK, NoCall, NoBody, NoFixed, Same
<1>3. CASE UNCHANGED vars
  BY <1>3 DEF vars, IInv, TypeOK
<1>4. QED
  BY <1>1, <1>2, <1>3 DEF Next

(* Every call hands the transport no body or a dict of field names to     *)
(* argument values, for every table, Extra and MaxKwargs.                 *)
THEOREM TypeCorrect == Spec => []TypeOK
<1>1. IInv => TypeOK
  BY DEF IInv
<1>2. QED
  BY IInvInit, IInvStep, <1>1, PTL DEF Spec

(* Whenever no extra key a caller may pass can overwrite a fixed key or   *)
(* an optional parameter (KeysDisjoint of every method: a table entry    *)
(* that broke it would fail BodyReflectsCall in the service_bodies run),  *)
(* every body a facade                                                     *)
(* method builds carries exactly its call: the dict literal, the **kwargs *)
(* merge and the `if arg:` assignments of tenants.py 22-31 and its        *)
(* siblings, for every Extra and MaxKwargs.                                *)
THEOREM BodiesReflectCalls ==
    ASSUME \A o \in Ops : KeysDisjoint(o)
    PROVE  Spec => []BodyReflectsCall
<1>1. IInv => BodyReflectsCall
  <2> SUFFICES ASSUME IInv, call # NoCall PROVE BodyReflectsCall
    BY DEF BodyReflectsCall
  <2> DEFINE o == call.op
             a == call.args
             kw == call.kw
             m == Bodies[o]
  <2>1. /\ o \in Ops
        /\ kw \in KwArgs(o)
        /\ body = BuildBody(o, a, kw)
    BY DEF IInv
  <2>2. DOMAIN kw \subseteq ExtraKeys(o)
    BY <2>1, KwArgsShape
  <2>3. /\ DOMAIN kw \cap DOMAIN m.fixed = {}
        /\ DOMAIN kw \cap m.opt = {}
        /\ DOMAIN m.fixed \cap m.opt = {}
    BY <2>1, <2>2 DEF KeysDisjoint
  <2>4. Reflects(o, a, kw, body)
    BY <2>1, <2>3, DisjointSourcesReflect
  <2>5. ~Truthy("none") /\ Truthy("v1")
    BY DEF Truthy
  <2>6. QED
    BY <2>4, <2>5 DEF Reflects, BodyReflectsCall
<1>2. QED
  BY IInvInit, IInvStep, <1>1, PTL DEF Spec

(* Whenever every required field of a method's schema is a fixed key or  *)
(* a key its caller may pass (RequiredCovered of every method: an entry  *)
(* that broke it would fail RequiredFieldsSent in the service_bodies      *)
(* run), every body sends                                                  *)
(* all required fields of its schema.                                      *)
THEOREM RequiredFieldsAlwaysSent ==
    ASSUME \A o \in Ops : RequiredCovered(o)
    PROVE  Spec => []RequiredFieldsSent
<1>1. IInv => RequiredFieldsSent
  <2> SUFFICES ASSUME IInv, call # NoCall PROVE RequiredFieldsSent
    BY DEF RequiredFieldsSent
  <2> DEFINE o == call.op
             a == call.args
             kw == call.kw
             m == Bodies[o]
  <2>1. /\ o \in Ops
        /\ kw \in KwArgs(o)
        /\ body = BuildBody(o, a, kw)
    BY DEF IInv
  <2>2. m.schema.req \cap ExtraKeys(o) \subseteq DOMAIN kw
    BY <2>1, KwArgsShape
  <2>3. m.schema.req \subseteq DOMAIN m.fixed \cup ExtraKeys(o)
    BY <2>1 DEF RequiredCovered
  <2>4. DOMAIN m.fixed \cup DOMAIN kw \subseteq Keys(body)
    BY <2>1, KeysOfBuildBody
  <2>5. QED
    BY <2>2, <2>3, <2>4 DEF RequiredFieldsSent
<1>2. QED
  BY IInvInit, IInvStep, <1>1, PTL DEF Spec

=============================================================================
