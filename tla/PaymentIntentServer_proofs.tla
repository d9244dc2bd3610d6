--------------------- MODULE PaymentIntentServer_proofs ---------------------
(***************************************************************************)
(* Theorems about PaymentIntentServer, for every set of clients, sessions, *)
(* ids and requests and every number of requests.                          *)
(***************************************************************************)
EXTENDS PaymentIntentServer, TLAPS

-----------------------------------------------------------------------------
(* The lifecycle functions map objects to objects                          *)

LEMMA attachPaymentMethodTyped ==
  ASSUME NEW intent \in Intents, NEW p \in ParamSpace
  PROVE  /\ attachPaymentMethod(intent, p) \in Intents
         /\ attachPaymentMethod(intent, p) =
              [intent EXCEPT !.payment_method =
                               attachPaymentMethod(intent, p).payment_method]
BY DEF attachPaymentMethod, Supplies, Intents, ParamSpace, PaymentMethods

LEMMA copyParamsTyped ==
  ASSUME NEW intent \in Intents, NEW p \in ParamSpace
  PROVE  copyPaymentIntentParams(intent, p) \in Intents
BY DEF copyPaymentIntentParams, Given, Intents, ParamSpace

LEMMA applyConfirmTyped ==
  ASSUME NEW intent \in Intents, NEW p \in ParamSpace
  PROVE  applyConfirm(intent, p) \in Intents
<1> DEFINE att == attachPaymentMethod(intent, p)
<1>1. att \in Intents
  BY attachPaymentMethodTyped
<1>2. settlePaymentIntent(att, p) \in Intents
  BY <1>1 DEF settlePaymentIntent, Intents, Statuses
<1>3. QED
  BY <1>1, <1>2 DEF applyConfirm, Intents, Statuses

LEMMA applyUpdateTyped ==
  ASSUME NEW intent \in Intents, NEW p \in ParamSpace
  PROVE  applyUpdate(intent, p) \in Intents
<1> DEFINE att == attachPaymentMethod(copyPaymentIntentParams(intent, p), p)
<1>1. att \in Intents
  BY attachPaymentMethodTyped, copyParamsTyped
<1>2. QED
  BY <1>1 DEF applyUpdate, Intents, Statuses

LEMMA ApplyTyped ==
  ASSUME NEW intent \in Intents, NEW p \in ParamSpace, NEW op
  PROVE  Apply(op, intent, p) \in Intents
<1>1. applyCapture(intent, p) \in Intents
  <2> DEFINE received == Given(p.amount_to_capture, intent.amount)
  <2>1. received \in Int /\ 0 \in Int /\ "succeeded" \in Statuses
    BY DEF Given, Intents, ParamSpace, Statuses
  <2> HIDE DEF received
  <2>2. [intent EXCEPT !.status = "succeeded", !.next_action = FALSE,
                       !.amount_capturable = 0, !.amount_received = received]
          \in Intents
    BY <2>1 DEF Intents
  <2>3. QED
    BY <2>2 DEF applyCapture, received
<1>2. applyCancel(intent) \in Intents
  <2>1. 0 \in Int /\ "canceled" \in Statuses
    BY DEF Statuses
  <2>2. QED BY <2>1 DEF applyCancel, Intents
<1>3. QED
  BY <1>1, <1>2, applyConfirmTyped, applyUpdateTyped DEF Apply

LEMMA BaseTyped == BaseIntent \in Intents /\ AdoptedIntent \in Intents
<1>1. FixtureIntent \in Intents
  BY BoundsAssumption
     DEF FixtureIntent, Intents, Statuses, CaptureMethods, PaymentMethods
<1>2. BaseIntent \in Intents
  <2>1. 0 \in Int /\ Null \in ChargeIds \cup {Null}
    OBVIOUS
  <2> DEFINE Nulls == ChargeIds \cup {Null}
  <2> HIDE DEF Nulls
  <2>2. [FixtureIntent EXCEPT !.next_action = FALSE, !.last_payment_error = FALSE,
           !.latest_charge = Null, !.amount_received = 0, !.amount_capturable = 0]
          \in [status : Statuses, capture_method : CaptureMethods,
              payment_method : PaymentMethods, amount : Int,
              amount_capturable : Int, amount_received : Int,
              next_action : BOOLEAN, last_payment_error : BOOLEAN,
              latest_charge : Nulls]
    BY <1>1, <2>1 DEF Intents, Nulls
  <2>3. QED
    BY <2>2 DEF BaseIntent, resetPaymentIntentLifecycleFields, Intents, Nulls
<1>3. QED
  BY <1>2 DEF AdoptedIntent, Intents, Statuses

LEMMA newPaymentIntentTyped ==
  ASSUME NEW p \in ParamSpace
  PROVE  newPaymentIntent(p) \in Intents
<1> DEFINE att == attachPaymentMethod(copyPaymentIntentParams(BaseIntent, p), p)
<1>1. att \in Intents
  BY attachPaymentMethodTyped, copyParamsTyped, BaseTyped
<1>2. applyConfirm(att, p) \in Intents
  BY <1>1, applyConfirmTyped
<1>3. QED
  BY <1>1, <1>2 DEF newPaymentIntent, Intents, Statuses

LEMMA chargeForPITyped ==
  ASSUME NEW intent \in Intents, NEW id \in IntentIds
  PROVE  chargeForPI(intent, id) \in Charges
BY DEF chargeForPI, Intents, Charges

LEMMA EventTypesTyped ==
  ASSUME NEW intent \in Intents
  PROVE  /\ intentEventType(intent) # Null => intentEventType(intent) \in EventTypes
         /\ NeedsCharge(intent) => intentEventType(intent) \in EventTypes
         /\ \A b \in BOOLEAN : chargeEventType(intent, b) \in EventTypes
BY DEF intentEventType, chargeEventType, NeedsCharge, EventTypes, Intents,
       Statuses

-----------------------------------------------------------------------------
(* Type correctness and the handlers' own variables                        *)

HandlersOK == \A c \in Clients : HandlerOK(c)

\* A step of one handler leaves every other handler's variables alone.
OthersKeep(c) ==
  /\ issued \in Nat /\ issued' \in Nat /\ issued =< issued'
  /\ \A d \in Clients \ {c} :
       /\ pc'[d] = pc[d] /\ rq'[d] = rq[d] /\ serial'[d] = serial[d]
       /\ target'[d] = target[d] /\ pi'[d] = pi[d] /\ ch'[d] = ch[d]
       /\ reply'[d] = reply[d]

LEMMA OthersStayOK ==
  ASSUME NEW c \in Clients, OthersKeep(c), HandlersOK, HandlerOK(c)'
  PROVE  HandlersOK'
<1>1. SUFFICES ASSUME NEW d \in Clients, d # c
               PROVE  HandlerOK(d)'
  BY DEF HandlersOK
<1>2. HandlerOK(d) /\ d \in Clients \ {c}
  BY <1>1 DEF HandlersOK
<1>3. CASE pc[d] = "idle"
  BY <1>2, <1>3 DEF OthersKeep, HandlerOK, IdleOK
<1>4. CASE pc[d] # "idle"
  <2>1. RequestOK(d)'
    BY <1>2, <1>4 DEF OthersKeep, HandlerOK, RequestOK
  <2>2. ControlOK(d)'
    BY <1>2, <1>4 DEF OthersKeep, HandlerOK, ControlOK
  <2>3. CopiesOK(d)'
    BY <1>2, <1>4 DEF OthersKeep, HandlerOK, CopiesOK
  <2>4. QED
    BY <1>2, <1>4, <2>1, <2>2, <2>3 DEF OthersKeep, HandlerOK
<1>5. QED
  BY <1>3, <1>4

LEMMA IssueTyped ==
  ASSUME TypeOK, HandlersOK, NEW c \in Clients, NEW r \in Requests,
         NEW id \in ForeignIds \cup 1 .. issued + 1, Issue(c, r, id),
         r.op = "create" => id = issued + 1,
         r.op = "retrieve_charge" => id \in ChargeIds
  PROVE  TypeOK' /\ HandlersOK'
<1>1. issued \in Nat /\ issued' \in Nat /\ issued + 1 \in Serials /\ id \in IntentIds
  BY BoundsAssumption DEF TypeOK, Issue, IntentIds, Serials
<1>2. TypeOK'
  BY <1>1 DEF TypeOK, Issue, Goto, PCs, Locked, Serials
<1>3. HandlerOK(c)'
  BY <1>1 DEF TypeOK, Issue, Goto, HandlersOK, HandlerOK, IdleOK, RequestOK, ControlOK,
       CopiesOK, Building, Recording, Locked, ReadOps
<1>4. OthersKeep(c)
  BY <1>1 DEF OthersKeep, Issue, Goto, TypeOK
<1>5. QED
  BY <1>2, <1>3, <1>4, OthersStayOK

\* What is known of a handler that serves a request.
ServingFacts(c) ==
  /\ RequestOK(c) /\ ControlOK(c) /\ CopiesOK(c)
  /\ session(c) \in Sessions
  /\ params(c) \in ParamSpace
  /\ rq[c].op \in Ops
  /\ target[c] \in IntentIds
  /\ serial[c] \in ChargeIds
  /\ \A id \in IntentIds : intents[session(c)][id] \in Intents \cup {NoIntent}
  /\ \A id \in ChargeIds : charges[session(c)][id] \in Charges \cup {NoCharge}

LEMMA Serving ==
  ASSUME TypeOK, HandlersOK, NEW c \in Clients, pc[c] # "idle"
  PROVE  ServingFacts(c)
<1>1. RequestOK(c) /\ ControlOK(c) /\ CopiesOK(c)
  BY DEF HandlersOK, HandlerOK
<1>2. /\ session(c) \in Sessions
      /\ params(c) \in ParamSpace
      /\ rq[c].op \in Ops
  BY <1>1 DEF RequestOK, Requests, session, params
<1>3. 1 .. issued \subseteq Serials
  BY BoundsAssumption DEF TypeOK, Serials
<1>4. target[c] \in IntentIds /\ serial[c] \in ChargeIds
  BY <1>1, <1>3 DEF RequestOK, IntentIds, ChargeIds
<1>5. QED
  BY <1>1, <1>2, <1>4 DEF ServingFacts, TypeOK

LEMMA LatestChargeTyped ==
  ASSUME NEW intent \in Intents
  PROVE  /\ intent.latest_charge \in ChargeIds \cup {Null}
         /\ \A k \in ChargeIds :
              /\ [intent EXCEPT !.latest_charge = k] \in Intents
              /\ [intent EXCEPT !.latest_charge = k].latest_charge = k
              /\ NeedsCharge([intent EXCEPT !.latest_charge = k]) = NeedsCharge(intent)
BY DEF Intents, NeedsCharge

LEMMA LoadedTyped ==
  ASSUME NEW intent \in Intents \cup {NoIntent}
  PROVE  orAdopted(intent) \in Intents
BY BaseTyped DEF orAdopted

LEMMA EnqueueTyped ==
  ASSUME NEW log \in [Sessions -> Seq(Events)], NEW s \in Sessions,
         NEW event \in Events
  PROVE  [log EXCEPT ![s] = Append(@, event)] \in [Sessions -> Seq(Events)]
OBVIOUS

\* The program counters a transition may record from.
Leads(intent, label) ==
  \/ /\ label \in {"find_charge", "put_charge"}
     /\ NeedsCharge(intent)
     /\ label = "find_charge" => intent.latest_charge \in ChargeIds
  \/ label = "intent_event" /\ intentEventType(intent) \in EventTypes
  \/ label = "store"

LEMMA RecordFromLeads ==
  ASSUME NEW intent \in Intents
  PROVE  Leads(intent, RecordFrom(intent))
BY LatestChargeTyped, EventTypesTyped DEF Leads, RecordFrom

LEMMA OptInTyped ==
  ASSUME TypeOK, HandlersOK, NEW c \in Clients, OptIn(c)
  PROVE  TypeOK' /\ HandlersOK'
<1>1. TypeOK'
  BY DEF OptIn, TypeOK, Goto, Answer, PCs, Locked, Replies, store
<1>2. HandlerOK(c)'
  BY DEF OptIn, TypeOK, Goto, Answer, store, HandlersOK, HandlerOK, RequestOK, ControlOK, CopiesOK,
         IdleOK, Building, Recording, Locked, ReadOps, ActionOps, LifecycleOps
<1>3. OthersKeep(c)
  BY DEF OptIn, TypeOK, Goto, Answer, store, OthersKeep, Serials
<1>4. QED
  BY <1>1, <1>2, <1>3, OthersStayOK

LEMMA FallThroughTyped ==
  ASSUME TypeOK, HandlersOK, NEW c \in Clients, FallThrough(c)
  PROVE  TypeOK' /\ HandlersOK'
<1>1. TypeOK'
  BY DEF FallThrough, TypeOK, Goto, Answer, PCs, Locked, Replies, store
<1>2. HandlerOK(c)'
  BY DEF FallThrough, TypeOK, Goto, Answer, store, HandlersOK, HandlerOK, RequestOK, ControlOK, CopiesOK,
         IdleOK, Building, Recording, Locked, ReadOps, ActionOps, LifecycleOps
<1>3. OthersKeep(c)
  BY DEF FallThrough, TypeOK, Goto, Answer, store, OthersKeep, Serials
<1>4. QED
  BY <1>1, <1>2, <1>3, OthersStayOK

LEMMA GateOpenTyped ==
  ASSUME TypeOK, HandlersOK, NEW c \in Clients, GateOpen(c)
  PROVE  TypeOK' /\ HandlersOK'
<1>1. pc[c] # "idle" /\ ServingFacts(c)
  BY Serving DEF GateOpen
<1> DEFINE label == CASE rq[c].op \in ReadOps   -> rq[c].op
                      [] rq[c].op \in ActionOps -> "lock"
                      [] OTHER                  -> "created_event"
           copy  == IF rq[c].op = "create" THEN newPaymentIntent(params(c))
                                           ELSE pi[c]
<1>2. /\ label \in ReadOps \cup {"lock", "created_event"}
      /\ label \in ReadOps => rq[c].op = label
      /\ label = "lock" => rq[c].op \in ActionOps
      /\ label = "created_event" => rq[c].op = "create"
  BY <1>1 DEF ServingFacts, Ops, ReadOps, ActionOps, GateOpen
<1>3. /\ copy \in Intents \cup {NoIntent}
      /\ rq[c].op = "create" => copy \in Intents
  BY <1>1, newPaymentIntentTyped DEF ServingFacts, TypeOK
<1>4. /\ pc' = [pc EXCEPT ![c] = label]
      /\ pi' = [pi EXCEPT ![c] = copy]
  BY DEF GateOpen, Goto
<1> HIDE DEF label, copy
<1>7. TypeOK'
  BY <1>1, <1>2, <1>3, <1>4 DEF GateOpen, ServingFacts, TypeOK, Goto, Answer, PCs, Locked,
     Replies, store, ReadOps
<1>8. HandlerOK(c)'
  BY <1>1, <1>2, <1>3, <1>4 DEF GateOpen, ServingFacts, TypeOK, Goto, Answer, store,
     HandlerOK, RequestOK, ControlOK, CopiesOK, IdleOK, Building, Recording, Locked, ReadOps, ActionOps, LifecycleOps
<1>9. OthersKeep(c)
  BY DEF GateOpen, TypeOK, Goto, Answer, store, OthersKeep, Serials
<1>10. QED
  BY <1>7, <1>8, <1>9, OthersStayOK

LEMMA RefuseCreateTyped ==
  ASSUME TypeOK, HandlersOK, NEW c \in Clients, RefuseCreate(c)
  PROVE  TypeOK' /\ HandlersOK'
<1>1. TypeOK'
  BY DEF RefuseCreate, TypeOK, Goto, Answer, PCs, Locked, Replies, store
<1>2. HandlerOK(c)'
  BY DEF RefuseCreate, TypeOK, Goto, Answer, store, HandlersOK, HandlerOK, RequestOK, ControlOK, CopiesOK,
         IdleOK, Building, Recording, Locked, ReadOps, ActionOps, LifecycleOps
<1>3. OthersKeep(c)
  BY DEF RefuseCreate, TypeOK, Goto, Answer, store, OthersKeep, Serials
<1>4. QED
  BY <1>1, <1>2, <1>3, OthersStayOK

LEMMA ListChargesTyped ==
  ASSUME TypeOK, HandlersOK, NEW c \in Clients, ListCharges(c)
  PROVE  TypeOK' /\ HandlersOK'
<1>1. TypeOK'
  BY DEF ListCharges, TypeOK, Goto, Answer, PCs, Locked, Replies, store
<1>2. HandlerOK(c)'
  BY DEF ListCharges, TypeOK, Goto, Answer, store, HandlersOK, HandlerOK, RequestOK, ControlOK, CopiesOK,
         IdleOK, Building, Recording, Locked, ReadOps, ActionOps, LifecycleOps
<1>3. OthersKeep(c)
  BY DEF ListCharges, TypeOK, Goto, Answer, store, OthersKeep, Serials
<1>4. QED
  BY <1>1, <1>2, <1>3, OthersStayOK

LEMMA RetrieveChargeTyped ==
  ASSUME TypeOK, HandlersOK, NEW c \in Clients, RetrieveCharge(c)
  PROVE  TypeOK' /\ HandlersOK'
<1>1. pc[c] # "idle" /\ ServingFacts(c)
  BY Serving DEF RetrieveCharge
<1>2. target[c] \in ChargeIds
  BY <1>1 DEF ServingFacts, RequestOK, ControlOK, RetrieveCharge, ReadOps
<1> DEFINE charge == charges[session(c)][target[c]]
<1>3. charge \in Charges \cup {NoCharge}
  BY <1>1, <1>2 DEF ServingFacts
<1>4. \/ /\ charge = NoCharge
         /\ Answer(c, "generic") /\ ch' = ch
      \/ /\ charge \in Charges
         /\ ch' = [ch EXCEPT ![c] = charge]
         /\ reply' = [reply EXCEPT ![c] = "charge"]
         /\ Goto(c, "expand_charge") \/ Goto(c, "respond")
  BY <1>3 DEF RetrieveCharge
<1>5. rq[c].op = "retrieve_charge"
  BY <1>1 DEF ServingFacts, ControlOK, RetrieveCharge, ReadOps
<1> HIDE DEF charge
<1>7. TypeOK'
  BY <1>1, <1>2, <1>3, <1>4 DEF RetrieveCharge, ServingFacts, TypeOK, Goto, Answer, PCs, Locked,
     Replies, store
<1>8. HandlerOK(c)'
  BY <1>1, <1>2, <1>3, <1>4, <1>5 DEF RetrieveCharge, ServingFacts, TypeOK, Goto, Answer, store,
     HandlerOK, RequestOK, ControlOK, CopiesOK, IdleOK, Building, Recording, Locked, ReadOps, ActionOps, LifecycleOps
<1>9. OthersKeep(c)
  BY DEF RetrieveCharge, TypeOK, Goto, Answer, store, OthersKeep, Serials
<1>10. QED
  BY <1>7, <1>8, <1>9, OthersStayOK

LEMMA ExpandChargeTyped ==
  ASSUME TypeOK, HandlersOK, NEW c \in Clients, ExpandCharge(c)
  PROVE  TypeOK' /\ HandlersOK'
<1>1. pc[c] # "idle" /\ ServingFacts(c)
  BY Serving DEF ExpandCharge
<1>2. ch[c].payment_intent \in IntentIds
  BY <1>1 DEF ServingFacts, CopiesOK, ExpandCharge, Charges
<1> DEFINE intent == intents[session(c)][ch[c].payment_intent]
<1>3. intent \in Intents \cup {NoIntent} /\ pi' = [pi EXCEPT ![c] = intent]
  BY <1>1, <1>2 DEF ServingFacts, ExpandCharge
<1> HIDE DEF intent
<1>7. TypeOK'
  BY <1>1, <1>3 DEF ExpandCharge, ServingFacts, TypeOK, Goto, Answer, PCs, Locked,
     Replies, store
<1>8. HandlerOK(c)'
  BY <1>1, <1>3 DEF ExpandCharge, ServingFacts, TypeOK, Goto, Answer, store,
     HandlerOK, RequestOK, ControlOK, CopiesOK, IdleOK, Building, Recording, Locked, ReadOps, ActionOps, LifecycleOps
<1>9. OthersKeep(c)
  BY DEF ExpandCharge, TypeOK, Goto, Answer, store, OthersKeep, Serials
<1>10. QED
  BY <1>7, <1>8, <1>9, OthersStayOK

LEMMA RetrieveTyped ==
  ASSUME TypeOK, HandlersOK, NEW c \in Clients, Retrieve(c)
  PROVE  TypeOK' /\ HandlersOK'
<1>1. pc[c] # "idle" /\ ServingFacts(c)
  BY Serving DEF Retrieve
<1> DEFINE intent == intents[session(c)][target[c]]
<1>2. intent \in Intents \cup {NoIntent}
  BY <1>1 DEF ServingFacts
<1>3. \/ /\ Answer(c, "generic") /\ pi' = pi
      \/ /\ intent \in Intents
         /\ pi' = [pi EXCEPT ![c] = intent]
         /\ reply' = [reply EXCEPT ![c] = "intent"]
         /\ \/ Goto(c, "expand") /\ intent.latest_charge \in ChargeIds
            \/ Goto(c, "respond")
  BY <1>2, LatestChargeTyped DEF Retrieve, Expands
<1>4. rq[c].op = "retrieve"
  BY <1>1 DEF ServingFacts, ControlOK, Retrieve, ReadOps
<1> HIDE DEF intent
<1>7. TypeOK'
  BY <1>1, <1>2, <1>3 DEF Retrieve, ServingFacts, TypeOK, Goto, Answer, PCs, Locked,
     Replies, store
<1>8. HandlerOK(c)'
  BY <1>1, <1>2, <1>3, <1>4 DEF Retrieve, ServingFacts, TypeOK, Goto, Answer, store,
     HandlerOK, RequestOK, ControlOK, CopiesOK, IdleOK, Building, Recording, Locked, ReadOps, ActionOps, LifecycleOps
<1>9. OthersKeep(c)
  BY DEF Retrieve, TypeOK, Goto, Answer, store, OthersKeep, Serials
<1>10. QED
  BY <1>7, <1>8, <1>9, OthersStayOK

LEMMA AcquireLockTyped ==
  ASSUME TypeOK, HandlersOK, NEW c \in Clients, AcquireLock(c)
  PROVE  TypeOK' /\ HandlersOK'
<1>1. TypeOK'
  BY DEF AcquireLock, TypeOK, Goto, Answer, PCs, Locked, Replies, store
<1>2. HandlerOK(c)'
  BY DEF AcquireLock, TypeOK, Goto, Answer, store, HandlersOK, HandlerOK, RequestOK, ControlOK, CopiesOK,
         IdleOK, Building, Recording, Locked, ReadOps, ActionOps, LifecycleOps
<1>3. OthersKeep(c)
  BY DEF AcquireLock, TypeOK, Goto, Answer, store, OthersKeep, Serials
<1>4. QED
  BY <1>1, <1>2, <1>3, OthersStayOK

LEMMA LeaveUnsimulatedTyped ==
  ASSUME TypeOK, HandlersOK, NEW c \in Clients, LeaveUnsimulated(c)
  PROVE  TypeOK' /\ HandlersOK'
<1>1. TypeOK'
  BY DEF LeaveUnsimulated, TypeOK, Goto, Answer, PCs, Locked, Replies, store
<1>2. HandlerOK(c)'
  BY DEF LeaveUnsimulated, TypeOK, Goto, Answer, store, HandlersOK, HandlerOK, RequestOK, ControlOK, CopiesOK,
         IdleOK, Building, Recording, Locked, ReadOps, ActionOps, LifecycleOps
<1>3. OthersKeep(c)
  BY DEF LeaveUnsimulated, TypeOK, Goto, Answer, store, OthersKeep, Serials
<1>4. QED
  BY <1>1, <1>2, <1>3, OthersStayOK

LEMMA LoadAndRejectTyped ==
  ASSUME TypeOK, HandlersOK, NEW c \in Clients, LoadAndReject(c)
  PROVE  TypeOK' /\ HandlersOK'
<1>1. TypeOK'
  BY DEF LoadAndReject, TypeOK, Goto, Answer, PCs, Locked, Replies, store
<1>2. HandlerOK(c)'
  BY DEF LoadAndReject, TypeOK, Goto, Answer, store, HandlersOK, HandlerOK, RequestOK, ControlOK, CopiesOK,
         IdleOK, Building, Recording, Locked, ReadOps, ActionOps, LifecycleOps
<1>3. OthersKeep(c)
  BY DEF LoadAndReject, TypeOK, Goto, Answer, store, OthersKeep, Serials
<1>4. QED
  BY <1>1, <1>2, <1>3, OthersStayOK

LEMMA LoadAndApplyTyped ==
  ASSUME TypeOK, HandlersOK, NEW c \in Clients, LoadAndApply(c)
  PROVE  TypeOK' /\ HandlersOK'
<1>1. pc[c] # "idle" /\ ServingFacts(c)
  BY Serving DEF LoadAndApply
<1> DEFINE intent == Apply(rq[c].op, Loaded(c), params(c))
           label  == IF rq[c].op = "update" THEN "store" ELSE RecordFrom(intent)
<1>2. intent \in Intents
  BY <1>1, LoadedTyped, ApplyTyped DEF ServingFacts, Loaded
<1>3. Leads(intent, label)
  BY <1>2, RecordFromLeads DEF Leads
<1>4. /\ pi' = [pi EXCEPT ![c] = intent]
      /\ pc' = [pc EXCEPT ![c] = label]
  BY DEF LoadAndApply, Goto
<1>5. rq[c].op \in LifecycleOps
  BY <1>1 DEF ServingFacts, ControlOK, LoadAndApply, ActionOps, LifecycleOps
<1> HIDE DEF intent, label
<1>7. TypeOK'
  BY <1>1, <1>2, <1>3, <1>4 DEF LoadAndApply, ServingFacts, TypeOK, Goto, Answer, PCs, Locked,
     Replies, store, Leads
<1>8. HandlerOK(c)'
  BY <1>1, <1>2, <1>3, <1>4, <1>5 DEF LoadAndApply, ServingFacts, TypeOK, Goto, Answer, store,
     HandlerOK, RequestOK, ControlOK, CopiesOK, IdleOK, Building, Recording, Locked, ReadOps, ActionOps, LifecycleOps, Leads
<1>9. OthersKeep(c)
  BY DEF LoadAndApply, TypeOK, Goto, Answer, store, OthersKeep, Serials
<1>10. QED
  BY <1>7, <1>8, <1>9, OthersStayOK

LEMMA EnqueueCreatedTyped ==
  ASSUME TypeOK, HandlersOK, NEW c \in Clients, EnqueueCreated(c)
  PROVE  TypeOK' /\ HandlersOK'
<1>1. pc[c] # "idle" /\ ServingFacts(c)
  BY Serving DEF EnqueueCreated
<1>2. pi[c] \in Intents
  BY <1>1 DEF ServingFacts, CopiesOK, EnqueueCreated, Building
<1> DEFINE label == RecordFrom(pi[c])
<1>3. Leads(pi[c], label)
  BY <1>2, RecordFromLeads
<1>4. pc' = [pc EXCEPT ![c] = label]
  BY DEF EnqueueCreated, Goto
<1> HIDE DEF label
<1>5. IntentEvent(c, "payment_intent.created") \in Events
  BY <1>1, <1>2 DEF IntentEvent, Events, EventTypes, ServingFacts
<1>6. events' \in [Sessions -> Seq(Events)]
  BY <1>1, <1>5, EnqueueTyped DEF EnqueueCreated, Enqueue, ServingFacts, TypeOK
<1>7. TypeOK'
  BY <1>1, <1>3, <1>4, <1>6 DEF EnqueueCreated, ServingFacts, TypeOK, Goto, Answer, PCs, Locked,
     Replies, store, Leads
<1>8. HandlerOK(c)'
  BY <1>1, <1>2, <1>3, <1>4 DEF EnqueueCreated, ServingFacts, TypeOK, Goto, Answer, store,
     HandlerOK, RequestOK, ControlOK, CopiesOK, IdleOK, Building, Recording, Locked, ReadOps, ActionOps, LifecycleOps, Leads
<1>9. OthersKeep(c)
  BY DEF EnqueueCreated, TypeOK, Goto, Answer, store, OthersKeep, Serials
<1>10. QED
  BY <1>7, <1>8, <1>9, OthersStayOK

LEMMA FindChargeTyped ==
  ASSUME TypeOK, HandlersOK, NEW c \in Clients, FindCharge(c)
  PROVE  TypeOK' /\ HandlersOK'
<1>1. pc[c] # "idle" /\ ServingFacts(c)
  BY Serving DEF FindCharge
<1>2. pi[c].latest_charge \in ChargeIds /\ pi[c] \in Intents
  BY <1>1 DEF ServingFacts, CopiesOK, FindCharge, Building, Recording, Locked
<1> DEFINE charge == charges[session(c)][pi[c].latest_charge]
           copy   == IF reusable(charge) THEN charge ELSE NoCharge
<1>3. copy \in Charges \cup {NoCharge}
  BY <1>1, <1>2 DEF ServingFacts
<1>4. ch' = [ch EXCEPT ![c] = copy]
  BY DEF FindCharge
<1> HIDE DEF charge, copy
<1>7. TypeOK'
  BY <1>1, <1>3, <1>4 DEF FindCharge, ServingFacts, TypeOK, Goto, Answer, PCs, Locked,
     Replies, store
<1>8. HandlerOK(c)'
  BY <1>1, <1>2, <1>3, <1>4 DEF FindCharge, ServingFacts, TypeOK, Goto, Answer, store,
     HandlerOK, RequestOK, ControlOK, CopiesOK, IdleOK, Building, Recording, Locked, ReadOps, ActionOps, LifecycleOps
<1>9. OthersKeep(c)
  BY DEF FindCharge, TypeOK, Goto, Answer, store, OthersKeep, Serials
<1>10. QED
  BY <1>7, <1>8, <1>9, OthersStayOK

LEMMA PutChargeTyped ==
  ASSUME TypeOK, HandlersOK, NEW c \in Clients, PutCharge(c)
  PROVE  TypeOK' /\ HandlersOK'
<1>1. pc[c] # "idle" /\ ServingFacts(c)
  BY Serving DEF PutCharge
<1>2. pi[c] \in Intents
  BY <1>1 DEF ServingFacts, CopiesOK, PutCharge, Building, Recording, Locked
<1> DEFINE id     == IF ch[c] = NoCharge THEN serial[c] ELSE pi[c].latest_charge
           charge == chargeForPI(pi[c], target[c])
           copy   == [pi[c] EXCEPT !.latest_charge = id]
<1>3. id \in ChargeIds /\ charge \in Charges
  BY <1>1, <1>2, chargeForPITyped DEF ServingFacts, CopiesOK, PutCharge
<1>4. /\ copy \in Intents
      /\ copy.latest_charge \in ChargeIds
      /\ NeedsCharge(pi[c]) => NeedsCharge(copy)
  BY <1>2, <1>3, LatestChargeTyped
<1>5. /\ charges' = [charges EXCEPT ![session(c)][id] = charge]
      /\ ch' = [ch EXCEPT ![c] = charge]
      /\ pi' = [pi EXCEPT ![c] = copy]
      /\ pc' = [pc EXCEPT ![c] = "charge_event"]
      /\ UNCHANGED <<enabled, intents, events, lock, issued, rq, serial, target,
                     reply>>
  BY DEF PutCharge, Goto
<1> HIDE DEF id, charge, copy
<1>6. charges' \in [Sessions -> [ChargeIds -> Charges \cup {NoCharge}]]
  BY <1>1, <1>3, <1>5 DEF TypeOK, ServingFacts
<1>7. TypeOK'
  BY <1>3, <1>4, <1>5, <1>6 DEF TypeOK, PCs, Locked
<1>8. HandlerOK(c)'
  BY <1>1, <1>2, <1>3, <1>4, <1>5 DEF PutCharge, ServingFacts, TypeOK, Goto, Answer, store,
     HandlerOK, RequestOK, ControlOK, CopiesOK, IdleOK, Building, Recording, Locked, ReadOps, ActionOps, LifecycleOps
<1>9. OthersKeep(c)
  BY DEF PutCharge, TypeOK, Goto, Answer, store, OthersKeep, Serials
<1>10. QED
  BY <1>7, <1>8, <1>9, OthersStayOK

LEMMA EnqueueChargeEventTyped ==
  ASSUME TypeOK, HandlersOK, NEW c \in Clients, EnqueueChargeEvent(c)
  PROVE  TypeOK' /\ HandlersOK'
<1>1. pc[c] # "idle" /\ ServingFacts(c)
  BY Serving DEF EnqueueChargeEvent
<1>2. /\ pi[c] \in Intents /\ ch[c] \in Charges /\ NeedsCharge(pi[c])
      /\ pi[c].latest_charge \in ChargeIds
  BY <1>1 DEF ServingFacts, CopiesOK, EnqueueChargeEvent, Building, Recording,
     Locked
<1> DEFINE type  == chargeEventType(pi[c], rq[c].op = "capture")
           event == [type |-> type, intent |-> target[c],
                     charge |-> pi[c].latest_charge, object |-> ch[c]]
<1>3. /\ type \in EventTypes
      /\ intentEventType(pi[c]) \in EventTypes
  BY <1>2, EventTypesTyped
<1>4. event \in Events
  <2> HIDE DEF type
  <2> QED BY <1>1, <1>2, <1>3 DEF Events, ServingFacts
<1>5. events' = [events EXCEPT ![session(c)] = Append(@, event)]
  BY DEF EnqueueChargeEvent, Enqueue
<1>6. events' \in [Sessions -> Seq(Events)]
  BY <1>1, <1>4, <1>5, EnqueueTyped DEF ServingFacts, TypeOK
<1> HIDE DEF type, event
<1>7. TypeOK'
  BY <1>1, <1>6 DEF EnqueueChargeEvent, ServingFacts, TypeOK, Goto, Answer, PCs, Locked,
     Replies, store
<1>8. HandlerOK(c)'
  BY <1>1, <1>2, <1>3 DEF EnqueueChargeEvent, ServingFacts, TypeOK, Goto, Answer, store,
     HandlerOK, RequestOK, ControlOK, CopiesOK, IdleOK, Building, Recording, Locked, ReadOps, ActionOps, LifecycleOps
<1>9. OthersKeep(c)
  BY DEF EnqueueChargeEvent, TypeOK, Goto, Answer, store, OthersKeep, Serials
<1>10. QED
  BY <1>7, <1>8, <1>9, OthersStayOK

LEMMA EnqueueIntentEventTyped ==
  ASSUME TypeOK, HandlersOK, NEW c \in Clients, EnqueueIntentEvent(c)
  PROVE  TypeOK' /\ HandlersOK'
<1>1. pc[c] # "idle" /\ ServingFacts(c)
  BY Serving DEF EnqueueIntentEvent
<1>2. pi[c] \in Intents /\ intentEventType(pi[c]) \in EventTypes
  BY <1>1 DEF ServingFacts, CopiesOK, EnqueueIntentEvent, Building, Recording,
     Locked
<1>3. IntentEvent(c, intentEventType(pi[c])) \in Events
  BY <1>1, <1>2 DEF IntentEvent, Events, ServingFacts
<1>4. events' \in [Sessions -> Seq(Events)]
  BY <1>1, <1>3, EnqueueTyped DEF EnqueueIntentEvent, Enqueue, ServingFacts, TypeOK
<1>7. TypeOK'
  BY <1>1, <1>4 DEF EnqueueIntentEvent, ServingFacts, TypeOK, Goto, Answer, PCs, Locked,
     Replies, store
<1>8. HandlerOK(c)'
  BY <1>1 DEF EnqueueIntentEvent, ServingFacts, TypeOK, Goto, Answer, store,
     HandlerOK, RequestOK, ControlOK, CopiesOK, IdleOK, Building, Recording, Locked, ReadOps, ActionOps, LifecycleOps
<1>9. OthersKeep(c)
  BY DEF EnqueueIntentEvent, TypeOK, Goto, Answer, store, OthersKeep, Serials
<1>10. QED
  BY <1>7, <1>8, <1>9, OthersStayOK

LEMMA StoreIntentTyped ==
  ASSUME TypeOK, HandlersOK, NEW c \in Clients, StoreIntent(c)
  PROVE  TypeOK' /\ HandlersOK'
<1>1. pc[c] # "idle" /\ ServingFacts(c)
  BY Serving DEF StoreIntent
<1>2. pi[c] \in Intents
  BY <1>1 DEF ServingFacts, CopiesOK, StoreIntent, Building, Recording, Locked
<1>3. \/ Goto(c, "expand") /\ pi[c].latest_charge \in ChargeIds
      \/ Goto(c, "respond")
  BY <1>2, LatestChargeTyped DEF StoreIntent, Expands
<1>7. TypeOK'
  BY <1>1, <1>2, <1>3 DEF StoreIntent, ServingFacts, TypeOK, Goto, Answer, PCs, Locked,
     Replies, store
<1>8. HandlerOK(c)'
  BY <1>1, <1>2, <1>3 DEF StoreIntent, ServingFacts, TypeOK, Goto, Answer, store,
     HandlerOK, RequestOK, ControlOK, CopiesOK, IdleOK, Building, Recording, Locked, ReadOps, ActionOps, LifecycleOps
<1>9. OthersKeep(c)
  BY DEF StoreIntent, TypeOK, Goto, Answer, store, OthersKeep, Serials
<1>10. QED
  BY <1>7, <1>8, <1>9, OthersStayOK

LEMMA ExpandTyped ==
  ASSUME TypeOK, HandlersOK, NEW c \in Clients, Expand(c)
  PROVE  TypeOK' /\ HandlersOK'
<1>1. pc[c] # "idle" /\ ServingFacts(c)
  BY Serving DEF Expand
<1>2. pi[c].latest_charge \in ChargeIds
  BY <1>1 DEF ServingFacts, CopiesOK, Expand
<1> DEFINE charge == charges[session(c)][pi[c].latest_charge]
<1>3. charge \in Charges \cup {NoCharge} /\ ch' = [ch EXCEPT ![c] = charge]
  BY <1>1, <1>2 DEF ServingFacts, Expand
<1> HIDE DEF charge
<1>7. TypeOK'
  BY <1>1, <1>3 DEF Expand, ServingFacts, TypeOK, Goto, Answer, PCs, Locked,
     Replies, store
<1>8. HandlerOK(c)'
  BY <1>1, <1>3 DEF Expand, ServingFacts, TypeOK, Goto, Answer, store,
     HandlerOK, RequestOK, ControlOK, CopiesOK, IdleOK, Building, Recording, Locked, ReadOps, ActionOps, LifecycleOps
<1>9. OthersKeep(c)
  BY DEF Expand, TypeOK, Goto, Answer, store, OthersKeep, Serials
<1>10. QED
  BY <1>7, <1>8, <1>9, OthersStayOK

LEMMA RespondTyped ==
  ASSUME TypeOK, HandlersOK, NEW c \in Clients, Respond(c)
  PROVE  TypeOK' /\ HandlersOK'
<1>1. pc[c] # "idle" /\ ServingFacts(c)
  BY Serving DEF Respond
<1>2. lock' \in Clients \cup {Null}
  BY DEF Respond, unlocked, TypeOK
<1>7. TypeOK'
  BY <1>1, <1>2 DEF Respond, ServingFacts, TypeOK, Goto, Answer, PCs, Locked,
     Replies, store
<1>8. HandlerOK(c)'
  BY <1>1 DEF Respond, ServingFacts, TypeOK, Goto, Answer, store,
     HandlerOK, RequestOK, ControlOK, CopiesOK, IdleOK, Building, Recording, Locked, ReadOps, ActionOps, LifecycleOps
<1>9. OthersKeep(c)
  BY DEF Respond, TypeOK, Goto, Answer, store, OthersKeep, Serials
<1>10. QED
  BY <1>7, <1>8, <1>9, OthersStayOK


LEMMA TypedInit == Init => TypeOK /\ HandlersOK
BY BoundsAssumption
   DEF Init, TypeOK, HandlersOK, HandlerOK, IdleOK, PCs, Replies, IntentIds,
       ChargeIds, Serials

LEMMA ArriveTyped ==
  ASSUME TypeOK, HandlersOK, NEW c \in Clients, Arrive(c)
  PROVE  TypeOK' /\ HandlersOK'
<1>1. issued \in Nat /\ issued + 1 \in 1 .. issued + 1
  BY DEF TypeOK
<1>2. /\ Answered \subseteq 1 .. issued
      /\ Answered \subseteq ChargeIds
      /\ \A s \in Sessions :
           KnownIntents(s) \subseteq ForeignIds \cup 1 .. issued + 1
  BY BoundsAssumption DEF Answered, KnownIntents, TypeOK, ChargeIds, Serials
<1>3. CASE IssueCreate(c)
  <2>1. PICK r \in Workload : r.op = "create" /\ Issue(c, r, issued + 1)
    BY <1>3 DEF IssueCreate
  <2>2. QED
    BY <1>1, <2>1, WorkloadAssumption, IssueTyped
<1>4. CASE IssueOnIntent(c)
  <2>0. PICK r \in Workload : \E id \in KnownIntents(r.session) :
          /\ r.op \in ActionOps \cup {"retrieve", "list_charges", "other"}
          /\ Issue(c, r, id)
    BY <1>4 DEF IssueOnIntent
  <2>1. PICK id \in KnownIntents(r.session) :
          /\ r.op \in ActionOps \cup {"retrieve", "list_charges", "other"}
          /\ Issue(c, r, id)
    BY <2>0
  <2>2. r \in Requests /\ r.session \in Sessions
    BY WorkloadAssumption DEF Requests
  <2>3. id \in ForeignIds \cup 1 .. issued + 1
    BY <1>2, <2>2
  <2>4. r.op # "create" /\ r.op # "retrieve_charge"
    BY <2>1 DEF ActionOps
  <2>5. QED
    BY <2>1, <2>2, <2>3, <2>4, IssueTyped
<1>5. CASE IssueOnCharge(c)
  <2>1. PICK r \in Workload, id \in Answered :
          r.op = "retrieve_charge" /\ Issue(c, r, id)
    BY <1>5 DEF IssueOnCharge
  <2>2. r \in Requests /\ id \in ChargeIds /\ id \in ForeignIds \cup 1 .. issued + 1
    BY <1>1, <1>2, <2>1, WorkloadAssumption
  <2>3. QED
    BY <2>1, <2>2, IssueTyped
<1>6. QED
  BY <1>3, <1>4, <1>5 DEF Arrive

LEMMA TypedStep == TypeOK /\ HandlersOK /\ [Next]_vars => TypeOK' /\ HandlersOK'
<1> SUFFICES ASSUME TypeOK, HandlersOK, [Next]_vars
             PROVE  TypeOK' /\ HandlersOK'
  OBVIOUS
<1>1. ASSUME NEW c \in Clients, Handle(c)
      PROVE  TypeOK' /\ HandlersOK'
  BY <1>1, OptInTyped, FallThroughTyped, GateOpenTyped, RefuseCreateTyped,
     ListChargesTyped, RetrieveChargeTyped, ExpandChargeTyped, RetrieveTyped,
     LeaveUnsimulatedTyped, LoadAndRejectTyped, LoadAndApplyTyped,
     EnqueueCreatedTyped, FindChargeTyped, PutChargeTyped,
     EnqueueChargeEventTyped, EnqueueIntentEventTyped, StoreIntentTyped,
     ExpandTyped, RespondTyped
     DEF Handle
<1>2. ASSUME UNCHANGED vars
      PROVE  TypeOK' /\ HandlersOK'
  <2>1. TypeOK'
    BY <1>2 DEF vars, TypeOK
  <2>2. HandlersOK'
    BY <1>2 DEF vars, HandlersOK, HandlerOK, IdleOK, RequestOK, ControlOK,
       CopiesOK
  <2>3. QED
    BY <2>1, <2>2
<1>3. QED
  BY <1>1, <1>2, ArriveTyped, AcquireLockTyped DEF Next, Done

\* In every reachable state the store, the queue and every handler's copies
\* are well formed: no lifecycle function ever leaves the objects it is given
\* half built, and no handler dereferences a charge id that is null.
THEOREM TypeCorrect == Spec => []TypeOK
<1>1. Init => TypeOK /\ HandlersOK
  BY TypedInit
<1>2. TypeOK /\ HandlersOK /\ [Next]_vars => (TypeOK /\ HandlersOK)'
  BY TypedStep
<1>3. QED
  BY <1>1, <1>2, PTL DEF Spec
-----------------------------------------------------------------------------
(* The lock, the ids and the write-back                                    *)

\* What a step of the handler serving c does to the variables of requests.
Effect(c) ==
  /\ OthersKeep(c)
  /\ issued' = issued
  /\ intents' = intents \/ StoreIntent(c)
  /\ pc[c] # "idle"
  /\ \/ pc'[c] = "idle"
     \/ /\ rq'[c] = rq[c] /\ serial'[c] = serial[c] /\ target'[c] = target[c]
        /\ pc'[c] # "idle"

LEMMA HandleEffect ==
  ASSUME TypeOK, HandlersOK, NEW c \in Clients, Handle(c) \/ AcquireLock(c)
  PROVE  Effect(c)
<1>1. OthersKeep(c)
  BY DEF OthersKeep, TypeOK, Handle, OptIn, FallThrough, GateOpen, RefuseCreate,
     ListCharges, RetrieveCharge, ExpandCharge, Retrieve, AcquireLock,
     LeaveUnsimulated, LoadAndReject, LoadAndApply, EnqueueCreated, FindCharge,
     PutCharge, EnqueueChargeEvent, EnqueueIntentEvent, StoreIntent, Expand,
     Respond, Goto, Answer, Serials
<1>2. CASE OptIn(c)
  BY <1>1, <1>2 DEF OptIn, Goto, Answer, store, Effect, TypeOK, PCs, ReadOps
<1>3. CASE FallThrough(c)
  BY <1>1, <1>3 DEF FallThrough, Goto, Answer, store, Effect, TypeOK, PCs, ReadOps
<1>4. CASE GateOpen(c)
  BY <1>1, <1>4 DEF GateOpen, Goto, store, Effect, TypeOK, ReadOps, ActionOps
<1>5. CASE RefuseCreate(c)
  BY <1>1, <1>5 DEF RefuseCreate, Goto, Answer, store, Effect, TypeOK, PCs, ReadOps
<1>6. CASE ListCharges(c)
  BY <1>1, <1>6 DEF ListCharges, Goto, Answer, store, Effect, TypeOK, PCs, ReadOps
<1>7. CASE RetrieveCharge(c)
  BY <1>1, <1>7 DEF RetrieveCharge, Goto, Answer, store, Effect, TypeOK, PCs, ReadOps
<1>8. CASE ExpandCharge(c)
  BY <1>1, <1>8 DEF ExpandCharge, Goto, Answer, store, Effect, TypeOK, PCs, ReadOps
<1>9. CASE Retrieve(c)
  BY <1>1, <1>9 DEF Retrieve, Goto, Answer, store, Effect, TypeOK, PCs, ReadOps
<1>10. CASE LeaveUnsimulated(c)
  BY <1>1, <1>10 DEF LeaveUnsimulated, Goto, Answer, store, Effect, TypeOK, PCs, ReadOps
<1>11. CASE LoadAndReject(c)
  BY <1>1, <1>11 DEF LoadAndReject, Goto, Answer, store, Effect, TypeOK, PCs, ReadOps
<1>12. CASE LoadAndApply(c)
  BY <1>1, <1>12 DEF LoadAndApply, Goto, Answer, store, Effect, TypeOK, PCs, ReadOps
<1>13. CASE EnqueueCreated(c)
  BY <1>1, <1>13 DEF EnqueueCreated, Goto, Answer, store, Effect, TypeOK, PCs, ReadOps
<1>14. CASE FindCharge(c)
  BY <1>1, <1>14 DEF FindCharge, Goto, Answer, store, Effect, TypeOK, PCs, ReadOps
<1>15. CASE PutCharge(c)
  BY <1>1, <1>15 DEF PutCharge, Goto, Answer, store, Effect, TypeOK, PCs, ReadOps
<1>16. CASE EnqueueChargeEvent(c)
  BY <1>1, <1>16 DEF EnqueueChargeEvent, Goto, Answer, store, Effect, TypeOK, PCs, ReadOps
<1>17. CASE EnqueueIntentEvent(c)
  BY <1>1, <1>17 DEF EnqueueIntentEvent, Goto, Answer, store, Effect, TypeOK, PCs, ReadOps
<1>18. CASE StoreIntent(c)
  BY <1>1, <1>18 DEF StoreIntent, Goto, Answer, store, Effect, TypeOK, PCs, ReadOps
<1>19. CASE Expand(c)
  BY <1>1, <1>19 DEF Expand, Goto, Answer, store, Effect, TypeOK, PCs, ReadOps
<1>20. CASE Respond(c)
  BY <1>1, <1>20 DEF Respond, Goto, Answer, store, Effect, TypeOK, PCs, ReadOps
<1>21. CASE AcquireLock(c)
  BY <1>1, <1>21 DEF AcquireLock, Goto, store, Effect, TypeOK
<1>22. QED
  BY <1>2, <1>3, <1>4, <1>5, <1>6, <1>7, <1>8, <1>9, <1>10, <1>11, <1>12, <1>13, <1>14, <1>15, <1>16, <1>17, <1>18, <1>19, <1>20, <1>21 DEF Handle

\* What it does to the lock.
LockEffect(c) ==
  \/ lock' = lock /\ Holds(c)' = Holds(c)
  \/ lock = c /\ lock' = Null /\ ~Holds(c)'
  \/ lock = Null /\ lock' = c /\ Holds(c)'

LEMMA HandleLockEffect ==
  ASSUME TypeOK, HandlersOK, LockOK, NEW c \in Clients,
         Handle(c) \/ AcquireLock(c)
  PROVE  LockEffect(c)
<1>1. pc[c] # "idle" /\ ServingFacts(c)
  BY HandleEffect, Serving DEF Effect
<1>2. CASE OptIn(c)
  BY <1>1, <1>2 DEF OptIn, Goto, Answer, store, LockEffect, Holds, TypeOK, ServingFacts,
     ControlOK, Locked, Recording, Building, ReadOps, ActionOps, LifecycleOps, LockOK, unlocked
<1>3. CASE FallThrough(c)
  BY <1>1, <1>3 DEF FallThrough, Goto, Answer, store, LockEffect, Holds, TypeOK, ServingFacts,
     ControlOK, Locked, Recording, Building, ReadOps, ActionOps, LifecycleOps, LockOK, unlocked
<1>4. CASE GateOpen(c)
  BY <1>1, <1>4 DEF GateOpen, Goto, Answer, store, LockEffect, Holds, TypeOK, ServingFacts,
     ControlOK, Locked, Recording, Building, ReadOps, ActionOps, LifecycleOps, LockOK, unlocked
<1>5. CASE RefuseCreate(c)
  BY <1>1, <1>5 DEF RefuseCreate, Refused, Goto, Answer, store, LockEffect, Holds, TypeOK, ServingFacts,
     ControlOK, Locked, Recording, Building, ReadOps, ActionOps, LifecycleOps, LockOK, unlocked
<1>6. CASE ListCharges(c)
  BY <1>1, <1>6 DEF ListCharges, Goto, Answer, store, LockEffect, Holds, TypeOK, ServingFacts,
     ControlOK, Locked, Recording, Building, ReadOps, ActionOps, LifecycleOps, LockOK, unlocked
<1>7. CASE RetrieveCharge(c)
  BY <1>1, <1>7 DEF RetrieveCharge, Goto, Answer, store, LockEffect, Holds, TypeOK, ServingFacts,
     ControlOK, Locked, Recording, Building, ReadOps, ActionOps, LifecycleOps, LockOK, unlocked
<1>8. CASE ExpandCharge(c)
  BY <1>1, <1>8 DEF ExpandCharge, Goto, Answer, store, LockEffect, Holds, TypeOK, ServingFacts,
     ControlOK, Locked, Recording, Building, ReadOps, ActionOps, LifecycleOps, LockOK, unlocked
<1>9. CASE Retrieve(c)
  BY <1>1, <1>9 DEF Retrieve, Goto, Answer, store, LockEffect, Holds, TypeOK, ServingFacts,
     ControlOK, Locked, Recording, Building, ReadOps, ActionOps, LifecycleOps, LockOK, unlocked
<1>10. CASE LeaveUnsimulated(c)
  BY <1>1, <1>10 DEF LeaveUnsimulated, Goto, Answer, store, LockEffect, Holds, TypeOK, ServingFacts,
     ControlOK, Locked, Recording, Building, ReadOps, ActionOps, LifecycleOps, LockOK, unlocked
<1>11. CASE LoadAndReject(c)
  BY <1>1, <1>11 DEF LoadAndReject, Goto, Answer, store, LockEffect, Holds, TypeOK, ServingFacts,
     ControlOK, Locked, Recording, Building, ReadOps, ActionOps, LifecycleOps, LockOK, unlocked
<1>12. CASE LoadAndApply(c)
  BY <1>1, <1>12 DEF LoadAndApply, RecordFrom, Goto, Answer, store, LockEffect, Holds, TypeOK, ServingFacts,
     ControlOK, Locked, Recording, Building, ReadOps, ActionOps, LifecycleOps, LockOK, unlocked
<1>13. CASE EnqueueCreated(c)
  BY <1>1, <1>13 DEF EnqueueCreated, Goto, Answer, store, LockEffect, Holds, TypeOK, ServingFacts,
     ControlOK, Locked, Recording, Building, ReadOps, ActionOps, LifecycleOps, LockOK, unlocked
<1>14. CASE FindCharge(c)
  BY <1>1, <1>14 DEF FindCharge, Goto, Answer, store, LockEffect, Holds, TypeOK, ServingFacts,
     ControlOK, Locked, Recording, Building, ReadOps, ActionOps, LifecycleOps, LockOK, unlocked
<1>15. CASE PutCharge(c)
  BY <1>1, <1>15 DEF PutCharge, Goto, Answer, store, LockEffect, Holds, TypeOK, ServingFacts,
     ControlOK, Locked, Recording, Building, ReadOps, ActionOps, LifecycleOps, LockOK, unlocked
<1>16. CASE EnqueueChargeEvent(c)
  BY <1>1, <1>16 DEF EnqueueChargeEvent, Goto, Answer, store, LockEffect, Holds, TypeOK, ServingFacts,
     ControlOK, Locked, Recording, Building, ReadOps, ActionOps, LifecycleOps, LockOK, unlocked
<1>17. CASE EnqueueIntentEvent(c)
  BY <1>1, <1>17 DEF EnqueueIntentEvent, Goto, Answer, store, LockEffect, Holds, TypeOK, ServingFacts,
     ControlOK, Locked, Recording, Building, ReadOps, ActionOps, LifecycleOps, LockOK, unlocked
<1>18. CASE StoreIntent(c)
  BY <1>1, <1>18 DEF StoreIntent, Goto, Answer, store, LockEffect, Holds, TypeOK, ServingFacts,
     ControlOK, Locked, Recording, Building, ReadOps, ActionOps, LifecycleOps, LockOK, unlocked
<1>19. CASE Expand(c)
  BY <1>1, <1>19 DEF Expand, Goto, Answer, store, LockEffect, Holds, TypeOK, ServingFacts,
     ControlOK, Locked, Recording, Building, ReadOps, ActionOps, LifecycleOps, LockOK, unlocked
<1>20. CASE Respond(c)
  BY <1>1, <1>20 DEF Respond, Goto, Answer, store, LockEffect, Holds, TypeOK, ServingFacts,
     ControlOK, Locked, Recording, Building, ReadOps, ActionOps, LifecycleOps, LockOK, unlocked
<1>21. CASE AcquireLock(c)
  BY <1>1, <1>21 DEF AcquireLock, Goto, store, LockEffect, Holds, TypeOK, ServingFacts,
     ControlOK, Locked, ActionOps
<1>22. QED
  BY <1>2, <1>3, <1>4, <1>5, <1>6, <1>7, <1>8, <1>9, <1>10, <1>11, <1>12, <1>13, <1>14, <1>15, <1>16, <1>17, <1>18, <1>19, <1>20, <1>21 DEF Handle

\* A request that has just arrived is no create of an id another request is
\* about, and is not about the id of a create in progress.
LEMMA ArriveEffect ==
  ASSUME TypeOK, HandlersOK, NEW c \in Clients, Arrive(c)
  PROVE  /\ OthersKeep(c)
         /\ pc[c] = "idle" /\ pc'[c] \in {"opt_in", "gate"}
         /\ lock' = lock /\ intents' = intents
         /\ issued' = issued + 1 /\ issued + 1 \in Serials
         /\ serial'[c] = issued + 1
         /\ IF rq'[c].op = "create"
              THEN target'[c] = issued + 1
              ELSE target'[c] \in ForeignIds \cup Answered
<1>1. PICK r \in Workload, id \in ForeignIds \cup Answered \cup {issued + 1} :
        /\ Issue(c, r, id)
        /\ IF r.op = "create" THEN id = issued + 1
                              ELSE id \in ForeignIds \cup Answered
  <2>1. CASE IssueCreate(c)
    BY <2>1 DEF IssueCreate
  <2>2. CASE IssueOnIntent(c)
    <3>1. PICK r \in Workload : \E id \in KnownIntents(r.session) :
            /\ r.op \in ActionOps \cup {"retrieve", "list_charges", "other"}
            /\ Issue(c, r, id)
      BY <2>2 DEF IssueOnIntent
    <3>2. PICK id \in KnownIntents(r.session) : Issue(c, r, id)
      BY <3>1
    <3>3. r.op # "create" /\ id \in ForeignIds \cup Answered
      BY <3>1, <3>2 DEF KnownIntents, ActionOps
    <3>4. QED
      BY <3>2, <3>3
  <2>3. CASE IssueOnCharge(c)
    BY <2>3 DEF IssueOnCharge
  <2>4. QED
    BY <2>1, <2>2, <2>3 DEF Arrive
<1>2. issued \in Nat /\ issued + 1 \in Serials
  BY <1>1, BoundsAssumption DEF TypeOK, Issue, Serials
<1>3. OthersKeep(c)
  BY <1>1, <1>2 DEF OthersKeep, Issue, Goto, TypeOK
<1>4. QED
  BY <1>1, <1>2, <1>3 DEF Issue, Goto, TypeOK

\* Every step is the arrival of a request, a step of its handler, or a
\* stutter.
LEMMA StepCases ==
  ASSUME [Next]_vars
  PROVE  \/ \E c \in Clients : Arrive(c) \/ AcquireLock(c) \/ Handle(c)
         \/ UNCHANGED vars
BY DEF Next, Done

LEMMA LockStep ==
  ASSUME TypeOK, HandlersOK, LockOK, [Next]_vars
  PROVE  LockOK'
<1>1. ASSUME NEW c \in Clients, Arrive(c)
      PROVE  LockOK'
  BY <1>1, ArriveEffect DEF LockOK, Holds, OthersKeep, Locked
<1>2. ASSUME NEW c \in Clients, Handle(c) \/ AcquireLock(c)
      PROVE  LockOK'
  <2>1. LockEffect(c) /\ OthersKeep(c)
    BY <1>2, HandleLockEffect, HandleEffect DEF Effect
  <2>2. \A d \in Clients \ {c} : Holds(d)' = Holds(d)
    BY <2>1 DEF OthersKeep, Holds
  <2>3. QED
    BY <2>1, <2>2, ClientsAssumption DEF LockOK, LockEffect
<1>3. ASSUME UNCHANGED vars
      PROVE  LockOK'
  BY <1>3 DEF vars, LockOK, Holds
<1>4. QED
  BY <1>1, <1>2, <1>3, StepCases

LEMMA PrivateStep ==
  ASSUME TypeOK, HandlersOK, PrivateOK, [Next]_vars
  PROVE  PrivateOK'
<1>1. ASSUME NEW c \in Clients, Arrive(c)
      PROVE  PrivateOK'
  <2>1. SUFFICES ASSUME NEW d \in Clients, d # c, pc[d] # "idle"
                 PROVE  /\ serial'[c] # serial[d]
                        /\ rq'[c].op = "create" => target[d] # target'[c]
                        /\ rq[d].op = "create" => target'[c] # target[d]
    BY <1>1, ArriveEffect DEF OthersKeep, PrivateOK
  <2>2. /\ serial[d] \in 1 .. issued
        /\ target[d] \in ForeignIds \cup 1 .. issued
        /\ rq[d].op = "create" => target[d] = serial[d]
    BY <2>1 DEF HandlersOK, HandlerOK, RequestOK
  <2>3. serial[d] \notin ForeignIds \cup Answered
    <3>1. serial[d] \in InFlight /\ serial[d] \in Serials
      BY <2>2, DistinguishedValues, BoundsAssumption DEF InFlight, TypeOK, Serials
    <3>2. QED
      BY <3>1, DistinguishedValues DEF Answered
  <2>4. issued + 1 \notin ForeignIds \cup 1 .. issued
    BY <1>1, ArriveEffect, DistinguishedValues DEF TypeOK
  <2>5. QED
    BY <1>1, <2>2, <2>3, <2>4, ArriveEffect DEF TypeOK
<1>2. ASSUME NEW c \in Clients, Handle(c) \/ AcquireLock(c)
      PROVE  PrivateOK'
  BY <1>2, HandleEffect DEF Effect, OthersKeep, PrivateOK
<1>3. ASSUME UNCHANGED vars
      PROVE  PrivateOK'
  BY <1>3 DEF vars, PrivateOK
<1>4. QED
  BY <1>1, <1>2, <1>3, StepCases

\* Two handlers never have a write to the same intent to make: actions
\* exclude each other by the lock, and the id of a create is private to it.
LEMMA NoClash ==
  ASSUME TypeOK, HandlersOK, LockOK, PrivateOK,
         NEW c \in Clients, pc[c] = "store",
         NEW d \in Clients, d # c, pc[d] # "idle",
         Holds(d) \/ rq[d].op = "create"
  PROVE  target[c] # target[d]
<1>1. ServingFacts(c)
  BY Serving
<1>2. rq[c].op = "create" \/ Holds(c)
  BY <1>1 DEF ServingFacts, ControlOK, Holds, Recording, Locked, LifecycleOps,
     ActionOps
<1>3. CASE rq[c].op = "create" \/ rq[d].op = "create"
  BY <1>3 DEF PrivateOK
<1>4. QED
  BY <1>2, <1>3 DEF LockOK

\* What storing an intent does to the cells of the store.
LEMMA StoreEffect ==
  ASSUME TypeOK, HandlersOK, NEW c \in Clients, StoreIntent(c)
  PROVE  /\ pc[c] = "store" /\ target[c] \in IntentIds
         /\ \A s \in Sessions, id \in IntentIds :
              intents'[s][id] = IF s = session(c) /\ id = target[c]
                                  THEN pi[c] ELSE intents[s][id]
<1>1. pc[c] = "store" /\ ServingFacts(c)
  BY Serving DEF StoreIntent
<1>2. QED
  BY <1>1 DEF StoreIntent, ServingFacts, TypeOK

LEMMA FreshStep ==
  ASSUME TypeOK, HandlersOK, LockOK, PrivateOK, FreshOK, [Next]_vars
  PROVE  FreshOK'
<1> DEFINE Pending(d) == /\ pc[d] \in {"opt_in", "gate"} \cup Building
                         /\ rq[d].op = "create"
<1>1. ASSUME NEW c \in Clients, Arrive(c)
      PROVE  FreshOK'
  <2>1. /\ issued \in Nat /\ issued' = issued + 1 /\ issued + 1 \in Serials
        /\ intents' = intents
    BY <1>1, ArriveEffect DEF TypeOK
  <2>2. \A s \in Sessions, id \in Serials : id > issued' => ~Stored(s, id)'
    BY <2>1 DEF FreshOK, Stored, Serials
  <2>3. ASSUME NEW d \in Clients, NEW s \in Sessions, Pending(d)'
        PROVE  ~Stored(s, target[d])'
    <3>1. CASE d = c
      BY <1>1, <2>1, <2>3, <3>1, ArriveEffect DEF FreshOK, Stored
    <3>2. CASE d # c
      BY <1>1, <2>1, <2>3, <3>2, ArriveEffect DEF FreshOK, Stored, OthersKeep
    <3>3. QED
      BY <3>1, <3>2
  <2>4. QED
    BY <2>2, <2>3 DEF FreshOK
<1>2. ASSUME NEW c \in Clients, Handle(c) \/ AcquireLock(c)
      PROVE  FreshOK'
  <2>1. Effect(c)
    BY <1>2, HandleEffect
  <2>2. ASSUME NEW d \in Clients, Pending(d)'
        PROVE  Pending(d) /\ target'[d] = target[d] /\ ~(d = c /\ StoreIntent(c))
    <3>1. CASE d # c
      BY <2>1, <2>2, <3>1 DEF Effect, OthersKeep
    <3>2. CASE d = c
      <4>1. ServingFacts(c) /\ pc[c] # "idle"
        BY <2>1, Serving DEF Effect
      <4>2. pc'[c] # "idle" /\ rq'[c] = rq[c] /\ target'[c] = target[c]
        BY <2>1, <2>2, <3>2 DEF Effect, Building, Recording, Locked
      <4>3. pc[c] \in {"opt_in", "gate"} \cup Building /\ ~StoreIntent(c)
        BY <1>2, <2>2, <3>2, <4>1, <4>2
           DEF ServingFacts, ControlOK, Building, Recording, Locked, TypeOK,
               PCs, ReadOps, ActionOps, Handle, OptIn, FallThrough, GateOpen,
               RefuseCreate, ListCharges, RetrieveCharge, ExpandCharge, Retrieve,
               AcquireLock, LeaveUnsimulated, LoadAndReject, LoadAndApply,
               EnqueueCreated, FindCharge, PutCharge, EnqueueChargeEvent,
               EnqueueIntentEvent, StoreIntent, Expand, Respond, Goto, Answer
      <4>4. QED
        BY <2>2, <3>2, <4>2, <4>3
    <3>3. QED
      BY <3>1, <3>2
  <2>3. CASE intents' = intents
    BY <2>1, <2>2, <2>3 DEF Effect, FreshOK, Stored
  <2>4. CASE StoreIntent(c)
    <3>1. /\ pc[c] = "store" /\ target[c] \in IntentIds
          /\ \A s \in Sessions, id \in IntentIds :
               intents'[s][id] = IF s = session(c) /\ id = target[c]
                                   THEN pi[c] ELSE intents[s][id]
      BY <2>4, StoreEffect
    <3>2. ASSUME NEW s \in Sessions, NEW id \in Serials, id > issued
          PROVE  ~Stored(s, id)'
      <4>1. target[c] \in ForeignIds \cup 1 .. issued /\ id \in IntentIds
        BY <3>1 DEF HandlersOK, HandlerOK, RequestOK, IntentIds
      <4>2. id # target[c]
        BY <3>2, <4>1, DistinguishedValues DEF TypeOK
      <4>3. QED
        BY <3>1, <3>2, <4>1, <4>2 DEF FreshOK, Stored
    <3>3. ASSUME NEW d \in Clients, NEW s \in Sessions, Pending(d)'
          PROVE  ~Stored(s, target[d])'
      <4>1. /\ Pending(d) /\ target'[d] = target[d] /\ d # c
            /\ pc[d] # "idle"
        BY <2>2, <2>4, <3>3 DEF Building, Recording, Locked
      <4>2. target[d] # target[c] /\ target[d] \in IntentIds
        BY <3>1, <4>1, NoClash, Serving DEF ServingFacts
      <4>3. QED
        BY <3>1, <4>1, <4>2 DEF FreshOK, Stored
    <3>4. QED
      BY <2>1, <3>2, <3>3 DEF FreshOK, Effect
  <2>5. QED
    BY <2>1, <2>3, <2>4 DEF Effect
<1>3. ASSUME UNCHANGED vars
      PROVE  FreshOK'
  BY <1>3 DEF vars, FreshOK, Stored
<1>4. QED
  BY <1>1, <1>2, <1>3, StepCases

LEMMA SameButChargeFacts ==
  ASSUME NEW intent \in Intents
  PROVE  /\ SameButCharge(intent, intent)
         /\ \A other, k : SameButCharge(intent, other) =>
              SameButCharge([intent EXCEPT !.latest_charge = k], other)
BY DEF SameButCharge, Intents

WriteOKFor(c) ==
  pc[c] \in Building =>
    IF rq[c].op = "create"
      THEN SameButCharge(pi[c], newPaymentIntent(params(c)))
      ELSE /\ Accepted(c)
           /\ SameButCharge(pi[c], Apply(rq[c].op, Loaded(c), params(c)))

\* A handler's own steps keep its copy the result of its request.
LEMMA OwnWrite ==
  ASSUME TypeOK, HandlersOK, NEW c \in Clients, WriteOKFor(c),
         Handle(c) \/ AcquireLock(c)
  PROVE  WriteOKFor(c)'
<1>1. pc[c] # "idle" /\ ServingFacts(c) /\ Effect(c)
  BY HandleEffect, Serving DEF Effect
<1>2. SUFFICES ASSUME pc'[c] \in Building
               PROVE  WriteOKFor(c)'
  BY DEF WriteOKFor
<1>3. rq'[c] = rq[c] /\ target'[c] = target[c]
  BY <1>1, <1>2 DEF Effect, Building, Recording, Locked
<1>4. CASE GateOpen(c)
  <2>1. rq[c].op = "create"
    BY <1>1, <1>2, <1>4 DEF GateOpen, Goto, TypeOK, ServingFacts, Ops, ReadOps,
       ActionOps, Building, Recording, Locked
  <2>2. pi'[c] = newPaymentIntent(params(c)) /\ pi'[c] \in Intents
    BY <1>1, <1>4, <2>1, newPaymentIntentTyped DEF GateOpen, TypeOK, ServingFacts
  <2>3. QED
    BY <1>3, <2>1, <2>2, SameButChargeFacts DEF WriteOKFor, params
<1>5. CASE LoadAndApply(c)
  <2> DEFINE intent == Apply(rq[c].op, Loaded(c), params(c))
  <2>1. intent \in Intents
    BY <1>1, LoadedTyped, ApplyTyped DEF ServingFacts, Loaded
  <2>2. pi'[c] = intent /\ Accepted(c) /\ rq[c].op # "create"
    BY <1>1, <1>5 DEF LoadAndApply, TypeOK, ServingFacts, ControlOK, ActionOps
  <2>3. intents' = intents
    BY <1>5 DEF LoadAndApply, store
  <2>4. SameButCharge(pi'[c], intent)
    BY <2>1, <2>2, SameButChargeFacts
  <2>5. QED
    BY <1>3, <2>2, <2>3, <2>4 DEF WriteOKFor, params, Loaded, Accepted, session
<1>6. CASE PutCharge(c)
  <2>1. pc[c] \in Building /\ pi[c] \in Intents /\ intents' = intents
    BY <1>1, <1>6 DEF PutCharge, ServingFacts, CopiesOK, Building, Recording, Locked
  <2>2. PICK k : pi'[c] = [pi[c] EXCEPT !.latest_charge = k]
    BY <1>6 DEF PutCharge, TypeOK
  <2>3. \A other : SameButCharge(pi[c], other) => SameButCharge(pi'[c], other)
    BY <2>1, <2>2, SameButChargeFacts
  <2>4. QED
    BY <1>3, <2>1, <2>3 DEF WriteOKFor, params, Loaded, Accepted, session
<1>7. CASE EnqueueCreated(c) \/ FindCharge(c) \/ EnqueueChargeEvent(c)
           \/ EnqueueIntentEvent(c)
  <2>1. pc[c] \in Building /\ pi' = pi /\ intents' = intents
    BY <1>7 DEF EnqueueCreated, FindCharge, EnqueueChargeEvent, EnqueueIntentEvent,
       store, Building, Recording, Locked
  <2>2. QED
    BY <1>3, <2>1 DEF WriteOKFor, params, Loaded, Accepted, session
<1>8. QED
  BY <1>2, <1>4, <1>5, <1>6, <1>7
     DEF Building, Recording, Locked, TypeOK, Handle, OptIn, FallThrough,
         RefuseCreate, ListCharges, RetrieveCharge, ExpandCharge, Retrieve,
         AcquireLock, LeaveUnsimulated, LoadAndReject, StoreIntent, Expand,
         Respond, Goto, Answer

LEMMA WriteStep ==
  ASSUME TypeOK, HandlersOK, LockOK, PrivateOK, WriteOK, [Next]_vars
  PROVE  WriteOK'
<1>1. ASSUME NEW c \in Clients, Arrive(c)
      PROVE  WriteOK'
  <2>1. SUFFICES ASSUME NEW d \in Clients
                 PROVE  WriteOKFor(d)'
    BY DEF WriteOK, WriteOKFor
  <2>2. CASE d = c
    BY <1>1, <2>2, ArriveEffect DEF WriteOKFor, Building, Recording, Locked
  <2>3. CASE d # c
    <3>1. WriteOKFor(d)
      BY DEF WriteOK, WriteOKFor
    <3>2. QED
      BY <1>1, <2>3, <3>1, ArriveEffect
         DEF OthersKeep, WriteOKFor, params, Loaded, Accepted, session
  <2>4. QED
    BY <2>2, <2>3
<1>2. ASSUME NEW c \in Clients, Handle(c) \/ AcquireLock(c)
      PROVE  WriteOK'
  <2>1. SUFFICES ASSUME NEW d \in Clients, pc'[d] \in Building, d # c
                 PROVE  WriteOKFor(d)'
    <3>1. WriteOKFor(c)'
      BY <1>2, OwnWrite DEF WriteOK, WriteOKFor
    <3>2. QED
      BY <2>1, <3>1 DEF WriteOK, WriteOKFor
  <2>2. Effect(c) /\ WriteOKFor(d)
    BY <1>2, HandleEffect DEF WriteOK, WriteOKFor
  <2>3. /\ pc'[d] = pc[d] /\ rq'[d] = rq[d] /\ pi'[d] = pi[d]
        /\ target'[d] = target[d]
    BY <2>1, <2>2 DEF Effect, OthersKeep
  <2>4. CASE rq[d].op = "create"
    BY <2>2, <2>3, <2>4 DEF WriteOKFor, params
  <2>5. CASE rq[d].op # "create"
    <3>1. pc[d] # "idle" /\ pc[d] \in Building
      BY <2>1, <2>3 DEF Building, Recording, Locked
    <3>2. ServingFacts(d) /\ Holds(d)
      BY <2>5, <3>1, Serving
         DEF ServingFacts, ControlOK, Holds, Building, Recording, Locked,
             LifecycleOps, ActionOps
    <3>3. intents'[session(d)][target[d]] = intents[session(d)][target[d]]
      <4>1. CASE intents' = intents
        BY <4>1
      <4>2. CASE StoreIntent(c)
        BY <2>1, <3>1, <3>2, <4>2, StoreEffect, NoClash DEF ServingFacts
      <4>3. QED
        BY <2>2, <4>1, <4>2 DEF Effect
    <3>4. QED
      BY <2>2, <2>3, <3>3 DEF WriteOKFor, params, Loaded, Accepted, session
  <2>6. QED
    BY <2>4, <2>5
<1>3. ASSUME UNCHANGED vars
      PROVE  WriteOK'
  BY <1>3 DEF vars, WriteOK, params, Loaded, Accepted, session
<1>4. QED
  BY <1>1, <1>2, <1>3, StepCases

AnswerFor(c) ==
  /\ pc[c] \in {"expand", "respond"}
  /\ reply[c] = "intent"
  /\ rq[c].op \notin ReadOps

LEMMA AnswerStep ==
  ASSUME TypeOK, HandlersOK, LockOK, PrivateOK, AnswerIsStored, [Next]_vars
  PROVE  AnswerIsStored'
<1>1. ASSUME NEW c \in Clients, Arrive(c)
      PROVE  AnswerIsStored'
  BY <1>1, ArriveEffect DEF OthersKeep, AnswerIsStored, session
<1>2. ASSUME NEW c \in Clients, Handle(c) \/ AcquireLock(c)
      PROVE  AnswerIsStored'
  <2>1. Effect(c) /\ pc[c] # "idle" /\ ServingFacts(c)
    BY <1>2, HandleEffect, Serving DEF Effect
  <2>2. ASSUME NEW d \in Clients, d # c, AnswerFor(d)'
        PROVE  intents'[session(d)'][target'[d]] = pi'[d]
    <3>1. /\ AnswerFor(d) /\ rq'[d] = rq[d] /\ pi'[d] = pi[d]
          /\ target'[d] = target[d]
      BY <2>1, <2>2 DEF Effect, OthersKeep, AnswerFor
    <3>2. intents[session(d)][target[d]] = pi[d] /\ pc[d] # "idle"
      BY <3>1 DEF AnswerIsStored, AnswerFor
    <3>3. ServingFacts(d)
      BY <3>2, Serving
    <3>4. Holds(d) \/ rq[d].op = "create"
      BY <3>1, <3>3 DEF Holds, AnswerFor, ServingFacts, ControlOK, LifecycleOps,
         ActionOps, ReadOps
    <3>5. intents'[session(d)][target[d]] = intents[session(d)][target[d]]
      <4>1. CASE intents' = intents
        BY <4>1
      <4>2. CASE StoreIntent(c)
        BY <2>2, <3>2, <3>3, <3>4, <4>2, StoreEffect, NoClash DEF ServingFacts
      <4>3. QED
        BY <2>1, <4>1, <4>2 DEF Effect
    <3>6. QED
      BY <3>1, <3>2, <3>5 DEF session
  <2>3. ASSUME AnswerFor(c)'
        PROVE  intents'[session(c)'][target'[c]] = pi'[c]
    <3>1. rq'[c] = rq[c] /\ target'[c] = target[c]
      BY <2>1, <2>3 DEF Effect, AnswerFor
    <3>2. CASE StoreIntent(c)
      <4>1. /\ session(c) \in Sessions /\ target[c] \in IntentIds
            /\ session(c)' = session(c) /\ pi' = pi
        BY <2>1, <3>1, <3>2 DEF ServingFacts, session, StoreIntent
      <4>2. QED
        BY <3>1, <3>2, <4>1, StoreEffect
    <3>3. CASE Expand(c)
      BY <2>1, <2>3, <3>1, <3>3
         DEF AnswerFor, AnswerIsStored, Expand, session, store, ServingFacts, ControlOK
    <3>4. QED
      BY <1>2, <2>1, <2>3, <3>1, <3>2, <3>3
         DEF AnswerFor, ReadOps, TypeOK, Handle, OptIn, FallThrough, GateOpen,
             RefuseCreate, ListCharges, RetrieveCharge, ExpandCharge, Retrieve,
             AcquireLock, LeaveUnsimulated, LoadAndReject, LoadAndApply,
             EnqueueCreated, FindCharge, PutCharge, EnqueueChargeEvent,
             EnqueueIntentEvent, Respond, Goto, Answer, ServingFacts, ControlOK,
             RecordFrom, ActionOps
  <2>4. QED
    BY <2>2, <2>3 DEF AnswerIsStored, AnswerFor
<1>3. ASSUME UNCHANGED vars
      PROVE  AnswerIsStored'
  BY <1>3 DEF vars, AnswerIsStored, session
<1>4. QED
  BY <1>1, <1>2, <1>3, StepCases

-----------------------------------------------------------------------------
(* The theorems                                                            *)

LEMMA InitOK == Init => IInv
<1> SUFFICES ASSUME Init PROVE IInv
  OBVIOUS
<1>1. TypeOK /\ HandlersOK
  BY TypedInit
<1>2. LockOK /\ PrivateOK /\ WriteOK /\ AnswerIsStored
  BY ClientsAssumption
     DEF Init, LockOK, Holds, PrivateOK, WriteOK, AnswerIsStored, Building,
         Recording, Locked
<1>3. FreshOK
  BY DEF Init, FreshOK, Stored, Building, Recording, Locked, IntentIds
<1>4. QED
  BY <1>1, <1>2, <1>3 DEF IInv, HandlersOK

LEMMA IInvStep == IInv /\ [Next]_vars => IInv'
BY TypedStep, LockStep, PrivateStep, FreshStep, WriteStep, AnswerStep
   DEF IInv, HandlersOK

\* The inductive invariant: exclusion by statefulActionMu, privacy of an id
\* being created, and, from both, that no handler writes back a copy that has
\* gone stale.
THEOREM Invariance == Spec => []IInv
BY InitOK, IInvStep, PTL DEF Spec

\* A changed intent is answered as it is stored, for any number of clients,
\* sessions and requests.
THEOREM AnswersAreStored == Spec => []AnswerIsStored
<1>1. IInv => AnswerIsStored
  BY DEF IInv
<1>2. QED
  BY <1>1, Invariance, PTL

LEMMA NoRequestLeavesTerminal ==
  ASSUME NEW intent \in Intents, Terminal(intent), NEW p \in ParamSpace,
         NEW op \in LifecycleOps, Accepts(op, intent, p)
  PROVE  Apply(op, intent, p).status = intent.status
<1>1. op = "update"
  BY DEF Terminal, Accepts, LifecycleOps, mayConfirm, mayCapture, mayCancel
<1>2. copyPaymentIntentParams(intent, p).status = intent.status
  BY DEF copyPaymentIntentParams, Intents
<1>3. attachPaymentMethod(copyPaymentIntentParams(intent, p), p).status
        = intent.status
  BY <1>2, copyParamsTyped DEF attachPaymentMethod, Intents
<1>4. applyUpdate(intent, p).status = intent.status
  BY <1>3 DEF applyUpdate, Terminal
<1>5. QED
  BY <1>1, <1>4 DEF Apply

LEMMA TerminalStepOK == IInv /\ [Next]_vars => TerminalStep
<1> SUFFICES ASSUME IInv, [Next]_vars, NEW s \in Sessions, NEW id \in IntentIds,
                    Stored(s, id), Terminal(intents[s][id])
             PROVE  intents'[s][id].status = intents[s][id].status
  BY DEF TerminalStep
<1>1. TypeOK /\ HandlersOK /\ FreshOK /\ WriteOK
  BY DEF IInv, HandlersOK
<1>2. CASE intents' = intents
  BY <1>2
<1>3. ASSUME NEW c \in Clients, StoreIntent(c)
      PROVE  intents'[s][id].status = intents[s][id].status
  <2>1. /\ pc[c] = "store" /\ ServingFacts(c)
        /\ intents'[s][id] = IF s = session(c) /\ id = target[c]
                               THEN pi[c] ELSE intents[s][id]
    BY <1>1, <1>3, StoreEffect, Serving
  <2>2. CASE ~(s = session(c) /\ id = target[c])
    BY <2>1, <2>2
  <2>3. CASE s = session(c) /\ id = target[c]
    <3>1. pc[c] \in Building /\ rq[c].op # "create"
      BY <1>1, <2>1, <2>3 DEF FreshOK, Building, Recording, Locked
    <3>2. rq[c].op \in LifecycleOps /\ pi[c] \in Intents /\ params(c) \in ParamSpace
      BY <2>1, <3>1
         DEF ServingFacts, ControlOK, CopiesOK, Recording, Locked
    <3>3. Loaded(c) = intents[s][id] /\ intents[s][id] \in Intents
      BY <1>1, <2>3 DEF Loaded, orAdopted, Stored, TypeOK
    <3>4. /\ Accepted(c)
          /\ SameButCharge(pi[c], Apply(rq[c].op, Loaded(c), params(c)))
      BY <1>1, <3>1 DEF WriteOK
    <3>5. Apply(rq[c].op, Loaded(c), params(c)).status = intents[s][id].status
      BY <3>2, <3>3, <3>4, NoRequestLeavesTerminal DEF Accepted
    <3>6. pi[c].status = intents[s][id].status
      BY <3>2, <3>4, <3>5 DEF SameButCharge, Intents
    <3>7. QED
      BY <2>1, <2>3, <3>6
  <2>4. QED
    BY <2>2, <2>3
<1>4. intents' = intents \/ \E c \in Clients : StoreIntent(c)
  BY <1>1, StepCases, ArriveEffect, HandleEffect DEF Effect, vars
<1>5. QED
  BY <1>2, <1>3, <1>4

\* succeeded and canceled are final: whatever two handlers read and in
\* whatever order they write, no stored terminal intent changes its status.
THEOREM TerminalFinality == Spec => TerminalIsFinal
<1>1. IInv /\ [Next]_vars => [TerminalStep]_vars
  BY TerminalStepOK
<1>2. QED
  BY <1>1, Invariance, PTL DEF Spec, TerminalIsFinal
=============================================================================
