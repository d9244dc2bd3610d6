--------------------- MODULE PaymentIntentEvents_proofs ---------------------
(***************************************************************************)
(* Theorems about the webhooks of PaymentIntentServer: what the queue of a *)
(* session says about its intents and charges, for every set of clients,   *)
(* sessions, ids and requests and every number of requests.                *)
(***************************************************************************)
EXTENDS PaymentIntentCharges_proofs

-----------------------------------------------------------------------------
(* What a step does to the queue                                           *)

\* The steps that enqueue an event.
Emit(c) == EnqueueCreated(c) \/ EnqueueChargeEvent(c) \/ EnqueueIntentEvent(c)

\* Every other step leaves the queues alone.
LEMMA EventsChange ==
  ASSUME NEW c \in Clients, StepOf(c)
  PROVE  events' = events \/ Emit(c)
BY DEF StepOf, Arrive, IssueCreate, IssueOnIntent, IssueOnCharge, Issue,
   AcquireLock, Handle, OptIn, FallThrough, GateOpen, RefuseCreate,
   ListCharges, RetrieveCharge, ExpandCharge, Retrieve, LeaveUnsimulated,
   LoadAndReject, LoadAndApply, FindCharge, PutCharge, StoreIntent, Expand,
   Respond, store, Emit

\* Appending to one queue of a log of queues.
LEMMA AppendOne ==
  ASSUME NEW log \in [Sessions -> Seq(Events)], NEW s \in Sessions,
         NEW event \in Events
  PROVE  LET n   == Len(log[s]) + 1
             new == [log EXCEPT ![s] = Append(@, event)]
         IN  /\ n \in Nat \ {0}
             /\ DOMAIN log[s] = 1 .. n - 1
             /\ DOMAIN new[s] = 1 .. n
             /\ new[s][n] = event
             /\ \A i \in 1 .. n - 1 : new[s][i] = log[s][i]
             /\ \A t \in Sessions \ {s} : new[t] = log[t]
<1> DEFINE q == log[s]
<1>1. q \in Seq(Events) /\ [log EXCEPT ![s] = Append(@, event)][s] = Append(q, event)
  OBVIOUS
<1>2. \A t \in Sessions \ {s} : [log EXCEPT ![s] = Append(@, event)][t] = log[t]
  OBVIOUS
<1> HIDE DEF q
<1>3. /\ Len(q) + 1 \in Nat \ {0}
      /\ DOMAIN q = 1 .. Len(q)
      /\ DOMAIN Append(q, event) = 1 .. Len(q) + 1
      /\ Append(q, event)[Len(q) + 1] = event
      /\ \A i \in 1 .. Len(q) : Append(q, event)[i] = q[i]
  BY <1>1
<1>4. Len(q) + 1 - 1 = Len(q)
  BY <1>1
<1>5. QED
  BY <1>1, <1>2, <1>3, <1>4 DEF q

\* The place of the next event in the queue of c's session.
Place(c) == Len(events[session(c)]) + 1

\* The event c enqueues at its program counter.
Event(c) ==
  CASE pc[c] = "created_event" -> IntentEvent(c, "payment_intent.created")
    [] pc[c] = "charge_event"  ->
         [type   |-> chargeEventType(pi[c], rq[c].op = "capture"),
          intent |-> target[c],
          charge |-> pi[c].latest_charge,
          object |-> ch[c]]
    [] OTHER -> IntentEvent(c, intentEventType(pi[c]))

\* An enqueuing step adds one event to the end of one queue and changes no
\* other part of the store.
LEMMA EmitEffect ==
  ASSUME IInv, NEW c \in Clients, Emit(c)
  PROVE  /\ pc[c] \in {"created_event", "charge_event", "intent_event"}
         /\ pc[c] \in Building
         /\ session(c) \in Sessions /\ target[c] \in IntentIds
         /\ Place(c) \in Nat \ {0}
         /\ DOMAIN events[session(c)] = 1 .. Place(c) - 1
         /\ DOMAIN events'[session(c)] = 1 .. Place(c)
         /\ events'[session(c)][Place(c)] = Event(c)
         /\ \A i \in 1 .. Place(c) - 1 :
              events'[session(c)][i] = events[session(c)][i]
         /\ \A t \in Sessions \ {session(c)} : events'[t] = events[t]
         /\ UNCHANGED <<intents, charges, rq, target, pi, ch>>
<1>1. /\ pc[c] \in {"created_event", "charge_event", "intent_event"}
      /\ events' = [events EXCEPT ![session(c)] = Append(@, Event(c))]
      /\ UNCHANGED <<intents, charges, rq, target, pi, ch>>
  BY DEF Emit, EnqueueCreated, EnqueueChargeEvent, EnqueueIntentEvent, Enqueue,
         Event
<1>2. pc[c] # "idle" /\ pc[c] \in Building /\ ServingFacts(c) /\ TypeOK
  BY <1>1, Parts, Serving DEF Building, Recording, Locked
<1>3. pi[c] \in Intents
  BY <1>2 DEF ServingFacts, CopiesOK
<1>4. Event(c) \in Events
  <2>1. CASE pc[c] = "created_event"
    <3>1. IntentEvent(c, "payment_intent.created") \in Events
      BY <1>2, <1>3 DEF IntentEvent, Events, EventTypes, ServingFacts
    <3>2. QED
      BY <2>1, <3>1 DEF Event
  <2>2. CASE pc[c] = "charge_event"
    <3> DEFINE type == chargeEventType(pi[c], rq[c].op = "capture")
    <3>1. type \in EventTypes /\ ch[c] \in Charges
          /\ pi[c].latest_charge \in ChargeIds
      BY <1>2, <1>3, <2>2, EventTypesTyped DEF ServingFacts, CopiesOK
    <3> HIDE DEF type
    <3>2. [type |-> type, intent |-> target[c], charge |-> pi[c].latest_charge,
           object |-> ch[c]] \in Events
      BY <1>2, <3>1 DEF Events, ServingFacts
    <3>3. QED
      BY <2>2, <3>2 DEF Event, type
  <2>3. CASE pc[c] = "intent_event"
    <3>1. intentEventType(pi[c]) \in EventTypes
      BY <1>2, <2>3 DEF ServingFacts, CopiesOK
    <3>2. IntentEvent(c, intentEventType(pi[c])) \in Events
      BY <1>2, <1>3, <3>1 DEF IntentEvent, Events, ServingFacts
    <3>3. QED
      BY <2>3, <3>2 DEF Event
  <2>4. QED
    BY <1>1, <2>1, <2>2, <2>3
<1>5. events \in [Sessions -> Seq(Events)] /\ session(c) \in Sessions
  BY <1>2 DEF TypeOK, ServingFacts
<1>6. /\ Place(c) \in Nat \ {0}
      /\ DOMAIN events[session(c)] = 1 .. Place(c) - 1
      /\ DOMAIN events'[session(c)] = 1 .. Place(c)
      /\ events'[session(c)][Place(c)] = Event(c)
      /\ \A i \in 1 .. Place(c) - 1 :
           events'[session(c)][i] = events[session(c)][i]
      /\ \A t \in Sessions \ {session(c)} : events'[t] = events[t]
  <2> HIDE DEF Event
  <2>1. QED
    BY <1>1, <1>4, <1>5, AppendOne DEF Place
<1>7. QED
  BY <1>1, <1>2, <1>6 DEF ServingFacts

\* No step removes or changes an event.
LEMMA EventsStay ==
  ASSUME IInv, NEW c \in Clients, StepOf(c), NEW s \in Sessions,
         NEW i \in DOMAIN events[s]
  PROVE  /\ i \in DOMAIN events'[s] /\ events'[s][i] = events[s][i]
<1>1. CASE events' = events
  BY <1>1
<1>2. CASE Emit(c)
  <2>1. CASE s = session(c)
    <3>1. /\ Place(c) \in Nat \ {0} /\ i \in 1 .. Place(c) - 1
          /\ DOMAIN events'[s] = 1 .. Place(c) /\ events'[s][i] = events[s][i]
      BY <1>2, <2>1, EmitEffect
    <3>2. QED
      BY <3>1
  <2>2. CASE s # session(c)
    BY <1>2, <2>2, EmitEffect
  <2>3. QED
    BY <2>1, <2>2
<1>3. QED
  BY <1>1, <1>2, EventsChange

\* Every event was there before or is the one this step enqueued.
LEMMA EventsCome ==
  ASSUME IInv, NEW c \in Clients, StepOf(c), NEW s \in Sessions,
         NEW i \in DOMAIN events'[s]
  PROVE  \/ i \in DOMAIN events[s]
         \/ Emit(c) /\ s = session(c) /\ i = Place(c)
<1>1. CASE events' = events
  BY <1>1
<1>2. CASE Emit(c)
  <2>1. CASE s = session(c)
    <3>1. /\ Place(c) \in Nat \ {0} /\ i \in 1 .. Place(c)
          /\ DOMAIN events[s] = 1 .. Place(c) - 1
      BY <1>2, <2>1, EmitEffect
    <3>2. QED
      BY <1>2, <2>1, <3>1
  <2>2. CASE s # session(c)
    BY <1>2, <2>2, EmitEffect
  <2>3. QED
    BY <2>1, <2>2
<1>3. QED
  BY <1>1, <1>2, EventsChange

\* What every handler has reported.
ReportsOK == \A c \in Clients : ReportedOK(c)

\* The settlements a queue reports: their events are the two that must not
\* repeat.
Settlements == {"payment_intent.succeeded", "charge.captured"}

\* The intent events of a transition that needs a charge.
ChargedTypes == {"payment_intent.succeeded",
                 "payment_intent.amount_capturable_updated",
                 "payment_intent.payment_failed"}

\* The event of a charge, by the status of its intent.
LEMMA ChargeEventFacts ==
  ASSUME IInv, ChargeInv, NEW c \in Clients, pc[c] = "charge_event"
  PROVE  /\ Recorded(c) /\ CopyFacts(c)
         /\ rq[c].op \in {"create", "confirm", "capture"}
         /\ Event(c).intent = target[c]
         /\ Event(c).charge = pi[c].latest_charge
         /\ Event(c).charge \in ChargeIds
         /\ Event(c).type \in {"charge.succeeded", "charge.captured",
                               "charge.failed"}
         /\ Event(c).type = "charge.captured" <=>
              pi[c].status = "succeeded" /\ rq[c].op = "capture"
         /\ pi[c].status = "requires_capture" =>
              Event(c).type = "charge.succeeded" /\ ~Event(c).object.captured
<1>1. pc[c] \in Building /\ ServingFacts(c) /\ CopyFacts(c)
  BY Parts, CopyOutcome DEF Building, Recording, Locked
<1>2. CopyChargeOK(c) /\ NeedsCharge(pi[c]) /\ pi[c].latest_charge \in ChargeIds
  BY <1>1 DEF ChargeInv, CopyChargesOK, ServingFacts, CopiesOK
<1>3. /\ rq[c].op \in {"create", "confirm", "capture"}
      /\ ch[c] = chargeForPI(pi[c], target[c])
  BY <1>2 DEF CopyChargeOK
<1> DEFINE type == chargeEventType(pi[c], rq[c].op = "capture")
<1>4. /\ Event(c).intent = target[c]
      /\ Event(c).charge = pi[c].latest_charge
      /\ Event(c).object = ch[c]
      /\ Event(c).type = type
  BY DEF Event
<1>5. /\ type \in {"charge.succeeded", "charge.captured", "charge.failed"}
      /\ type = "charge.captured" <=>
           pi[c].status = "succeeded" /\ rq[c].op = "capture"
      /\ pi[c].status = "requires_capture" => type = "charge.succeeded"
  BY DEF chargeEventType
<1>6. pi[c].status = "requires_capture" => ~ch[c].captured
  BY <1>1, <1>3, ChargeFields DEF CopyFacts, ServingFacts
<1>7. Recorded(c)
  BY <1>2, <1>3 DEF Recorded
<1> HIDE DEF type
<1>8. QED
  BY <1>1, <1>2, <1>3, <1>4, <1>5, <1>6, <1>7

\* The event of an intent, by its status.
LEMMA IntentEventFacts ==
  ASSUME IInv, ReportsOK, NEW c \in Clients, pc[c] = "intent_event"
  PROVE  /\ CopyFacts(c) /\ rq[c].op # "update"
         /\ Event(c).intent = target[c]
         /\ Event(c).charge = Null
         /\ Event(c).object = pi[c]
         /\ Event(c).type = intentEventType(pi[c])
         /\ Event(c).type # Null
         /\ Event(c).type # "payment_intent.created"
         /\ Event(c).type # "charge.captured"
         /\ Event(c).type # "charge.succeeded"
         /\ Event(c).type = "payment_intent.succeeded" =>
              pi[c].status = "succeeded" /\ Recorded(c)
         /\ Event(c).type \in ChargedTypes => Recorded(c)
<1>1. pc[c] \in Building /\ ServingFacts(c) /\ CopyFacts(c)
  BY Parts, CopyOutcome DEF Building, Recording, Locked
<1>2. rq[c].op # "update" /\ intentEventType(pi[c]) \in EventTypes
  BY <1>1 DEF ReportsOK, ReportedOK, ServingFacts, CopiesOK
<1>3. /\ Event(c).intent = target[c]
      /\ Event(c).charge = Null
      /\ Event(c).object = pi[c]
      /\ Event(c).type = intentEventType(pi[c])
  BY DEF Event, IntentEvent
<1>4. intentEventType(pi[c]) # Null
  BY <1>2, EventTypesAssumption
<1>5. /\ intentEventType(pi[c]) # "payment_intent.created"
      /\ intentEventType(pi[c]) # "charge.captured"
      /\ intentEventType(pi[c]) # "charge.succeeded"
      /\ intentEventType(pi[c]) = "payment_intent.succeeded" =>
           pi[c].status = "succeeded"
      /\ intentEventType(pi[c]) \in ChargedTypes => NeedsCharge(pi[c])
  BY <1>4 DEF intentEventType, ChargedTypes, NeedsCharge
<1>6. QED
  BY <1>1, <1>2, <1>3, <1>4, <1>5 DEF Recorded, ChargedTypes

\* The created event tells nothing about a status or a charge.
LEMMA CreatedEventFacts ==
  ASSUME NEW c \in Clients, pc[c] = "created_event"
  PROVE  /\ Event(c).intent = target[c]
         /\ Event(c).charge = Null
         /\ Event(c).type = "payment_intent.created"
BY DEF Event, IntentEvent

-----------------------------------------------------------------------------
(* Each part of EventInv is preserved by every step                        *)

\* How a handler comes to have the event of its intent, or the intent itself,
\* ahead of it.
LEMMA BeforeReported ==
  ASSUME IInv, NEW c \in Clients, StepOf(c),
         pc'[c] \in {"intent_event", "store"}
  PROVE  /\ rq'[c] = rq[c] /\ target'[c] = target[c]
         /\ \/ /\ LoadAndApply(c) \/ EnqueueCreated(c)
               /\ rq[c].op # "update" => ~NeedsCharge(pi'[c])
               /\ rq[c].op = "update" => pc'[c] = "store"
               /\ pc'[c] = "store" /\ rq[c].op # "update" =>
                    intentEventType(pi'[c]) = Null
            \/ EnqueueChargeEvent(c) /\ pi' = pi
            \/ EnqueueIntentEvent(c) /\ pi' = pi
<1>1. TypeOK /\ HandlersOK
  BY Parts
<1>2. ~Arrive(c)
  BY <1>1, ArriveEffect
<1>3. Handle(c) \/ AcquireLock(c)
  BY <1>2 DEF StepOf
<1>4. pc[c] # "idle" /\ ServingFacts(c) /\ rq'[c] = rq[c] /\ target'[c] = target[c]
  BY <1>1, <1>3, HandleEffect, Serving DEF Effect
<1>5. LoadAndApply(c) \/ EnqueueCreated(c) \/ EnqueueChargeEvent(c)
      \/ EnqueueIntentEvent(c)
  BY <1>1, <1>3, <1>4
     DEF Handle, OptIn, FallThrough, GateOpen, RefuseCreate, ListCharges,
         RetrieveCharge, ExpandCharge, Retrieve, AcquireLock, LeaveUnsimulated,
         LoadAndReject, FindCharge, PutCharge, StoreIntent, Expand, Respond,
         Goto, Answer, TypeOK, PCs, Locked, ReadOps, ActionOps
<1>6. CASE LoadAndApply(c)
  <2>1. /\ pc'[c] = IF rq[c].op = "update" THEN "store" ELSE RecordFrom(pi'[c])
    BY <1>1, <1>6 DEF LoadAndApply, Goto, TypeOK
  <2>2. QED
    BY <1>4, <1>6, <2>1 DEF RecordFrom
<1>7. CASE EnqueueCreated(c)
  <2>1. pc'[c] = RecordFrom(pi'[c]) /\ rq[c].op = "create"
    BY <1>1, <1>4, <1>7 DEF EnqueueCreated, Goto, TypeOK, ServingFacts, ControlOK
  <2>2. QED
    BY <1>4, <1>7, <2>1 DEF RecordFrom
<1>8. CASE EnqueueChargeEvent(c) \/ EnqueueIntentEvent(c)
  BY <1>4, <1>8 DEF EnqueueChargeEvent, EnqueueIntentEvent
<1>9. QED
  BY <1>5, <1>6, <1>7, <1>8

LEMMA ReportedStep ==
  ASSUME IInv, ChargeInv, ReportsOK, NEW c \in Clients, StepOf(c)
  PROVE  ReportsOK'
<1>1. ASSUME NEW d \in Clients, d # c
      PROVE  ReportedOK(d)'
  <2>1. Same(d) /\ ReportedOK(d)
    BY <1>1, OthersSame DEF ReportsOK
  <2>2. CASE pc[d] \in {"intent_event", "store"} /\ Recorded(d)
    <3>1. session(d) \in Sessions
      BY <2>2, Parts, Serving DEF ServingFacts
    <3> DEFINE s == session(d)  id == target[d]  k == pi[d].latest_charge
    <3>2. /\ ChargeReported(s, id, k)
          /\ pi[d].status = "requires_capture" => AuthorizationReported(s, k)
      BY <2>1, <2>2 DEF ReportedOK
    <3> HIDE DEF s, id, k
    <3>3. /\ \E i \in DOMAIN events'[s] :
                events'[s][i].intent = id /\ events'[s][i].charge = k
          /\ pi[d].status = "requires_capture" =>
               \E i \in DOMAIN events'[s] : /\ events'[s][i].type = "charge.succeeded"
                                            /\ events'[s][i].charge = k
                                            /\ ~events'[s][i].object.captured
      BY <3>1, <3>2, EventsStay DEF ChargeReported, AuthorizationReported, s
    <3>4. QED
      BY <2>1, <2>2, <3>3
         DEF Same, ReportedOK, ChargeReported, AuthorizationReported, session,
             s, id, k
  <2>3. CASE ~(pc[d] \in {"intent_event", "store"} /\ Recorded(d))
    BY <2>1, <2>3 DEF Same, ReportedOK, Recorded
  <2>4. QED
    BY <2>2, <2>3
<1>2. ReportedOK(c)'
  <2>1. SUFFICES ASSUME pc'[c] \in {"intent_event", "store"}
                 PROVE  ReportedOK(c)'
    BY DEF ReportedOK
  <2>2. rq'[c] = rq[c] /\ target'[c] = target[c] /\ session(c)' = session(c)
    BY <2>1, BeforeReported DEF session
  <2>3. CASE LoadAndApply(c) \/ EnqueueCreated(c)
    <3>1. /\ rq[c].op # "update" => ~NeedsCharge(pi'[c])
          /\ rq[c].op = "update" => pc'[c] = "store"
      BY <2>1, <2>3, BeforeReported
         DEF LoadAndApply, EnqueueCreated, EnqueueChargeEvent, EnqueueIntentEvent
    <3>2. QED
      BY <2>2, <3>1 DEF ReportedOK, Recorded
  <2>4. CASE EnqueueChargeEvent(c)
    <3>1. /\ pc[c] = "charge_event" /\ Emit(c)
          /\ pi' = pi
      BY <2>4 DEF EnqueueChargeEvent, Emit
    <3>2. /\ Event(c).intent = target[c]
          /\ Event(c).charge = pi[c].latest_charge
          /\ pi[c].status = "requires_capture" =>
               Event(c).type = "charge.succeeded" /\ ~Event(c).object.captured
          /\ rq[c].op # "update"
      BY <3>1, ChargeEventFacts
    <3>3. /\ Place(c) \in DOMAIN events'[session(c)]
          /\ events'[session(c)][Place(c)] = Event(c)
      BY <3>1, EmitEffect
    <3>4. QED
      BY <2>2, <3>1, <3>2, <3>3
         DEF ReportedOK, ChargeReported, AuthorizationReported
  <2>5. CASE EnqueueIntentEvent(c)
    <3>1. pc[c] = "intent_event" /\ pi' = pi /\ ReportedOK(c)
      BY <2>5 DEF EnqueueIntentEvent, ReportsOK
    <3>2. session(c) \in Sessions /\ (Recorded(c)' => Recorded(c))
      BY <2>2, <3>1, Parts, Serving DEF ServingFacts, Recorded
    <3>3. rq[c].op # "update"
      BY <3>1 DEF ReportedOK
    <3> DEFINE s == session(c)  id == target[c]  k == pi[c].latest_charge
    <3>4. CASE Recorded(c)'
      <4>1. /\ ChargeReported(s, id, k)
            /\ pi[c].status = "requires_capture" => AuthorizationReported(s, k)
        BY <3>1, <3>2, <3>4 DEF ReportedOK
      <4> HIDE DEF s, id, k
      <4>2. /\ \E i \in DOMAIN events'[s] :
                  events'[s][i].intent = id /\ events'[s][i].charge = k
            /\ pi[c].status = "requires_capture" =>
                 \E i \in DOMAIN events'[s] :
                    /\ events'[s][i].type = "charge.succeeded"
                    /\ events'[s][i].charge = k
                    /\ ~events'[s][i].object.captured
        BY <3>2, <4>1, EventsStay DEF ChargeReported, AuthorizationReported, s
      <4>3. QED
        BY <2>2, <3>1, <3>3, <4>2
           DEF ReportedOK, ChargeReported, AuthorizationReported, s, id, k
    <3>5. CASE ~Recorded(c)'
      BY <2>2, <3>3, <3>5 DEF ReportedOK
    <3>6. QED
      BY <3>4, <3>5
  <2>6. QED
    BY <2>1, <2>3, <2>4, <2>5, BeforeReported
<1>3. QED
  BY <1>1, <1>2 DEF ReportsOK
\* A step that is not the store of (s, id) leaves that intent alone.
LEMMA IntentStays ==
  ASSUME IInv, NEW c \in Clients, StepOf(c), NEW s \in Sessions,
         NEW id \in IntentIds,
         ~(StoreIntent(c) /\ session(c) = s /\ target[c] = id)
  PROVE  intents'[s][id] = intents[s][id]
<1>1. CASE intents' = intents
  BY <1>1
<1>2. CASE StoreIntent(c)
  BY <1>2, Parts, StoreEffect
<1>3. QED
  BY <1>1, <1>2, Parts, ArriveEffect, HandleEffect DEF StepOf, Effect

\* What a store puts where.
LEMMA StoreFacts ==
  ASSUME IInv, NEW c \in Clients, StoreIntent(c)
  PROVE  /\ pc[c] = "store" /\ pc[c] \in Building
         /\ session(c) \in Sessions /\ target[c] \in IntentIds
         /\ CopyFacts(c)
         /\ intents'[session(c)][target[c]] = pi[c] /\ pi[c] # NoIntent
         /\ events' = events
<1>1. pc[c] = "store" /\ pc[c] \in Building /\ events' = events
  BY DEF StoreIntent, Building, Recording, Locked
<1>2. ServingFacts(c) /\ CopyFacts(c)
  BY <1>1, Parts, CopyOutcome
<1>3. pi[c] # NoIntent
  BY <1>2, DistinguishedValues DEF CopyFacts
<1>4. intents'[session(c)][target[c]] = pi[c]
  <2>1. \A t \in Sessions, j \in IntentIds :
          intents'[t][j] = IF t = session(c) /\ j = target[c]
                             THEN pi[c] ELSE intents[t][j]
    BY Parts, StoreEffect
  <2>2. QED
    BY <1>2, <2>1 DEF ServingFacts
<1>5. QED
  BY <1>1, <1>2, <1>3, <1>4 DEF ServingFacts

\* An authorized copy about to be stored has announced its authorization.
LEMMA AuthorizedCopy ==
  ASSUME IInv, ChargeInv, ReportsOK, AuthorizedOK, NEW c \in Clients,
         pc[c] = "store", pi[c].status = "requires_capture"
  PROVE  AuthorizationReported(session(c), pi[c].latest_charge)
<1>1. pc[c] \in Building /\ ServingFacts(c) /\ CopyFacts(c)
  BY Parts, CopyOutcome DEF Building, Recording, Locked
<1>2. CASE rq[c].op # "update"
  BY <1>2 DEF Recorded, NeedsCharge, ReportsOK, ReportedOK
<1>3. CASE rq[c].op = "update"
  <2>1. Loaded(c).status = "requires_capture" /\ Loaded(c) = Base(c)
        /\ Base(c) # NoIntent
    BY <1>1, <1>3 DEF CopyFacts
  <2>2. pi[c].latest_charge = Base(c).latest_charge
    BY <1>1, <1>3, <2>1 DEF ChargeInv, CopyChargesOK, CopyChargeOK, Recorded
  <2>3. QED
    BY <1>1, <2>1, <2>2 DEF AuthorizedOK, Stored, Base, ServingFacts
<1>4. QED
  BY <1>2, <1>3

LEMMA AuthorizedStep ==
  ASSUME IInv, ChargeInv, ReportsOK, AuthorizedOK, NEW c \in Clients, StepOf(c)
  PROVE  AuthorizedOK'
<1>1. SUFFICES ASSUME NEW s \in Sessions, NEW id \in IntentIds, Stored(s, id)',
                      intents'[s][id].status = "requires_capture"
               PROVE  \E i \in DOMAIN events'[s] :
                        /\ events'[s][i].type = "charge.succeeded"
                        /\ events'[s][i].charge = intents'[s][id].latest_charge
                        /\ ~events'[s][i].object.captured
  BY DEF AuthorizedOK, AuthorizationReported
<1> DEFINE k == intents'[s][id].latest_charge
<1>2. AuthorizationReported(s, k)
  <2>1. CASE StoreIntent(c) /\ session(c) = s /\ target[c] = id
    <3>1. intents'[s][id] = pi[c] /\ pc[c] = "store"
      BY <2>1, StoreFacts
    <3>2. QED
      BY <1>1, <2>1, <3>1, AuthorizedCopy
  <2>2. CASE ~(StoreIntent(c) /\ session(c) = s /\ target[c] = id)
    <3>1. intents'[s][id] = intents[s][id]
      BY <2>2, IntentStays
    <3>2. QED
      BY <1>1, <3>1 DEF AuthorizedOK, Stored
  <2>3. QED
    BY <2>1, <2>2
<1> HIDE DEF k
<1>3. \E i \in DOMAIN events'[s] : /\ events'[s][i].type = "charge.succeeded"
                                  /\ events'[s][i].charge = k
                                  /\ ~events'[s][i].object.captured
  BY <1>2, EventsStay DEF AuthorizationReported
<1>4. QED
  BY <1>3 DEF k

\* What SettlementOK says of a reported settlement of (s, id).
Settled(s, id, labels) ==
  \/ intents[s][id] # NoIntent /\ intents[s][id].status = "succeeded"
  \/ \E c \in Clients : /\ pc[c] \in labels
                        /\ RecordedFor(c, s, id)
                        /\ pi[c].status = "succeeded"

SettlementFor(s, i) ==
  /\ events[s][i].type = "payment_intent.succeeded" =>
       Settled(s, events[s][i].intent, {"store"})
  /\ events[s][i].type = "charge.captured" =>
       Settled(s, events[s][i].intent, {"intent_event", "store"})

LEMMA SettlementForms ==
  /\ SettlementOK <=>
       \A s \in Sessions : \A i \in DOMAIN events[s] : SettlementFor(s, i)
BY DEF SettlementOK, SettlementFor, Settled

\* A settlement stays stored, or about to be stored.
LEMMA SettledStays ==
  ASSUME IInv, [Next]_vars, NEW c \in Clients, StepOf(c), NEW s \in Sessions,
         NEW id \in IntentIds, NEW labels, "store" \in labels,
         labels \subseteq {"intent_event", "store"}, Settled(s, id, labels)
  PROVE  Settled(s, id, labels)'
<1>1. CASE intents[s][id] # NoIntent /\ intents[s][id].status = "succeeded"
  <2>1. intents'[s][id].status = "succeeded"
    BY <1>1, TerminalStepOK DEF TerminalStep, Stored, Terminal
  <2>2. intents'[s][id] # NoIntent
    BY <1>1, IntentStays, StoreFacts
  <2>3. QED
    BY <2>1, <2>2 DEF Settled
<1>2. ASSUME NEW d \in Clients, pc[d] \in labels, RecordedFor(d, s, id),
             pi[d].status = "succeeded"
      PROVE  Settled(s, id, labels)'
  <2>1. CASE d = c /\ StoreIntent(c)
    <3>1. intents'[s][id] = pi[d] /\ pi[d] # NoIntent
      BY <1>2, <2>1, StoreFacts DEF RecordedFor
    <3>2. QED
      BY <1>2, <3>1 DEF Settled
  <2>2. CASE ~(d = c /\ StoreIntent(c))
    <3>1. /\ Recorded(d)' /\ pi'[d] = pi[d] /\ rq'[d] = rq[d]
          /\ target'[d] = target[d]
      BY <1>2, <2>2, RecordedKeeps DEF RecordedFor
    <3>2. RecordedFor(d, s, id)'
      BY <1>2, <3>1 DEF RecordedFor, session
    <3>3. pc'[d] \in labels
      <4>1. CASE d # c
        BY <1>2, <4>1, OthersSame DEF Same
      <4>2. CASE d = c
        <5>1. pc[c] \in {"intent_event", "store"}
          BY <1>2, <4>2
        <5>2. EnqueueIntentEvent(c)
          BY <1>2, <2>2, <4>2, <5>1
             DEF StepOf, Arrive, IssueCreate, IssueOnIntent, IssueOnCharge,
                 Issue, AcquireLock, Handle, OptIn, FallThrough, GateOpen,
                 RefuseCreate, ListCharges, RetrieveCharge, ExpandCharge,
                 Retrieve, LeaveUnsimulated, LoadAndReject, LoadAndApply,
                 EnqueueCreated, FindCharge, PutCharge, EnqueueChargeEvent,
                 Expand, Respond
        <5>3. QED
          BY <4>2, <5>2, Parts DEF EnqueueIntentEvent, Goto, TypeOK
      <4>3. QED
        BY <4>1, <4>2
    <3>4. QED
      BY <1>2, <3>1, <3>2, <3>3 DEF Settled
  <2>3. QED
    BY <2>1, <2>2
<1>3. QED
  BY <1>1, <1>2 DEF Settled

\* The ids of an event are ids.
LEMMA EventTyped ==
  ASSUME TypeOK, NEW s \in Sessions, NEW i \in DOMAIN events[s]
  PROVE  /\ events[s][i] \in Events
         /\ events[s][i].intent \in IntentIds
         /\ events[s][i].charge \in ChargeIds \cup {Null}
<1>1. events[s] \in Seq(Events)
  BY DEF TypeOK
<1>2. events[s][i] \in Events
  BY <1>1
<1>3. QED
  BY <1>2 DEF Events

LEMMA SettlementStep ==
  ASSUME IInv, ChargeInv, ReportsOK, SettlementOK, [Next]_vars,
         NEW c \in Clients, StepOf(c)
  PROVE  SettlementOK'
<1>1. SUFFICES ASSUME NEW s \in Sessions, NEW i \in DOMAIN events'[s]
               PROVE  SettlementFor(s, i)'
  BY DEF SettlementOK, SettlementFor, Settled
<1>2. CASE i \in DOMAIN events[s]
  <2>1. events'[s][i] = events[s][i]
    BY <1>2, EventsStay
  <2>2. PICK id \in IntentIds : events[s][i].intent = id
    BY <1>2, Parts, EventTyped
  <2>3. /\ events[s][i].type = "payment_intent.succeeded" =>
             Settled(s, id, {"store"})
        /\ events[s][i].type = "charge.captured" =>
             Settled(s, id, {"intent_event", "store"})
    BY <1>2, <2>2, SettlementForms DEF SettlementFor
  <2>4. /\ events[s][i].type = "payment_intent.succeeded" =>
             Settled(s, id, {"store"})'
        /\ events[s][i].type = "charge.captured" =>
             Settled(s, id, {"intent_event", "store"})'
    BY <2>2, <2>3, SettledStays
  <2>5. QED
    BY <2>1, <2>2, <2>4 DEF SettlementFor, Settled, RecordedFor
<1>3. CASE i \notin DOMAIN events[s]
  <2>1. /\ Emit(c) /\ s = session(c) /\ i = Place(c)
    BY <1>3, EventsCome
  <2>2. /\ events'[s][i] = Event(c)
        /\ pc[c] \in {"created_event", "charge_event", "intent_event"}
        /\ UNCHANGED <<intents, rq, target, pi>>
    BY <2>1, EmitEffect
  <2>3. CASE pc[c] = "created_event"
    BY <2>2, <2>3, CreatedEventFacts DEF SettlementFor
  <2>4. CASE pc[c] = "charge_event"
    <3>1. /\ Recorded(c) /\ Event(c).intent = target[c]
          /\ Event(c).type # "payment_intent.succeeded"
          /\ Event(c).type = "charge.captured" => pi[c].status = "succeeded"
      BY <2>4, ChargeEventFacts
    <3>2. pc'[c] = "intent_event"
      BY <2>1, <2>4, Parts
         DEF Emit, EnqueueCreated, EnqueueChargeEvent, EnqueueIntentEvent, Goto,
             TypeOK
    <3>3. RecordedFor(c, session(c), target[c])'
      BY <2>2, <3>1, <3>2 DEF RecordedFor, Recorded, session
    <3>4. QED
      BY <2>1, <2>2, <3>1, <3>2, <3>3 DEF SettlementFor, Settled, RecordedFor, session
  <2>5. CASE pc[c] = "intent_event"
    <3>1. /\ Event(c).intent = target[c]
          /\ Event(c).type # "charge.captured"
          /\ Event(c).type = "payment_intent.succeeded" =>
               pi[c].status = "succeeded" /\ Recorded(c)
      BY <2>5, IntentEventFacts
    <3>2. pc'[c] = "store"
      BY <2>1, <2>5, Parts
         DEF Emit, EnqueueCreated, EnqueueChargeEvent, EnqueueIntentEvent, Goto,
             TypeOK
    <3>3. Recorded(c) => RecordedFor(c, session(c), target[c])'
      BY <2>2, <3>2 DEF RecordedFor, Recorded, session
    <3>4. QED
      BY <2>1, <2>2, <3>1, <3>2, <3>3 DEF SettlementFor, Settled, RecordedFor, session
  <2>6. QED
    BY <2>2, <2>3, <2>4, <2>5
<1>4. QED
  BY <1>2, <1>3
\* A handler about to report a settlement is the first to: were there another
\* report, the intent would have succeeded before or be another's to store.
LEMMA FirstSettlement ==
  ASSUME IInv, ChargeInv, ReportsOK, SettlementOK, NEW c \in Clients, Emit(c),
         Event(c).type \in Settlements,
         NEW i \in DOMAIN events[session(c)],
         events[session(c)][i].intent = target[c]
  PROVE  events[session(c)][i].type # Event(c).type
<1> SUFFICES ASSUME events[session(c)][i].type = Event(c).type
             PROVE  FALSE
  OBVIOUS
<1>1. /\ pc[c] \in {"created_event", "charge_event", "intent_event"}
      /\ pc[c] \in Building
      /\ session(c) \in Sessions /\ target[c] \in IntentIds
  BY EmitEffect
<1>2. pc[c] # "created_event"
  BY CreatedEventFacts DEF Settlements
<1>3. /\ CopyFacts(c) /\ rq[c].op # "update"
      /\ pc[c] = "charge_event" => Event(c).type = "charge.captured"
      /\ pc[c] = "intent_event" => Event(c).type = "payment_intent.succeeded"
      /\ pi[c].status = "succeeded"
  BY <1>1, <1>2, ChargeEventFacts, IntentEventFacts DEF Settlements
<1>4. Settled(session(c), target[c],
              IF pc[c] = "charge_event" THEN {"intent_event", "store"}
                                        ELSE {"store"})
  BY <1>1, <1>2, <1>3, SettlementForms DEF SettlementFor
<1>5. CASE intents[session(c)][target[c]] # NoIntent
           /\ intents[session(c)][target[c]].status = "succeeded"
  <2>1. Base(c) # NoIntent /\ Loaded(c) = Base(c) /\ Base(c).status = "succeeded"
    BY <1>3, <1>5 DEF Base, CopyFacts
  <2>2. QED
    BY <1>3, <2>1 DEF CopyFacts
<1>6. ASSUME NEW d \in Clients, RecordedFor(d, session(c), target[c]),
             pc[d] \in IF pc[c] = "charge_event" THEN {"intent_event", "store"}
                                                ELSE {"store"}
      PROVE  FALSE
  <2>1. d # c /\ pc[d] \in Building /\ target[d] = target[c]
    BY <1>1, <1>2, <1>6 DEF RecordedFor, Building, Recording, Locked
  <2>2. QED
    BY <1>1, <2>1, UniqueWriter
<1>7. QED
  BY <1>4, <1>5, <1>6 DEF Settled

LEMMA SettledOnceStep ==
  ASSUME IInv, ChargeInv, ReportsOK, SettlementOK, SettledAtMostOnce,
         NEW c \in Clients, StepOf(c)
  PROVE  SettledAtMostOnce'
<1>1. SUFFICES ASSUME NEW s \in Sessions, NEW i \in DOMAIN events'[s],
                      NEW j \in DOMAIN events'[s],
                      events'[s][i].type \in Settlements,
                      events'[s][j].type = events'[s][i].type,
                      events'[s][j].intent = events'[s][i].intent
               PROVE  i = j
  BY DEF SettledAtMostOnce, Settlements
<1>2. CASE i \in DOMAIN events[s] /\ j \in DOMAIN events[s]
  BY <1>1, <1>2, EventsStay DEF SettledAtMostOnce, Settlements
<1>3. ASSUME NEW k \in DOMAIN events[s], NEW n \in DOMAIN events'[s],
             n \notin DOMAIN events[s],
             events'[s][n].type \in Settlements,
             events'[s][k].type = events'[s][n].type,
             events'[s][k].intent = events'[s][n].intent
      PROVE  FALSE
  <2>1. Emit(c) /\ s = session(c) /\ n = Place(c)
    BY <1>3, EventsCome
  <2>2. events'[s][n] = Event(c) /\ events'[s][k] = events[s][k]
    BY <1>3, <2>1, EmitEffect, EventsStay
  <2>3. Event(c).intent = target[c]
    BY <2>1, EmitEffect, CreatedEventFacts, ChargeEventFacts, IntentEventFacts
  <2>4. QED
    BY <1>3, <2>1, <2>2, <2>3, FirstSettlement
<1>4. CASE i \notin DOMAIN events[s] /\ j \notin DOMAIN events[s]
  BY <1>4, EventsCome
<1>5. QED
  BY <1>1, <1>2, <1>3, <1>4

LEMMA CaptureStep ==
  ASSUME IInv, ChargeInv, ReportsOK, AuthorizedOK, CaptureFollowsAuthorization,
         NEW c \in Clients, StepOf(c)
  PROVE  CaptureFollowsAuthorization'
<1>1. SUFFICES ASSUME NEW s \in Sessions, NEW i \in DOMAIN events'[s],
                      events'[s][i].type = "charge.captured"
               PROVE  \E j \in 1 .. i - 1 :
                        /\ events'[s][j].type = "charge.succeeded"
                        /\ events'[s][j].charge = events'[s][i].charge
                        /\ ~events'[s][j].object.captured
  BY DEF CaptureFollowsAuthorization
<1>2. events[s] \in Seq(Events)
  BY Parts DEF TypeOK
<1>3. CASE i \in DOMAIN events[s]
  <2>1. events'[s][i] = events[s][i]
    BY <1>3, EventsStay
  <2>2. PICK j \in 1 .. i - 1 : /\ events[s][j].type = "charge.succeeded"
                               /\ events[s][j].charge = events[s][i].charge
                               /\ ~events[s][j].object.captured
    BY <1>1, <1>3, <2>1 DEF CaptureFollowsAuthorization
  <2>3. j \in DOMAIN events[s]
    BY <1>2, <1>3
  <2>4. events'[s][j] = events[s][j]
    BY <2>3, EventsStay
  <2>5. QED
    BY <2>1, <2>2, <2>4
<1>4. CASE i \notin DOMAIN events[s]
  <2>1. Emit(c) /\ s = session(c) /\ i = Place(c)
    BY <1>4, EventsCome
  <2>2. /\ pc[c] \in {"created_event", "charge_event", "intent_event"}
        /\ pc[c] \in Building
        /\ events'[s][i] = Event(c)
        /\ DOMAIN events[s] = 1 .. i - 1
        /\ target[c] \in IntentIds
    BY <2>1, EmitEffect
  <2>3. pc[c] = "charge_event" /\ Recorded(c)
    BY <1>1, <2>2, CreatedEventFacts, IntentEventFacts, ChargeEventFacts
  <2>4. /\ CopyFacts(c) /\ rq[c].op = "capture"
        /\ Event(c).charge = pi[c].latest_charge
    BY <1>1, <2>2, <2>3, ChargeEventFacts
  <2>5. pi[c].latest_charge = Loaded(c).latest_charge
    BY <2>2, <2>3, <2>4 DEF ChargeInv, CopyChargesOK, CopyChargeOK
  <2>6. /\ Loaded(c).status = "requires_capture" /\ Loaded(c) = intents[s][target[c]]
        /\ intents[s][target[c]] # NoIntent
    BY <2>1, <2>4 DEF CopyFacts, Base
  <2>7. AuthorizationReported(s, Event(c).charge)
    BY <2>2, <2>4, <2>5, <2>6 DEF AuthorizedOK, Stored
  <2>8. PICK j \in DOMAIN events[s] : /\ events[s][j].type = "charge.succeeded"
                                     /\ events[s][j].charge = Event(c).charge
                                     /\ ~events[s][j].object.captured
    BY <2>7 DEF AuthorizationReported
  <2>9. events'[s][j] = events[s][j]
    BY EventsStay
  <2>10. QED
    BY <2>2, <2>8, <2>9
<1>5. QED
  BY <1>3, <1>4

LEMMA ChargeFirstStep ==
  ASSUME IInv, ChargeInv, ReportsOK, ChargeEventFirst,
         NEW c \in Clients, StepOf(c)
  PROVE  ChargeEventFirst'
<1>1. SUFFICES ASSUME NEW s \in Sessions, NEW i \in DOMAIN events'[s],
                      events'[s][i].type \in ChargedTypes
               PROVE  \E j \in 1 .. i - 1 :
                        /\ events'[s][j].intent = events'[s][i].intent
                        /\ events'[s][j].charge # Null
                        /\ events'[s][j].charge = events'[s][i].object.latest_charge
  BY DEF ChargeEventFirst, ChargedTypes
<1>2. events[s] \in Seq(Events)
  BY Parts DEF TypeOK
<1>3. CASE i \in DOMAIN events[s]
  <2>1. events'[s][i] = events[s][i]
    BY <1>3, EventsStay
  <2>2. PICK j \in 1 .. i - 1 :
          /\ events[s][j].intent = events[s][i].intent
          /\ events[s][j].charge # Null
          /\ events[s][j].charge = events[s][i].object.latest_charge
    BY <1>1, <1>3, <2>1 DEF ChargeEventFirst, ChargedTypes
  <2>3. j \in DOMAIN events[s]
    BY <1>2, <1>3
  <2>4. events'[s][j] = events[s][j]
    BY <2>3, EventsStay
  <2>5. QED
    BY <2>1, <2>2, <2>4
<1>4. CASE i \notin DOMAIN events[s]
  <2>1. Emit(c) /\ s = session(c) /\ i = Place(c)
    BY <1>4, EventsCome
  <2>2. /\ pc[c] \in {"created_event", "charge_event", "intent_event"}
        /\ pc[c] \in Building
        /\ events'[s][i] = Event(c)
        /\ DOMAIN events[s] = 1 .. i - 1
    BY <2>1, EmitEffect
  <2>3. pc[c] = "intent_event"
    BY <1>1, <2>2, CreatedEventFacts, ChargeEventFacts DEF ChargedTypes
  <2>4. /\ Recorded(c) /\ Event(c).intent = target[c] /\ Event(c).object = pi[c]
    BY <1>1, <2>2, <2>3, IntentEventFacts
  <2>5. ChargeReported(s, target[c], pi[c].latest_charge)
    BY <2>1, <2>3, <2>4 DEF ReportsOK, ReportedOK
  <2>6. PICK j \in DOMAIN events[s] :
          /\ events[s][j].intent = target[c]
          /\ events[s][j].charge = pi[c].latest_charge
    BY <2>5 DEF ChargeReported
  <2>7. pi[c].latest_charge \in ChargeIds
    BY <2>2, <2>4 DEF ChargeInv, CopyChargesOK, CopyChargeOK
  <2>8. pi[c].latest_charge # Null
    BY <2>7, DistinguishedValues, BoundsAssumption DEF ChargeIds, Serials
  <2>9. events'[s][j] = events[s][j]
    BY EventsStay
  <2>10. QED
    BY <2>2, <2>4, <2>6, <2>8, <2>9
<1>5. QED
  BY <1>3, <1>4
-----------------------------------------------------------------------------
(* The queue and the store                                                 *)

\* c is about to store what it has announced about (s, id).
Announces(c, s, id) == Announced(c) /\ session(c) = s /\ target[c] = id

\* QueueOK for one intent.
QueueFor(s, id) ==
  /\ \A c \in Clients : Announces(c, s, id) => Tells(s, id, pi[c].status)
  /\ (~\E c \in Clients : Announces(c, s, id)) =>
       IF StatusEvents(s, id) = {}
         THEN Stored(s, id) => intents[s][id].status \in Waiting
         ELSE Stored(s, id) /\ Tells(s, id, intents[s][id].status)

LEMMA QueueForms ==
  QueueOK <=> \A s \in Sessions, id \in IntentIds : QueueFor(s, id)
BY DEF QueueOK, QueueFor, Announces

\* Only enqueuing an intent's event and storing the intent change who has
\* announced what.
LEMMA AnnouncesStays ==
  ASSUME IInv, ReportsOK, NEW c \in Clients, StepOf(c),
         ~EnqueueIntentEvent(c), ~StoreIntent(c),
         NEW d \in Clients, NEW s \in Sessions, NEW id \in IntentIds
  PROVE  /\ Announces(d, s, id)' <=> Announces(d, s, id)
         /\ Announces(d, s, id) => pi'[d] = pi[d]
<1>1. CASE d # c
  BY <1>1, OthersSame DEF Same, Announces, Announced, session
<1>2. CASE d = c
  <2>1. ~Announces(c, s, id)
    BY DEF StepOf, Arrive, IssueCreate, IssueOnIntent, IssueOnCharge, Issue,
       AcquireLock, Handle, OptIn, FallThrough, GateOpen, RefuseCreate,
       ListCharges, RetrieveCharge, ExpandCharge, Retrieve, LeaveUnsimulated,
       LoadAndReject, LoadAndApply, EnqueueCreated, FindCharge, PutCharge,
       EnqueueChargeEvent, Expand, Respond, Announces, Announced
  <2>2. ~Announces(c, s, id)'
    <3>1. SUFFICES ASSUME pc'[c] = "store", rq'[c].op # "update"
                   PROVE  intentEventType(pi'[c]) = Null
      BY DEF Announces, Announced
    <3>2. rq'[c] = rq[c]
      BY <3>1, BeforeReported
    <3>3. ~EnqueueChargeEvent(c)
      BY <3>1, Parts DEF EnqueueChargeEvent, Goto, TypeOK
    <3>4. QED
      BY <3>1, <3>2, <3>3, BeforeReported
  <2>3. QED
    BY <1>2, <2>1, <2>2
<1>3. QED
  BY <1>1, <1>2

\* Only an intent's own event changes what its queue tells.
LEMMA StatusEventsStay ==
  ASSUME IInv, ChargeInv, ReportsOK, NEW c \in Clients, StepOf(c),
         NEW s \in Sessions, NEW id \in IntentIds,
         ~(EnqueueIntentEvent(c) /\ session(c) = s /\ target[c] = id)
  PROVE  /\ StatusEvents(s, id)' = StatusEvents(s, id)
         /\ \A i \in StatusEvents(s, id) : events'[s][i] = events[s][i]
<1>1. \A i \in DOMAIN events[s] : i \in DOMAIN events'[s]
                                 /\ events'[s][i] = events[s][i]
  BY EventsStay
<1>2. ASSUME NEW i \in DOMAIN events'[s], i \notin DOMAIN events[s]
      PROVE  i \notin StatusEvents(s, id)'
  <2>1. Emit(c) /\ s = session(c) /\ i = Place(c)
    BY <1>2, EventsCome
  <2>2. /\ pc[c] \in {"created_event", "charge_event", "intent_event"}
        /\ events'[s][i] = Event(c)
    BY <2>1, EmitEffect
  <2>3. CASE pc[c] = "created_event"
    BY <2>2, <2>3, CreatedEventFacts DEF StatusEvents
  <2>4. CASE pc[c] = "charge_event"
    <3>1. Event(c).charge # Null
      BY <2>4, ChargeEventFacts, DistinguishedValues, BoundsAssumption
         DEF ChargeIds, Serials
    <3>2. QED
      BY <2>2, <3>1 DEF StatusEvents
  <2>5. CASE pc[c] = "intent_event"
    <3>1. Event(c).intent = target[c] /\ target[c] # id
      BY <2>1, <2>5, IntentEventFacts DEF Emit, EnqueueCreated, EnqueueChargeEvent
    <3>2. QED
      BY <2>2, <3>1 DEF StatusEvents
  <2>6. QED
    BY <2>2, <2>3, <2>4, <2>5
<1>3. QED
  BY <1>1, <1>2 DEF StatusEvents

\* After the event of an intent, its queue tells the status about to be
\* stored.
LEMMA AnnouncedTells ==
  ASSUME IInv, ReportsOK, NEW c \in Clients, EnqueueIntentEvent(c)
  PROVE  \E i \in {n \in DOMAIN events'[session(c)] :
                   /\ events'[session(c)][n].intent = target[c]
                   /\ events'[session(c)][n].charge = Null
                   /\ events'[session(c)][n].type # "payment_intent.created"} :
           /\ \A j \in DOMAIN events'[session(c)] : j =< i
           /\ events'[session(c)][i].object = pi[c]
<1>1. pc[c] = "intent_event" /\ Emit(c)
  BY DEF EnqueueIntentEvent, Emit
<1>2. /\ Event(c).intent = target[c]
      /\ Event(c).charge = Null
      /\ Event(c).type # "payment_intent.created"
      /\ Event(c).object = pi[c]
  BY <1>1, IntentEventFacts
<1>3. /\ Place(c) \in Nat \ {0}
      /\ DOMAIN events'[session(c)] = 1 .. Place(c)
      /\ events'[session(c)][Place(c)] = Event(c)
  BY <1>1, EmitEffect
<1>4. QED
  BY <1>2, <1>3

\* Enqueuing an intent's event leaves its handler announcing it.
LEMMA QueueAnnounced ==
  ASSUME IInv, ChargeInv, ReportsOK, NEW c \in Clients, EnqueueIntentEvent(c),
         NEW s \in Sessions, NEW id \in IntentIds,
         session(c) = s, target[c] = id
  PROVE  QueueFor(s, id)'
<1>1. /\ StepOf(c) /\ pc[c] = "intent_event" /\ Emit(c) /\ pi' = pi
      /\ rq' = rq /\ target' = target
  BY DEF StepOf, Handle, EnqueueIntentEvent, Emit
<1>2. pc'[c] = "store" /\ rq[c].op # "update" /\ intentEventType(pi[c]) # Null
  BY <1>1, Parts, IntentEventFacts DEF EnqueueIntentEvent, Goto, TypeOK
<1>3. Announces(c, s, id)'
  BY <1>1, <1>2 DEF Announces, Announced, session
<1>4. Tells(s, id, pi[c].status)'
  <2>1. PICK i \in {n \in DOMAIN events'[s] :
                   /\ events'[s][n].intent = id
                   /\ events'[s][n].charge = Null
                   /\ events'[s][n].type # "payment_intent.created"} :
           /\ \A j \in DOMAIN events'[s] : j =< i
           /\ events'[s][i].object = pi[c]
    BY AnnouncedTells
  <2>2. QED
    BY <1>1, <2>1 DEF Tells, StatusEvents
<1>5. ASSUME NEW d \in Clients, Announces(d, s, id)'
      PROVE  d = c
  <2>1. SUFFICES ASSUME d # c PROVE FALSE
    OBVIOUS
  <2>2. Same(d)
    BY <1>1, <2>1, OthersSame
  <2>3. pc[d] \in Building /\ pc[c] \in Building /\ target[d] = id
    BY <1>1, <1>5, <2>2
       DEF Same, Announces, Announced, Building, Recording, Locked
  <2>4. QED
    BY <2>1, <2>3, UniqueWriter
<1>6. QED
  BY <1>1, <1>3, <1>4, <1>5 DEF QueueFor

\* A store makes the store say what the queue says.
LEMMA QueueStored ==
  ASSUME IInv, ChargeInv, ReportsOK, QueueOK, NEW c \in Clients, StoreIntent(c),
         NEW s \in Sessions, NEW id \in IntentIds,
         session(c) = s, target[c] = id
  PROVE  QueueFor(s, id)'
<1>1. /\ pc[c] = "store" /\ pc[c] \in Building /\ CopyFacts(c)
      /\ intents'[s][id] = pi[c] /\ pi[c] # NoIntent /\ events' = events
  BY StoreFacts
<1>2. StepOf(c) /\ QueueFor(s, id)
  BY QueueForms DEF StepOf, Handle
<1>3. /\ StatusEvents(s, id)' = StatusEvents(s, id)
      /\ \A status : Tells(s, id, status)' <=> Tells(s, id, status)
  BY <1>1 DEF StatusEvents, Tells
<1>4. ASSUME NEW d \in Clients, d # c
      PROVE  ~Announces(d, s, id) /\ ~Announces(d, s, id)'
  <2>1. Same(d)
    BY <1>2, <1>4, OthersSame
  <2>2. ~Announces(d, s, id)
    BY <1>1, <1>4, UniqueWriter
       DEF Announces, Announced, Building, Recording, Locked
  <2>3. QED
    BY <2>1, <2>2 DEF Same, Announces, Announced, session
<1>5. ~Announces(c, s, id)'
  BY Parts DEF StoreIntent, Goto, TypeOK, Announces, Announced
<1>6. IF StatusEvents(s, id) = {}
        THEN pi[c].status \in Waiting
        ELSE Tells(s, id, pi[c].status)
  <2>1. CASE Announces(c, s, id)
    <3>1. Tells(s, id, pi[c].status)
      BY <1>2, <2>1 DEF QueueFor
    <3>2. QED
      BY <3>1 DEF Tells
  <2>2. CASE ~Announces(c, s, id)
    <3>1. /\ IF StatusEvents(s, id) = {}
               THEN Base(c) # NoIntent => Base(c).status \in Waiting
               ELSE Base(c) # NoIntent /\ Tells(s, id, Base(c).status)
      BY <1>2, <1>4, <2>2 DEF QueueFor, Base, Stored
    <3>2. rq[c].op = "update" \/ intentEventType(pi[c]) = Null
      BY <1>1, <2>2 DEF Announces, Announced
    <3>3. CASE rq[c].op = "create"
      BY <1>1, <3>1, <3>2, <3>3 DEF CopyFacts
    <3>4. CASE rq[c].op = "update"
      <4>1. \/ pi[c].status = Loaded(c).status
            \/ /\ Loaded(c).status = "requires_payment_method"
               /\ pi[c].status = "requires_confirmation"
        BY <1>1, <3>4 DEF CopyFacts
      <4>2. CASE Base(c) = NoIntent
        <5>1. pi[c].status = "requires_confirmation"
          BY <1>1, <4>1, <4>2 DEF CopyFacts
        <5>2. QED
          BY <3>1, <4>2, <5>1 DEF Waiting
      <4>3. CASE Base(c) # NoIntent
        <5>1. \/ pi[c].status = Base(c).status
              \/ {pi[c].status, Base(c).status} \subseteq Waiting
          BY <1>1, <4>1, <4>3 DEF CopyFacts, Waiting
        <5>2. CASE StatusEvents(s, id) = {}
          BY <3>1, <4>3, <5>1, <5>2
        <5>3. CASE StatusEvents(s, id) # {}
          BY <3>1, <5>1, <5>3 DEF Tells
        <5>4. QED
          BY <5>2, <5>3
      <4>4. QED
        BY <4>2, <4>3
    <3>5. rq[c].op \in {"create", "update"}
      <4>1. /\ pi[c].status = "succeeded" => intentEventType(pi[c]) # Null
            /\ pi[c].status = "canceled" => intentEventType(pi[c]) # Null
        BY EventTypesAssumption DEF intentEventType, EventTypes
      <4>2. QED
        BY <1>1, <3>2, <4>1 DEF CopyFacts
    <3>6. QED
      BY <3>3, <3>4, <3>5
  <2>3. QED
    BY <2>1, <2>2
<1>7. Stored(s, id)'
  BY <1>1 DEF Stored
<1>8. ~\E d \in Clients : Announces(d, s, id)'
  BY <1>4, <1>5
<1>9. PICK status : status = pi[c].status
  OBVIOUS
<1>10. /\ intents'[s][id].status = status
       /\ StatusEvents(s, id)' = {} => status \in Waiting
       /\ StatusEvents(s, id)' # {} => Tells(s, id, status)'
  BY <1>1, <1>3, <1>6, <1>9
<1>11. QED
  BY <1>7, <1>8, <1>10 DEF QueueFor, Tells

LEMMA QueueStep ==
  ASSUME IInv, ChargeInv, ReportsOK, QueueOK, NEW c \in Clients, StepOf(c)
  PROVE  QueueOK'
<1>1. SUFFICES ASSUME NEW s \in Sessions, NEW id \in IntentIds
               PROVE  QueueFor(s, id)'
  BY QueueForms DEF QueueOK, QueueFor, Announces
<1>2. CASE session(c) = s /\ target[c] = id
           /\ (EnqueueIntentEvent(c) \/ StoreIntent(c))
  BY <1>2, QueueAnnounced, QueueStored
<1>3. CASE ~(/\ session(c) = s /\ target[c] = id
             /\ EnqueueIntentEvent(c) \/ StoreIntent(c))
  <2>1. QueueFor(s, id)
    BY QueueForms
  <2>2. /\ StatusEvents(s, id)' = StatusEvents(s, id)
        /\ \A i \in StatusEvents(s, id) : events'[s][i] = events[s][i]
    BY <1>3, StatusEventsStay
  <2>3. \A status : Tells(s, id, status)' <=> Tells(s, id, status)
    BY <2>2 DEF Tells
  <2>4. intents'[s][id] = intents[s][id]
    BY <1>3, IntentStays
  <2>5. ASSUME NEW d \in Clients
        PROVE  /\ Announces(d, s, id)' <=> Announces(d, s, id)
               /\ Announces(d, s, id) => pi'[d] = pi[d]
    <3>1. CASE ~EnqueueIntentEvent(c) /\ ~StoreIntent(c)
      BY <3>1, AnnouncesStays
    <3>2. CASE EnqueueIntentEvent(c) \/ StoreIntent(c)
      <4>1. /\ ~(session(c) = s /\ target[c] = id)
            /\ UNCHANGED <<rq, target, pi>>
        BY <1>3, <3>2 DEF EnqueueIntentEvent, StoreIntent
      <4>2. CASE d = c
        BY <4>1, <4>2 DEF Announces, session
      <4>3. CASE d # c
        BY <4>3, OthersSame DEF Same, Announces, Announced, session
      <4>4. QED
        BY <4>2, <4>3
    <3>3. QED
      BY <3>1, <3>2
  <2>6. QED
    BY <2>1, <2>2, <2>3, <2>4, <2>5 DEF QueueFor, Stored
<1>4. QED
  BY <1>2, <1>3
-----------------------------------------------------------------------------
(* Amounts: each part of AmountInv is preserved by every step               *)

\* A confirm that authorizes, authorizes the whole amount.
LEMMA ConfirmAmount ==
  ASSUME NEW intent \in Intents, NEW p \in ParamSpace,
         applyConfirm(intent, p).status = "requires_capture"
  PROVE  applyConfirm(intent, p).amount_capturable = applyConfirm(intent, p).amount
<1> DEFINE att  == attachPaymentMethod(intent, p)
           done == applyConfirm(intent, p)
<1>1. att \in Intents
  BY AttachKeeps
<1> HIDE DEF att
<1>2. \/ done = [att EXCEPT !.status = "requires_action",
                            !.last_payment_error = FALSE,
                            !.next_action = TRUE]
      \/ done = [att EXCEPT !.status = "requires_payment_method",
                            !.next_action = FALSE,
                            !.last_payment_error = TRUE]
      \/ done = [att EXCEPT !.next_action = FALSE, !.last_payment_error = FALSE,
                            !.status = "requires_capture",
                            !.amount_capturable = att.amount]
      \/ done = [att EXCEPT !.next_action = FALSE, !.last_payment_error = FALSE,
                            !.status = "succeeded",
                            !.amount_received = att.amount]
  BY <1>1 DEF applyConfirm, settlePaymentIntent, att, Intents
<1> HIDE DEF done
<1>3. CASE done = [att EXCEPT !.next_action = FALSE, !.last_payment_error = FALSE,
                              !.status = "requires_capture",
                              !.amount_capturable = att.amount]
  <2>1. done.amount_capturable = att.amount /\ done.amount = att.amount
    BY <1>1, <1>3 DEF Intents
  <2>2. QED
    BY <2>1 DEF done
<1>4. done.status # "requires_capture" \/ done = [att EXCEPT
        !.next_action = FALSE, !.last_payment_error = FALSE,
        !.status = "requires_capture", !.amount_capturable = att.amount]
  BY <1>1, <1>2 DEF Intents
<1>5. QED
  BY <1>3, <1>4 DEF done

\* An update keeps what is capturable, and the amount unless it names one.
LEMMA UpdateAmount ==
  ASSUME NEW intent \in Intents, NEW p \in ParamSpace
  PROVE  /\ applyUpdate(intent, p).amount_capturable = intent.amount_capturable
         /\ p.amount = Null => applyUpdate(intent, p).amount = intent.amount
<1> DEFINE copied == copyPaymentIntentParams(intent, p)
           att    == attachPaymentMethod(copied, p)
           done   == applyUpdate(intent, p)
<1>1. /\ copied \in Intents
      /\ copied.amount_capturable = intent.amount_capturable
  BY CopyKeeps
<1>2. p.amount = Null => copied.amount = intent.amount
  BY DEF copyPaymentIntentParams, Given, Intents
<1>3. /\ att \in Intents
      /\ att.amount_capturable = copied.amount_capturable
      /\ att.amount = copied.amount
  BY <1>1, AttachKeeps
<1>4. done = att \/ done = [att EXCEPT !.status = "requires_confirmation"]
  BY DEF applyUpdate
<1> HIDE DEF att, copied, done
<1>5. /\ done.amount_capturable = intent.amount_capturable
      /\ p.amount = Null => done.amount = intent.amount
  BY <1>1, <1>2, <1>3, <1>4 DEF Intents
<1>6. QED
  BY <1>5 DEF done

\* What a handler is about to store is worth.
LEMMA CopyAmounts ==
  ASSUME IInv, ChargeInv, NEW c \in Clients, pc[c] \in Building
  PROVE  /\ rq[c].op # "update" /\ pi[c].status = "requires_capture" =>
              pi[c].amount_capturable = pi[c].amount
         /\ rq[c].op = "update" =>
              /\ pi[c].amount_capturable = Loaded(c).amount_capturable
              /\ AmountsFixed => pi[c].amount = Loaded(c).amount
         /\ rq[c].op = "capture" =>
              /\ pi[c].amount = Loaded(c).amount
              /\ \/ pi[c].amount_received = pi[c].amount
                 \/ pi[c].amount_received =< Loaded(c).amount_capturable
<1>1. ServingFacts(c) /\ CopyFacts(c)
  BY Parts, CopyOutcome
<1> DEFINE done == IF rq[c].op = "create" THEN newPaymentIntent(params(c))
                   ELSE Apply(rq[c].op, Loaded(c), params(c))
<1>2. SameButCharge(pi[c], done) /\ (rq[c].op # "create" => Accepted(c))
  BY Parts DEF WriteOK
<1>3. /\ pi[c] \in Intents /\ Loaded(c) \in Intents /\ params(c) \in ParamSpace
      /\ done \in Intents
  BY <1>1, newPaymentIntentTyped, ApplyTyped DEF CopyFacts, ServingFacts
<1>4. /\ pi[c].status = done.status
      /\ pi[c].amount = done.amount
      /\ pi[c].amount_capturable = done.amount_capturable
      /\ pi[c].amount_received = done.amount_received
  <2>1. /\ pi[c].status = done.status
        /\ pi[c] = [done EXCEPT !.latest_charge = pi[c].latest_charge]
    BY <1>2, <1>3, SameFields
  <2> HIDE DEF done
  <2>2. QED
    BY <1>3, <2>1 DEF Intents
<1>5. CASE rq[c].op = "create"
  <2>1. done = newPaymentIntent(params(c))
    BY <1>5
  <2> DEFINE new == attachPaymentMethod(
                      copyPaymentIntentParams(BaseIntent, params(c)), params(c))
  <2>2. new \in Intents
    BY <1>3, BaseTyped, CopyKeeps, AttachKeeps
  <2>3. \/ done = applyConfirm(new, params(c))
        \/ done = [new EXCEPT !.status = "requires_confirmation"]
        \/ done = [new EXCEPT !.status = "requires_payment_method"]
    BY <2>1 DEF newPaymentIntent
  <2> HIDE DEF done, new
  <2>4. done.status = "requires_capture" => done.amount_capturable = done.amount
    <3>1. CASE done = applyConfirm(new, params(c))
      BY <1>3, <2>2, <3>1, ConfirmAmount
    <3>2. QED
      BY <2>2, <2>3, <3>1 DEF Intents
  <2>5. QED
    BY <1>4, <1>5, <2>4
<1>6. CASE rq[c].op = "confirm"
  <2>1. done = applyConfirm(Loaded(c), params(c))
    BY <1>6 DEF Apply
  <2>2. QED
    BY <1>3, <1>4, <1>6, <2>1, ConfirmAmount
<1>7. CASE rq[c].op = "capture"
  <2>1. done = applyCapture(Loaded(c), params(c)) /\ mayCapture(Loaded(c), params(c))
    BY <1>2, <1>7 DEF Apply, Accepted, Accepts
  <2>2. /\ done.amount = Loaded(c).amount
        /\ done.status = "succeeded"
        /\ done.amount_received = Given(params(c).amount_to_capture, Loaded(c).amount)
    BY <1>3, <2>1 DEF applyCapture, Intents
  <2>3. QED
    BY <1>4, <1>7, <2>1, <2>2 DEF mayCapture, Given
<1>8. CASE rq[c].op = "cancel"
  BY <1>1, <1>8 DEF CopyFacts
<1>9. CASE rq[c].op = "update"
  <2>1. done = applyUpdate(Loaded(c), params(c))
    BY <1>9 DEF Apply
  <2>2. AmountsFixed => params(c).amount = Null
    BY <1>9 DEF ChargeInv, IssuedOK, AmountsFixed, params, Building, Recording, Locked
  <2>3. QED
    BY <1>3, <1>4, <1>9, <2>1, <2>2, UpdateAmount
<1>10. QED
  BY <1>1, <1>5, <1>6, <1>7, <1>8, <1>9 DEF CopyFacts

\* The parts of AmountInv.
MintedInv == \A c \in Clients : MintedOK(c)
CoveredOK ==
  \A s \in Sessions, id \in IntentIds : Stored(s, id) => Covered(s, intents[s][id])
CapturesOK ==
  \A s \in Sessions : \A j \in DOMAIN events[s] :
    events[s][j].type = "charge.captured" => CaptureCovered(s, j)

\* Only the charge's own event names a charge, and the charge is the one the
\* handler has put.
LEMMA ChargeNamed ==
  ASSUME IInv, ChargeInv, ReportsOK, NEW c \in Clients, Emit(c),
         Event(c).charge # Null
  PROVE  /\ pc[c] = "charge_event" /\ pc[c] \in Building
         /\ Recorded(c) /\ ServingFacts(c) /\ CopyFacts(c)
         /\ Event(c).charge = pi[c].latest_charge
         /\ Event(c).charge \in ChargeIds
         /\ Event(c).object = chargeForPI(pi[c], target[c])
         /\ charges[session(c)][Event(c).charge] = chargeForPI(pi[c], target[c])
         /\ charges[session(c)][Event(c).charge] # NoCharge
         /\ charges[session(c)][Event(c).charge].payment_intent = target[c]
         /\ rq[c].op \in {"create", "confirm", "capture"}
         /\ IF rq[c].op = "capture"
              THEN /\ Event(c).type = "charge.captured"
                   /\ pi[c].latest_charge = Loaded(c).latest_charge
              ELSE /\ Event(c).type # "charge.captured"
                   /\ pi[c].latest_charge # Loaded(c).latest_charge
<1>1. pc[c] = "charge_event" /\ pc[c] \in Building
  BY EmitEffect, CreatedEventFacts, IntentEventFacts
<1>2. /\ Recorded(c) /\ CopyFacts(c)
      /\ rq[c].op \in {"create", "confirm", "capture"}
      /\ Event(c).charge = pi[c].latest_charge
      /\ Event(c).charge \in ChargeIds
      /\ Event(c).type = "charge.captured" <=>
           pi[c].status = "succeeded" /\ rq[c].op = "capture"
  BY <1>1, ChargeEventFacts
<1>3. CopyChargeOK(c)
  BY DEF ChargeInv, CopyChargesOK
<1>4. ch[c] = chargeForPI(pi[c], target[c])
      /\ charges[session(c)][pi[c].latest_charge] = chargeForPI(pi[c], target[c])
  BY <1>1, <1>2, <1>3 DEF CopyChargeOK
<1>5. Event(c).object = ch[c]
  BY <1>1 DEF Event
<1>6. ServingFacts(c)
  BY <1>1, Parts, Serving
<1>7. /\ chargeForPI(pi[c], target[c]) # NoCharge
      /\ chargeForPI(pi[c], target[c]).payment_intent = target[c]
  BY <1>2, <1>6, ChargeFields DEF CopyFacts, ServingFacts
<1>8. IF rq[c].op = "capture"
        THEN pi[c].latest_charge = Loaded(c).latest_charge
        ELSE pi[c].latest_charge # Loaded(c).latest_charge
  BY <1>1, <1>2, <1>3 DEF CopyChargeOK
<1>9. rq[c].op = "capture" => pi[c].status = "succeeded"
  BY <1>2 DEF CopyFacts
<1>10. QED
  BY <1>1, <1>2, <1>4, <1>5, <1>6, <1>7, <1>8, <1>9

\* A new event that names the charge of a stored intent comes from the capture
\* of that intent.
LEMMA NamesStored ==
  ASSUME IInv, ChargeInv, ReportsOK, NEW c \in Clients, Emit(c),
         NEW id \in IntentIds, Stored(session(c), id),
         Event(c).charge # Null,
         Event(c).charge = intents[session(c)][id].latest_charge
  PROVE  rq[c].op = "capture" /\ target[c] = id
<1>1. /\ ServingFacts(c) /\ CopyFacts(c)
      /\ Event(c).charge = pi[c].latest_charge
      /\ charges[session(c)][Event(c).charge].payment_intent = target[c]
      /\ rq[c].op # "capture" => pi[c].latest_charge # Loaded(c).latest_charge
  BY ChargeNamed
<1>2. StoredChargeOK(session(c), id)
  BY <1>1 DEF ChargeInv, StoredChargesOK, ServingFacts
<1>3. charges[session(c)][Event(c).charge].payment_intent = id
  BY <1>2 DEF StoredChargeOK
<1>4. Loaded(c) = intents[session(c)][id]
  BY <1>1, <1>3 DEF CopyFacts, Base, Stored
<1>5. QED
  BY <1>1, <1>3, <1>4

LEMMA ToldStep ==
  ASSUME IInv, ChargeInv, ReportsOK, ToldOK, NEW c \in Clients, StepOf(c)
  PROVE  ToldOK'
<1>1. SUFFICES ASSUME NEW s \in Sessions, NEW i \in DOMAIN events'[s],
                      events'[s][i].charge # Null
               PROVE  charges'[s][events'[s][i].charge] # NoCharge
  BY DEF ToldOK
<1>2. CASE i \in DOMAIN events[s]
  <2>1. events'[s][i] = events[s][i]
    BY <1>2, EventsStay
  <2>2. events[s][i].charge \in ChargeIds
    BY <1>1, <1>2, <2>1, EventTyped, Parts
  <2>3. charges[s][events[s][i].charge] # NoCharge
    BY <1>1, <1>2, <2>1 DEF ToldOK
  <2>4. QED
    BY <2>1, <2>2, <2>3, ChargesGrow
<1>3. CASE i \notin DOMAIN events[s]
  <2>1. Emit(c) /\ s = session(c) /\ i = Place(c)
    BY <1>3, EventsCome
  <2>2. events'[s][i] = Event(c) /\ charges' = charges
    BY <2>1, EmitEffect
  <2>3. charges[s][Event(c).charge] # NoCharge
    BY <1>1, <2>1, <2>2, ChargeNamed
  <2>4. QED
    BY <2>2, <2>3
<1>4. QED
  BY <1>2, <1>3

\* A handler reaches the event of its charge from the put alone.
LEMMA BeforeChargeEvent ==
  ASSUME IInv, NEW c \in Clients, StepOf(c), pc'[c] = "charge_event"
  PROVE  PutCharge(c)
<1>1. TypeOK /\ HandlersOK
  BY Parts
<1>2. ~Arrive(c)
  BY <1>1, ArriveEffect
<1>3. Handle(c) \/ AcquireLock(c)
  BY <1>2 DEF StepOf
<1>4. pc[c] # "idle" /\ ServingFacts(c)
  BY <1>1, <1>3, HandleEffect, Serving DEF Effect
<1>5. QED
  BY <1>1, <1>3, <1>4
     DEF Handle, OptIn, FallThrough, GateOpen, RefuseCreate, ListCharges,
         RetrieveCharge, ExpandCharge, Retrieve, AcquireLock, LeaveUnsimulated,
         LoadAndReject, LoadAndApply, RecordFrom, EnqueueCreated, FindCharge,
         EnqueueChargeEvent, EnqueueIntentEvent, StoreIntent, Expand, Respond,
         Goto, Answer, TypeOK, PCs, Locked, ReadOps, ActionOps

\* The charge of a copy that needed one.
LEMMA RecordedCharge ==
  ASSUME IInv, ChargeInv, NEW c \in Clients, Recorded(c)
  PROVE  /\ pc[c] \in Building /\ ServingFacts(c) /\ CopyFacts(c)
         /\ pi[c].latest_charge \in ChargeIds /\ pi[c].latest_charge # Null
         /\ charges[session(c)][pi[c].latest_charge].payment_intent = target[c]
<1>1. pc[c] \in Building /\ ServingFacts(c) /\ CopyFacts(c)
  BY Parts, CopyOutcome DEF Recorded, Building, Recording, Locked
<1>2. /\ pi[c].latest_charge \in ChargeIds
      /\ charges[session(c)][pi[c].latest_charge] = chargeForPI(pi[c], target[c])
  BY <1>1 DEF ChargeInv, CopyChargesOK, CopyChargeOK
<1>3. chargeForPI(pi[c], target[c]).payment_intent = target[c]
  BY DEF chargeForPI
<1>4. pi[c].latest_charge # Null
  BY <1>2, DistinguishedValues, BoundsAssumption DEF ChargeIds, Serials
<1>5. QED
  BY <1>1, <1>2, <1>3, <1>4

\* Others tell nothing of the charge d has minted.
LEMMA MintedOthers ==
  ASSUME IInv, ChargeInv, ReportsOK, MintedInv, NEW c \in Clients, StepOf(c),
         NEW d \in Clients, d # c
  PROVE  MintedOK(d)'
<1>1. Same(d)
  BY OthersSame
<1>2. SUFFICES ASSUME Recorded(d), rq[d].op # "capture",
                      NEW i \in DOMAIN events'[session(d)],
                      events'[session(d)][i].charge = pi[d].latest_charge
               PROVE  /\ pc[d] # "charge_event"
                      /\ events'[session(d)][i].object.amount = pi[d].amount
  BY <1>1 DEF MintedOK, Same, Recorded, session
<1>3. /\ pc[d] \in Building /\ ServingFacts(d)
      /\ pi[d].latest_charge # Null
      /\ charges[session(d)][pi[d].latest_charge].payment_intent = target[d]
  BY <1>2, RecordedCharge
<1>4. CASE i \in DOMAIN events[session(d)]
  <2>1. events'[session(d)][i] = events[session(d)][i]
    BY <1>3, <1>4, EventsStay DEF ServingFacts
  <2>2. QED
    BY <1>2, <1>4, <2>1 DEF MintedInv, MintedOK
<1>5. CASE i \notin DOMAIN events[session(d)]
  <2>1. Emit(c) /\ session(d) = session(c) /\ i = Place(c)
    BY <1>3, <1>5, EventsCome DEF ServingFacts
  <2>2. events'[session(d)][i] = Event(c)
    BY <2>1, EmitEffect
  <2>3. /\ pc[c] \in Building
        /\ charges[session(c)][Event(c).charge].payment_intent = target[c]
    BY <1>2, <1>3, <2>1, <2>2, ChargeNamed
  <2>4. target[c] = target[d]
    BY <1>2, <1>3, <2>1, <2>2, <2>3
  <2>5. QED
    BY <1>3, <2>3, <2>4, UniqueWriter
<1>6. QED
  BY <1>4, <1>5

\* Nor is anything told of it before c has put it, and then by c, once.
LEMMA MintedOwn ==
  ASSUME IInv, ChargeInv, ReportsOK, ToldOK, MintedInv, NEW c \in Clients, StepOf(c)
  PROVE  MintedOK(c)'
<1>1. SUFFICES ASSUME Recorded(c)', rq'[c].op # "capture",
                      NEW i \in DOMAIN events'[session(c)'],
                      events'[session(c)'][i].charge = pi'[c].latest_charge
               PROVE  /\ pc'[c] # "charge_event"
                      /\ events'[session(c)'][i].object.amount = pi'[c].amount
  BY DEF MintedOK
<1>2. CASE pc'[c] = "charge_event"
  <2>1. PutCharge(c)
    BY <1>2, BeforeChargeEvent
  <2>2. /\ pc[c] = "put_charge" /\ PutId(c) \in ChargeIds
        /\ session(c) \in Sessions /\ pi'[c].latest_charge = PutId(c)
        /\ UNCHANGED <<events, rq>>
    BY <2>1, PutEffect
  <2>3. charges[session(c)][PutId(c)] = NoCharge
    BY <1>1, <2>2, PutWhere
  <2>4. PutId(c) # Null
    BY <2>2, DistinguishedValues, BoundsAssumption DEF ChargeIds, Serials
  <2>5. session(c)' = session(c)
    BY <2>2 DEF session
  <2>6. /\ i \in DOMAIN events[session(c)]
        /\ events[session(c)][i].charge = PutId(c)
    BY <1>1, <2>2, <2>5
  <2>7. charges[session(c)][PutId(c)] # NoCharge
    BY <2>2, <2>4, <2>6 DEF ToldOK
  <2>8. QED
    BY <2>3, <2>7
<1>3. CASE pc'[c] \in {"intent_event", "store"}
  <2>1. rq'[c] = rq[c] /\ rq[c].op # "update" /\ NeedsCharge(pi'[c])
    BY <1>1, <1>3, BeforeReported DEF Recorded
  <2>2. (EnqueueChargeEvent(c) \/ EnqueueIntentEvent(c)) /\ pi' = pi
    BY <1>3, <2>1, BeforeReported
  <2>3. Emit(c) /\ Recorded(c) /\ rq[c].op # "capture"
    BY <1>1, <2>1, <2>2 DEF Emit, Recorded, EnqueueChargeEvent, EnqueueIntentEvent
  <2>4. session(c)' = session(c) /\ session(c) \in Sessions
        /\ pi[c].latest_charge # Null
    BY <2>1, <2>3, RecordedCharge DEF session, ServingFacts
  <2>5. CASE i \in DOMAIN events[session(c)]
    <3>1. events'[session(c)][i] = events[session(c)][i]
      BY <2>4, <2>5, EventsStay
    <3>2. /\ pc[c] # "charge_event"
          /\ events[session(c)][i].object.amount = pi[c].amount
      BY <1>1, <2>2, <2>3, <2>4, <2>5, <3>1 DEF MintedInv, MintedOK
    <3>3. QED
      BY <1>3, <2>2, <2>4, <3>1, <3>2
  <2>6. CASE i \notin DOMAIN events[session(c)]
    <3>1. i = Place(c) /\ i \in DOMAIN events'[session(c)]
      BY <1>1, <2>4, <2>6, EventsCome
    <3>2. events'[session(c)][i] = Event(c)
      BY <2>3, <3>1, EmitEffect
    <3>3. Event(c).object = chargeForPI(pi[c], target[c])
      BY <1>1, <2>2, <2>3, <2>4, <3>2, ChargeNamed
    <3>4. chargeForPI(pi[c], target[c]).amount = pi[c].amount
      BY DEF chargeForPI
    <3>5. QED
      BY <1>3, <2>2, <2>4, <3>2, <3>3, <3>4
  <2>7. QED
    BY <2>5, <2>6
<1>4. QED
  BY <1>1, <1>2, <1>3 DEF Recorded

\* An authorized copy about to be stored is for what was told.
LEMMA StoreCovered ==
  ASSUME IInv, ChargeInv, MintedInv, CoveredOK, NEW c \in Clients, pc[c] = "store"
  PROVE  Covered(session(c), pi[c])
<1>1. pc[c] \in Building /\ ServingFacts(c) /\ CopyFacts(c)
  BY Parts, CopyOutcome DEF Building, Recording, Locked
<1>2. SUFFICES ASSUME pi[c].status = "requires_capture",
                      NEW i \in Successes(session(c), pi[c].latest_charge)
               PROVE  LET told == events[session(c)][i].object.amount
                      IN  /\ pi[c].amount_capturable = told
                          /\ AmountsFixed => pi[c].amount = told
  BY DEF Covered
<1>3. CASE rq[c].op = "update"
  <2>1. Loaded(c).status = "requires_capture" /\ Loaded(c) = Base(c)
        /\ Base(c) # NoIntent
    BY <1>1, <1>2, <1>3 DEF CopyFacts
  <2>2. pi[c].latest_charge = Loaded(c).latest_charge
    BY <1>1, <1>3 DEF ChargeInv, CopyChargesOK, CopyChargeOK, Recorded
  <2>3. Covered(session(c), Loaded(c))
    BY <1>1, <2>1 DEF CoveredOK, Stored, Base, ServingFacts
  <2>4. QED
    BY <1>1, <1>2, <1>3, <2>1, <2>2, <2>3, CopyAmounts DEF Covered
<1>4. CASE rq[c].op # "update"
  <2>1. Recorded(c) /\ rq[c].op # "capture"
    BY <1>1, <1>2, <1>4 DEF Recorded, NeedsCharge, CopyFacts
  <2>2. events[session(c)][i].object.amount = pi[c].amount
    BY <1>2, <2>1 DEF MintedInv, MintedOK, Successes
  <2>3. QED
    BY <1>1, <1>2, <1>4, <2>2, CopyAmounts
<1>5. QED
  BY <1>3, <1>4

LEMMA CoveredStep ==
  ASSUME IInv, ChargeInv, ReportsOK, MintedInv, CoveredOK,
         NEW c \in Clients, StepOf(c)
  PROVE  CoveredOK'
<1>1. SUFFICES ASSUME NEW s \in Sessions, NEW id \in IntentIds, Stored(s, id)',
                      intents'[s][id].status = "requires_capture",
                      NEW i \in DOMAIN events'[s],
                      events'[s][i].type = "charge.succeeded",
                      events'[s][i].charge = intents'[s][id].latest_charge
               PROVE  LET told == events'[s][i].object.amount
                      IN  /\ intents'[s][id].amount_capturable = told
                          /\ AmountsFixed => intents'[s][id].amount = told
  BY DEF CoveredOK, Covered, Successes
<1>2. CASE StoreIntent(c) /\ session(c) = s /\ target[c] = id
  <2>1. intents'[s][id] = pi[c] /\ pc[c] = "store" /\ events' = events
    BY <1>2, StoreFacts
  <2>2. Covered(s, pi[c])
    BY <1>2, <2>1, StoreCovered
  <2>3. QED
    BY <1>1, <2>1, <2>2 DEF Covered, Successes
<1>3. CASE ~(StoreIntent(c) /\ session(c) = s /\ target[c] = id)
  <2>1. intents'[s][id] = intents[s][id]
    BY <1>3, IntentStays
  <2>2. Stored(s, id) /\ Covered(s, intents[s][id])
    BY <1>1, <2>1 DEF CoveredOK, Stored
  <2>3. CASE i \in DOMAIN events[s]
    <3>1. events'[s][i] = events[s][i]
      BY <2>3, EventsStay
    <3>2. QED
      BY <1>1, <2>1, <2>2, <2>3, <3>1 DEF Covered, Successes
  <2>4. CASE i \notin DOMAIN events[s]
    <3>1. Emit(c) /\ s = session(c) /\ i = Place(c)
      BY <2>4, EventsCome
    <3>2. events'[s][i] = Event(c)
      BY <3>1, EmitEffect
    <3>3. Event(c).charge # Null
      BY <1>1, <3>1, <3>2, EmitEffect, CreatedEventFacts, IntentEventFacts,
         ChargeEventFacts, DistinguishedValues, BoundsAssumption
         DEF ChargeIds, Serials
    <3>4. rq[c].op = "capture"
      BY <1>1, <2>1, <2>2, <3>1, <3>2, <3>3, NamesStored
    <3>5. Event(c).type = "charge.captured"
      BY <3>1, <3>3, <3>4, ChargeNamed
    <3>6. QED
      BY <1>1, <3>2, <3>5
  <2>5. QED
    BY <2>3, <2>4
<1>4. QED
  BY <1>2, <1>3

\* A capture takes no more than the success of its charge told of, or the whole
\* amount of its intent.
LEMMA NewCapture ==
  ASSUME IInv, ChargeInv, ReportsOK, CoveredOK, NEW c \in Clients, Emit(c),
         Event(c).type = "charge.captured", Event(c).charge # Null,
         NEW i \in Successes(session(c), Event(c).charge)
  PROVE  LET told  == events[session(c)][i].object.amount
             taken == Event(c).object.amount_captured
         IN  /\ taken =< told \/ taken = Event(c).object.amount
             /\ AmountsFixed => taken =< told
<1> DEFINE told == events[session(c)][i].object.amount
<1>1. /\ pc[c] \in Building /\ ServingFacts(c) /\ CopyFacts(c)
      /\ rq[c].op = "capture"
      /\ Event(c).charge = pi[c].latest_charge
      /\ pi[c].latest_charge = Loaded(c).latest_charge
      /\ Event(c).object = chargeForPI(pi[c], target[c])
  BY ChargeNamed
<1>2. /\ Loaded(c).status = "requires_capture" /\ pi[c].status = "succeeded"
      /\ Loaded(c) = intents[session(c)][target[c]]
      /\ intents[session(c)][target[c]] # NoIntent
      /\ session(c) \in Sessions /\ target[c] \in IntentIds
  BY <1>1 DEF CopyFacts, ServingFacts, Base
<1>3. Covered(session(c), Loaded(c))
  BY <1>2 DEF CoveredOK, Stored
<1>4. /\ Loaded(c).amount_capturable = told
      /\ AmountsFixed => Loaded(c).amount = told
  BY <1>1, <1>2, <1>3 DEF Covered
<1>5. /\ pi[c].amount = Loaded(c).amount
      /\ \/ pi[c].amount_received = pi[c].amount
         \/ pi[c].amount_received =< Loaded(c).amount_capturable
  BY <1>1, CopyAmounts
<1>6. /\ Event(c).object.amount = pi[c].amount
      /\ Event(c).object.amount_captured = pi[c].amount_received
  BY <1>1, <1>2 DEF chargeForPI
<1>7. pi[c].amount \in Int /\ Loaded(c).amount \in Int
  BY <1>1 DEF CopyFacts, Intents
<1> HIDE DEF told
<1>8. /\ \/ Event(c).object.amount_captured =< told
         \/ Event(c).object.amount_captured = Event(c).object.amount
      /\ AmountsFixed => Event(c).object.amount_captured =< told
  BY <1>4, <1>5, <1>6, <1>7
<1>9. QED
  BY <1>8 DEF told

LEMMA CapturesStep ==
  ASSUME IInv, ChargeInv, ReportsOK, MintedInv, CoveredOK, CapturesOK,
         NEW c \in Clients, StepOf(c)
  PROVE  CapturesOK'
<1>1. SUFFICES ASSUME NEW s \in Sessions, NEW j \in DOMAIN events'[s],
                      events'[s][j].type = "charge.captured",
                      NEW i \in DOMAIN events'[s],
                      events'[s][i].type = "charge.succeeded",
                      events'[s][i].charge = events'[s][j].charge
               PROVE  LET told    == events'[s][i].object.amount
                          capture == events'[s][j].object
                          taken   == capture.amount_captured
                      IN  /\ taken =< told \/ taken = capture.amount
                          /\ AmountsFixed => taken =< told
  BY DEF CapturesOK, CaptureCovered, Successes
<1>2. ASSUME NEW k \in DOMAIN events'[s], k \notin DOMAIN events[s],
             events'[s][k].type \in {"charge.captured", "charge.succeeded"}
      PROVE  /\ Emit(c) /\ s = session(c) /\ k = Place(c)
             /\ events'[s][k] = Event(c) /\ Event(c).charge # Null
  <2>1. Emit(c) /\ s = session(c) /\ k = Place(c)
    BY <1>2, EventsCome
  <2>2. events'[s][k] = Event(c)
    BY <2>1, EmitEffect
  <2>3. pc[c] = "charge_event"
    BY <1>2, <2>1, <2>2, EmitEffect, CreatedEventFacts, IntentEventFacts
  <2>4. Event(c).charge \in ChargeIds
    BY <2>3, ChargeEventFacts
  <2>5. QED
    BY <2>1, <2>2, <2>4, DistinguishedValues, BoundsAssumption
       DEF ChargeIds, Serials
<1>3. CASE i \in DOMAIN events[s] /\ j \in DOMAIN events[s]
  <2>1. events'[s][i] = events[s][i] /\ events'[s][j] = events[s][j]
    BY <1>3, EventsStay
  <2>2. i \in Successes(s, events[s][j].charge)
    BY <1>1, <1>3, <2>1 DEF Successes
  <2>3. CaptureCovered(s, j)
    BY <1>1, <1>3, <2>1 DEF CapturesOK
  <2>4. QED
    BY <2>1, <2>2, <2>3 DEF CaptureCovered
<1>4. CASE i \in DOMAIN events[s] /\ j \notin DOMAIN events[s]
  <2>1. /\ Emit(c) /\ s = session(c)
        /\ events'[s][j] = Event(c) /\ Event(c).charge # Null
    BY <1>1, <1>2, <1>4
  <2>2. events'[s][i] = events[s][i]
    BY <1>4, EventsStay
  <2>3. i \in Successes(session(c), Event(c).charge)
    BY <1>1, <1>4, <2>1, <2>2 DEF Successes
  <2>4. QED
    BY <1>1, <2>1, <2>2, <2>3, NewCapture
<1>5. CASE i \notin DOMAIN events[s] /\ j \in DOMAIN events[s]
  <2>1. /\ Emit(c) /\ s = session(c)
        /\ events'[s][i] = Event(c) /\ Event(c).charge # Null
    BY <1>1, <1>2, <1>5
  <2>2. /\ pc[c] = "charge_event" /\ Recorded(c) /\ rq[c].op # "capture"
        /\ Event(c).charge = pi[c].latest_charge
    BY <1>1, <2>1, ChargeNamed
  <2>3. events'[s][j] = events[s][j]
    BY <1>5, EventsStay
  <2>4. events[s][j].charge = pi[c].latest_charge
    BY <1>1, <2>1, <2>2, <2>3
  <2>5. QED
    BY <1>5, <2>1, <2>2, <2>4 DEF MintedInv, MintedOK
<1>6. CASE i \notin DOMAIN events[s] /\ j \notin DOMAIN events[s]
  <2>1. i = Place(c) /\ j = Place(c)
    BY <1>1, <1>2, <1>6
  <2>2. QED
    BY <1>1, <2>1
<1>7. QED
  BY <1>3, <1>4, <1>5, <1>6

-----------------------------------------------------------------------------
(* The theorems                                                            *)

LEMMA EventInit == Init => EventInv
<1> SUFFICES ASSUME Init PROVE EventInv
  OBVIOUS
<1>1. /\ \A c \in Clients : pc[c] = "idle"
      /\ \A s \in Sessions : events[s] = <<>> /\ DOMAIN events[s] = {}
      /\ \A s \in Sessions, id \in IntentIds : ~Stored(s, id)
  BY DEF Init, Stored
<1>2. \A s \in Sessions, id \in IntentIds : StatusEvents(s, id) = {}
  BY <1>1 DEF StatusEvents
<1>3. QueueOK
  BY <1>1, <1>2 DEF QueueOK, Announced
<1>4. /\ \A c \in Clients : ReportedOK(c)
      /\ AuthorizedOK
  BY <1>1 DEF ReportedOK, AuthorizedOK
<1>5. SettlementOK /\ SettledAtMostOnce
  BY <1>1 DEF SettlementOK, SettledAtMostOnce
<1>6. CaptureFollowsAuthorization /\ ChargeEventFirst
  BY <1>1 DEF CaptureFollowsAuthorization, ChargeEventFirst
<1>7. QED
  BY <1>3, <1>4, <1>5, <1>6 DEF EventInv

LEMMA EventInvStep == IInv /\ ChargeInv /\ EventInv /\ [Next]_vars => EventInv'
<1> SUFFICES ASSUME IInv, ChargeInv, EventInv, [Next]_vars
             PROVE  EventInv'
  OBVIOUS
<1>1. /\ ReportsOK /\ AuthorizedOK /\ SettlementOK /\ QueueOK
      /\ SettledAtMostOnce /\ CaptureFollowsAuthorization /\ ChargeEventFirst
  BY DEF EventInv, ReportsOK
<1>2. ASSUME NEW c \in Clients, StepOf(c)
      PROVE  EventInv'
  <2>1. ReportsOK' /\ AuthorizedOK' /\ SettlementOK' /\ QueueOK'
    BY <1>1, <1>2, ReportedStep, AuthorizedStep, SettlementStep, QueueStep
  <2>2. SettledAtMostOnce' /\ CaptureFollowsAuthorization' /\ ChargeEventFirst'
    BY <1>1, <1>2, SettledOnceStep, CaptureStep, ChargeFirstStep
  <2>3. QED
    BY <2>1, <2>2 DEF EventInv, ReportsOK
<1>3. CASE UNCHANGED vars
  <2>1. UNCHANGED <<intents, events, pc, rq, target, pi>>
    BY <1>3 DEF vars
  <2>2. ReportsOK' /\ AuthorizedOK' /\ SettlementOK'
    BY <1>1, <2>1
       DEF ReportsOK, ReportedOK, AuthorizedOK, SettlementOK, Recorded,
           RecordedFor, ChargeReported, AuthorizationReported, Stored, session
  <2>3. QueueOK'
    BY <1>1, <2>1 DEF QueueOK, Announced, Tells, StatusEvents, Stored, session
  <2>4. SettledAtMostOnce' /\ CaptureFollowsAuthorization' /\ ChargeEventFirst'
    BY <1>1, <2>1
       DEF SettledAtMostOnce, CaptureFollowsAuthorization, ChargeEventFirst
  <2>5. QED
    BY <2>2, <2>3, <2>4 DEF EventInv, ReportsOK
<1>4. QED
  BY <1>2, <1>3, StepCases DEF StepOf

\* The inductive invariant behind the webhooks: what is reported is stored or
\* about to be, and the last word of the queue is at most one store ahead.
THEOREM EventInvariance == Spec => [](IInv /\ ChargeInv /\ EventInv)
<1>1. Init => IInv /\ ChargeInv /\ EventInv
  BY InitOK, ChargeInit, EventInit
<1>2. IInv /\ ChargeInv /\ EventInv /\ [Next]_vars
        => (IInv /\ ChargeInv /\ EventInv)'
  BY IInvStep, ChargeInvStep, EventInvStep
<1>3. QED
  BY <1>1, <1>2, PTL DEF Spec

\* The webhooks report at most one success of an intent and one capture of a
\* charge, however many confirms and captures race.
THEOREM SettledOnce == Spec => []SettledAtMostOnce
<1>1. EventInv => SettledAtMostOnce
  BY DEF EventInv
<1>2. QED
  BY <1>1, EventInvariance, PTL

\* A charge.captured webhook always follows the charge.succeeded of its
\* authorization.
THEOREM CapturesFollow == Spec => []CaptureFollowsAuthorization
<1>1. EventInv => CaptureFollowsAuthorization
  BY DEF EventInv
<1>2. QED
  BY <1>1, EventInvariance, PTL

\* When an intent's webhook names a charge, the webhook of the charge has gone
\* before it.
THEOREM ChargesAnnouncedFirst == Spec => []ChargeEventFirst
<1>1. EventInv => ChargeEventFirst
  BY DEF EventInv
<1>2. QED
  BY <1>1, EventInvariance, PTL

\* Once no write to an intent is in flight, the last webhook about it and a
\* retrieve agree on its status.
THEOREM QueueAgrees == Spec => []EventsAgreeWithStore
<1>1. ASSUME IInv, QueueOK, NEW s \in Sessions, NEW id \in IntentIds,
             Stored(s, id), ~\E c \in Clients : Writing(c, s, id)
      PROVE  LET reported == StatusEvents(s, id)
                 waiting  == {"requires_payment_method", "requires_confirmation"}
                 status   == intents[s][id].status
             IN  IF reported = {}
                   THEN status \in waiting
                   ELSE LET last == CHOOSE i \in reported :
                                      \A j \in reported : j =< i
                            told == events[s][last].object.status
                        IN  status = told \/ {status, told} \subseteq waiting
  <2> DEFINE reported == StatusEvents(s, id)
             status   == intents[s][id].status
             last     == CHOOSE i \in reported : \A j \in reported : j =< i
             told     == events[s][last].object.status
  <2>1. ~\E c \in Clients : Announced(c) /\ session(c) = s /\ target[c] = id
    BY <1>1 DEF Announced, Writing, Locked
  <2>2. IF reported = {} THEN status \in Waiting ELSE Tells(s, id, status)
    BY <1>1, <2>1 DEF QueueOK
  <2>3. CASE reported # {}
    <3>1. PICK i \in reported :
            /\ \A j \in reported : j =< i
            /\ \/ events[s][i].object.status = status
               \/ {events[s][i].object.status, status} \subseteq Waiting
      BY <2>2, <2>3 DEF Tells
    <3>2. reported \subseteq Nat
      <4>1. events[s] \in Seq(Events)
        BY <1>1, Parts DEF TypeOK
      <4>2. QED
        BY <4>1 DEF StatusEvents
    <3>3. last \in reported /\ \A j \in reported : j =< last
      <4> HIDE DEF reported
      <4>1. QED
        BY <3>1
    <3> HIDE DEF last, reported
    <3>4. last = i
      BY <3>1, <3>2, <3>3
    <3>5. QED
      BY <2>3, <3>1, <3>4 DEF reported, last, Waiting
  <2>4. CASE reported = {}
    BY <2>2, <2>4 DEF Waiting
  <2>5. QED
    BY <2>3, <2>4
<1>2. IInv /\ EventInv => EventsAgreeWithStore
  BY <1>1 DEF EventInv, EventsAgreeWithStore
<1>3. QED
  BY <1>2, EventInvariance, PTL

LEMMA AmountInit == Init => AmountInv
<1> SUFFICES ASSUME Init PROVE AmountInv
  OBVIOUS
<1>1. /\ \A c \in Clients : pc[c] = "idle"
      /\ \A s \in Sessions : events[s] = <<>> /\ DOMAIN events[s] = {}
      /\ \A s \in Sessions, id \in IntentIds : ~Stored(s, id)
  BY DEF Init, Stored
<1>2. \A c \in Clients : MintedOK(c)
  BY <1>1 DEF MintedOK, Recorded
<1>3. QED
  BY <1>1, <1>2 DEF AmountInv, ToldOK

LEMMA AmountInvStep ==
  IInv /\ ChargeInv /\ EventInv /\ AmountInv /\ [Next]_vars => AmountInv'
<1> SUFFICES ASSUME IInv, ChargeInv, EventInv, AmountInv, [Next]_vars
             PROVE  AmountInv'
  OBVIOUS
<1>1. ReportsOK /\ ToldOK /\ MintedInv /\ CoveredOK /\ CapturesOK
  BY DEF EventInv, ReportsOK, AmountInv, MintedInv, CoveredOK, CapturesOK
<1>2. ASSUME NEW c \in Clients, StepOf(c)
      PROVE  AmountInv'
  <2>1. ToldOK' /\ CoveredOK' /\ CapturesOK'
    BY <1>1, <1>2, ToldStep, CoveredStep, CapturesStep
  <2>2. MintedInv'
    BY <1>1, <1>2, MintedOthers, MintedOwn DEF MintedInv
  <2>3. QED
    BY <2>1, <2>2 DEF AmountInv, MintedInv, CoveredOK, CapturesOK
<1>3. CASE UNCHANGED vars
  <2>1. UNCHANGED <<intents, charges, events, pc, rq, pi>>
    BY <1>3 DEF vars
  <2>2. ToldOK' /\ MintedInv'
    BY <1>1, <2>1 DEF ToldOK, MintedInv, MintedOK, Recorded, session
  <2>3. CoveredOK' /\ CapturesOK'
    BY <1>1, <2>1
       DEF CoveredOK, CapturesOK, Covered, CaptureCovered, Successes, Stored
  <2>4. QED
    BY <2>2, <2>3 DEF AmountInv, MintedInv, CoveredOK, CapturesOK
<1>4. QED
  BY <1>2, <1>3, StepCases DEF StepOf

\* The inductive invariant behind the amounts: the success of a charge is told
\* once, by the handler that minted it, and what is capturable of the intent
\* stays what it told of, also when an update changes the amount.
THEOREM AmountInvariance == Spec => []AmountInv
<1>1. Init => IInv /\ ChargeInv /\ EventInv /\ AmountInv
  BY InitOK, ChargeInit, EventInit, AmountInit
<1>2. IInv /\ ChargeInv /\ EventInv /\ AmountInv /\ [Next]_vars
        => (IInv /\ ChargeInv /\ EventInv /\ AmountInv)'
  BY IInvStep, ChargeInvStep, EventInvStep, AmountInvStep
<1>3. QED
  BY <1>1, <1>2, PTL DEF Spec

\* What a charge.captured webhook takes is within what the charge.succeeded of
\* its charge told of, or it is the whole amount of the intent.
THEOREM OvercapturesAreWhole == Spec => []OvercaptureTakesTheWhole
<1>1. AmountInv => OvercaptureTakesTheWhole
  BY DEF AmountInv, CaptureCovered, Successes, OvercaptureTakesTheWhole
<1>2. QED
  BY <1>1, AmountInvariance, PTL

\* As long as no update changes an amount, no capture exceeds what the webhook
\* of the authorization told of: the updates are all that lets the
\* server over-capture.
THEOREM CapturesWithin ==
  ASSUME AmountsFixed
  PROVE  Spec => []CapturedWithinAuthorization
<1>1. AmountInv => CapturedWithinAuthorization
  BY DEF AmountInv, CaptureCovered, Successes, CapturedWithinAuthorization
<1>2. QED
  BY <1>1, AmountInvariance, PTL
=============================================================================
