---------------------- MODULE ControlSettlement_proofs ----------------------
(***************************************************************************)
(* Theorems about the webhooks a test is handed while it resets, drains    *)
(* and emits between any two store operations of any handler, for every    *)
(* set of clients, testers and ids and every number of requests.           *)
(***************************************************************************)
EXTENDS ControlPlane_proofs

-----------------------------------------------------------------------------
(* Who may know an id                                                      *)

Arrival(c) == Arrive(c) \/ IssueOnDelivered(c) \/ IssueOnListed(c)

\* What SettleInv is about has a type.
LEMMA ControlFacts ==
  ASSUME ControlInv
  PROVE  /\ TypeOK /\ HandlersOK /\ IdsAreKnown
         /\ delivered \in [Sessions -> Seq(Events)]
         /\ \A t \in Testers : tpc[t] = "enqueue" =>
              /\ tarticle[t].session \in Sessions /\ tarticle[t].event \in Events
BY ControlParts DEF ControlTypeOK, TestersOK, TesterOK

\* A request that arrives is about no id a create has not stored yet, and the
\* id of a create is new.
LEMMA ArrivalPrivate ==
  ASSUME ControlInv, MintedOK, ~EarlyIds, NEW c \in Clients, Arrival(c)
  PROVE  /\ OthersKeep(c)
         /\ pc[c] = "idle" /\ pc'[c] \in {"opt_in", "gate"}
         /\ UNCHANGED <<enabled, intents, charges, events, lock>>
         /\ \A d \in Clients \ {c} : Minting(d) => target'[c] # target[d]
         /\ rq'[c].op = "create" =>
              /\ \A d \in Clients \ {c} : pc[d] # "idle" => target[d] # target'[c]
              /\ \A s \in Sessions : ~Stored(s, target'[c])
<1>1. TypeOK /\ HandlersOK /\ IdsAreKnown
  BY ControlFacts
<1>2. PICK r \in Requests, id \in Known \cup {issued + 1} : Arrives(c, r, id)
  BY ControlArrival DEF Arrival
<1>3. /\ OthersKeep(c)
      /\ pc[c] = "idle" /\ pc'[c] \in {"opt_in", "gate"}
      /\ rq'[c] = r /\ target'[c] = id
      /\ issued \in Nat /\ issued + 1 \in Serials
      /\ UNCHANGED <<enabled, intents, charges, events, lock>>
  BY <1>1, <1>2, ArrivesEffect DEF Arrives
<1>4. \A d \in Clients : pc[d] # "idle" =>
        /\ target[d] \in ForeignIds \cup 1 .. issued
        /\ rq[d].op = "create" =>
             /\ target[d] = serial[d] /\ serial[d] \in 1 .. issued
             /\ session(d) \in Sessions
  BY <1>1 DEF HandlersOK, HandlerOK, RequestOK, Requests, session
<1>5. issued + 1 \notin Known
  BY <1>3, DistinguishedValues DEF Known
<1>6. rq'[c].op = "create" =>
        /\ \A d \in Clients \ {c} : pc[d] # "idle" => target[d] # target'[c]
        /\ \A s \in Sessions : ~Stored(s, target'[c])
  BY <1>1, <1>2, <1>3, <1>4, <1>5 DEF Arrives, Known, IdsAreKnown, IntentIds
<1>7. ASSUME NEW d \in Clients \ {c}, Minting(d)
      PROVE  target'[c] # target[d]
  <2>1. /\ pc[d] # "idle" /\ rq[d].op = "create"
        /\ \A s \in Sessions : ~Stored(s, target[d])
    BY <1>7 DEF Minting, MintedOK, Building, Recording, Locked
  <2>2. target[d] \in 1 .. issued /\ target[d] = serial[d] /\ target[d] \in Serials
    <3>1. target[d] \in 1 .. issued /\ target[d] = serial[d]
      BY <1>4, <2>1
    <3>2. QED
      BY <1>1, <3>1, BoundsAssumption DEF TypeOK, Serials
  <2>3. target[d] \notin ForeignIds \cup Answered
    <3>1. serial[d] \in InFlight
      BY <2>2, DistinguishedValues, BoundsAssumption DEF InFlight, Serials
    <3>2. QED
      BY <2>2, <3>1, DistinguishedValues DEF Answered
  <2>4. CASE Arrive(c)
    BY <1>1, <1>3, <2>2, <2>3, <2>4, ArriveEffect DEF TypeOK
  <2>5. CASE IssueOnListed(c)
    <3>1. PICK q \in Workload, k \in IntentIds : Stored(q.session, k) /\ Issue(c, q, k)
      BY <2>5 DEF IssueOnListed
    <3>2. q.session \in Sessions
      BY WorkloadAssumption DEF Requests
    <3>3. target'[c] = k
      BY <1>1, <3>1 DEF Issue, TypeOK
    <3>4. QED
      BY <2>1, <3>1, <3>2, <3>3
  <2>6. QED
    BY <2>4, <2>5 DEF Arrival, IssueOnDelivered
<1>8. QED
  BY <1>3, <1>6, <1>7

\* A handler whose create has not stored yet is where a create begins.
LEMMA MintingSince ==
  ASSUME TypeOK, HandlersOK, NEW c \in Clients, Handle(c) \/ AcquireLock(c),
         Minting(c)'
  PROVE  Minting(c) /\ rq'[c] = rq[c] /\ target'[c] = target[c] /\ ~StoreIntent(c)
<1>1. Effect(c) /\ ServingFacts(c)
  BY HandleEffect, Serving DEF Effect
<1>2. pc'[c] # "idle" /\ pc'[c] \in {"opt_in", "gate"} \cup Building
  BY DEF Minting, Building, Recording, Locked
<1>3. rq'[c] = rq[c] /\ target'[c] = target[c] /\ rq[c].op = "create"
  BY <1>1, <1>2 DEF Effect, Minting
<1>4. pc[c] \notin {"lock", "load"}
  BY <1>1, <1>3 DEF ServingFacts, ControlOK, ActionOps
<1>5. pc[c] \in {"opt_in", "gate"} \cup Building /\ ~StoreIntent(c)
  BY <1>2, <1>4
     DEF Building, Recording, Locked, TypeOK, Handle, OptIn, FallThrough, GateOpen,
         RefuseCreate, ListCharges, RetrieveCharge, ExpandCharge, Retrieve,
         AcquireLock, LeaveUnsimulated, LoadAndReject, LoadAndApply,
         EnqueueCreated, FindCharge, PutCharge, EnqueueChargeEvent,
         EnqueueIntentEvent, StoreIntent, Expand, Respond, Goto, Answer
<1>6. QED
  BY <1>3, <1>5 DEF Minting

LEMMA HandleMinted ==
  ASSUME ControlInv, MintedOK, NEW c \in Clients, Handle(c) \/ AcquireLock(c)
  PROVE  MintedOK'
<1>1. TypeOK /\ HandlersOK /\ Effect(c)
  BY ControlFacts, HandleEffect
<1> SUFFICES ASSUME NEW e \in Clients, Minting(e)'
             PROVE  /\ \A d \in Clients : d # e /\ pc'[d] # "idle" =>
                         target'[d] # target'[e]
                    /\ \A s \in Sessions : ~Stored(s, target[e])'
  BY DEF MintedOK
<1>2. Minting(e) /\ target'[e] = target[e]
  BY <1>1, MintingSince DEF Effect, OthersKeep, Minting
<1>3. /\ \A d \in Clients : d # e /\ pc[d] # "idle" => target[d] # target[e]
      /\ \A s \in Sessions : ~Stored(s, target[e])
  BY <1>2 DEF MintedOK
<1>4. \A d \in Clients : d # e /\ pc'[d] # "idle" => target'[d] # target'[e]
  BY <1>1, <1>2, <1>3 DEF Effect, OthersKeep
<1>5. CASE StoreIntent(c)
  <2>1. e # c /\ pc[c] # "idle"
    BY <1>1, <1>5, MintingSince DEF StoreIntent
  <2>2. target[e] # target[c]
    BY <1>3, <2>1
  <2>3. target[e] \in IntentIds
    BY <1>1, <1>2, Serving DEF Minting, Building, Recording, Locked, ServingFacts
  <2>4. QED
    BY <1>1, <1>2, <1>3, <1>4, <1>5, <2>2, <2>3, StoreEffect DEF Stored
<1>6. CASE intents' = intents
  BY <1>2, <1>3, <1>4, <1>6 DEF Stored
<1>7. QED
  BY <1>1, <1>5, <1>6 DEF Effect

\* Two handlers never have a copy of one intent to store.
LEMMA OneWriter ==
  ASSUME ControlInv, LockOK, MintedOK,
         NEW c \in Clients, pc[c] \in Building,
         NEW d \in Clients, pc[d] \in Building, target[c] = target[d]
  PROVE  c = d
<1>1. ServingFacts(c) /\ ServingFacts(d)
  BY ControlFacts, Serving DEF Building, Recording, Locked
<1>2. rq[c].op = "create" \/ rq[d].op = "create" => c = d
  BY DEF MintedOK, Minting, Building, Recording, Locked
<1>3. \A e \in {c, d} : rq[e].op # "create" => Holds(e)
  BY <1>1 DEF ServingFacts, ControlOK, Holds, Building, Recording, Locked,
     LifecycleOps, ActionOps
<1>4. QED
  BY <1>2, <1>3 DEF LockOK

-----------------------------------------------------------------------------
(* What a handler is about to store                                        *)

\* Only an update of an intent that waits for its payment method moves it.
LEMMA UpdateKeeps ==
  ASSUME NEW intent \in Intents, NEW p \in ParamSpace,
         intent.status # "requires_payment_method"
  PROVE  applyUpdate(intent, p).status = intent.status
<1> DEFINE copied == copyPaymentIntentParams(intent, p)
           att    == attachPaymentMethod(copied, p)
<1>1. copied \in Intents /\ copied.status = intent.status
  BY copyParamsTyped DEF copyPaymentIntentParams, Intents
<1>2. att = [copied EXCEPT !.payment_method = att.payment_method]
  BY <1>1, attachPaymentMethodTyped
<1>3. att.status = intent.status
  BY <1>1, <1>2 DEF Intents
<1>4. applyUpdate(intent, p) = att
  BY <1>3 DEF applyUpdate
<1>5. QED
  BY <1>3, <1>4

\* What an accepted request has made of the intent it was accepted for.
LEMMA AppliedStatus ==
  ASSUME NEW intent \in Intents, NEW p \in ParamSpace, NEW op \in LifecycleOps,
         Accepts(op, intent, p)
  PROVE  LET applied == Apply(op, intent, p) IN
         /\ op = "confirm" => intent.status \notin Final
         /\ op = "capture" => /\ intent.status = "requires_capture"
                              /\ applied.status = "succeeded"
         /\ op = "cancel"  => /\ intent.status \notin {"succeeded", "canceled"}
                              /\ applied.status = "canceled"
                              /\ ~NeedsCharge(applied)
         /\ op = "update" /\ intent.status \in Final => applied.status = intent.status
<1>1. CASE op = "confirm"
  BY <1>1 DEF Accepts, mayConfirm, Final
<1>2. CASE op = "capture"
  BY <1>2 DEF Accepts, mayCapture, Apply, applyCapture, Intents
<1>3. CASE op = "cancel"
  BY <1>3 DEF Accepts, mayCancel, Apply, applyCancel, Intents, NeedsCharge
<1>4. CASE op = "update"
  BY <1>4, UpdateKeeps DEF Apply, Final
<1>5. QED
  BY <1>1, <1>2, <1>3, <1>4 DEF LifecycleOps

\* The pieces of CopyOK a step of c may change.
LEMMA OwnCopy ==
  ASSUME ControlInv, NEW c \in Clients, Handle(c) \/ AcquireLock(c), CopyOK(c)
  PROVE  CopyOK(c)'
<1>1. TypeOK /\ pc[c] # "idle" /\ ServingFacts(c) /\ Effect(c)
  BY ControlFacts, HandleEffect, Serving DEF Effect
<1>2. SUFFICES ASSUME pc'[c] \in Building
               PROVE  CopyOK(c)'
  BY DEF CopyOK
<1>3. rq'[c] = rq[c] /\ target'[c] = target[c]
  BY <1>1, <1>2 DEF Effect, Building, Recording, Locked
<1>4. CASE GateOpen(c)
  <2>1. rq[c].op = "create" /\ pc'[c] = "created_event"
    BY <1>1, <1>2, <1>4 DEF GateOpen, Goto, TypeOK, ServingFacts, Ops, ReadOps,
       ActionOps, Building, Recording, Locked
  <2>2. QED
    BY <1>3, <2>1 DEF CopyOK
<1>5. CASE LoadAndApply(c)
  <2> DEFINE intent == Loaded(c)
             applied == Apply(rq[c].op, intent, params(c))
             stored == intents[session(c)][target[c]]
  <2>1. /\ rq[c].op \in LifecycleOps
        /\ Accepts(rq[c].op, intent, params(c))
        /\ pi'[c] = applied
        /\ pc'[c] = IF rq[c].op = "update" THEN "store" ELSE RecordFrom(applied)
        /\ intents' = intents
    BY <1>1, <1>5 DEF LoadAndApply, Goto, store, TypeOK, ServingFacts, ControlOK,
       ActionOps, LifecycleOps, Accepted
  <2>2. /\ intent \in Intents /\ applied \in Intents
        /\ stored # NoIntent => stored = intent
    BY <1>1, LoadedTyped, ApplyTyped DEF ServingFacts, Loaded, orAdopted
  <2>3. /\ rq[c].op = "confirm" => intent.status \notin Final
        /\ rq[c].op = "capture" => /\ intent.status = "requires_capture"
                                   /\ applied.status = "succeeded"
        /\ rq[c].op = "cancel"  => /\ intent.status \notin {"succeeded", "canceled"}
                                   /\ applied.status = "canceled"
                                   /\ ~NeedsCharge(applied)
        /\ rq[c].op = "update" /\ intent.status \in Final =>
             applied.status = intent.status
    BY <1>1, <2>1, <2>2, AppliedStatus DEF ServingFacts
  <2>4. pc'[c] \in {"find_charge", "put_charge", "charge_event"} =>
          rq[c].op \in {"create", "confirm", "capture"}
    BY <2>1, <2>3 DEF RecordFrom, LifecycleOps
  <2> HIDE DEF intent, applied
  <2>5. QED
    BY <1>3, <2>1, <2>2, <2>3, <2>4 DEF CopyOK, session
<1>6. CASE EnqueueCreated(c)
  <2>1. rq[c].op = "create"
    BY <1>1, <1>6 DEF EnqueueCreated, ServingFacts, ControlOK
  <2>2. QED
    BY <1>3, <2>1 DEF CopyOK
<1>7. CASE PutCharge(c)
  <2>1. pc[c] \in Building /\ pi[c] \in Intents /\ intents' = intents
    BY <1>1, <1>7 DEF PutCharge, ServingFacts, CopiesOK, Building, Recording, Locked
  <2>2. PICK k : pi'[c] = [pi[c] EXCEPT !.latest_charge = k]
    BY <1>1, <1>7 DEF PutCharge, TypeOK
  <2>3. pi'[c].status = pi[c].status
    BY <2>1, <2>2 DEF Intents
  <2>4. pc[c] = "put_charge"
    BY <1>7 DEF PutCharge
  <2>5. QED
    BY <1>3, <2>1, <2>3, <2>4 DEF CopyOK, session
<1>8. CASE FindCharge(c) \/ EnqueueChargeEvent(c) \/ EnqueueIntentEvent(c)
  <2>1. /\ pc[c] \in Building /\ pi' = pi /\ intents' = intents
        /\ FindCharge(c) => pc[c] = "find_charge"
        /\ ~FindCharge(c) => pc'[c] \in {"intent_event", "store"}
    BY <1>1, <1>8 DEF FindCharge, EnqueueChargeEvent, EnqueueIntentEvent,
       store, Building, Recording, Locked, Goto, TypeOK
  <2>2. QED
    BY <1>3, <2>1 DEF CopyOK, session
<1>9. QED
  BY <1>1, <1>2, <1>4, <1>5, <1>6, <1>7, <1>8
     DEF Building, Recording, Locked, TypeOK, Handle, OptIn, FallThrough,
         RefuseCreate, ListCharges, RetrieveCharge, ExpandCharge, Retrieve,
         AcquireLock, LeaveUnsimulated, LoadAndReject, StoreIntent, Expand,
         Respond, Goto, Answer

CopiesKept == \A c \in Clients : CopyOK(c)

LEMMA HandleCopies ==
  ASSUME ControlInv, LockOK, MintedOK, CopiesKept,
         NEW c \in Clients, Handle(c) \/ AcquireLock(c)
  PROVE  CopiesKept'
<1>1. TypeOK /\ HandlersOK /\ Effect(c) /\ CopyOK(c)'
  BY ControlFacts, HandleEffect, OwnCopy DEF CopiesKept
<1>2. ASSUME NEW d \in Clients \ {c}, pc[d] \in Building
      PROVE  intents'[session(d)][target[d]] = intents[session(d)][target[d]]
  <2>1. CASE StoreIntent(c)
    <3>1. target[c] # target[d]
      BY <1>2, <2>1, OneWriter DEF StoreIntent, Building, Recording, Locked
    <3>2. session(d) \in Sessions /\ target[d] \in IntentIds
      BY <1>1, <1>2, Serving DEF ServingFacts, Building, Recording, Locked
    <3>3. QED
      BY <1>1, <2>1, <3>1, <3>2, StoreEffect
  <2>2. QED
    BY <1>1, <2>1 DEF Effect
<1>3. ASSUME NEW d \in Clients \ {c} PROVE CopyOK(d)'
  <2>1. CopyOK(d) /\ pc'[d] = pc[d] /\ rq'[d] = rq[d] /\ target'[d] = target[d]
        /\ pi'[d] = pi[d]
    BY <1>1 DEF CopiesKept, Effect, OthersKeep
  <2>2. QED
    BY <1>2, <2>1 DEF CopyOK, session
<1>4. QED
  BY <1>1, <1>3 DEF CopiesKept

-----------------------------------------------------------------------------
(* What webhooks say                                                       *)

\* What the webhooks of a session consist of.
LEMMA WebhooksTyped ==
  ASSUME ControlInv, NEW s \in Sessions
  PROVE  /\ Webhooks(s) \in Seq(Events)
         /\ \A i \in DOMAIN Webhooks(s) : Webhooks(s)[i].intent \in IntentIds
<1>1. delivered[s] \in Seq(Events) /\ events[s] \in Seq(Events)
  BY ControlFacts DEF TypeOK
<1>2. Webhooks(s) \in Seq(Events)
  BY <1>1 DEF Webhooks
<1>3. \A i \in DOMAIN Webhooks(s) : Webhooks(s)[i] \in Events
  BY <1>2
<1>4. QED
  BY <1>2, <1>3 DEF Events

\* Once(log): no intent is charged or captured twice in log.  Tells(log,
\* settled, captured): what it says of charges is true of these intents.
Once(log) ==
  \A i, j \in DOMAIN log :
    /\ log[i].type \in {"charge.succeeded", "charge.captured"}
    /\ log[j].type = log[i].type
    /\ log[j].intent = log[i].intent
    => i = j

Tells(log, settled, captured) ==
  \A i \in DOMAIN log :
    /\ log[i].type = "charge.succeeded" => log[i].intent \in settled
    /\ log[i].type = "charge.captured"  => log[i].intent \in captured

\* One more event in the queue is one more webhook, the last.
LEMMA OneMore ==
  ASSUME NEW p \in Seq(Events), NEW q \in Seq(Events), NEW e \in Events
  PROVE  \A i \in DOMAIN (p \o Append(q, e)) :
           \/ /\ i \in DOMAIN (p \o q)
              /\ (p \o Append(q, e))[i] = (p \o q)[i]
           \/ /\ i = Len(p) + Len(q) + 1
              /\ (p \o Append(q, e))[i] = e
<1> DEFINE new == p \o Append(q, e)
<1> TAKE i \in DOMAIN new
<1>1. Append(q, e) \in Seq(Events) /\ Len(Append(q, e)) = Len(q) + 1
  OBVIOUS
<1>2. i \in 1 .. Len(p) + Len(q) + 1 /\ DOMAIN (p \o q) = 1 .. Len(p) + Len(q)
  BY <1>1
<1>3. CASE i =< Len(p)
  BY <1>1, <1>2, <1>3
<1>4. CASE i > Len(p) /\ i =< Len(p) + Len(q)
  <2>1. i - Len(p) \in 1 .. Len(q)
    BY <1>2, <1>4
  <2>2. new[i] = Append(q, e)[i - Len(p)] /\ (p \o q)[i] = q[i - Len(p)]
    BY <1>1, <1>2, <1>4, <2>1
  <2>3. QED
    BY <1>2, <1>4, <2>1, <2>2
<1>5. CASE i = Len(p) + Len(q) + 1
  BY <1>1, <1>5
<1>6. QED
  BY <1>2, <1>3, <1>4, <1>5

\* An event of a charge may follow in a log that tells the truth if it is
\* news.
LEMMA NewsIsTold ==
  ASSUME NEW p \in Seq(Events), NEW q \in Seq(Events), NEW e \in Events,
         NEW settled, NEW captured, NEW settled2, NEW captured2,
         settled \subseteq settled2, captured \subseteq captured2,
         e.type = "charge.succeeded" => e.intent \in settled2 \ settled,
         e.type = "charge.captured" => e.intent \in captured2 \ captured,
         Once(p \o q), Tells(p \o q, settled, captured)
  PROVE  Once(p \o Append(q, e)) /\ Tells(p \o Append(q, e), settled2, captured2)
<1> DEFINE last == Len(p) + Len(q) + 1
<1>1. PICK old, new : old = p \o q /\ new = p \o Append(q, e)
  OBVIOUS
<1>2. \A i \in DOMAIN new : \/ i \in DOMAIN old /\ new[i] = old[i]
                            \/ i = last /\ new[i] = e
  <2>1. \A i \in DOMAIN (p \o Append(q, e)) :
           \/ /\ i \in DOMAIN (p \o q)
              /\ (p \o Append(q, e))[i] = (p \o q)[i]
           \/ /\ i = Len(p) + Len(q) + 1
              /\ (p \o Append(q, e))[i] = e
    BY OneMore
  <2>2. QED
    BY <1>1, <2>1
<1>3. Once(old) /\ Tells(old, settled, captured)
  BY <1>1
<1> HIDE DEF last
<1>4. Tells(new, settled2, captured2)
  BY <1>2, <1>3 DEF Tells
<1>5. \A i \in DOMAIN old :
        (old[i].type = e.type /\ old[i].intent = e.intent) =>
          e.type \notin {"charge.succeeded", "charge.captured"}
  BY <1>3 DEF Tells
<1>6. Once(new)
  BY <1>2, <1>3, <1>5 DEF Once
<1>7. QED
  BY <1>1, <1>4, <1>6

\* Intents in one of these statuses, or about to be.
Reached(s, statuses) == {id \in IntentIds : Reaches(s, id, statuses)}

Telling(s) == Tells(Webhooks(s), Reached(s, Final), Reached(s, {"succeeded"}))

LEMMA ToldParts ==
  ASSUME ControlInv
  PROVE  /\ ToldOK <=> \A s \in Sessions : Telling(s)
         /\ WebhooksSettleOnce <=> \A s \in Sessions : Once(Webhooks(s))
<1>1. WebhooksSettleOnce <=> \A s \in Sessions : Once(Webhooks(s))
  BY DEF WebhooksSettleOnce, Once
<1>2. ToldOK <=> \A s \in Sessions : Telling(s)
  BY WebhooksTyped DEF ToldOK, Telling, Tells, Reached
<1>3. QED
  BY <1>1, <1>2

\* No intent leaves the statuses that its charge events tell of.
ReachesKept ==
  \A s \in Sessions, id \in IntentIds :
    /\ Reaches(s, id, Final) => Reaches(s, id, Final)'
    /\ Reaches(s, id, {"succeeded"}) => Reaches(s, id, {"succeeded"})'

LEMMA ReachedGrows ==
  ASSUME ReachesKept, NEW s \in Sessions
  PROVE  /\ Reached(s, Final) \subseteq Reached(s, Final)'
         /\ Reached(s, {"succeeded"}) \subseteq Reached(s, {"succeeded"})'
BY DEF ReachesKept, Reached

Settling == \A s \in Sessions : Telling(s) /\ Once(Webhooks(s))

LEMMA KeptSettles ==
  ASSUME Settling, ReachesKept, NEW s \in Sessions, Webhooks(s)' = Webhooks(s)
  PROVE  Telling(s)' /\ Once(Webhooks(s))'
<1>1. PICK settled, captured, settled2, captured2 :
        /\ settled = Reached(s, Final) /\ settled2 = Reached(s, Final)'
        /\ captured = Reached(s, {"succeeded"}) /\ captured2 = Reached(s, {"succeeded"})'
        /\ settled \subseteq settled2 /\ captured \subseteq captured2
  BY ReachedGrows
<1>2. PICK log : log = Webhooks(s) /\ log = Webhooks(s)'
  OBVIOUS
<1>3. Once(log) /\ Tells(log, settled, captured)
  BY <1>1, <1>2 DEF Settling, Telling
<1>4. Tells(log, settled2, captured2)
  BY <1>1, <1>3 DEF Tells
<1>5. QED
  BY <1>1, <1>2, <1>3, <1>4 DEF Telling

LEMMA EnqueueSettles ==
  ASSUME ControlInv, Settling, ReachesKept,
         NEW s \in Sessions, NEW event \in Events,
         events' = [events EXCEPT ![s] = Append(@, event)], delivered' = delivered,
         event.type = "charge.succeeded" =>
           event.intent \in Reached(s, Final)' \ Reached(s, Final),
         event.type = "charge.captured" =>
           event.intent \in Reached(s, {"succeeded"})' \ Reached(s, {"succeeded"})
  PROVE  Settling'
<1>1. /\ delivered[s] \in Seq(Events) /\ events[s] \in Seq(Events)
      /\ Webhooks(s) = delivered[s] \o events[s]
      /\ Webhooks(s)' = delivered[s] \o Append(events[s], event)
      /\ \A r \in Sessions \ {s} : Webhooks(r)' = Webhooks(r)
  BY ControlFacts DEF TypeOK, Webhooks
<1>2. PICK settled, captured, settled2, captured2 :
        /\ settled = Reached(s, Final) /\ settled2 = Reached(s, Final)'
        /\ captured = Reached(s, {"succeeded"}) /\ captured2 = Reached(s, {"succeeded"})'
        /\ settled \subseteq settled2 /\ captured \subseteq captured2
  BY ReachedGrows
<1>3. PICK p \in Seq(Events), q \in Seq(Events) : p = delivered[s] /\ q = events[s]
  BY <1>1
<1>4. Once(p \o q) /\ Tells(p \o q, settled, captured)
  BY <1>1, <1>2, <1>3 DEF Settling, Telling
<1>5. Once(p \o Append(q, event)) /\ Tells(p \o Append(q, event), settled2, captured2)
  BY <1>2, <1>4, NewsIsTold
<1>6. Telling(s)' /\ Once(Webhooks(s))'
  BY <1>1, <1>2, <1>3, <1>5 DEF Telling
<1>7. QED
  BY <1>1, <1>6, KeptSettles DEF Settling

-----------------------------------------------------------------------------
(* A handler's steps                                                       *)

\* A store takes no intent out of the statuses its charge events tell of.
LEMMA StoredStays ==
  ASSUME ControlInv, MintedOK, NEW c \in Clients, CopyOK(c), pc[c] = "store",
         NEW statuses \in {Final, {"succeeded"}, {"canceled"}},
         Stored(session(c), target[c]),
         intents[session(c)][target[c]].status \in statuses
  PROVE  pi[c].status \in statuses
<1>1. ServingFacts(c) /\ pc[c] \in Building /\ pc[c] \in Recording
  BY ControlFacts, Serving DEF Building, Recording, Locked
<1>2. rq[c].op # "create"
  BY <1>1 DEF MintedOK, Minting, ServingFacts
<1>3. rq[c].op \in LifecycleOps
  BY <1>1, <1>2 DEF ServingFacts, ControlOK
<1>4. QED
  BY <1>1, <1>3 DEF CopyOK, Stored, Final, LifecycleOps

LEMMA HandleReaches ==
  ASSUME ControlInv, MintedOK, CopiesKept,
         NEW c \in Clients, Handle(c) \/ AcquireLock(c)
  PROVE  ReachesKept
<1>1. TypeOK /\ HandlersOK /\ Effect(c) /\ OthersKeep(c) /\ CopyOK(c) /\ ServingFacts(c)
  BY ControlFacts, HandleEffect, Serving DEF CopiesKept, Effect
<1> SUFFICES ASSUME NEW s \in Sessions, NEW id \in IntentIds,
                    NEW statuses \in {Final, {"succeeded"}},
                    Reaches(s, id, statuses)
             PROVE  Reaches(s, id, statuses)'
  BY DEF ReachesKept
<1>2. ASSUME NEW d \in Clients \ {c},
             pc[d] \in {"intent_event", "store"},
             session(d) = s, target[d] = id, pi[d].status \in statuses
      PROVE  Reaches(s, id, statuses)'
  BY <1>1, <1>2 DEF OthersKeep, Reaches, session
<1>3. CASE StoreIntent(c)
  <2>1. /\ pc[c] = "store" /\ pi[c] \in Intents /\ pi[c] # NoIntent
        /\ intents'[s][id] = IF s = session(c) /\ id = target[c]
                               THEN pi[c] ELSE intents[s][id]
    BY <1>1, <1>3, StoreEffect, DistinguishedValues
       DEF ServingFacts, CopiesOK, Building, Recording, Locked
  <2>2. s = session(c) /\ id = target[c] /\ Stored(s, id)
          /\ intents[s][id].status \in statuses => pi[c].status \in statuses
    BY <1>1, <2>1, StoredStays
  <2>3. CASE Stored(s, id) /\ intents[s][id].status \in statuses
    BY <2>1, <2>2, <2>3 DEF Reaches, Stored
  <2>4. CASE session(c) = s /\ target[c] = id /\ pi[c].status \in statuses
    BY <2>1, <2>4 DEF Reaches
  <2>5. QED
    BY <1>2, <2>3, <2>4 DEF Reaches, Stored
<1>4. CASE intents' = intents /\ ~StoreIntent(c)
  <2>1. CASE Stored(s, id) /\ intents[s][id].status \in statuses
    BY <1>4, <2>1 DEF Reaches, Stored
  <2>2. CASE /\ pc[c] \in {"intent_event", "store"}
             /\ session(c) = s /\ target[c] = id /\ pi[c].status \in statuses
    <3>1. EnqueueIntentEvent(c)
      BY <1>4, <2>2
         DEF Handle, OptIn, FallThrough, GateOpen, RefuseCreate, ListCharges,
             RetrieveCharge, ExpandCharge, Retrieve, AcquireLock,
             LeaveUnsimulated, LoadAndReject, LoadAndApply, EnqueueCreated,
             FindCharge, PutCharge, EnqueueChargeEvent, EnqueueIntentEvent,
             StoreIntent, Expand, Respond
    <3>2. pc'[c] = "store" /\ UNCHANGED <<rq, target, pi>>
      BY <1>1, <3>1 DEF EnqueueIntentEvent, Goto, TypeOK
    <3>3. QED
      BY <2>2, <3>2 DEF Reaches, session
  <2>3. QED
    BY <1>2, <2>1, <2>2 DEF Reaches, Stored
<1>5. QED
  BY <1>1, <1>3, <1>4 DEF Effect

\* The event of a charge is news: nothing said so of the intent before, and
\* from now on its handler is about to store what it says.
LEMMA ChargeEventIsNews ==
  ASSUME ControlInv, LockOK, MintedOK, CopiesKept,
         NEW c \in Clients, EnqueueChargeEvent(c),
         NEW s \in Sessions, s = session(c)
  PROVE  LET type == chargeEventType(pi[c], rq[c].op = "capture") IN
         /\ type = "charge.succeeded" =>
              target[c] \in Reached(s, Final)' \ Reached(s, Final)
         /\ type = "charge.captured" =>
              target[c] \in Reached(s, {"succeeded"})'
                           \ Reached(s, {"succeeded"})
<1> DEFINE type == chargeEventType(pi[c], rq[c].op = "capture")
           stored == intents[session(c)][target[c]]
<1>1. TypeOK /\ ServingFacts(c) /\ CopyOK(c) /\ pc[c] = "charge_event"
  BY ControlFacts, Serving DEF CopiesKept, EnqueueChargeEvent
<1>2. /\ rq[c].op \in {"create", "confirm", "capture"}
      /\ rq[c].op = "capture" => pi[c].status = "succeeded"
      /\ stored # NoIntent /\ rq[c].op = "confirm" => stored.status \notin Final
      /\ stored # NoIntent /\ rq[c].op = "capture" => stored.status # "succeeded"
      /\ rq[c].op = "create" => stored = NoIntent
  BY <1>1 DEF CopyOK, Building, Recording, Locked, MintedOK, Minting, Stored,
     ServingFacts
<1>3. NeedsCharge(pi[c])
  BY <1>1 DEF ServingFacts, CopiesOK
<1>4. /\ type = "charge.succeeded" => pi[c].status \in Final /\ rq[c].op # "capture"
      /\ type = "charge.captured" => pi[c].status = "succeeded" /\ rq[c].op = "capture"
  BY <1>2, <1>3 DEF chargeEventType, NeedsCharge, Final
<1>5. ASSUME NEW statuses, pi[c].status \in statuses
      PROVE  target[c] \in Reached(s, statuses)'
  <2>1. pc'[c] = "intent_event" /\ UNCHANGED <<rq, target, pi>>
    BY <1>1 DEF EnqueueChargeEvent, Goto, TypeOK
  <2>2. target[c] \in IntentIds /\ session(c)' = s
    BY <1>1, <2>1 DEF ServingFacts, session
  <2>3. Reaches(s, target[c], statuses)'
    BY <1>5, <2>1, <2>2 DEF Reaches
  <2>4. QED
    BY <2>1, <2>2, <2>3 DEF Reached
<1>6. ASSUME NEW statuses, stored # NoIntent => stored.status \notin statuses
      PROVE  target[c] \notin Reached(s, statuses)
  <2>1. \A d \in Clients : pc[d] \in {"intent_event", "store"} => target[d] # target[c]
    <3> SUFFICES ASSUME NEW d \in Clients, pc[d] \in {"intent_event", "store"},
                        target[d] = target[c]
                 PROVE  FALSE
      OBVIOUS
    <3>1. d = c
      BY <1>1, OneWriter DEF Building, Recording, Locked
    <3>2. QED
      BY <1>1, <3>1
  <2>2. QED
    BY <1>6, <2>1 DEF Reached, Reaches
<1>7. type = "charge.succeeded" => (stored # NoIntent => stored.status \notin Final)
  BY <1>2, <1>4
<1>8. type = "charge.captured" => (stored # NoIntent => stored.status \notin {"succeeded"})
  BY <1>2, <1>4
<1> HIDE DEF type, stored
<1>9. type = "charge.succeeded" =>
        target[c] \in Reached(s, Final)' \ Reached(s, Final)
  BY <1>4, <1>5, <1>6, <1>7
<1>10. type = "charge.captured" =>
        target[c] \in Reached(s, {"succeeded"})' \ Reached(s, {"succeeded"})
  BY <1>4, <1>5, <1>6, <1>8
<1>11. QED
  BY <1>9, <1>10 DEF type

ChargeEvents == {"charge.succeeded", "charge.captured"}

LEMMA HandleSettles ==
  ASSUME ControlInv, LockOK, MintedOK, CopiesKept, Settling,
         NEW c \in Clients, Handle(c) \/ AcquireLock(c), delivered' = delivered
  PROVE  Settling'
<1>1. /\ TypeOK /\ HandlersOK /\ pc[c] # "idle" /\ ServingFacts(c) /\ Writes(c)
      /\ session(c) \in Sessions /\ target[c] \in IntentIds
  BY ControlFacts, HandleEffect, Serving, HandleWrites DEF Effect, ServingFacts
<1>2. ReachesKept
  BY HandleReaches
<1>3. CASE EnqueueCreated(c)
  <2> DEFINE event == IntentEvent(c, "payment_intent.created")
  <2>1. pi[c] \in Intents
    BY <1>1, <1>3 DEF EnqueueCreated, ServingFacts, CopiesOK, Building
  <2>2. event \in Events /\ event.type \notin ChargeEvents
    BY <1>1, <2>1 DEF IntentEvent, Events, EventTypes, ChargeEvents
  <2>3. events' = [events EXCEPT ![session(c)] = Append(@, event)]
    BY <1>3 DEF EnqueueCreated, Enqueue
  <2> HIDE DEF event
  <2>4. QED
    BY <1>1, <1>2, <2>2, <2>3, EnqueueSettles DEF ChargeEvents
<1>4. CASE EnqueueIntentEvent(c)
  <2> DEFINE event == IntentEvent(c, intentEventType(pi[c]))
  <2>1. pi[c] \in Intents /\ intentEventType(pi[c]) \in EventTypes
    BY <1>1, <1>4 DEF EnqueueIntentEvent, ServingFacts, CopiesOK, Building,
       Recording, Locked
  <2>2. intentEventType(pi[c]) \notin ChargeEvents
    BY <2>1, EventTypesAssumption DEF intentEventType, ChargeEvents
  <2>3. event \in Events /\ event.type \notin ChargeEvents
    BY <1>1, <2>1, <2>2 DEF IntentEvent, Events
  <2>4. events' = [events EXCEPT ![session(c)] = Append(@, event)]
    BY <1>4 DEF EnqueueIntentEvent, Enqueue
  <2> HIDE DEF event
  <2>5. QED
    BY <1>1, <1>2, <2>3, <2>4, EnqueueSettles DEF ChargeEvents
<1>5. CASE EnqueueChargeEvent(c)
  <2> DEFINE type  == chargeEventType(pi[c], rq[c].op = "capture")
             event == [type |-> type, intent |-> target[c],
                       charge |-> pi[c].latest_charge, object |-> ch[c]]
  <2> PICK s \in Sessions : s = session(c)
    BY <1>1
  <2>1. /\ pi[c] \in Intents /\ ch[c] \in Charges
        /\ pi[c].latest_charge \in ChargeIds
    BY <1>1, <1>5 DEF EnqueueChargeEvent, ServingFacts, CopiesOK, Building,
       Recording, Locked
  <2>2. event \in Events /\ event.type = type /\ event.intent = target[c]
    BY <1>1, <2>1, EventTypesTyped DEF Events
  <2>3. events' = [events EXCEPT ![s] = Append(@, event)]
    BY <1>5 DEF EnqueueChargeEvent, Enqueue
  <2>4. /\ type = "charge.succeeded" =>
             target[c] \in Reached(s, Final)' \ Reached(s, Final)
        /\ type = "charge.captured" =>
             target[c] \in Reached(s, {"succeeded"})'
                          \ Reached(s, {"succeeded"})
    BY <1>5, ChargeEventIsNews
  <2>5. /\ event.type = "charge.succeeded" =>
             event.intent \in Reached(s, Final)' \ Reached(s, Final)
        /\ event.type = "charge.captured" =>
             event.intent \in Reached(s, {"succeeded"})'
                             \ Reached(s, {"succeeded"})
    BY <2>2, <2>4
  <2> HIDE DEF event, type
  <2>6. QED
    BY <1>1, <1>2, <2>2, <2>3, <2>5, EnqueueSettles
<1>6. CASE events' = events
  BY <1>2, <1>6, KeptSettles DEF Settling, Webhooks
<1>7. QED
  <2>1. CASE pc[c] \in {"created_event", "charge_event", "intent_event"}
    BY <1>3, <1>4, <1>5, <2>1
       DEF Handle, OptIn, FallThrough, GateOpen, RefuseCreate, ListCharges,
           RetrieveCharge, ExpandCharge, Retrieve, AcquireLock, LeaveUnsimulated,
           LoadAndReject, LoadAndApply, EnqueueCreated, FindCharge, PutCharge,
           EnqueueChargeEvent, EnqueueIntentEvent, StoreIntent, Expand, Respond
  <2>2. QED
    BY <1>1, <1>6, <2>1 DEF Writes

\* The parts of SettleInv.
SettleParts == LockOK /\ MintedOK /\ CopiesKept /\ EmitsOK /\ Settling

LEMMA SettleSplit == ControlInv => (SettleInv <=> SettleParts)
BY ToldParts DEF SettleInv, SettleParts, CopiesKept, Settling

LEMMA ServerSettles ==
  ASSUME ControlInv, SettleParts, ~EarlyIds, NEW c \in Clients, Served(c)
  PROVE  SettleParts'
<1>1. /\ TypeOK /\ HandlersOK /\ LockOK /\ MintedOK /\ CopiesKept /\ Settling
      /\ delivered' = delivered /\ EmitsOK'
  BY ControlFacts DEF SettleParts, Served, EmitsOK
<1>2. CASE Handle(c) \/ AcquireLock(c)
  <2>1. LockOK'
    BY <1>1, <1>2, LockStep DEF Next
  <2>2. MintedOK' /\ CopiesKept' /\ Settling'
    BY <1>1, <1>2, HandleMinted, HandleCopies, HandleSettles
  <2>3. QED
    BY <1>1, <2>1, <2>2 DEF SettleParts
<1>3. CASE Arrival(c)
  <2>1. /\ OthersKeep(c)
        /\ pc[c] = "idle" /\ pc'[c] \in {"opt_in", "gate"}
        /\ UNCHANGED <<enabled, intents, charges, events, lock>>
        /\ \A d \in Clients \ {c} : Minting(d) => target'[c] # target[d]
        /\ rq'[c].op = "create" =>
             /\ \A d \in Clients \ {c} : pc[d] # "idle" => target[d] # target'[c]
             /\ \A s \in Sessions : ~Stored(s, target'[c])
    BY <1>1, <1>3, ArrivalPrivate
  <2>2. \A d \in Clients \ {c} :
          /\ pc'[d] = pc[d] /\ rq'[d] = rq[d] /\ target'[d] = target[d]
          /\ pi'[d] = pi[d] /\ reply'[d] = reply[d]
    BY <2>1 DEF OthersKeep
  <2>3. LockOK'
    <3>1. ~Holds(c) /\ ~Holds(c)'
      BY <2>1 DEF Holds, Locked
    <3>2. QED
      BY <1>1, <2>1, <2>2, <3>1 DEF LockOK, Holds
  <2>4. MintedOK'
    <3> SUFFICES ASSUME NEW e \in Clients, Minting(e)'
                 PROVE  /\ \A d \in Clients : d # e /\ pc'[d] # "idle" =>
                             target'[d] # target'[e]
                        /\ \A s \in Sessions : ~Stored(s, target[e])'
      BY DEF MintedOK
    <3>1. CASE e = c
      BY <2>1, <2>2, <3>1 DEF Minting, Stored
    <3>2. CASE e # c
      <4>1. Minting(e) /\ target'[e] = target[e] /\ target'[c] # target[e]
        BY <2>1, <2>2, <3>2 DEF Minting
      <4>2. QED
        BY <1>1, <2>1, <2>2, <3>2, <4>1 DEF MintedOK, Stored
    <3>3. QED
      BY <3>1, <3>2
  <2>5. CopiesKept'
    <3>1. CopyOK(c)'
      BY <2>1 DEF CopyOK, Building, Recording, Locked
    <3>2. \A d \in Clients \ {c} : CopyOK(d)'
      BY <1>1, <2>1, <2>2 DEF CopiesKept, CopyOK, session
    <3>3. QED
      BY <3>1, <3>2 DEF CopiesKept
  <2>6. ReachesKept
    BY <2>1, <2>2 DEF ReachesKept, Reaches, session
  <2>7. Settling'
    BY <1>1, <2>1, <2>6, KeptSettles DEF Settling, Webhooks
  <2>8. QED
    BY <1>1, <2>3, <2>4, <2>5, <2>7 DEF SettleParts
<1>4. QED
  BY <1>2, <1>3 DEF Served, Arrival

-----------------------------------------------------------------------------
(* Control requests                                                        *)

\* What a test may do for every intent to be charged and captured once: it
\* rewinds no intent by a seed, it enqueues no charge event by hand, and no
\* client acts on an id before the create that mints it stores the intent.
NothingRewound ==
  /\ Seeds = {}
  /\ EmitTypes \cap ChargeEvents = {}
  /\ ~EarlyIds

\* A control request touches no handler: the lock and the private ids stay,
\* and a copy stays good when intents are removed.
LEMMA ControlKeeps ==
  ASSUME ControlInv, SettleParts, UNCHANGED handlers,
         \A s \in Sessions, id \in IntentIds :
           intents'[s][id] \in {intents[s][id], NoIntent}
  PROVE  LockOK' /\ MintedOK' /\ CopiesKept'
<1>1. /\ LockOK /\ MintedOK /\ CopiesKept
      /\ UNCHANGED <<lock, issued, pc, rq, serial, target, pi, ch, reply>>
  BY DEF SettleParts, handlers
<1>2. LockOK'
  BY <1>1 DEF LockOK, Holds
<1>3. MintedOK'
  <2> SUFFICES ASSUME NEW e \in Clients, Minting(e)'
               PROVE  /\ \A d \in Clients : d # e /\ pc'[d] # "idle" =>
                           target'[d] # target'[e]
                      /\ \A s \in Sessions : ~Stored(s, target[e])'
    BY DEF MintedOK
  <2>1. Minting(e) /\ target[e] \in IntentIds
    BY <1>1, ControlFacts, Serving DEF Minting, ServingFacts, Building, Recording, Locked
  <2>2. QED
    BY <1>1, <2>1 DEF MintedOK, Stored
<1>4. ASSUME NEW c \in Clients PROVE CopyOK(c)'
  <2>1. SUFFICES ASSUME pc[c] \in Building PROVE CopyOK(c)'
    BY <1>1 DEF CopyOK
  <2>2. session(c) \in Sessions /\ target[c] \in IntentIds
    BY <2>1, ControlFacts, Serving DEF ServingFacts, Building, Recording, Locked
  <2>3. intents'[session(c)][target[c]] \in {intents[session(c)][target[c]], NoIntent}
    BY <2>2
  <2>4. CopyOK(c)
    BY <1>1 DEF CopiesKept
  <2>5. QED
    BY <1>1, <2>3, <2>4 DEF CopyOK, session
<1>5. QED
  BY <1>2, <1>3, <1>4 DEF CopiesKept

LEMMA ControlReaches ==
  ASSUME UNCHANGED handlers, UNCHANGED intents
  PROVE  ReachesKept
BY DEF handlers, ReachesKept, Reaches, session

LEMMA ResetSettles ==
  ASSUME ControlInv, SettleParts, NEW s \in Sessions, Reset(s)
  PROVE  SettleParts'
<1>1. /\ ControlTypeOK /\ TypeOK /\ Settling /\ EmitsOK
      /\ UNCHANGED <<handlers, tpc, tarticle>>
  BY ControlParts DEF ControlTypeOK, SettleParts, Reset
<1>2. LockOK' /\ MintedOK' /\ CopiesKept'
  <2>1. \A r \in Sessions, id \in IntentIds :
          intents'[r][id] \in {intents[r][id], NoIntent}
    BY <1>1 DEF Reset, TypeOK
  <2>2. QED
    BY <1>1, <2>1, ControlKeeps
<1>3. Telling(s)' /\ Once(Webhooks(s))'
  <2>1. Webhooks(s)' = <<>>
    BY <1>1 DEF Reset, TypeOK, ControlTypeOK, Webhooks
  <2>2. QED
    BY <2>1 DEF Telling, Tells, Once
<1>4. ASSUME NEW r \in Sessions, r # s PROVE Telling(r)' /\ Once(Webhooks(r))'
  <2>1. /\ Webhooks(r)' = Webhooks(r) /\ intents'[r] = intents[r]
        /\ UNCHANGED <<pc, rq, target, pi>>
    BY <1>1, <1>4 DEF Reset, TypeOK, ControlTypeOK, Webhooks, handlers
  <2>2. \A statuses : Reached(r, statuses)' = Reached(r, statuses)
    BY <2>1 DEF Reached, Reaches, session
  <2>3. Telling(r) /\ Once(Webhooks(r))
    BY <1>1 DEF Settling
  <2>4. QED
    BY <2>1, <2>2, <2>3 DEF Telling
<1>5. QED
  BY <1>1, <1>2, <1>3, <1>4 DEF SettleParts, Settling, EmitsOK

\* A drain hands the queue over: the webhooks are the same.
LEMMA DrainKeeps ==
  ASSUME ControlInv, NEW s \in Sessions, DrainEvents(s), NEW r \in Sessions
  PROVE  Webhooks(r)' = Webhooks(r)
<1>1. ControlTypeOK /\ TypeOK
  BY ControlParts DEF ControlTypeOK
<1>2. delivered[r] \in Seq(Events) /\ events[r] \in Seq(Events)
  BY <1>1 DEF TypeOK, ControlTypeOK
<1>3. CASE r = s
  <2>1. Webhooks(r)' = (delivered[r] \o events[r]) \o <<>>
    BY <1>1, <1>3 DEF DrainEvents, TypeOK, ControlTypeOK, Webhooks
  <2>2. delivered[r] \o events[r] \in Seq(Events)
    BY <1>2
  <2>3. QED
    BY <2>1, <2>2 DEF Webhooks
<1>4. CASE r # s
  BY <1>1, <1>4 DEF DrainEvents, TypeOK, ControlTypeOK, Webhooks
<1>5. QED
  BY <1>3, <1>4

LEMMA DrainSettles ==
  ASSUME ControlInv, SettleParts, NEW s \in Sessions, DrainEvents(s)
  PROVE  SettleParts'
<1>1. /\ ControlTypeOK /\ TypeOK /\ Settling /\ EmitsOK
      /\ UNCHANGED <<handlers, intents, tpc, tarticle>>
  BY ControlParts DEF ControlTypeOK, SettleParts, DrainEvents
<1>2. LockOK' /\ MintedOK' /\ CopiesKept'
  BY <1>1, ControlKeeps
<1>3. \A r \in Sessions : Webhooks(r)' = Webhooks(r)
  BY DrainKeeps
<1>4. Settling'
  BY <1>1, <1>3, ControlReaches, KeptSettles DEF Settling
<1>5. QED
  BY <1>1, <1>2, <1>4 DEF SettleParts, EmitsOK

LEMMA EmitReadSettles ==
  ASSUME NothingRewound, ControlInv, SettleParts, NEW t \in Testers,
         NEW s \in Sessions, NEW id \in IntentIds, EmitRead(t, s, id)
  PROVE  SettleParts'
<1>1. /\ ControlTypeOK /\ TypeOK /\ Settling /\ EmitsOK
      /\ UNCHANGED <<handlers, intents, events, delivered>>
  BY ControlParts DEF ControlTypeOK, SettleParts, EmitRead, vars, handlers
<1>2. LockOK' /\ MintedOK' /\ CopiesKept'
  BY <1>1, ControlKeeps
<1>3. Settling'
  BY <1>1, ControlReaches, KeptSettles DEF Settling, Webhooks
<1>4. EmitsOK'
  <2>1. PICK type \in EmitTypes
                      \cup {eventTypeForPaymentIntentStatus(intents[s][id].status)} :
          tarticle' = [tarticle EXCEPT ![t] =
            [session |-> s,
             event |-> [type |-> type, intent |-> id, charge |-> Null,
                        object |-> intents[s][id]]]]
    BY DEF EmitRead
  <2>2. type \notin ChargeEvents
    BY DEF NothingRewound, eventTypeForPaymentIntentStatus, ChargeEvents
  <2>3. tarticle'[t].event.type = type
    BY <1>1, <2>1 DEF ControlTypeOK
  <2>4. \A u \in Testers \ {t} : tarticle'[u] = tarticle[u] /\ tpc'[u] = tpc[u]
    BY <1>1, <2>1 DEF EmitRead, ControlTypeOK
  <2>5. QED
    BY <1>1, <2>2, <2>3, <2>4 DEF EmitsOK, ChargeEvents
<1>5. QED
  BY <1>2, <1>3, <1>4 DEF SettleParts

LEMMA EmitEnqueueSettles ==
  ASSUME ControlInv, SettleParts, NEW t \in Testers, EmitEnqueue(t)
  PROVE  SettleParts'
<1>1. /\ ControlTypeOK /\ TypeOK /\ Settling /\ EmitsOK
      /\ UNCHANGED <<handlers, intents, delivered>>
  BY ControlParts DEF ControlTypeOK, SettleParts, EmitEnqueue
<1>2. LockOK' /\ MintedOK' /\ CopiesKept'
  BY <1>1, ControlKeeps
<1>3. /\ tarticle[t].session \in Sessions /\ tarticle[t].event \in Events
      /\ tarticle[t].event.type \notin ChargeEvents
  BY <1>1, ControlFacts DEF EmitEnqueue, EmitsOK, ChargeEvents
<1>4. Settling'
  BY <1>1, <1>3, ControlReaches, EnqueueSettles DEF EmitEnqueue, Enqueue, ChargeEvents
<1>5. EmitsOK'
  BY <1>1 DEF EmitEnqueue, EmitsOK, ControlTypeOK
<1>6. QED
  BY <1>2, <1>4, <1>5 DEF SettleParts

\* An opt-in of a test, by config or at the end of a seed.
LEMMA EnableSettles ==
  ASSUME ControlInv, SettleParts,
         UNCHANGED <<handlers, intents, events, delivered>>,
         \A t \in Testers : tpc'[t] = "enqueue" =>
           tpc[t] = "enqueue" /\ tarticle'[t] = tarticle[t]
  PROVE  SettleParts'
<1>1. Settling /\ EmitsOK /\ LockOK' /\ MintedOK' /\ CopiesKept'
  BY ControlKeeps DEF SettleParts
<1>2. Settling'
  BY <1>1, ControlReaches, KeptSettles DEF Settling, Webhooks
<1>3. EmitsOK'
  BY <1>1 DEF EmitsOK
<1>4. QED
  BY <1>1, <1>2, <1>3 DEF SettleParts

-----------------------------------------------------------------------------
(* How an intent has ended                                                 *)

Ends == {"succeeded", "canceled"}

\* The parts of EndsShownOK, for one session.
WebhooksShow(s) == \A i \in DOMAIN Webhooks(s) : ShowsTrueEnd(s, Webhooks(s)[i])
EmitsShow(s) ==
  \A t \in Testers : tpc[t] = "enqueue" /\ tarticle[t].session = s =>
    ShowsTrueEnd(s, tarticle[t].event)
ShowTrueEnds(s) == quiet[s] => WebhooksShow(s) /\ EmitsShow(s)

LEMMA EndingSplit == EndsShownOK <=> \A s \in Sessions : ShowTrueEnds(s)
BY DEF EndsShownOK, ShowTrueEnds, WebhooksShow, EmitsShow

\* No intent of s that has ended in one way is to end in another.
EndsKept(s) ==
  \A id \in IntentIds, status \in Ends :
    EndsAs(s, id, status) => EndsAs(s, id, status)'

\* An intent ends in one way.
LEMMA OneEnd ==
  ASSUME ControlInv, LockOK, MintedOK, CopiesKept,
         NEW s \in Sessions, NEW id \in IntentIds,
         NEW one \in Ends, EndsAs(s, id, one),
         NEW other \in Ends, EndsAs(s, id, other)
  PROVE  one = other
<1> DEFINE About(d) == pc[d] \in Building /\ session(d) = s /\ target[d] = id
<1>1. ASSUME NEW d \in Clients, About(d), intents[s][id] # NoIntent,
             intents[s][id].status \in Ends
      PROVE  pi[d].status = intents[s][id].status
  <2>1. ServingFacts(d) /\ CopyOK(d) /\ pc[d] \in Building
    BY <1>1, ControlFacts, Serving DEF CopiesKept, Building, Recording, Locked
  <2>2. rq[d].op # "create"
    BY <1>1, <2>1 DEF MintedOK, Minting, Stored
  <2>3. rq[d].op \in LifecycleOps
    BY <2>1, <2>2 DEF ServingFacts, ControlOK, Building, Recording, Locked
  <2>4. QED
    BY <1>1, <2>1, <2>3 DEF CopyOK, LifecycleOps, Ends, Final
<1>2. ASSUME NEW d \in Clients, About(d), NEW e \in Clients, About(e)
      PROVE  d = e
  BY <1>2, OneWriter
<1> HIDE DEF About
<1>3. \A status \in Ends : EndsAs(s, id, status) =>
        \/ intents[s][id] # NoIntent /\ intents[s][id].status = status
        \/ \E d \in Clients : About(d) /\ pi[d].status = status
  BY DEF EndsAs, About
<1>4. QED
  BY <1>1, <1>2, <1>3

\* A handler on its way to the store goes on with the same status.
LEMMA BuildingGoesOn ==
  ASSUME ControlInv, NEW c \in Clients, Handle(c), pc[c] \in Building,
         ~StoreIntent(c)
  PROVE  /\ pc'[c] \in Building /\ pi'[c].status = pi[c].status
         /\ UNCHANGED <<rq, target, intents>>
<1>1. TypeOK /\ ServingFacts(c)
  BY ControlFacts, Serving DEF Building, Recording, Locked
<1>2. \/ EnqueueCreated(c) \/ FindCharge(c) \/ PutCharge(c)
      \/ EnqueueChargeEvent(c) \/ EnqueueIntentEvent(c)
  BY DEF Building, Recording, Locked, Handle, OptIn, FallThrough, GateOpen,
     RefuseCreate, ListCharges, RetrieveCharge, ExpandCharge, Retrieve,
     LeaveUnsimulated, LoadAndReject, LoadAndApply, Expand, Respond
<1>3. CASE PutCharge(c)
  <2>1. pi[c] \in Intents
    BY <1>1, <1>3 DEF PutCharge, ServingFacts, CopiesOK, Building, Recording, Locked
  <2>2. PICK k : pi'[c] = [pi[c] EXCEPT !.latest_charge = k]
    BY <1>1, <1>3 DEF PutCharge, TypeOK
  <2>3. pi'[c].status = pi[c].status
    BY <2>1, <2>2 DEF Intents
  <2>4. pc'[c] \in Building /\ UNCHANGED <<rq, target, intents>>
    BY <1>1, <1>3 DEF PutCharge, Goto, TypeOK, Building, Recording, Locked
  <2>5. QED
    BY <2>3, <2>4
<1>4. CASE EnqueueCreated(c)
  BY <1>1, <1>4 DEF EnqueueCreated, Goto, TypeOK, RecordFrom, Building, Recording,
     Locked
<1>5. CASE FindCharge(c) \/ EnqueueChargeEvent(c) \/ EnqueueIntentEvent(c)
  BY <1>1, <1>5 DEF FindCharge, EnqueueChargeEvent, EnqueueIntentEvent, Goto,
     store, TypeOK, Building, Recording, Locked
<1>6. QED
  BY <1>2, <1>3, <1>4, <1>5

LEMMA HandleEnds ==
  ASSUME ControlInv, MintedOK, CopiesKept,
         NEW c \in Clients, Handle(c) \/ AcquireLock(c), NEW s \in Sessions
  PROVE  EndsKept(s)
<1>1. TypeOK /\ HandlersOK /\ Effect(c) /\ OthersKeep(c) /\ CopyOK(c) /\ ServingFacts(c)
  BY ControlFacts, HandleEffect, Serving DEF CopiesKept, Effect
<1> SUFFICES ASSUME NEW id \in IntentIds, NEW status \in Ends,
                    EndsAs(s, id, status)
             PROVE  EndsAs(s, id, status)'
  BY DEF EndsKept
<1>2. ASSUME NEW d \in Clients \ {c}, pc[d] \in Building,
             session(d) = s, target[d] = id, pi[d].status = status
      PROVE  EndsAs(s, id, status)'
  BY <1>1, <1>2 DEF OthersKeep, EndsAs, session
<1>3. CASE StoreIntent(c)
  <2>1. /\ pc[c] = "store" /\ pi[c] \in Intents /\ pi[c] # NoIntent
        /\ intents'[s][id] = IF s = session(c) /\ id = target[c]
                               THEN pi[c] ELSE intents[s][id]
    BY <1>1, <1>3, StoreEffect, DistinguishedValues
       DEF ServingFacts, CopiesOK, Building, Recording, Locked
  <2>2. s = session(c) /\ id = target[c] /\ Stored(s, id)
          /\ intents[s][id].status = status => pi[c].status = status
    <3>1. {status} \in {{"succeeded"}, {"canceled"}}
      BY DEF Ends
    <3>2. QED
      BY <1>1, <2>1, <3>1, StoredStays
  <2>3. CASE Stored(s, id) /\ intents[s][id].status = status
    BY <2>1, <2>2, <2>3 DEF EndsAs, Stored
  <2>4. CASE session(c) = s /\ target[c] = id /\ pi[c].status = status
    BY <2>1, <2>4 DEF EndsAs
  <2>5. QED
    BY <1>2, <2>3, <2>4 DEF EndsAs, Stored
<1>4. CASE intents' = intents /\ ~StoreIntent(c)
  <2>1. CASE Stored(s, id) /\ intents[s][id].status = status
    BY <1>4, <2>1 DEF EndsAs, Stored
  <2>2. CASE /\ pc[c] \in Building
             /\ session(c) = s /\ target[c] = id /\ pi[c].status = status
    <3>1. Handle(c)
      BY <2>2 DEF AcquireLock, Building, Recording, Locked
    <3>2. /\ pc'[c] \in Building /\ pi'[c].status = status
          /\ UNCHANGED <<rq, target>>
      BY <1>4, <2>2, <3>1, BuildingGoesOn
    <3>3. QED
      BY <2>2, <3>2 DEF EndsAs, session
  <2>3. QED
    BY <1>2, <2>1, <2>2 DEF EndsAs, Stored
<1>5. QED
  BY <1>1, <1>3, <1>4 DEF Effect

LEMMA ShownStays ==
  ASSUME NEW s \in Sessions, EndsKept(s), NEW e \in Events, ShowsTrueEnd(s, e)
  PROVE  ShowsTrueEnd(s, e)'
<1>1. e.intent \in IntentIds
  BY DEF Events
<1>2. QED
  BY <1>1 DEF ShowsTrueEnd, EndsKept, Ends

\* The webhooks and the emits of s go on to show the truth.
LEMMA ShownKept ==
  ASSUME ControlInv, NEW s \in Sessions, EndsKept(s), ShowTrueEnds(s),
         quiet'[s] => quiet[s]
  PROVE  /\ quiet'[s] /\ Webhooks(s)' = Webhooks(s) => WebhooksShow(s)'
         /\ quiet'[s] /\ (\A t \in Testers : tpc'[t] = "enqueue" =>
                            tpc[t] = "enqueue" /\ tarticle'[t] = tarticle[t])
              => EmitsShow(s)'
<1>1. ASSUME quiet'[s], Webhooks(s)' = Webhooks(s)
      PROVE  WebhooksShow(s)'
  <2>1. SUFFICES ASSUME NEW i \in DOMAIN Webhooks(s)
                 PROVE  ShowsTrueEnd(s, Webhooks(s)[i])'
    BY <1>1 DEF WebhooksShow
  <2>2. PICK e \in Events : e = Webhooks(s)[i]
    BY WebhooksTyped
  <2>3. ShowsTrueEnd(s, e)
    BY <1>1, <2>2 DEF ShowTrueEnds, WebhooksShow
  <2>4. ShowsTrueEnd(s, e)' /\ Webhooks(s)'[i] = e
    BY <1>1, <2>2, <2>3, ShownStays
  <2>5. QED
    BY <2>4 DEF ShowsTrueEnd, EndsAs
<1>2. ASSUME quiet'[s], \A t \in Testers : tpc'[t] = "enqueue" =>
                          tpc[t] = "enqueue" /\ tarticle'[t] = tarticle[t]
      PROVE  EmitsShow(s)'
  <2>1. SUFFICES ASSUME NEW t \in Testers, tpc'[t] = "enqueue",
                        tarticle'[t].session = s
                 PROVE  ShowsTrueEnd(s, tarticle[t].event)'
    BY DEF EmitsShow
  <2>2. tpc[t] = "enqueue" /\ tarticle'[t] = tarticle[t]
    BY <1>2, <2>1
  <2>3. PICK e \in Events : e = tarticle[t].event
    BY <2>2, ControlFacts
  <2>4. ShowsTrueEnd(s, e)
    BY <1>2, <2>1, <2>2, <2>3 DEF ShowTrueEnds, EmitsShow
  <2>5. ShowsTrueEnd(s, e)' /\ tarticle'[t].event = e
    BY <2>2, <2>3, <2>4, ShownStays
  <2>6. QED
    BY <2>5 DEF ShowsTrueEnd, EndsAs
<1>3. QED
  BY <1>1, <1>2

\* One more event that shows the truth.
LEMMA EnqueueShows ==
  ASSUME ControlInv, NEW s \in Sessions, EndsKept(s), WebhooksShow(s),
         NEW event \in Events, ShowsTrueEnd(s, event)',
         events'[s] = Append(events[s], event), delivered' = delivered
  PROVE  WebhooksShow(s)'
<1>1. delivered[s] \in Seq(Events) /\ events[s] \in Seq(Events)
  BY ControlFacts DEF TypeOK
<1>2. PICK p \in Seq(Events), q \in Seq(Events) : p = delivered[s] /\ q = events[s]
  BY <1>1
<1>3. Webhooks(s) = p \o q /\ Webhooks(s)' = p \o Append(q, event)
  BY <1>2 DEF Webhooks
<1>4. SUFFICES ASSUME NEW i \in DOMAIN Webhooks(s)'
               PROVE  ShowsTrueEnd(s, Webhooks(s)[i])'
  BY DEF WebhooksShow
<1>5. PICK old, new : old = Webhooks(s) /\ new = Webhooks(s)'
  OBVIOUS
<1>6. \/ i \in DOMAIN old /\ new[i] = old[i]
      \/ new[i] = event
  <2>1. \A k \in DOMAIN (p \o Append(q, event)) :
          \/ k \in DOMAIN (p \o q) /\ (p \o Append(q, event))[k] = (p \o q)[k]
          \/ k = Len(p) + Len(q) + 1 /\ (p \o Append(q, event))[k] = event
    BY OneMore
  <2>2. QED
    BY <1>3, <1>4, <1>5, <2>1
<1>7. \A k \in DOMAIN old : old[k] \in Events /\ ShowsTrueEnd(s, old[k])
  BY <1>5, WebhooksTyped DEF WebhooksShow
<1>8. PICK e \in Events : e = new[i] /\ ShowsTrueEnd(s, e)'
  <2>1. CASE i \in DOMAIN old /\ new[i] = old[i]
    <3>1. PICK e \in Events : e = old[i] /\ ShowsTrueEnd(s, e)
      BY <1>7, <2>1
    <3>2. ShowsTrueEnd(s, e)'
      BY <3>1, ShownStays
    <3>3. QED
      BY <2>1, <3>1, <3>2
  <2>2. QED
    BY <1>6, <2>1
<1>9. Webhooks(s)'[i] = e
  BY <1>5, <1>8
<1>10. QED
  BY <1>8, <1>9 DEF ShowsTrueEnd, EndsAs

\* The intent's events of a handler show what it is about to store.
LEMMA HandleShows ==
  ASSUME ControlInv, MintedOK, CopiesKept,
         NEW c \in Clients, Handle(c) \/ AcquireLock(c),
         UNCHANGED <<tpc, tarticle, delivered, quiet>>,
         NEW s \in Sessions, ShowTrueEnds(s)
  PROVE  ShowTrueEnds(s)'
<1>1. /\ TypeOK /\ HandlersOK /\ pc[c] # "idle" /\ ServingFacts(c) /\ Writes(c)
      /\ session(c) \in Sessions /\ target[c] \in IntentIds
  BY ControlFacts, HandleEffect, Serving, HandleWrites DEF Effect, ServingFacts
<1>2. EndsKept(s)
  BY HandleEnds
<1>3. SUFFICES ASSUME quiet'[s]
               PROVE  WebhooksShow(s)'
  BY <1>2, ShownKept DEF ShowTrueEnds
<1>4. quiet[s] /\ WebhooksShow(s)
  BY <1>3 DEF ShowTrueEnds
<1>5. ASSUME NEW e \in Events, s = session(c), pc[c] \in Building, ~StoreIntent(c),
             e.charge # Null \/ (e.intent = target[c] /\ e.object = pi[c])
      PROVE  ShowsTrueEnd(s, e)'
  <2>1. Handle(c)
    BY <1>5 DEF AcquireLock, Building, Recording, Locked
  <2>2. /\ pc'[c] \in Building /\ pi'[c].status = pi[c].status
        /\ UNCHANGED <<rq, target>>
    BY <1>5, <2>1, BuildingGoesOn
  <2>3. QED
    BY <1>5, <2>2 DEF ShowsTrueEnd, EndsAs, session
<1>6. CASE EnqueueCreated(c) /\ s = session(c)
  <2> DEFINE event == IntentEvent(c, "payment_intent.created")
  <2>1. pi[c] \in Intents /\ pc[c] \in Building /\ ~StoreIntent(c)
    BY <1>1, <1>6 DEF EnqueueCreated, StoreIntent, ServingFacts, CopiesOK, Building
  <2>2. /\ event \in Events /\ event.intent = target[c] /\ event.object = pi[c]
        /\ events'[s] = Append(events[s], event)
    BY <1>1, <1>6, <2>1 DEF IntentEvent, Events, EventTypes, EnqueueCreated, Enqueue,
       TypeOK
  <2> HIDE DEF event
  <2>3. PICK e \in Events : e = event
    BY <2>2
  <2>4. ShowsTrueEnd(s, e)'
    BY <1>5, <1>6, <2>1, <2>2, <2>3
  <2>5. QED
    BY <1>2, <1>4, <2>2, <2>3, <2>4, EnqueueShows
<1>7. CASE EnqueueIntentEvent(c) /\ s = session(c)
  <2> DEFINE event == IntentEvent(c, intentEventType(pi[c]))
  <2>1. /\ pi[c] \in Intents /\ intentEventType(pi[c]) \in EventTypes
        /\ pc[c] \in Building /\ ~StoreIntent(c)
    BY <1>1, <1>7 DEF EnqueueIntentEvent, StoreIntent, ServingFacts, CopiesOK,
       Building, Recording, Locked
  <2>2. /\ event \in Events /\ event.intent = target[c] /\ event.object = pi[c]
        /\ events'[s] = Append(events[s], event)
    BY <1>1, <1>7, <2>1 DEF IntentEvent, Events, EnqueueIntentEvent, Enqueue, TypeOK
  <2> HIDE DEF event
  <2>3. PICK e \in Events : e = event
    BY <2>2
  <2>4. ShowsTrueEnd(s, e)'
    BY <1>5, <1>7, <2>1, <2>2, <2>3
  <2>5. QED
    BY <1>2, <1>4, <2>2, <2>3, <2>4, EnqueueShows
<1>8. CASE EnqueueChargeEvent(c) /\ s = session(c)
  <2> DEFINE type  == chargeEventType(pi[c], rq[c].op = "capture")
             event == [type |-> type, intent |-> target[c],
                       charge |-> pi[c].latest_charge, object |-> ch[c]]
  <2>1. /\ pi[c] \in Intents /\ ch[c] \in Charges
        /\ pi[c].latest_charge \in ChargeIds
        /\ pc[c] \in Building /\ ~StoreIntent(c)
    BY <1>1, <1>8 DEF EnqueueChargeEvent, StoreIntent, ServingFacts, CopiesOK,
       Building, Recording, Locked
  <2>2. event \in Events /\ event.charge = pi[c].latest_charge
    BY <1>1, <2>1, EventTypesTyped DEF Events
  <2>3. events'[s] = Append(events[s], event)
    BY <1>1, <1>8 DEF EnqueueChargeEvent, Enqueue, TypeOK
  <2> HIDE DEF event, type
  <2>4. PICK e \in Events : e = event /\ e.charge # Null
    BY <2>1, <2>2, DistinguishedValues, BoundsAssumption DEF ChargeIds, Serials
  <2>5. ShowsTrueEnd(s, e)'
    BY <1>5, <1>8, <2>1, <2>4
  <2>6. QED
    BY <1>2, <1>4, <2>3, <2>4, <2>5, EnqueueShows
<1>9. CASE events'[s] = events[s]
  <2>1. Webhooks(s)' = Webhooks(s)
    BY <1>9 DEF Webhooks
  <2>2. QED
    BY <1>2, <1>3, <1>4, <2>1, ShownKept
<1>10. QED
  <2>1. CASE pc[c] \in {"created_event", "charge_event", "intent_event"}
    <3>1. EnqueueCreated(c) \/ EnqueueChargeEvent(c) \/ EnqueueIntentEvent(c)
      BY <2>1
         DEF Handle, OptIn, FallThrough, GateOpen, RefuseCreate, ListCharges,
             RetrieveCharge, ExpandCharge, Retrieve, AcquireLock, LeaveUnsimulated,
             LoadAndReject, LoadAndApply, EnqueueCreated, FindCharge, PutCharge,
             EnqueueChargeEvent, EnqueueIntentEvent, StoreIntent, Expand, Respond
    <3>2. CASE s # session(c)
      <4>1. events'[s] = events[s]
        BY <1>1, <3>1, <3>2 DEF EnqueueCreated, EnqueueChargeEvent,
           EnqueueIntentEvent, Enqueue, TypeOK
      <4>2. QED
        BY <1>9, <4>1
    <3>3. QED
      BY <1>6, <1>7, <1>8, <3>1, <3>2
  <2>2. QED
    BY <1>1, <1>9, <2>1 DEF Writes

LEMMA ServerShows ==
  ASSUME ControlInv, SettleParts, ~EarlyIds, NEW c \in Clients, Served(c),
         NEW s \in Sessions, ShowTrueEnds(s)
  PROVE  ShowTrueEnds(s)'
<1>1. /\ MintedOK /\ CopiesKept
      /\ UNCHANGED <<tpc, tarticle, delivered, quiet>>
  BY DEF SettleParts, Served
<1>2. CASE Handle(c) \/ AcquireLock(c)
  BY <1>1, <1>2, HandleShows
<1>3. CASE Arrival(c)
  <2>1. /\ OthersKeep(c) /\ pc[c] = "idle"
        /\ UNCHANGED <<intents, events>>
    BY <1>1, <1>3, ArrivalPrivate
  <2>2. EndsKept(s)
    BY <2>1 DEF EndsKept, EndsAs, OthersKeep, session, Building, Recording, Locked
  <2>3. Webhooks(s)' = Webhooks(s)
    BY <1>1, <2>1 DEF Webhooks
  <2>4. QED
    BY <1>1, <2>2, <2>3, ShownKept DEF ShowTrueEnds
<1>4. QED
  BY <1>2, <1>3 DEF Served, Arrival

\* Control requests touch no handler, and only a reset an intent.
LEMMA ControlEnds ==
  ASSUME UNCHANGED handlers, NEW s \in Sessions, intents'[s] = intents[s]
  PROVE  EndsKept(s)
BY DEF handlers, EndsKept, EndsAs, session

\* A reset that finds nothing in progress leaves nothing that shows an end.
LEMMA ResetShows ==
  ASSUME ControlInv, NEW r \in Sessions, Reset(r), NEW s \in Sessions, ShowTrueEnds(s)
  PROVE  ShowTrueEnds(s)'
<1>1. /\ ControlTypeOK /\ TypeOK
      /\ UNCHANGED <<handlers, tpc, tarticle>>
  BY ControlParts DEF ControlTypeOK, Reset
<1>2. CASE s = r
  <2>1. Webhooks(s)' = <<>>
    BY <1>1, <1>2 DEF Reset, TypeOK, ControlTypeOK, Webhooks
  <2>2. quiet'[s] => ~Busy(s)
    <3>1. quiet' = [quiet EXCEPT ![s] = @ /\ ~Busy(s)] /\ quiet \in [Sessions -> BOOLEAN]
      BY <1>1, <1>2 DEF Reset, ControlTypeOK
    <3>2. quiet'[s] = (quiet[s] /\ ~Busy(s))
      BY <3>1, Zenon
    <3>3. QED
      BY <3>2
  <2>3. quiet'[s] => EmitsShow(s)'
    BY <1>1, <2>2 DEF EmitsShow, Busy
  <2>4. WebhooksShow(s)'
    BY <2>1 DEF WebhooksShow
  <2>5. QED
    BY <2>3, <2>4 DEF ShowTrueEnds
<1>3. CASE s # r
  <2>1. /\ Webhooks(s)' = Webhooks(s) /\ intents'[s] = intents[s]
        /\ quiet'[s] = quiet[s]
    BY <1>1, <1>3 DEF Reset, TypeOK, ControlTypeOK, Webhooks
  <2>2. EndsKept(s)
    BY <1>1, <2>1, ControlEnds
  <2>3. QED
    BY <1>1, <2>1, <2>2, ShownKept DEF ShowTrueEnds
<1>4. QED
  BY <1>2, <1>3

\* Neither a drain nor an opt-in changes what the webhooks show.
LEMMA OthersShow ==
  ASSUME ControlInv, UNCHANGED <<handlers, intents, quiet>>,
         \A t \in Testers : tpc'[t] = "enqueue" =>
           tpc[t] = "enqueue" /\ tarticle'[t] = tarticle[t],
         NEW s \in Sessions, Webhooks(s)' = Webhooks(s), ShowTrueEnds(s)
  PROVE  ShowTrueEnds(s)'
<1>1. EndsKept(s)
  BY ControlEnds
<1>2. QED
  BY <1>1, ShownKept DEF ShowTrueEnds

\* An emit reads an end that stays.
LEMMA EmitReadShows ==
  ASSUME ControlInv, NEW t \in Testers, NEW r \in Sessions, NEW id \in IntentIds,
         EmitRead(t, r, id), NEW s \in Sessions, ShowTrueEnds(s)
  PROVE  ShowTrueEnds(s)'
<1>1. /\ ControlTypeOK
      /\ UNCHANGED <<handlers, intents, events, delivered, quiet>>
  BY ControlParts DEF EmitRead, vars, handlers
<1>2. EndsKept(s) /\ Webhooks(s)' = Webhooks(s)
  BY <1>1, ControlEnds DEF Webhooks
<1>3. SUFFICES ASSUME quiet'[s] PROVE EmitsShow(s)'
  BY <1>1, <1>2, ShownKept DEF ShowTrueEnds
<1>4. PICK type, event :
        /\ event = [type |-> type, intent |-> id, charge |-> Null,
                    object |-> intents[r][id]]
        /\ tarticle' = [tarticle EXCEPT ![t] = [session |-> r, event |-> event]]
  BY DEF EmitRead
<1>5. SUFFICES ASSUME NEW u \in Testers, tpc'[u] = "enqueue",
                      tarticle'[u].session = s
               PROVE  ShowsTrueEnd(s, tarticle[u].event)'
  BY DEF EmitsShow
<1>6. CASE u = t
  <2>1. tarticle'[t].event = event /\ s = r
    BY <1>1, <1>4, <1>5, <1>6 DEF ControlTypeOK
  <2>2. Stored(s, id) /\ event.intent = id /\ event.object = intents[s][id]
    BY <1>4, <2>1 DEF EmitRead
  <2>3. QED
    BY <1>1, <1>6, <2>1, <2>2 DEF ShowsTrueEnd, EndsAs, Stored
<1>7. CASE u # t
  <2>1. tpc[u] = "enqueue" /\ tarticle'[u] = tarticle[u]
    BY <1>1, <1>4, <1>5, <1>7 DEF EmitRead, ControlTypeOK
  <2>2. PICK e \in Events : e = tarticle[u].event
    BY <2>1, ControlFacts
  <2>3. ShowsTrueEnd(s, e)
    BY <1>1, <1>3, <1>5, <2>1, <2>2 DEF ShowTrueEnds, EmitsShow
  <2>4. ShowsTrueEnd(s, e)' /\ tarticle'[u].event = e
    BY <1>2, <2>1, <2>2, <2>3, ShownStays
  <2>5. QED
    BY <2>4 DEF ShowsTrueEnd, EndsAs
<1>8. QED
  BY <1>6, <1>7

LEMMA EmitEnqueueShows ==
  ASSUME ControlInv, NEW t \in Testers, EmitEnqueue(t),
         NEW s \in Sessions, ShowTrueEnds(s)
  PROVE  ShowTrueEnds(s)'
<1>1. /\ ControlTypeOK /\ TypeOK /\ tpc[t] = "enqueue"
      /\ UNCHANGED <<handlers, intents, delivered, quiet>>
  BY ControlParts DEF ControlTypeOK, EmitEnqueue
<1>2. EndsKept(s)
  BY <1>1, ControlEnds
<1>3. \A u \in Testers : tpc'[u] = "enqueue" =>
        tpc[u] = "enqueue" /\ tarticle'[u] = tarticle[u]
  BY <1>1 DEF EmitEnqueue, ControlTypeOK
<1>4. SUFFICES ASSUME quiet'[s] PROVE WebhooksShow(s)'
  BY <1>1, <1>2, <1>3, ShownKept DEF ShowTrueEnds
<1>5. CASE tarticle[t].session = s
  <2>1. PICK e \in Events : e = tarticle[t].event
    BY <1>1, ControlFacts
  <2>2. ShowsTrueEnd(s, e) /\ WebhooksShow(s)
    BY <1>1, <1>4, <1>5, <2>1 DEF ShowTrueEnds, EmitsShow
  <2>3. ShowsTrueEnd(s, e)'
    BY <1>2, <2>2, ShownStays
  <2>4. events'[s] = Append(events[s], e)
    BY <1>1, <1>5, <2>1 DEF EmitEnqueue, Enqueue, TypeOK
  <2>5. QED
    BY <1>1, <1>2, <2>2, <2>3, <2>4, EnqueueShows
<1>6. CASE tarticle[t].session # s
  <2>1. Webhooks(s)' = Webhooks(s)
    BY <1>1, <1>6, ControlFacts DEF EmitEnqueue, Enqueue, TypeOK, Webhooks
  <2>2. QED
    BY <1>1, <1>2, <1>4, <2>1, ShownKept
<1>7. QED
  BY <1>5, <1>6

-----------------------------------------------------------------------------
(* The theorems                                                            *)

LEMMA SettleInit == ControlInit => SettleInv
<1> SUFFICES ASSUME ControlInit PROVE SettleInv
  OBVIOUS
<1>1. LockOK /\ MintedOK /\ EmitsOK /\ \A c \in Clients : CopyOK(c)
  BY ClientsAssumption
     DEF ControlInit, Init, LockOK, Holds, MintedOK, Minting, EmitsOK, CopyOK,
         Building, Recording, Locked
<1>2. \A s \in Sessions : Webhooks(s) = <<>>
  BY DEF ControlInit, Init, Webhooks
<1>3. QED
  BY <1>1, <1>2 DEF SettleInv, ToldOK, WebhooksSettleOnce

LEMMA SettleStep ==
  NothingRewound /\ ControlInv /\ ControlInv' /\ SettleInv /\ [ControlNext]_allvars
    => SettleInv'
<1> SUFFICES ASSUME NothingRewound, ControlInv, ControlInv', SettleInv,
                    [ControlNext]_allvars
             PROVE  SettleInv'
  OBVIOUS
<1>1. SettleParts /\ ControlTypeOK
  BY SettleSplit, ControlParts
<1>2. CASE ServerStep
  <2>1. PICK c \in Clients : Served(c)
    BY <1>2 DEF ServerStep, Served
  <2>2. SettleParts'
    BY <1>1, <2>1, ServerSettles DEF NothingRewound
  <2>3. QED
    BY <2>2, SettleSplit, PTL
<1>3. CASE ControlStep
  <2>1. SettleParts'
    <3>1. ASSUME NEW s \in Sessions,
                 Reset(s) \/ DrainEvents(s) \/ \E on \in BOOLEAN : Config(s, on)
          PROVE  SettleParts'
      BY <1>1, <3>1, ResetSettles, DrainSettles, EnableSettles DEF Config
    <3>2. ASSUME NEW t \in Testers, SeedEnable(t)
          PROVE  SettleParts'
      BY <1>1, <3>2, EnableSettles DEF SeedEnable, ControlTypeOK
    <3>3. ASSUME NEW t \in Testers, NEW s \in Sessions, NEW id \in IntentIds,
                 EmitRead(t, s, id)
          PROVE  SettleParts'
      BY <1>1, <3>3, EmitReadSettles
    <3>4. ASSUME NEW t \in Testers, EmitEnqueue(t)
          PROVE  SettleParts'
      BY <1>1, <3>4, EmitEnqueueSettles
    <3>5. QED
      BY <1>3, <3>1, <3>2, <3>3, <3>4 DEF ControlStep, NothingRewound
  <2>2. QED
    BY <2>1, SettleSplit, PTL
<1>4. CASE UNCHANGED allvars
  <2>1. UNCHANGED <<handlers, intents, events, delivered, tpc, tarticle>>
    BY <1>4 DEF allvars, vars, cvars, handlers
  <2>2. SettleParts'
    BY <1>1, <2>1, EnableSettles
  <2>3. QED
    BY <2>2, SettleSplit, PTL
<1>5. QED
  BY <1>2, <1>3, <1>4 DEF ControlNext, ControlDone

\* Beside resets, drains and emits between any two store operations, what a
\* handler is about to store was accepted for what is stored, or for what a
\* reset has removed, and every webhook of a charge tells the truth for good.
THEOREM SettleInvariance ==
  ASSUME NothingRewound
  PROVE  ControlSpec => []SettleInv
<1>1. ControlInv /\ ControlInv' /\ SettleInv /\ [ControlNext]_allvars => SettleInv'
  BY SettleStep
<1>2. QED
  BY <1>1, SettleInit, ControlInvariance, PTL DEF ControlSpec

\* Over any number of resets, drains and emits a test is handed at most one
\* charge.succeeded and one charge.captured of an intent.
THEOREM SettledWebhooks ==
  ASSUME NothingRewound
  PROVE  ControlSpec => []WebhooksSettleOnce
<1>1. SettleInv => WebhooksSettleOnce
  BY DEF SettleInv
<1>2. QED
  BY <1>1, SettleInvariance, PTL

LEMMA EndingInit == ControlInit => EndsShownOK
<1> SUFFICES ASSUME ControlInit PROVE EndsShownOK
  OBVIOUS
<1>1. \A s \in Sessions : Webhooks(s) = <<>>
  BY DEF ControlInit, Init, Webhooks
<1>2. \A t \in Testers : tpc[t] = "idle"
  BY DEF ControlInit
<1>3. QED
  BY <1>1, <1>2 DEF EndsShownOK

LEMMA EndingStep ==
  NothingRewound /\ ControlInv /\ SettleInv /\ EndsShownOK /\ [ControlNext]_allvars
    => EndsShownOK'
<1> SUFFICES ASSUME NothingRewound, ControlInv, SettleInv, EndsShownOK,
                    [ControlNext]_allvars, NEW s \in Sessions
             PROVE  ShowTrueEnds(s)'
  BY EndingSplit DEF EndsShownOK, ShowTrueEnds, WebhooksShow, EmitsShow
<1>1. SettleParts /\ ControlTypeOK /\ ShowTrueEnds(s)
  BY SettleSplit, ControlParts, EndingSplit
<1>2. CASE ServerStep
  <2>1. PICK c \in Clients : Served(c)
    BY <1>2 DEF ServerStep, Served
  <2>2. QED
    BY <1>1, <2>1, ServerShows DEF NothingRewound
<1>3. ASSUME NEW r \in Sessions, Reset(r)
      PROVE  ShowTrueEnds(s)'
  BY <1>1, <1>3, ResetShows
<1>4. ASSUME NEW r \in Sessions, DrainEvents(r)
      PROVE  ShowTrueEnds(s)'
  <2>1. UNCHANGED <<handlers, intents, quiet, tpc, tarticle>>
    BY <1>4 DEF DrainEvents
  <2>2. Webhooks(s)' = Webhooks(s)
    BY <1>1, <1>4, DrainKeeps
  <2>3. QED
    BY <1>1, <2>1, <2>2, OthersShow
<1>5. ASSUME NEW r \in Sessions, NEW on \in BOOLEAN, Config(r, on)
      PROVE  ShowTrueEnds(s)'
  BY <1>1, <1>5, OthersShow DEF Config, Webhooks
<1>6. ASSUME NEW t \in Testers, SeedEnable(t)
      PROVE  ShowTrueEnds(s)'
  <2>1. \A u \in Testers : tpc'[u] = "enqueue" =>
          tpc[u] = "enqueue" /\ tarticle'[u] = tarticle[u]
    BY <1>1, <1>6 DEF SeedEnable, ControlTypeOK
  <2>2. QED
    BY <1>1, <1>6, <2>1, OthersShow DEF SeedEnable, Webhooks
<1>7. ASSUME NEW t \in Testers, NEW r \in Sessions, NEW id \in IntentIds,
             EmitRead(t, r, id)
      PROVE  ShowTrueEnds(s)'
  BY <1>1, <1>7, EmitReadShows
<1>8. ASSUME NEW t \in Testers, EmitEnqueue(t)
      PROVE  ShowTrueEnds(s)'
  BY <1>1, <1>8, EmitEnqueueShows
<1>9. CASE ControlStep
  BY <1>3, <1>4, <1>5, <1>6, <1>7, <1>8, <1>9 DEF ControlStep, NothingRewound
<1>10. CASE UNCHANGED allvars
  <2>1. UNCHANGED <<handlers, intents, events, delivered, quiet, tpc, tarticle>>
    BY <1>10 DEF allvars, vars, cvars, handlers
  <2>2. QED
    BY <1>1, <2>1, OthersShow DEF Webhooks
<1>11. QED
  BY <1>2, <1>9, <1>10 DEF ControlNext, ControlDone

\* What webhooks show of how an intent has ended, and what an emit has read of
\* it, is stored or about to be, however late the emit enqueues it.
THEOREM EndingInvariance ==
  ASSUME NothingRewound
  PROVE  ControlSpec => []EndingInv
<1>1. ControlInv /\ SettleInv /\ EndsShownOK /\ [ControlNext]_allvars => EndsShownOK'
  BY EndingStep
<1>2. ControlSpec => []EndsShownOK
  BY <1>1, EndingInit, ControlInvariance, SettleInvariance, PTL DEF ControlSpec
<1>3. SettleInv /\ EndsShownOK => EndingInv
  BY DEF EndingInv
<1>4. QED
  BY <1>2, <1>3, SettleInvariance, PTL

\* A test whose resets are quiet never gets one webhook that shows an intent
\* succeeded and another that shows it canceled.
THEOREM WebhooksAgree ==
  ASSUME NothingRewound
  PROVE  ControlSpec => []WebhooksDoNotContradict
<1>1. ControlInv /\ EndingInv => WebhooksDoNotContradict
  <2> SUFFICES ASSUME ControlInv, SettleInv, EndsShownOK,
                      NEW s \in Sessions, quiet[s],
                      NEW i \in DOMAIN Webhooks(s), NEW j \in DOMAIN Webhooks(s),
                      Webhooks(s)[i].intent = Webhooks(s)[j].intent,
                      Webhooks(s)[i].charge = Null, Webhooks(s)[j].charge = Null,
                      Webhooks(s)[i].object.status \in Ends,
                      Webhooks(s)[j].object.status \in Ends
               PROVE  Webhooks(s)[i].object.status = Webhooks(s)[j].object.status
    BY DEF EndingInv, WebhooksDoNotContradict, Ends
  <2>1. LockOK /\ MintedOK /\ CopiesKept
    BY SettleSplit DEF SettleParts
  <2>2. Webhooks(s)[i].intent \in IntentIds
    BY WebhooksTyped
  <2>3. PICK id \in IntentIds, one \in Ends, other \in Ends :
          /\ id = Webhooks(s)[i].intent
          /\ one = Webhooks(s)[i].object.status
          /\ other = Webhooks(s)[j].object.status
    BY <2>2
  <2>4. EndsAs(s, id, one) /\ EndsAs(s, id, other)
    BY <2>3 DEF EndsShownOK, ShowsTrueEnd, Ends
  <2>5. QED
    BY <2>1, <2>3, <2>4, OneEnd
<1>2. QED
  BY <1>1, ControlInvariance, EndingInvariance, PTL
=============================================================================
