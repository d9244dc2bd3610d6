------------------------ MODULE PaymentIntentServer ------------------------
(***************************************************************************)
(* The stateful layer of the stub server under concurrent requests:        *)
(* maybeHandleStatefulRequest (server/paymentintents.go) running in one    *)
(* goroutine per request over the session store of server/stateful.go.     *)
(*                                                                         *)
(* Every operation of the store is atomic (store.mu is held for exactly    *)
(* one operation), so the model has one action per store operation a       *)
(* handler performs, plus the acquisition of statefulActionMu.  Between    *)
(* two of them a handler only works on its own copies `pi` and `ch`.       *)
(*                                                                         *)
(* The test-control plane is added by ControlPlane.  Without it nothing is *)
(* drained, so `events` is the log of every event of the session.          *)
(***************************************************************************)
EXTENDS PaymentIntent

CONSTANTS
  Clients,    \* concurrent connections, each with at most one request
  Sessions,   \* session ids (sessionID of the request)
  Workload    \* the requests the clients may issue

ReadOps   == {"list_charges", "retrieve_charge", "retrieve"}
ActionOps == {"confirm", "capture", "cancel", "update", "unsimulated"}
Ops       == ReadOps \cup ActionOps \cup {"create", "other"}

\* "unsimulated" is an action path with a primary id that has no lifecycle
\* (/verify_microdeposits); "other" stands for every request that is neither
\* about a stored charge nor about a PaymentIntent with a primary id.

\* opt_in: the request carries X-Stripe-Mock-Stateful.  expand: expand[] asks
\* for latest_charge (of an intent) or payment_intent (of a charge).
Requests ==
  [op : Ops, session : Sessions, opt_in : BOOLEAN, expand : BOOLEAN,
   params : ParamSpace]

ASSUME WorkloadAssumption == Workload \subseteq Requests
ASSUME ClientsAssumption  == Null \notin Clients

VARIABLES
  enabled,  \* enabled[s]: sessionStore.statefulEnabled
  intents,  \* intents[s][id]: stored PaymentIntent or NoIntent
  charges,  \* charges[s][id]: stored Charge or NoCharge
  events,   \* events[s]: sessionStore.events
  lock,     \* owner of statefulActionMu
  issued,   \* number of requests issued so far
  pc,       \* pc[c]: next store operation of the handler serving c
  rq,       \* rq[c]: its request
  serial,   \* serial[c]: number of its request, the id it mints
  target,   \* target[c]: PaymentIntent or Charge id it is about
  pi,       \* pi[c]: its local copy of the PaymentIntent
  ch,       \* ch[c]: its local copy of the Charge
  reply     \* reply[c]: kind of response it has decided to write

store == <<enabled, intents, charges, events>>
vars  == <<enabled, intents, charges, events, lock, issued,
           pc, rq, serial, target, pi, ch, reply>>

Locked == {"load", "created_event", "find_charge", "put_charge",
           "charge_event", "intent_event", "store"}
PCs    == {"idle", "opt_in", "gate", "list_charges", "retrieve_charge",
           "expand_charge", "retrieve", "lock", "expand", "respond"}
          \cup Locked
Replies == {"none", "generic", "rejected", "intent", "charge", "charges"}

EventTypes ==
  {"payment_intent.created", "payment_intent.succeeded",
   "payment_intent.amount_capturable_updated",
   "payment_intent.requires_action", "payment_intent.processing",
   "payment_intent.canceled", "payment_intent.payment_failed",
   "charge.succeeded", "charge.captured", "charge.failed"}

ASSUME EventTypesAssumption == Null \notin EventTypes

\* A webhook envelope: its type, the ids it is about and the deep copy of
\* the object taken when it was built.
Events ==
  [type : EventTypes, intent : IntentIds, charge : ChargeIds \cup {Null},
   object : Intents \cup Charges]

TypeOK ==
  /\ enabled \in [Sessions -> BOOLEAN]
  /\ intents \in [Sessions -> [IntentIds -> Intents \cup {NoIntent}]]
  /\ charges \in [Sessions -> [ChargeIds -> Charges \cup {NoCharge}]]
  /\ events \in [Sessions -> Seq(Events)]
  /\ lock \in Clients \cup {Null}
  /\ issued \in 0 .. MaxRequests
  /\ pc \in [Clients -> PCs]
  /\ rq \in [Clients -> Requests \cup {Null}]
  /\ serial \in [Clients -> Serials \cup {Null}]
  /\ target \in [Clients -> IntentIds \cup {Null}]
  /\ pi \in [Clients -> Intents \cup {NoIntent}]
  /\ ch \in [Clients -> Charges \cup {NoCharge}]
  /\ reply \in [Clients -> Replies]

Init ==
  /\ enabled = [s \in Sessions |-> FALSE]
  /\ intents = [s \in Sessions |-> [id \in IntentIds |-> NoIntent]]
  /\ charges = [s \in Sessions |-> [id \in ChargeIds |-> NoCharge]]
  /\ events  = [s \in Sessions |-> <<>>]
  /\ lock    = Null
  /\ issued  = 0
  /\ pc      = [c \in Clients |-> "idle"]
  /\ rq      = [c \in Clients |-> Null]
  /\ serial  = [c \in Clients |-> Null]
  /\ target  = [c \in Clients |-> Null]
  /\ pi      = [c \in Clients |-> NoIntent]
  /\ ch      = [c \in Clients |-> NoCharge]
  /\ reply   = [c \in Clients |-> "none"]

session(c) == rq[c].session
params(c)  == rq[c].params
Goto(c, l) == pc' = [pc EXCEPT ![c] = l]
Answer(c, kind) == /\ reply' = [reply EXCEPT ![c] = kind]
                   /\ Goto(c, "respond")

-----------------------------------------------------------------------------
(* Arrival, opt-in and dispatch                                            *)

InFlight == {serial[c] : c \in Clients} \ {Null}
Answered == (1 .. issued) \ InFlight

\* A client addresses ids it knows from elsewhere and ids of objects minted
\* by requests that have been answered.
KnownIntents(s) ==
  ForeignIds \cup {id \in Answered : intents[s][id] # NoIntent}

Issue(c, r, id) ==
  /\ pc[c] = "idle"
  /\ issued < MaxRequests
  /\ issued' = issued + 1
  /\ rq'     = [rq EXCEPT ![c] = r]
  /\ serial' = [serial EXCEPT ![c] = issued + 1]
  /\ target' = [target EXCEPT ![c] = id]
  /\ Goto(c, IF r.opt_in THEN "opt_in" ELSE "gate")
  /\ UNCHANGED <<enabled, intents, charges, events, lock, pi, ch, reply>>

IssueCreate(c) ==
  \E r \in Workload : r.op = "create" /\ Issue(c, r, issued + 1)

IssueOnIntent(c) ==
  \E r \in Workload : \E id \in KnownIntents(r.session) :
    /\ r.op \in ActionOps \cup {"retrieve", "list_charges", "other"}
    /\ Issue(c, r, id)

IssueOnCharge(c) ==
  \E r \in Workload, id \in Answered :
    r.op = "retrieve_charge" /\ Issue(c, r, id)

OptIn(c) ==
  /\ pc[c] = "opt_in"
  /\ enabled' = [enabled EXCEPT ![session(c)] = TRUE]
  /\ Goto(c, "gate")
  /\ UNCHANGED <<intents, charges, events, lock, issued, rq, serial, target,
                 pi, ch, reply>>

\* A session that has not opted in gets the generic response, as does a request
\* of no stateful kind; otherwise the handler goes on to the first store
\* operation of the request's kind.
Refused(c) == /\ rq[c].op = "create"
              /\ params(c).confirm
              /\ ~confirmHasPaymentMethod("", params(c))

FallThrough(c) ==
  /\ pc[c] = "gate"
  /\ ~enabled[session(c)] \/ rq[c].op = "other"
  /\ Answer(c, "generic")
  /\ UNCHANGED <<store, lock, issued, rq, serial, target, pi, ch>>

GateOpen(c) ==
  /\ pc[c] = "gate"
  /\ enabled[session(c)]
  /\ rq[c].op # "other"
  /\ ~Refused(c)
  /\ Goto(c, CASE rq[c].op \in ReadOps   -> rq[c].op
               [] rq[c].op \in ActionOps -> "lock"
               [] OTHER                  -> "created_event")
  /\ pi' = [pi EXCEPT ![c] = IF rq[c].op = "create"
                               THEN newPaymentIntent(params(c)) ELSE @]
  /\ UNCHANGED <<store, lock, issued, rq, serial, target, ch, reply>>

RefuseCreate(c) ==
  /\ pc[c] = "gate"
  /\ enabled[session(c)]
  /\ Refused(c)
  /\ Answer(c, "rejected")
  /\ UNCHANGED <<store, lock, issued, rq, serial, target, pi, ch>>

-----------------------------------------------------------------------------
(* Reads                                                                   *)

ListCharges(c) ==
  /\ pc[c] = "list_charges"
  /\ LET matches == {id \in ChargeIds :
                       /\ charges[session(c)][id] # NoCharge
                       /\ charges[session(c)][id].payment_intent = target[c]}
     IN  Answer(c, IF matches = {} THEN "generic" ELSE "charges")
  /\ UNCHANGED <<store, lock, issued, rq, serial, target, pi, ch>>

RetrieveCharge(c) ==
  /\ pc[c] = "retrieve_charge"
  /\ LET charge == charges[session(c)][target[c]]
     IN  IF charge = NoCharge
           THEN Answer(c, "generic") /\ ch' = ch
           ELSE /\ ch' = [ch EXCEPT ![c] = charge]
                /\ reply' = [reply EXCEPT ![c] = "charge"]
                /\ Goto(c, IF rq[c].expand THEN "expand_charge"
                                           ELSE "respond")
  /\ UNCHANGED <<store, lock, issued, rq, serial, target, pi>>

ExpandCharge(c) ==
  /\ pc[c] = "expand_charge"
  /\ pi' = [pi EXCEPT ![c] = intents[session(c)][ch[c].payment_intent]]
  /\ Goto(c, "respond")
  /\ UNCHANGED <<store, lock, issued, rq, serial, target, ch, reply>>

\* Whether expandStatefulPaymentIntent looks the charge up.
Expands(c, intent) == rq[c].expand /\ intent.latest_charge # Null

Retrieve(c) ==
  /\ pc[c] = "retrieve"
  /\ LET intent == intents[session(c)][target[c]]
     IN  IF intent = NoIntent
           THEN Answer(c, "generic") /\ pi' = pi
           ELSE /\ pi' = [pi EXCEPT ![c] = intent]
                /\ reply' = [reply EXCEPT ![c] = "intent"]
                /\ Goto(c, IF Expands(c, intent) THEN "expand" ELSE "respond")
  /\ UNCHANGED <<store, lock, issued, rq, serial, target, ch>>

-----------------------------------------------------------------------------
(* Actions on an existing PaymentIntent, under statefulActionMu            *)

\* Goes on while another handler is in the critical section.
SlipAcquireLock(c) ==
  /\ pc[c] = "lock"
  /\ lock' = c
  /\ Goto(c, "load")
  /\ UNCHANGED <<store, issued, rq, serial, target, pi, ch, reply>>

AcquireLock(c) ==
  /\ pc[c] = "lock"
  /\ lock = Null
  /\ lock' = c
  /\ Goto(c, "load")
  /\ UNCHANGED <<store, issued, rq, serial, target, pi, ch, reply>>

Loaded(c)   == orAdopted(intents[session(c)][target[c]])
Accepted(c) == Accepts(rq[c].op, Loaded(c), params(c))

\* Where recordPaymentIntentTransition goes after the created event: the
\* charge (looked up only if the intent names one), its event, the intent's
\* event, and then the store of the intent.
RecordFrom(intent) ==
  IF NeedsCharge(intent)
    THEN IF intent.latest_charge = Null THEN "put_charge" ELSE "find_charge"
    ELSE IF intentEventType(intent) # Null THEN "intent_event" ELSE "store"

\* An action endpoint that is not simulated releases the lock and falls
\* through to the generic generator before anything is read.
LeaveUnsimulated(c) ==
  /\ pc[c] = "load"
  /\ rq[c].op = "unsimulated"
  /\ lock' = Null
  /\ Answer(c, "generic")
  /\ UNCHANGED <<store, issued, rq, serial, target, pi, ch>>

LoadAndReject(c) ==
  /\ pc[c] = "load"
  /\ rq[c].op # "unsimulated"
  /\ ~Accepted(c)
  /\ Answer(c, "rejected")
  /\ UNCHANGED <<store, lock, issued, rq, serial, target, pi, ch>>

LoadAndApply(c) ==
  /\ pc[c] = "load"
  /\ rq[c].op # "unsimulated"
  /\ Accepted(c)
  /\ LET intent == Apply(rq[c].op, Loaded(c), params(c))
     IN  /\ pi' = [pi EXCEPT ![c] = intent]
         /\ Goto(c, IF rq[c].op = "update" THEN "store"
                                           ELSE RecordFrom(intent))
  /\ UNCHANGED <<store, lock, issued, rq, serial, target, ch, reply>>

-----------------------------------------------------------------------------
(* Recording a transition: events and charge first, then the intent        *)

Enqueue(s, event) == events' = [events EXCEPT ![s] = Append(@, event)]

IntentEvent(c, type) ==
  [type |-> type, intent |-> target[c], charge |-> Null, object |-> pi[c]]

EnqueueCreated(c) ==
  /\ pc[c] = "created_event"
  /\ Enqueue(session(c), IntentEvent(c, "payment_intent.created"))
  /\ Goto(c, RecordFrom(pi[c]))
  /\ UNCHANGED <<enabled, intents, charges, lock, issued, rq, serial, target,
                 pi, ch, reply>>

FindCharge(c) ==
  /\ pc[c] = "find_charge"
  /\ LET charge == charges[session(c)][pi[c].latest_charge]
     IN  ch' = [ch EXCEPT ![c] = IF reusable(charge) THEN charge
                                                     ELSE NoCharge]
  /\ Goto(c, "put_charge")
  /\ UNCHANGED <<store, lock, issued, rq, serial, target, pi, reply>>

\* Skips to the intent's event.
SlipPutCharge(c) ==
  /\ pc[c] = "put_charge"
  /\ LET id     == IF ch[c] = NoCharge THEN serial[c] ELSE pi[c].latest_charge
         charge == chargeForPI(pi[c], target[c])
     IN  /\ charges' = [charges EXCEPT ![session(c)][id] = charge]
         /\ ch' = [ch EXCEPT ![c] = charge]
         /\ pi' = [pi EXCEPT ![c].latest_charge = id]
  /\ Goto(c, "intent_event")
  /\ UNCHANGED <<enabled, intents, events, lock, issued, rq, serial, target,
                 reply>>

PutCharge(c) ==
  /\ pc[c] = "put_charge"
  /\ LET id     == IF ch[c] = NoCharge THEN serial[c] ELSE pi[c].latest_charge
         charge == chargeForPI(pi[c], target[c])
     IN  /\ charges' = [charges EXCEPT ![session(c)][id] = charge]
         /\ ch' = [ch EXCEPT ![c] = charge]
         /\ pi' = [pi EXCEPT ![c].latest_charge = id]
  /\ Goto(c, "charge_event")
  /\ UNCHANGED <<enabled, intents, events, lock, issued, rq, serial, target,
                 reply>>

\* capture passes wasAuthorized = true, every other caller false.
EnqueueChargeEvent(c) ==
  /\ pc[c] = "charge_event"
  /\ Enqueue(session(c),
       [type   |-> chargeEventType(pi[c], rq[c].op = "capture"),
        intent |-> target[c],
        charge |-> pi[c].latest_charge,
        object |-> ch[c]])
  /\ Goto(c, "intent_event")
  /\ UNCHANGED <<enabled, intents, charges, lock, issued, rq, serial, target,
                 pi, ch, reply>>

EnqueueIntentEvent(c) ==
  /\ pc[c] = "intent_event"
  /\ Enqueue(session(c), IntentEvent(c, intentEventType(pi[c])))
  /\ Goto(c, "store")
  /\ UNCHANGED <<enabled, intents, charges, lock, issued, rq, serial, target,
                 pi, ch, reply>>

StoreIntent(c) ==
  /\ pc[c] = "store"
  /\ intents' = [intents EXCEPT ![session(c)][target[c]] = pi[c]]
  /\ ch' = [ch EXCEPT ![c] = NoCharge]
  /\ reply' = [reply EXCEPT ![c] = "intent"]
  /\ Goto(c, IF Expands(c, pi[c]) THEN "expand" ELSE "respond")
  /\ UNCHANGED <<enabled, charges, events, lock, issued, rq, serial, target,
                 pi>>

-----------------------------------------------------------------------------
(* Response                                                                *)

Expand(c) ==
  /\ pc[c] = "expand"
  /\ ch' = [ch EXCEPT ![c] = charges[session(c)][pi[c].latest_charge]]
  /\ Goto(c, "respond")
  /\ UNCHANGED <<store, lock, issued, rq, serial, target, pi, reply>>

\* Unlocks on the successful path only.
SlipUnlocked(c) == IF lock = c /\ reply[c] = "intent" THEN Null ELSE lock

\* The response is written before the deferred unlock, which runs on every
\* return of the handler.
unlocked(c) == IF lock = c THEN Null ELSE lock

Respond(c) ==
  /\ pc[c] = "respond"
  /\ lock'   = unlocked(c)
  /\ Goto(c, "idle")
  /\ rq'     = [rq EXCEPT ![c] = Null]
  /\ serial' = [serial EXCEPT ![c] = Null]
  /\ target' = [target EXCEPT ![c] = Null]
  /\ pi'     = [pi EXCEPT ![c] = NoIntent]
  /\ ch'     = [ch EXCEPT ![c] = NoCharge]
  /\ reply'  = [reply EXCEPT ![c] = "none"]
  /\ UNCHANGED <<store, issued>>

-----------------------------------------------------------------------------
Arrive(c) == IssueCreate(c) \/ IssueOnIntent(c) \/ IssueOnCharge(c)

\* The steps of a handler other than waiting for the lock.
Handle(c) ==
  \/ OptIn(c) \/ FallThrough(c) \/ GateOpen(c) \/ RefuseCreate(c)
  \/ ListCharges(c) \/ RetrieveCharge(c) \/ ExpandCharge(c) \/ Retrieve(c)
  \/ LeaveUnsimulated(c) \/ LoadAndReject(c) \/ LoadAndApply(c)
  \/ EnqueueCreated(c) \/ FindCharge(c) \/ PutCharge(c)
  \/ EnqueueChargeEvent(c) \/ EnqueueIntentEvent(c) \/ StoreIntent(c)
  \/ Expand(c) \/ Respond(c)

Done == /\ issued = MaxRequests
        /\ \A c \in Clients : pc[c] = "idle"
        /\ UNCHANGED vars

Next == (\E c \in Clients : Arrive(c) \/ AcquireLock(c) \/ Handle(c)) \/ Done

Spec == Init /\ [][Next]_vars

\* The runtime schedules every runnable goroutine; sync.Mutex hands the lock
\* to a waiter that has waited long enough (its starvation mode).
Fairness == \A c \in Clients : WF_vars(Handle(c)) /\ SF_vars(AcquireLock(c))
FairSpec == Spec /\ Fairness

-----------------------------------------------------------------------------
(* Properties                                                              *)

Stored(s, id) == intents[s][id] # NoIntent

\* c holds statefulActionMu: it serves an action on an existing intent and
\* has neither left through the unsimulated path nor responded.
Holds(c) ==
  /\ pc[c] \in Locked \cup {"expand", "respond"}
  /\ rq[c].op \in ActionOps
  /\ reply[c] # "generic"

\* c has loaded or built an intent for (s, id) and not stored it yet.
Writing(c, s, id) ==
  /\ pc[c] \in Locked \ {"load"}
  /\ session(c) = s
  /\ target[c] = id

LiveCharges(s, id) ==
  {k \in ChargeIds : /\ charges[s][k] # NoCharge
                     /\ charges[s][k].payment_intent = id
                     /\ charges[s][k].status = "succeeded"}

\* However requests interleave, an intent never owns two charges that moved
\* money: a confirm or capture reuses the live charge and only a failed
\* attempt is followed by a new one ("could both pass the status check and
\* settle twice", the comment on the lock in maybeHandleStatefulRequest).
AtMostOneLiveCharge ==
  \A s \in Sessions, id \in IntentIds :
    \A j, k \in LiveCharges(s, id) : j = k

\* The webhooks report at most one success of an intent and at most one
\* capture of a charge: of concurrent captures exactly one wins, and a
\* rejected one leaves no event.
SettledAtMostOnce ==
  \A s \in Sessions : \A i, j \in DOMAIN events[s] :
    /\ events[s][i].type \in {"payment_intent.succeeded", "charge.captured"}
    /\ events[s][j].type = events[s][i].type
    /\ events[s][j].intent = events[s][i].intent
    => i = j

\* recordPaymentIntentTransition: a charge.captured is always the second
\* event of its charge; its charge.succeeded fired at authorization time,
\* with captured false.
CaptureFollowsAuthorization ==
  \A s \in Sessions : \A i \in DOMAIN events[s] :
    events[s][i].type = "charge.captured" =>
      \E j \in 1 .. i - 1 :
        /\ events[s][j].type = "charge.succeeded"
        /\ events[s][j].charge = events[s][i].charge
        /\ ~events[s][j].object.captured

\* "over-capture is rejected" (paymentintents_test.go): a charge is never
\* captured for more than it was authorized for.
CapturedWithinAuthorization ==
  \A s \in Sessions : \A i, j \in DOMAIN events[s] :
    /\ events[s][i].type = "charge.succeeded"
    /\ events[s][j].type = "charge.captured"
    /\ events[s][i].charge = events[s][j].charge
    => events[s][j].object.amount_captured =< events[s][i].object.amount

\* What remains of it: a capture exceeds the authorization its webhook told of
\* only by taking the whole amount the intent has been raised to.  An
\* amount_to_capture is held against what was authorized, not against an
\* amount an update, racing it or not, has put in its place.
OvercaptureTakesTheWhole ==
  \A s \in Sessions : \A i, j \in DOMAIN events[s] :
    /\ events[s][i].type = "charge.succeeded"
    /\ events[s][j].type = "charge.captured"
    /\ events[s][i].charge = events[s][j].charge
    => \/ events[s][j].object.amount_captured =< events[s][i].object.amount
       \/ events[s][j].object.amount_captured = events[s][j].object.amount

\* An intent event that names a charge never precedes the event of that
\* charge: the webhook consumer can resolve latest_charge when it sees it.
ChargeEventFirst ==
  \A s \in Sessions : \A i \in DOMAIN events[s] :
    events[s][i].type \in {"payment_intent.succeeded",
                           "payment_intent.amount_capturable_updated",
                           "payment_intent.payment_failed"} =>
      \E j \in 1 .. i - 1 :
        /\ events[s][j].intent = events[s][i].intent
        /\ events[s][j].charge # Null
        /\ events[s][j].charge = events[s][i].object.latest_charge

\* A reader of the store never sees an intent ahead of its charge: the charge
\* a stored intent implies exists and agrees with it, also while another
\* request is between storing the charge and storing the intent.
StoredIntentIsBacked ==
  \A s \in Sessions, id \in IntentIds :
    LET intent == intents[s][id]
        charge == charges[s][intent.latest_charge]
    IN  Stored(s, id) /\ NeedsCharge(intent) =>
          /\ intent.latest_charge # Null
          /\ charge # NoCharge
          /\ charge.payment_intent = id
          /\ CASE intent.status = "succeeded" ->
                    /\ charge.captured
                    /\ charge.amount_captured = intent.amount_received
               [] intent.status = "requires_capture" ->
                    /\ charge.status = "succeeded"
                    /\ charge.captured =>
                         \E c \in Clients : Writing(c, s, id)
               [] OTHER -> charge.status = "failed"

\* The fields the state machine owns follow the status on every path through
\* it: next_action is set exactly while an action is required, money is
\* capturable only while authorized and received only once succeeded.
LifecycleFieldsFollowStatus ==
  \A s \in Sessions, id \in IntentIds :
    LET intent == intents[s][id]
    IN  Stored(s, id) =>
          /\ intent.next_action <=> intent.status = "requires_action"
          /\ intent.amount_capturable # 0 => intent.status = "requires_capture"
          /\ intent.amount_received # 0 => intent.status = "succeeded"

\* With no write to the intent in flight, the last event about it tells the
\* status a retrieve returns: no event is lost, none is ahead of the store
\* for good and no write undoes a reported one.  (An update enqueues nothing,
\* so the two statuses it moves between are left out.)
StatusEvents(s, id) ==
  {i \in DOMAIN events[s] : /\ events[s][i].intent = id
                            /\ events[s][i].charge = Null
                            /\ events[s][i].type # "payment_intent.created"}

EventsAgreeWithStore ==
  \A s \in Sessions, id \in IntentIds :
    (Stored(s, id) /\ ~\E c \in Clients : Writing(c, s, id)) =>
      LET reported == StatusEvents(s, id)
          waiting  == {"requires_payment_method", "requires_confirmation"}
          status   == intents[s][id].status
      IN  IF reported = {}
            THEN status \in waiting
            ELSE LET last == CHOOSE i \in reported :
                               \A j \in reported : j =< i
                     told == events[s][last].object.status
                 IN  status = told \/ {status, told} \subseteq waiting

\* A request that changed an intent answers with what is stored: nobody
\* overwrites it between the store and the end of the response.
AnswerIsStored ==
  \A c \in Clients :
    /\ pc[c] \in {"expand", "respond"}
    /\ reply[c] = "intent"
    /\ rq[c].op \notin ReadOps
    => intents[session(c)][target[c]] = pi[c]

\* A response with latest_charge expanded is never contradicted by the charge
\* in it, although the two objects are read separately: the lookup succeeds,
\* it is the intent's own charge, and a succeeded intent shows it captured.
ExpansionIsNotBehind ==
  \A c \in Clients :
    /\ pc[c] = "respond"
    /\ reply[c] = "intent"
    /\ Expands(c, pi[c])
    => /\ ch[c] # NoCharge
       /\ ch[c].payment_intent = target[c]
       /\ pi[c].status = "succeeded" => ch[c].captured

\* succeeded and canceled are final, whatever was read before the intent got
\* there: no step gives a stored terminal intent another status.
Terminal(intent) == intent.status \in {"succeeded", "canceled"}

TerminalStep ==
  \A s \in Sessions, id \in IntentIds :
    Stored(s, id) /\ Terminal(intents[s][id]) =>
      intents'[s][id].status = intents[s][id].status

TerminalIsFinal == [][TerminalStep]_vars

-----------------------------------------------------------------------------
(* The inductive invariant behind TypeOK, AnswerIsStored and               *)
(* TerminalIsFinal                                                         *)

LifecycleOps == {"confirm", "capture", "cancel", "update"}
Recording    == Locked \ {"load", "created_event"}
Building     == Recording \cup {"created_event"}

\* What a handler's own variables satisfy at each program counter.
IdleOK(c) ==
  /\ rq[c] = Null
  /\ serial[c] = Null
  /\ target[c] = Null
  /\ pi[c] = NoIntent
  /\ ch[c] = NoCharge
  /\ reply[c] = "none"

RequestOK(c) ==
  /\ rq[c] \in Requests
  /\ serial[c] \in 1 .. issued
  /\ target[c] \in ForeignIds \cup 1 .. issued
  /\ rq[c].op = "create" => target[c] = serial[c]
  /\ rq[c].op = "retrieve_charge" => target[c] \in ChargeIds

ControlOK(c) ==
  /\ pc[c] \in ReadOps => rq[c].op = pc[c]
  /\ pc[c] \in {"lock", "load"} => rq[c].op \in ActionOps
  /\ pc[c] = "created_event" => rq[c].op = "create"
  /\ pc[c] \in Recording => rq[c].op \in LifecycleOps \cup {"create"}
  /\ pc[c] = "expand_charge" => rq[c].op = "retrieve_charge"
  /\ pc[c] = "expand" => reply[c] = "intent"
  /\ reply[c] = "intent" =>
       rq[c].op \in LifecycleOps \cup {"create", "retrieve"}
  /\ pc[c] \notin {"expand", "expand_charge", "respond"} => reply[c] = "none"

CopiesOK(c) ==
  /\ pc[c] \in Building \cup {"expand"} => pi[c] \in Intents
  /\ pc[c] \in {"find_charge", "charge_event", "expand"} =>
       pi[c].latest_charge \in ChargeIds
  /\ pc[c] \in {"charge_event", "expand_charge"} => ch[c] \in Charges
  /\ pc[c] = "put_charge" /\ ch[c] # NoCharge =>
       pi[c].latest_charge \in ChargeIds
  /\ pc[c] \in {"find_charge", "put_charge", "charge_event"} =>
       NeedsCharge(pi[c])
  /\ pc[c] = "intent_event" => intentEventType(pi[c]) \in EventTypes
  /\ pc[c] \in {"opt_in", "gate", "lock", "load", "created_event",
                "find_charge", "retrieve_charge"} => ch[c] = NoCharge

HandlerOK(c) ==
  IF pc[c] = "idle"
    THEN IdleOK(c)
    ELSE RequestOK(c) /\ ControlOK(c) /\ CopiesOK(c)

\* statefulActionMu is owned by the one handler inside its critical section.
LockOK == \A c \in Clients : Holds(c) <=> lock = c

\* The id a create is about to store is known to no other request.
PrivateOK ==
  \A c, d \in Clients :
    (c # d /\ pc[c] # "idle" /\ pc[d] # "idle") =>
      /\ serial[c] # serial[d]
      /\ rq[c].op = "create" => target[d] # target[c]

\* Nothing is stored under an id that has not been minted or whose create has
\* not reached its store.
FreshOK ==
  /\ \A s \in Sessions, id \in Serials : id > issued => ~Stored(s, id)
  /\ \A c \in Clients, s \in Sessions :
       (/\ pc[c] \in {"opt_in", "gate"} \cup Building
        /\ rq[c].op = "create") => ~Stored(s, target[c])

SameButCharge(intent, other) ==
  [intent EXCEPT !.latest_charge = other.latest_charge] = other

\* No lost update: what a handler is about to store is its request applied
\* to what is stored now, not to something that has since been replaced.
WriteOK ==
  \A c \in Clients :
    pc[c] \in Building =>
      IF rq[c].op = "create"
        THEN SameButCharge(pi[c], newPaymentIntent(params(c)))
        ELSE /\ Accepted(c)
             /\ SameButCharge(pi[c], Apply(rq[c].op, Loaded(c), params(c)))

IInv == /\ TypeOK
        /\ \A c \in Clients : HandlerOK(c)
        /\ LockOK
        /\ PrivateOK
        /\ FreshOK
        /\ WriteOK
        /\ AnswerIsStored

-----------------------------------------------------------------------------
(* The atomic specification, and liveness                                  *)

\* Whatever the interleaving, the stored intents behave like objects on which
\* requests act one at a time (IntentLifecycle): every stored value is the
\* result of one accepted request on the value it replaces.
Lifecycle == INSTANCE IntentLifecycle
LifecycleSpec == Lifecycle!Spec

\* Every request is answered: no handler waits forever for the lock, and
\* every path that takes the lock gives it back.
EveryRequestAnswered ==
  \A c \in Clients : pc[c] # "idle" ~> pc[c] = "idle"
=============================================================================
