---------------------- MODULE PaymentIntentInvariants ----------------------
(***************************************************************************)
(* Inductive strengthenings of the properties of PaymentIntentServer that  *)
(* relate an intent to its charge and to the webhooks: what every handler  *)
(* between two store operations has already done to the charges and the    *)
(* queue.  Each conjunct is relative to IInv, which says whose copy is     *)
(* current and which ids are private.                                      *)
(***************************************************************************)
EXTENDS PaymentIntentServer

-----------------------------------------------------------------------------
(* Charges                                                                 *)

\* c has put the charge its transition needs and has not stored the intent.
Recorded(c) ==
  /\ pc[c] \in {"charge_event", "intent_event", "store"}
  /\ rq[c].op # "update"
  /\ NeedsCharge(pi[c])

RecordedFor(c, s, id) == Recorded(c) /\ session(c) = s /\ target[c] = id

\* The charge a stored intent names exists, is its own, and is in the state
\* the status of the intent implies; while a capture is being recorded it is
\* one step ahead of the intent.
StoredChargeOK(s, id) ==
  LET intent == intents[s][id]
      charge == charges[s][intent.latest_charge]
  IN  IF intent.latest_charge = Null
        THEN ~NeedsCharge(intent)
        ELSE /\ charge # NoCharge
             /\ charge.payment_intent = id
             /\ CASE intent.status = "succeeded" ->
                       /\ charge.captured
                       /\ charge.amount_captured = intent.amount_received
                  [] intent.status = "requires_capture" ->
                       /\ charge.status = "succeeded"
                       /\ charge.captured =>
                            \E c \in Clients : /\ RecordedFor(c, s, id)
                                               /\ rq[c].op = "capture"
                  [] intent.status = "canceled" -> TRUE
                  [] OTHER -> charge.status = "failed"

StoredChargesOK ==
  \A s \in Sessions, id \in IntentIds : Stored(s, id) => StoredChargeOK(s, id)

\* The charge in the copy a handler is about to store: the one of the intent
\* it has loaded, until a create or a confirm has put a charge of its own.
CopyChargeOK(c) ==
  /\ pc[c] \in Building =>
       IF Recorded(c)
         THEN /\ pi[c].latest_charge \in ChargeIds
              /\ charges[session(c)][pi[c].latest_charge]
                   = chargeForPI(pi[c], target[c])
              /\ IF rq[c].op = "capture"
                   THEN pi[c].latest_charge = Loaded(c).latest_charge
                   ELSE /\ pi[c].latest_charge = serial[c]
                        /\ pi[c].latest_charge # Loaded(c).latest_charge
         ELSE pi[c].latest_charge = Loaded(c).latest_charge
  /\ pc[c] \in {"find_charge", "put_charge", "charge_event"} =>
       rq[c].op \in {"create", "confirm", "capture"}
  /\ pc[c] = "put_charge" => (ch[c] # NoCharge <=> rq[c].op = "capture")
  /\ pc[c] = "charge_event" => ch[c] = chargeForPI(pi[c], target[c])

CopyChargesOK == \A c \in Clients : CopyChargeOK(c)

Unspent == {"opt_in", "gate", "lock", "load", "created_event", "find_charge",
            "put_charge"}

\* The charge id a request may mint is unused until it does.
UnusedOK ==
  \A s \in Sessions :
    /\ \A k \in ChargeIds : k > issued => charges[s][k] = NoCharge
    /\ \A c \in Clients : pc[c] \in Unspent => charges[s][serial[c]] = NoCharge

\* A charge that moved money is the one its intent names, or will name once
\* the handler that put it has stored the intent.
LiveOK ==
  \A s \in Sessions, id \in IntentIds : \A k \in LiveCharges(s, id) :
    \/ Stored(s, id) /\ intents[s][id].latest_charge = k
    \/ \E c \in Clients : RecordedFor(c, s, id) /\ pi[c].latest_charge = k

\* What a response is built from: the charge a copied intent names is there
\* to be looked up, and not behind it.
Backs(charge, id, intent) ==
  /\ charge # NoCharge
  /\ charge.payment_intent = id
  /\ intent.status = "succeeded" => charge.captured

ReadOK(c) ==
  /\ pc[c] \in {"expand", "respond"}
  /\ reply[c] = "intent"
  => /\ pi[c] \in Intents
     /\ pi[c].latest_charge # Null =>
          Backs(charges[session(c)][pi[c].latest_charge], target[c], pi[c])
     /\ pc[c] = "respond" /\ Expands(c, pi[c]) =>
          Backs(ch[c], target[c], pi[c])

ReadsOK == \A c \in Clients : ReadOK(c)

IssuedOK == \A c \in Clients : pc[c] # "idle" => rq[c] \in Workload

\* The inductive invariant behind the properties of charges: at every moment
\* the stored intents, the copies about to be stored and the copies about to be
\* answered agree with the charges, whichever of the two writes of a
\* transition is still to come.
ChargeInv ==
  /\ IssuedOK
  /\ LifecycleFieldsFollowStatus
  /\ StoredChargesOK
  /\ CopyChargesOK
  /\ UnusedOK
  /\ LiveOK
  /\ ReadsOK

-----------------------------------------------------------------------------
(* Events                                                                  *)

\* The queue of s holds the event of charge k of intent id.
ChargeReported(s, id, k) ==
  \E i \in DOMAIN events[s] : events[s][i].intent = id /\ events[s][i].charge = k

\* It holds the charge.succeeded of the authorization of charge k.
AuthorizationReported(s, k) ==
  \E i \in DOMAIN events[s] : /\ events[s][i].type = "charge.succeeded"
                              /\ events[s][i].charge = k
                              /\ ~events[s][i].object.captured

\* What a handler that has enqueued the event of its charge relies on.  An
\* update enqueues nothing.
ReportedOK(c) ==
  /\ pc[c] = "intent_event" => rq[c].op # "update"
  /\ pc[c] \in {"intent_event", "store"} /\ Recorded(c) =>
       /\ ChargeReported(session(c), target[c], pi[c].latest_charge)
       /\ pi[c].status = "requires_capture" =>
            AuthorizationReported(session(c), pi[c].latest_charge)

\* An authorized intent has announced its authorization.
AuthorizedOK ==
  \A s \in Sessions, id \in IntentIds :
    Stored(s, id) /\ intents[s][id].status = "requires_capture" =>
      AuthorizationReported(s, intents[s][id].latest_charge)

\* A reported settlement is stored, or about to be by the handler that
\* reported it.
SettlementOK ==
  \A s \in Sessions : \A i \in DOMAIN events[s] :
    LET id == events[s][i].intent
        settled(labels) ==
          \/ intents[s][id] # NoIntent /\ intents[s][id].status = "succeeded"
          \/ \E c \in Clients : /\ pc[c] \in labels
                                /\ RecordedFor(c, s, id)
                                /\ pi[c].status = "succeeded"
    IN  /\ events[s][i].type = "payment_intent.succeeded" => settled({"store"})
        /\ events[s][i].type = "charge.captured" =>
             settled({"intent_event", "store"})

\* c has enqueued the event of the status it is about to store.
Announced(c) ==
  /\ pc[c] = "store"
  /\ rq[c].op # "update"
  /\ intentEventType(pi[c]) # Null

Waiting == {"requires_payment_method", "requires_confirmation"}

\* The last status event of (s, id), if there is one, tells `status`.
Tells(s, id, status) ==
  \E i \in StatusEvents(s, id) :
    /\ \A j \in StatusEvents(s, id) : j =< i
    /\ \/ events[s][i].object.status = status
       \/ {events[s][i].object.status, status} \subseteq Waiting

\* The queue is ahead of the store by at most the transition being stored.
QueueOK ==
  \A s \in Sessions, id \in IntentIds :
    /\ \A c \in Clients : Announced(c) /\ session(c) = s /\ target[c] = id =>
         Tells(s, id, pi[c].status)
    /\ (~\E c \in Clients : Announced(c) /\ session(c) = s /\ target[c] = id) =>
         IF StatusEvents(s, id) = {}
           THEN Stored(s, id) => intents[s][id].status \in Waiting
           ELSE Stored(s, id) /\ Tells(s, id, intents[s][id].status)

\* The inductive invariant behind the properties of events: the queue is never
\* behind the store, and ahead of it by no more than what the handlers in the
\* middle of a transition are about to store.
EventInv ==
  /\ \A c \in Clients : ReportedOK(c)
  /\ AuthorizedOK
  /\ SettlementOK
  /\ QueueOK
  /\ SettledAtMostOnce
  /\ CaptureFollowsAuthorization
  /\ ChargeEventFirst

-----------------------------------------------------------------------------
(* Amounts                                                                 *)

\* No update the clients send changes an amount.
AmountsFixed == \A r \in Workload : r.op = "update" => r.params.amount = Null

\* The events that tell of the success of charge k.
Successes(s, k) == {i \in DOMAIN events[s] : /\ events[s][i].type = "charge.succeeded"
                                             /\ events[s][i].charge = k}

\* The events of a charge that was there to tell of.
ToldOK ==
  \A s \in Sessions : \A i \in DOMAIN events[s] :
    events[s][i].charge # Null => charges[s][events[s][i].charge] # NoCharge

\* Of the charge c has minted nothing is told but what c tells.
MintedOK(c) ==
  Recorded(c) /\ rq[c].op # "capture" =>
    \A i \in DOMAIN events[session(c)] :
      events[session(c)][i].charge = pi[c].latest_charge =>
        /\ pc[c] # "charge_event"
        /\ events[session(c)][i].object.amount = pi[c].amount

\* What is capturable of an intent is what the success of its charge told of,
\* also when the amount has been changed since.
Covered(s, intent) ==
  intent.status = "requires_capture" =>
    \A i \in Successes(s, intent.latest_charge) :
      /\ intent.amount_capturable = events[s][i].object.amount
      /\ AmountsFixed => intent.amount = events[s][i].object.amount

\* What the capture told of by event j takes is within that, or is the whole
\* amount.
CaptureCovered(s, j) ==
  LET capture == events[s][j].object IN
  \A i \in Successes(s, events[s][j].charge) :
    LET authorized == events[s][i].object.amount IN
    /\ \/ capture.amount_captured =< authorized
       \/ capture.amount_captured = capture.amount
    /\ AmountsFixed => capture.amount_captured =< authorized

\* The inductive invariant behind the amounts the webhooks tell of: the success
\* of a charge is told by the handler that minted it and nobody else, and what
\* it told of binds every later capture.
AmountInv ==
  /\ ToldOK
  /\ \A c \in Clients : MintedOK(c)
  /\ \A s \in Sessions, id \in IntentIds :
       Stored(s, id) => Covered(s, intents[s][id])
  /\ \A s \in Sessions : \A j \in DOMAIN events[s] :
       events[s][j].type = "charge.captured" => CaptureCovered(s, j)
=============================================================================
