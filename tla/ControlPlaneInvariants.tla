----------------------- MODULE ControlPlaneInvariants -----------------------
(***************************************************************************)
(* Inductive strengthenings of the properties of ControlPlane.  IInv of    *)
(* PaymentIntentServer is none: a reset or a seed in the middle of a       *)
(* request makes the handler's copy stale.                                 *)
(***************************************************************************)
EXTENDS ControlPlane

-----------------------------------------------------------------------------
(* What reset, opt-in and seed promise                                     *)

Known == ForeignIds \cup 1 .. issued

\* Ids a client may come by, in a response, a listing or a webhook, are
\* foreign or have been minted.
IdsAreKnown ==
  /\ \A s \in Sessions, id \in IntentIds : Stored(s, id) => id \in Known
  /\ \A s \in Sessions : \A i \in DOMAIN events[s] : events[s][i].intent \in Known
  /\ \A s \in Sessions :
       \A i \in DOMAIN delivered[s] : delivered[s][i].intent \in Known

\* What a control request carries from its first store operation to its
\* second.
TesterOK(t) ==
  /\ tpc[t] = "enable" => tarticle[t] \in Seeds
  /\ tpc[t] = "enqueue" =>
       /\ tarticle[t] \in [session : Sessions, event : Events]
       /\ tarticle[t].event.intent \in Known
       /\ tarticle[t].event.charge = Null

\* id is not minted for a request issued before the last reset of s.
Fresh(s, id) == id \in Serials => id > resetAt[s]

\* A request and an emit of s are of the example that runs now.
RequestFresh(c, s) ==
  (pc[c] # "idle" /\ session(c) = s) =>
    /\ serial[c] > resetAt[s]
    /\ rq[c].op # "retrieve_charge" => Fresh(s, target[c])
    /\ (pc[c] = "charge_event" \/ (pc[c] = "put_charge" /\ ch[c] # NoCharge)) =>
         Fresh(s, pi[c].latest_charge)

EmitFresh(t, s) ==
  (tpc[t] = "enqueue" /\ tarticle[t].session = s) => Fresh(s, tarticle[t].event.intent)

\* What makes a quiet reset isolate: not only the store but all that is on its
\* way there, in requests, in emits and in the webhooks a client may act on,
\* is of the example that runs now.
QuietOK(s) ==
  /\ IsolatedByReset(s)
  /\ \A i \in DOMAIN delivered[s] : Fresh(s, delivered[s][i].intent)
  /\ \A c \in Clients : RequestFresh(c, s)
  /\ \A t \in Testers : EmitFresh(t, s)

ResetInv ==
  \A s \in Sessions : /\ resetAt[s] =< issued
                      /\ quiet[s] => QuietOK(s)

\* A session nobody asked statefulness of is not about to store anything.
UnaskedInv ==
  \A s \in Sessions : (quiet[s] /\ ~asked[s]) =>
    /\ \A c \in Clients : (pc[c] # "idle" /\ session(c) = s) =>
         pc[c] \in {"opt_in", "gate", "respond"}
    /\ \A t \in Testers : tpc[t] # "idle" => tarticle[t].session # s

\* The inductive invariant behind what reset, opt-in and seed promise: it
\* follows an example's ids and seeds through everything on its way to the
\* store, handlers' copies, emits and webhooks, while control requests fall
\* between any two store operations.
ControlInv ==
  /\ ControlTypeOK
  /\ \A c \in Clients : HandlerOK(c)
  /\ \A t \in Testers : TesterOK(t)
  /\ IdsAreKnown
  /\ ResetInv
  /\ NotAskedNothingStored /\ UnaskedInv
  /\ SeedsGovern
  /\ \A s \in Sessions, id \in IntentIds : seeded[s][id] # NoIntent => id \in ForeignIds

-----------------------------------------------------------------------------
(* What is left of the lock's promise                                      *)

\* c serves a create that has not stored its intent.
Minting(c) ==
  /\ pc[c] \in {"opt_in", "gate"} \cup Building
  /\ rq[c].op = "create"

\* While clients act only on ids they were shown, the id of a create is known
\* to no other request until the intent is stored.  (From then on a listing
\* shows it, before the create is answered.)
MintedOK ==
  \A c \in Clients : Minting(c) =>
    /\ \A d \in Clients : d # c /\ pc[d] # "idle" => target[d] # target[c]
    /\ \A s \in Sessions : ~Stored(s, target[c])

\* Statuses of an intent that has been charged for good, or never will be.
Final == {"requires_capture", "succeeded", "canceled"}

\* What a handler is about to store, beside what is stored: its request was
\* accepted for the intent that is there, unless a reset has removed it.
CopyOK(c) ==
  LET op     == rq[c].op
      stored == intents[session(c)][target[c]]
  IN  pc[c] \in Building =>
        /\ pc[c] \in {"find_charge", "put_charge", "charge_event"} =>
             op \in {"create", "confirm", "capture"}
        /\ op = "capture" => pi[c].status = "succeeded"
        /\ op = "cancel"  => pi[c].status = "canceled"
        /\ stored # NoIntent =>
             /\ op = "confirm" => stored.status \notin Final
             /\ op = "capture" => stored.status = "requires_capture"
             /\ op = "cancel"  => stored.status \notin {"succeeded", "canceled"}
             /\ op = "update" /\ stored.status \in Final =>
                  pi[c].status = stored.status

\* (s, id) is in one of these statuses, or about to be, by a handler that has
\* announced its charge.
Reaches(s, id, statuses) ==
  \/ intents[s][id] # NoIntent /\ intents[s][id].status \in statuses
  \/ \E c \in Clients : /\ pc[c] \in {"intent_event", "store"}
                        /\ session(c) = s /\ target[c] = id
                        /\ pi[c].status \in statuses

\* A webhook of a charge, queued or delivered, tells the truth for good.
ToldOK ==
  \A s \in Sessions : \A i \in DOMAIN Webhooks(s) :
    LET told == Webhooks(s)[i] IN
    /\ told.type = "charge.succeeded" => Reaches(s, told.intent, Final)
    /\ told.type = "charge.captured"  => Reaches(s, told.intent, {"succeeded"})

\* An emit that is on its way says nothing of a charge.
EmitsOK ==
  \A t \in Testers : tpc[t] = "enqueue" =>
    tarticle[t].event.type \notin {"charge.succeeded", "charge.captured"}

\* The inductive invariant, beside ControlInv, behind WebhooksSettleOnce:
\* resets and drains in the middle of requests take nothing from what the lock
\* and the private ids of creates give.
SettleInv ==
  /\ LockOK
  /\ MintedOK
  /\ \A c \in Clients : CopyOK(c)
  /\ ToldOK
  /\ EmitsOK
  /\ WebhooksSettleOnce

-----------------------------------------------------------------------------
(* How an intent has ended                                                 *)

\* (s, id) has ended with this status, or a handler is about to store that.
EndsAs(s, id, status) ==
  \/ intents[s][id] # NoIntent /\ intents[s][id].status = status
  \/ \E c \in Clients : /\ pc[c] \in Building
                        /\ session(c) = s /\ target[c] = id
                        /\ pi[c].status = status

\* What the event of an intent of s shows of its end is true.
ShowsTrueEnd(s, event) ==
  event.charge = Null /\ event.object.status \in {"succeeded", "canceled"} =>
    EndsAs(s, event.intent, event.object.status)

\* Also what an emit has read of an end stays true until it is enqueued.
EndsShownOK ==
  \A s \in Sessions : quiet[s] =>
    /\ \A i \in DOMAIN Webhooks(s) : ShowsTrueEnd(s, Webhooks(s)[i])
    /\ \A t \in Testers : tpc[t] = "enqueue" /\ tarticle[t].session = s =>
         ShowsTrueEnd(s, tarticle[t].event)

\* The inductive invariant, beside ControlInv, behind WebhooksDoNotContradict:
\* that no request is accepted which changes an end rests on SettleInv.
EndingInv == SettleInv /\ EndsShownOK
=============================================================================
