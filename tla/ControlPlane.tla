---------------------------- MODULE ControlPlane ----------------------------
(***************************************************************************)
(* The test-control plane of server/control.go (/v1/_mock/...) beside the  *)
(* requests of PaymentIntentServer.  Control requests never take           *)
(* statefulActionMu, so they fall between any two store operations of a    *)
(* handler.  reset, config and the event drain are one store operation;    *)
(* seed and emit are two, served on a connection of their own.             *)
(***************************************************************************)
EXTENDS PaymentIntentServer

CONSTANTS
  Testers,      \* control connections
  Seeds,        \* the PaymentIntents a test may seed
  EmitTypes,    \* event types a test may name in an emit
  MaxControls,  \* bound: control requests issued in a behaviour
  EarlyIds      \* clients may act on ids they learn from a delivered webhook

ASSUME SeedsAssumption ==
  Seeds \subseteq [session : Sessions, id : ForeignIds, intent : Intents]
ASSUME ControlAssumption ==
  MaxControls \in Nat /\ EarlyIds \in BOOLEAN /\ EmitTypes \subseteq EventTypes

VARIABLES
  tpc,        \* tpc[t]: "idle", "enable" (seeding) or "enqueue" (emitting)
  tarticle,   \* tarticle[t]: the seed stored, or the event built
  controls,   \* number of control requests so far
  \* History, for the properties only.
  delivered,  \* delivered[s]: events drained since the last reset
  resetAt,    \* resetAt[s]: requests issued when s was last reset
  quiet,      \* quiet[s]: every reset of s found no request of s in progress
  asked,      \* asked[s]: since the last reset, s was opted in or seeded
  seeded      \* seeded[s][id]: the seed under id that no request has replaced
              \* yet, unless one had already read the intent before the seed

cvars   == <<tpc, tarticle, controls, delivered, resetAt, quiet, asked, seeded>>
handlers == <<lock, issued, pc, rq, serial, target, pi, ch, reply>>
allvars == <<vars, cvars>>

Articles == Seeds \cup [session : Sessions, event : Events]

ControlTypeOK ==
  /\ TypeOK
  /\ tpc \in [Testers -> {"idle", "enable", "enqueue"}]
  /\ tarticle \in [Testers -> Articles \cup {Null}]
  /\ controls \in 0 .. MaxControls
  /\ delivered \in [Sessions -> Seq(Events)]
  /\ resetAt \in [Sessions -> 0 .. MaxRequests]
  /\ quiet \in [Sessions -> BOOLEAN]
  /\ asked \in [Sessions -> BOOLEAN]
  /\ seeded \in [Sessions -> [IntentIds -> Intents \cup {NoIntent}]]

ControlInit ==
  /\ Init
  /\ tpc = [t \in Testers |-> "idle"]
  /\ tarticle = [t \in Testers |-> Null]
  /\ controls = 0
  /\ delivered = [s \in Sessions |-> <<>>]
  /\ resetAt = [s \in Sessions |-> 0]
  /\ quiet = [s \in Sessions |-> TRUE]
  /\ asked = [s \in Sessions |-> FALSE]
  /\ seeded = [s \in Sessions |-> [id \in IntentIds |-> NoIntent]]

\* Some request or two-step control request of s has not been answered.
Busy(s) ==
  \/ \E c \in Clients : pc[c] # "idle" /\ session(c) = s
  \/ \E t \in Testers : tpc[t] # "idle" /\ tarticle[t].session = s

Control == controls < MaxControls /\ controls' = controls + 1

-----------------------------------------------------------------------------
(* Requests of one store operation                                         *)

\* Clears the intents and the queue but not the charges.
SlipReset(s) ==
  /\ Control
  /\ intents' = [intents EXCEPT ![s] = [id \in IntentIds |-> NoIntent]]
  /\ events'  = [events EXCEPT ![s] = <<>>]
  /\ enabled' = [enabled EXCEPT ![s] = FALSE]
  /\ delivered' = [delivered EXCEPT ![s] = <<>>]
  /\ resetAt' = [resetAt EXCEPT ![s] = issued]
  /\ quiet'   = [quiet EXCEPT ![s] = @ /\ ~Busy(s)]
  /\ asked'   = [asked EXCEPT ![s] = FALSE]
  /\ seeded'  = [seeded EXCEPT ![s] = [id \in IntentIds |-> NoIntent]]
  /\ UNCHANGED <<charges, handlers, tpc, tarticle>>

\* delete(s.sessions, sessionID): a session that is absent reads as an empty
\* one that has not opted in.
Reset(s) ==
  /\ Control
  /\ intents' = [intents EXCEPT ![s] = [id \in IntentIds |-> NoIntent]]
  /\ charges' = [charges EXCEPT ![s] = [id \in ChargeIds |-> NoCharge]]
  /\ events'  = [events EXCEPT ![s] = <<>>]
  /\ enabled' = [enabled EXCEPT ![s] = FALSE]
  /\ delivered' = [delivered EXCEPT ![s] = <<>>]
  /\ resetAt' = [resetAt EXCEPT ![s] = issued]
  /\ quiet'   = [quiet EXCEPT ![s] = @ /\ ~Busy(s)]
  /\ asked'   = [asked EXCEPT ![s] = FALSE]
  /\ seeded'  = [seeded EXCEPT ![s] = [id \in IntentIds |-> NoIntent]]
  /\ UNCHANGED <<handlers, tpc, tarticle>>

\* Turns the layer on whatever the body says.
SlipConfig(s, on) ==
  /\ Control
  /\ enabled' = [enabled EXCEPT ![s] = TRUE]
  /\ asked'   = [asked EXCEPT ![s] = @ \/ on]
  /\ UNCHANGED <<intents, charges, events, handlers, tpc, tarticle, delivered,
                 resetAt, quiet, seeded>>

\* The body's flag, true when the body omits it.
Config(s, on) ==
  /\ Control
  /\ enabled' = [enabled EXCEPT ![s] = on]
  /\ asked'   = [asked EXCEPT ![s] = @ \/ on]
  /\ UNCHANGED <<intents, charges, events, handlers, tpc, tarticle, delivered,
                 resetAt, quiet, seeded>>

\* Hands the queue over but keeps it.
SlipDrainEvents(s) ==
  /\ Control
  /\ delivered' = [delivered EXCEPT ![s] = @ \o events[s]]
  /\ UNCHANGED <<store, handlers, tpc, tarticle, resetAt, quiet, asked,
                 seeded>>

DrainEvents(s) ==
  /\ Control
  /\ delivered' = [delivered EXCEPT ![s] = @ \o events[s]]
  /\ events'    = [events EXCEPT ![s] = <<>>]
  /\ UNCHANGED <<enabled, intents, charges, handlers, tpc, tarticle, resetAt,
                 quiet, asked, seeded>>

-----------------------------------------------------------------------------
(* Seeding: the object first, the opt-in after it                          *)

SeedPut(t, seed) ==
  /\ Control
  /\ tpc[t] = "idle"
  /\ intents' = [intents EXCEPT ![seed.session][seed.id] = seed.intent]
  /\ asked' = [asked EXCEPT ![seed.session] = TRUE]
  /\ seeded' = [seeded EXCEPT ![seed.session][seed.id] =
       IF \E c \in Clients : Writing(c, seed.session, seed.id)
       THEN NoIntent ELSE seed.intent]
  /\ tpc' = [tpc EXCEPT ![t] = "enable"]
  /\ tarticle' = [tarticle EXCEPT ![t] = seed]
  /\ UNCHANGED <<enabled, charges, events, handlers, delivered, resetAt, quiet>>

SeedEnable(t) ==
  /\ tpc[t] = "enable"
  /\ enabled' = [enabled EXCEPT ![tarticle[t].session] = TRUE]
  /\ tpc' = [tpc EXCEPT ![t] = "idle"]
  /\ tarticle' = [tarticle EXCEPT ![t] = Null]
  /\ UNCHANGED <<intents, charges, events, handlers, controls, delivered,
                 resetAt, quiet, asked, seeded>>

-----------------------------------------------------------------------------
(* Emitting: the intent is read, and its event enqueued after that         *)

eventTypeForPaymentIntentStatus(status) ==
  CASE status = "succeeded"       -> "payment_intent.succeeded"
    [] status = "requires_action" -> "payment_intent.requires_action"
    [] status = "requires_payment_method" -> "payment_intent.payment_failed"
    [] status = "requires_capture" ->
         "payment_intent.amount_capturable_updated"
    [] status = "processing"      -> "payment_intent.processing"
    [] status = "canceled"        -> "payment_intent.canceled"
    [] OTHER                      -> "payment_intent.created"

\* The type the test names, or the one derived from the status.  An unknown id
\* is answered 404 and changes nothing.
EmitRead(t, s, id) ==
  /\ Control
  /\ tpc[t] = "idle"
  /\ Stored(s, id)
  /\ tpc' = [tpc EXCEPT ![t] = "enqueue"]
  /\ \E type \in EmitTypes
                 \cup {eventTypeForPaymentIntentStatus(intents[s][id].status)} :
       tarticle' = [tarticle EXCEPT ![t] =
         [session |-> s,
          event |-> [type |-> type, intent |-> id, charge |-> Null,
                     object |-> intents[s][id]]]]
  /\ UNCHANGED <<vars, delivered, resetAt, quiet, asked, seeded>>

EmitEnqueue(t) ==
  /\ tpc[t] = "enqueue"
  /\ Enqueue(tarticle[t].session, tarticle[t].event)
  /\ tpc' = [tpc EXCEPT ![t] = "idle"]
  /\ tarticle' = [tarticle EXCEPT ![t] = Null]
  /\ UNCHANGED <<enabled, intents, charges, handlers, controls, delivered,
                 resetAt, quiet, asked, seeded>>

-----------------------------------------------------------------------------
(* A client may also act on an intent it has heard of through a webhook,   *)
(* or that GET payment_intents lists: that endpoint is there to let a test *)
(* drive the next transition of what the app created or adopted.           *)

IssueOnDelivered(c) ==
  /\ EarlyIds
  /\ \E r \in Workload :
       /\ r.op \in ActionOps
       /\ \E i \in DOMAIN delivered[r.session] :
            Issue(c, r, delivered[r.session][i].intent)

IssueOnListed(c) ==
  \E r \in Workload : \E id \in IntentIds :
    r.op \in ActionOps /\ Stored(r.session, id) /\ Issue(c, r, id)

\* The steps of PaymentIntentServer; an opt-in header asks for statefulness.
ServerStep ==
  \E c \in Clients :
    /\ \/ Arrive(c) \/ IssueOnDelivered(c) \/ IssueOnListed(c)
       \/ AcquireLock(c) \/ Handle(c)
    /\ asked' = [s \in Sessions |->
                   asked[s] \/ (pc[c] = "opt_in" /\ session(c) = s)]
    /\ seeded' = IF pc[c] = "store"
                   THEN [seeded EXCEPT ![session(c)][target[c]] = NoIntent]
                   ELSE seeded
    /\ UNCHANGED <<tpc, tarticle, controls, delivered, resetAt, quiet>>

ControlStep ==
  \/ \E s \in Sessions : \/ Reset(s) \/ DrainEvents(s)
                         \/ \E on \in BOOLEAN : Config(s, on)
  \/ \E t \in Testers : \/ SeedEnable(t) \/ EmitEnqueue(t)
                        \/ \E seed \in Seeds : SeedPut(t, seed)
                        \/ \E s \in Sessions, id \in IntentIds : EmitRead(t, s, id)

ControlDone ==
  /\ issued = MaxRequests
  /\ \A c \in Clients : pc[c] = "idle"
  /\ \A t \in Testers : tpc[t] = "idle"
  /\ controls = MaxControls
  /\ UNCHANGED allvars

ControlNext == ServerStep \/ ControlStep \/ ControlDone
ControlSpec == ControlInit /\ [][ControlNext]_allvars

-----------------------------------------------------------------------------
(* Properties                                                              *)

\* The webhooks of s since its last reset, delivered or still queued.
Webhooks(s) == delivered[s] \o events[s]

\* Nothing minted for a request issued before the last reset of s is in s.
IsolatedByReset(s) ==
  LET fresh(id) == id \in Serials => id > resetAt[s]
  IN  /\ \A id \in IntentIds : Stored(s, id) => fresh(id)
      /\ \A id \in ChargeIds : charges[s][id] # NoCharge => fresh(id)
      /\ \A i \in DOMAIN events[s] : /\ fresh(events[s][i].intent)
                                     /\ fresh(events[s][i].charge)

\* reset keeps test examples isolated as long as no request of the session is
\* in progress when it runs: intents, charges and events of the example before
\* never show up in the one after.  (A request in progress goes on writing:
\* the first write makes the session anew, and what the request stores
\* survives the reset.)
QuietResetIsolates == \A s \in Sessions : quiet[s] => IsolatedByReset(s)

\* A session that was not opted in or seeded since its reset keeps no state:
\* its requests are served as by the generic, stateless mock, even when
\* config turns the layer off and on around them.
NotAskedNothingStored ==
  \A s \in Sessions : (quiet[s] /\ ~asked[s]) =>
    /\ ~enabled[s]
    /\ \A id \in IntentIds : ~Stored(s, id)
    /\ \A id \in ChargeIds : charges[s][id] = NoCharge
    /\ events[s] = <<>>

\* A seed is what the session's requests find: a seed put while no request of
\* its id is between reading and storing the intent is what a retrieve or a
\* listing shows, whatever is refused, emitted or configured meanwhile, until
\* an action is accepted, and accepted for what was seeded.  (seed takes no
\* lock, so an action that has read the intent before stores over it.)
SeedsGovern ==
  \A s \in Sessions, id \in IntentIds :
    LET seed == seeded[s][id] IN
    seed # NoIntent =>
      /\ intents[s][id] = seed
      /\ \A c \in Clients : Writing(c, s, id) =>
           /\ Accepts(rq[c].op, seed, params(c))
           /\ SameButCharge(pi[c], Apply(rq[c].op, seed, params(c)))

\* Over any number of drains, emits and resets an intent is charged once and
\* captured once: the test is never handed a second charge.succeeded or a
\* second charge.captured of an intent.  (The lock of
\* maybeHandleStatefulRequest is there because requests "could both pass the
\* status check and settle twice"; a seed may rewind an intent, so the runs
\* that check this seed none.)
WebhooksSettleOnce ==
  \A s \in Sessions : \A i, j \in DOMAIN Webhooks(s) :
    /\ Webhooks(s)[i].type \in {"charge.succeeded", "charge.captured"}
    /\ Webhooks(s)[j].type = Webhooks(s)[i].type
    /\ Webhooks(s)[j].intent = Webhooks(s)[i].intent
    => i = j

\* However late an emit enqueues what it has read, no two webhooks of an intent
\* show it settled in two ways: one webhook with a terminal status is enough
\* for a test to know how the intent ended.  (An emit in progress during a
\* reset shows what the reset has removed.)
WebhooksDoNotContradict ==
  \A s \in Sessions : quiet[s] =>
    \A i, j \in DOMAIN Webhooks(s) :
      LET one == Webhooks(s)[i]  other == Webhooks(s)[j] IN
      /\ one.intent = other.intent
      /\ one.charge = Null /\ other.charge = Null
      /\ {one.object.status, other.object.status} \subseteq {"succeeded", "canceled"}
      => one.object.status = other.object.status
=============================================================================
