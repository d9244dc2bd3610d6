------------------------- MODULE ControlPlane_proofs -------------------------
(***************************************************************************)
(* Theorems about ControlPlane, for every set of clients, testers, seeds   *)
(* and ids and every number of requests and control requests: control      *)
(* requests fall between any two store operations of any handler.          *)
(*                                                                         *)
(* IInv does not carry over.  A reset or a seed makes a handler's copy     *)
(* stale, so what is proved of an intent here rests on ControlInv, and of  *)
(* PaymentIntentServer_proofs only the lemmas about types are used.        *)
(***************************************************************************)
EXTENDS ControlPlaneInvariants, PaymentIntentServer_proofs

-----------------------------------------------------------------------------
(* What a step of a handler writes to the store                            *)

\* The event a handler enqueues is about the request's own intent, and about
\* no charge but the one just put.
OwnEvent(c, event) ==
  /\ event \in Events
  /\ event.intent = target[c]
  /\ \/ event.charge = Null
     \/ pc[c] = "charge_event" /\ event.charge = pi[c].latest_charge

Writes(c) ==
  /\ enabled' = [enabled EXCEPT ![session(c)] = @ \/ pc[c] = "opt_in"]
  /\ charges' = charges \/ PutCharge(c)
  /\ \/ events' = events
     \/ /\ pc[c] \in {"created_event", "charge_event", "intent_event"}
        /\ \E event \in Events :
             /\ OwnEvent(c, event)
             /\ events' = [events EXCEPT ![session(c)] = Append(@, event)]

LEMMA HandleWrites ==
  ASSUME TypeOK, HandlersOK, NEW c \in Clients, Handle(c) \/ AcquireLock(c)
  PROVE  Writes(c)
<1>1. pc[c] # "idle" /\ ServingFacts(c)
  BY HandleEffect, Serving DEF Effect
<1>2. /\ pc[c] = "opt_in" => [enabled EXCEPT ![session(c)] = TRUE]
                               = [enabled EXCEPT ![session(c)] = @ \/ pc[c] = "opt_in"]
      /\ pc[c] # "opt_in" => enabled = [enabled EXCEPT ![session(c)] = @ \/ pc[c] = "opt_in"]
  BY <1>1 DEF ServingFacts, TypeOK
<1>3. target[c] \in IntentIds
  BY <1>1 DEF ServingFacts
<1>4. CASE OptIn(c)
  BY <1>2, <1>4 DEF OptIn, Goto, Answer, store, Writes
<1>5. CASE FallThrough(c)
  BY <1>2, <1>5 DEF FallThrough, Goto, Answer, store, Writes
<1>6. CASE GateOpen(c)
  BY <1>2, <1>6 DEF GateOpen, Goto, Answer, store, Writes
<1>7. CASE RefuseCreate(c)
  BY <1>2, <1>7 DEF RefuseCreate, Goto, Answer, store, Writes
<1>8. CASE ListCharges(c)
  BY <1>2, <1>8 DEF ListCharges, Goto, Answer, store, Writes
<1>9. CASE RetrieveCharge(c)
  BY <1>2, <1>9 DEF RetrieveCharge, Goto, Answer, store, Writes
<1>10. CASE ExpandCharge(c)
  BY <1>2, <1>10 DEF ExpandCharge, Goto, Answer, store, Writes
<1>11. CASE Retrieve(c)
  BY <1>2, <1>11 DEF Retrieve, Goto, Answer, store, Writes
<1>12. CASE AcquireLock(c)
  BY <1>2, <1>12 DEF AcquireLock, Goto, Answer, store, Writes
<1>13. CASE LeaveUnsimulated(c)
  BY <1>2, <1>13 DEF LeaveUnsimulated, Goto, Answer, store, Writes
<1>14. CASE LoadAndReject(c)
  BY <1>2, <1>14 DEF LoadAndReject, Goto, Answer, store, Writes
<1>15. CASE LoadAndApply(c)
  BY <1>2, <1>15 DEF LoadAndApply, Goto, Answer, store, Writes
<1>16. CASE FindCharge(c)
  BY <1>2, <1>16 DEF FindCharge, Goto, Answer, store, Writes
<1>17. CASE PutCharge(c)
  BY <1>2, <1>17 DEF PutCharge, Goto, Answer, store, Writes
<1>18. CASE StoreIntent(c)
  BY <1>2, <1>18 DEF StoreIntent, Goto, Answer, store, Writes
<1>19. CASE Expand(c)
  BY <1>2, <1>19 DEF Expand, Goto, Answer, store, Writes
<1>20. CASE Respond(c)
  BY <1>2, <1>20 DEF Respond, Goto, Answer, store, Writes
<1>21. CASE EnqueueCreated(c)
  <2>1. pi[c] \in Intents /\ pc[c] = "created_event"
    BY <1>1, <1>21 DEF ServingFacts, CopiesOK, Building, EnqueueCreated
  <2> DEFINE event == IntentEvent(c, "payment_intent.created")
  <2>2. event \in Events /\ OwnEvent(c, event)
    BY <1>3, <2>1 DEF IntentEvent, Events, EventTypes, OwnEvent
  <2>3. QED
    BY <1>2, <1>21, <2>1, <2>2 DEF EnqueueCreated, Enqueue, Writes
<1>22. CASE EnqueueChargeEvent(c)
  <2>1. /\ pi[c] \in Intents /\ ch[c] \in Charges /\ pc[c] = "charge_event"
        /\ pi[c].latest_charge \in ChargeIds
    BY <1>1, <1>22 DEF ServingFacts, CopiesOK, Building, Recording, Locked, EnqueueChargeEvent
  <2> DEFINE event == [type   |-> chargeEventType(pi[c], rq[c].op = "capture"),
                       intent |-> target[c],
                       charge |-> pi[c].latest_charge,
                       object |-> ch[c]]
  <2>2. chargeEventType(pi[c], rq[c].op = "capture") \in EventTypes
    BY <2>1, EventTypesTyped
  <2>3. event \in Events /\ OwnEvent(c, event)
    BY <1>3, <2>1, <2>2 DEF Events, OwnEvent
  <2>4. QED
    BY <1>2, <1>22, <2>1, <2>3 DEF EnqueueChargeEvent, Enqueue, Writes
<1>23. CASE EnqueueIntentEvent(c)
  <2>1. /\ pi[c] \in Intents /\ pc[c] = "intent_event"
        /\ intentEventType(pi[c]) \in EventTypes
    BY <1>1, <1>23 DEF ServingFacts, CopiesOK, Building, Recording, Locked, EnqueueIntentEvent
  <2> DEFINE event == IntentEvent(c, intentEventType(pi[c]))
  <2>2. event \in Events /\ OwnEvent(c, event)
    BY <1>3, <2>1 DEF IntentEvent, Events, OwnEvent
  <2>3. QED
    BY <1>2, <1>23, <2>1, <2>2 DEF EnqueueIntentEvent, Enqueue, Writes
<1>24. QED
  BY <1>4, <1>5, <1>6, <1>7, <1>8, <1>9, <1>10, <1>11, <1>12, <1>13, <1>14, <1>15, <1>16, <1>17, <1>18, <1>19, <1>20, <1>21, <1>22, <1>23 DEF Handle

-----------------------------------------------------------------------------
(* Arrival                                                                 *)

\* The parts of ControlInv.
SeededAreForeign ==
  \A s \in Sessions, id \in IntentIds : seeded[s][id] # NoIntent => id \in ForeignIds

TestersOK == \A t \in Testers : TesterOK(t)

LEMMA ControlParts ==
  ControlInv <=> /\ ControlTypeOK /\ HandlersOK /\ TestersOK
                 /\ IdsAreKnown
                 /\ ResetInv
                 /\ NotAskedNothingStored /\ UnaskedInv
                 /\ SeedsGovern /\ SeededAreForeign
BY DEF ControlInv, HandlersOK, TestersOK, SeededAreForeign

\* A request that may arrive: it is about an id that has been minted or is
\* foreign, and one no older than the last reset if that was quiet.
Arrives(c, r, id) ==
  /\ Issue(c, r, id)
  /\ r.op = "create" => id = issued + 1
  /\ r.op = "retrieve_charge" => id \in ChargeIds
  /\ quiet[r.session] /\ r.op # "retrieve_charge" => Fresh(r.session, id)

\* What a client of s has been shown of s.
LEMMA ShownIsFresh ==
  ASSUME ControlInv, NEW s \in Sessions, NEW id \in IntentIds,
         \/ Stored(s, id)
         \/ id \in ForeignIds
         \/ \E i \in DOMAIN delivered[s] : id = delivered[s][i].intent
  PROVE  id \in Known /\ (quiet[s] => Fresh(s, id))
<1>1. CASE Stored(s, id)
  BY <1>1, ControlParts DEF IdsAreKnown, ResetInv, QuietOK, IsolatedByReset, Fresh
<1>2. CASE id \in ForeignIds
  BY <1>2, DistinguishedValues DEF Known, Fresh
<1>3. CASE \E i \in DOMAIN delivered[s] : id = delivered[s][i].intent
  BY <1>3, ControlParts DEF IdsAreKnown, ResetInv, QuietOK
<1>4. QED
  BY <1>1, <1>2, <1>3

LEMMA ControlArrival ==
  ASSUME ControlInv, NEW c \in Clients,
         Arrive(c) \/ IssueOnDelivered(c) \/ IssueOnListed(c)
  PROVE  \E r \in Requests : \E id \in Known \cup {issued + 1} : Arrives(c, r, id)
<1>1. /\ ControlTypeOK /\ TypeOK /\ issued \in Nat
      /\ \A s \in Sessions : resetAt[s] \in Nat /\ resetAt[s] =< issued
  BY ControlParts DEF ControlTypeOK, TypeOK, ResetInv
<1>2. \A r \in Workload : r \in Requests /\ r.session \in Sessions
  BY WorkloadAssumption DEF Requests
<1>3. Answered \subseteq Known \cap ChargeIds /\ ChargeIds \subseteq IntentIds
  BY <1>1, BoundsAssumption
     DEF Answered, Known, TypeOK, ChargeIds, Serials, IntentIds
<1>4. CASE IssueCreate(c)
  <2>1. PICK r \in Workload : r.op = "create" /\ Issue(c, r, issued + 1)
    BY <1>4 DEF IssueCreate
  <2>2. Fresh(r.session, issued + 1)
    BY <1>1, <1>2 DEF Fresh
  <2>3. QED
    BY <1>2, <2>1, <2>2 DEF Arrives
<1>5. CASE IssueOnIntent(c)
  <2>1. PICK r \in Workload : \E id \in KnownIntents(r.session) :
          /\ r.op \in ActionOps \cup {"retrieve", "list_charges", "other"}
          /\ Issue(c, r, id)
    BY <1>5 DEF IssueOnIntent
  <2>2. PICK id \in KnownIntents(r.session) :
          /\ r.op \in ActionOps \cup {"retrieve", "list_charges", "other"}
          /\ Issue(c, r, id)
    BY <2>1
  <2>3. /\ id \in IntentIds
        /\ id \in ForeignIds \/ Stored(r.session, id)
        /\ r.op # "create" /\ r.op # "retrieve_charge"
    BY <1>3, <2>2 DEF KnownIntents, Stored, IntentIds, ActionOps
  <2>4. QED
    BY <1>2, <2>2, <2>3, ShownIsFresh DEF Arrives
<1>6. CASE IssueOnCharge(c)
  <2>1. PICK r \in Workload, id \in Answered :
          r.op = "retrieve_charge" /\ Issue(c, r, id)
    BY <1>6 DEF IssueOnCharge
  <2>2. QED
    BY <1>2, <1>3, <2>1 DEF Arrives
<1>7. CASE IssueOnDelivered(c)
  <2>1. PICK r \in Workload : r.op \in ActionOps /\
          \E i \in DOMAIN delivered[r.session] :
            Issue(c, r, delivered[r.session][i].intent)
    BY <1>7 DEF IssueOnDelivered
  <2>2. PICK i \in DOMAIN delivered[r.session] :
          Issue(c, r, delivered[r.session][i].intent)
    BY <2>1
  <2>3. delivered[r.session] \in Seq(Events) /\ r \in Requests /\ r.session \in Sessions
    BY <1>1, <1>2 DEF ControlTypeOK
  <2>4. delivered[r.session][i] \in Events
    BY <2>2, <2>3
  <2>5. PICK id \in IntentIds : id = delivered[r.session][i].intent
    BY <2>4 DEF Events
  <2>6. r.op # "create" /\ r.op # "retrieve_charge"
    BY <2>1 DEF ActionOps
  <2>7. id \in Known /\ (quiet[r.session] => Fresh(r.session, id))
    BY <2>2, <2>3, <2>5, ShownIsFresh
  <2>8. QED
    BY <2>2, <2>3, <2>5, <2>6, <2>7 DEF Arrives
<1>8. CASE IssueOnListed(c)
  <2>1. PICK r \in Workload : \E id \in IntentIds :
          r.op \in ActionOps /\ Stored(r.session, id) /\ Issue(c, r, id)
    BY <1>8 DEF IssueOnListed
  <2>2. PICK id \in IntentIds :
          r.op \in ActionOps /\ Stored(r.session, id) /\ Issue(c, r, id)
    BY <2>1
  <2>3. r.op # "create" /\ r.op # "retrieve_charge"
    BY <2>2 DEF ActionOps
  <2>4. QED
    BY <1>2, <2>2, <2>3, ShownIsFresh DEF Arrives
<1>9. QED
  BY <1>4, <1>5, <1>6, <1>7, <1>8 DEF Arrive

\* An arrival changes nothing but the variables of the client's own handler.
LEMMA ArrivesEffect ==
  ASSUME TypeOK, NEW c \in Clients, NEW r \in Requests, NEW id, Issue(c, r, id)
  PROVE  /\ OthersKeep(c)
         /\ pc[c] = "idle" /\ pc'[c] \in {"opt_in", "gate"}
         /\ rq'[c] = r /\ serial'[c] = issued + 1 /\ target'[c] = id
         /\ issued \in Nat /\ issued' = issued + 1 /\ issued + 1 \in Serials
         /\ UNCHANGED <<enabled, intents, charges, events, lock, pi, ch, reply>>
<1>1. issued \in Nat /\ issued' = issued + 1 /\ issued + 1 \in Serials
  BY BoundsAssumption DEF Issue, TypeOK, Serials
<1>2. QED
  BY <1>1 DEF Issue, Goto, TypeOK, OthersKeep

-----------------------------------------------------------------------------
(* Type correctness                                                        *)

LEMMA ServerTyped ==
  ASSUME ControlInv, NEW c \in Clients,
         \/ Arrive(c) \/ IssueOnDelivered(c) \/ IssueOnListed(c)
         \/ AcquireLock(c) \/ Handle(c)
  PROVE  TypeOK' /\ HandlersOK'
<1>1. TypeOK /\ HandlersOK
  BY ControlParts DEF ControlTypeOK
<1>2. CASE Arrive(c) \/ IssueOnDelivered(c) \/ IssueOnListed(c)
  <2>1. PICK r \in Requests : \E id \in Known \cup {issued + 1} : Arrives(c, r, id)
    BY <1>2, ControlArrival
  <2>2. PICK id \in Known \cup {issued + 1} : Arrives(c, r, id)
    BY <2>1
  <2>3. id \in ForeignIds \cup 1 .. issued + 1
    BY <1>1 DEF Known, TypeOK
  <2>4. QED
    BY <1>1, <2>2, <2>3, IssueTyped DEF Arrives
<1>3. CASE AcquireLock(c) \/ Handle(c)
  BY <1>1, <1>3, AcquireLockTyped, OptInTyped, FallThroughTyped, GateOpenTyped,
     RefuseCreateTyped, ListChargesTyped, RetrieveChargeTyped,
     ExpandChargeTyped, RetrieveTyped, LeaveUnsimulatedTyped,
     LoadAndRejectTyped, LoadAndApplyTyped, EnqueueCreatedTyped,
     FindChargeTyped, PutChargeTyped, EnqueueChargeEventTyped,
     EnqueueIntentEventTyped, StoreIntentTyped, ExpandTyped, RespondTyped
     DEF Handle
<1>4. QED
  BY <1>2, <1>3

LEMMA ServerStepTyped ==
  ASSUME ControlInv, ServerStep
  PROVE  ControlTypeOK' /\ HandlersOK' /\ TestersOK'
<1>1. PICK c \in Clients :
        /\ \/ Arrive(c) \/ IssueOnDelivered(c) \/ IssueOnListed(c)
           \/ AcquireLock(c) \/ Handle(c)
        /\ asked' = [s \in Sessions |->
                       asked[s] \/ (pc[c] = "opt_in" /\ session(c) = s)]
        /\ seeded' = IF pc[c] = "store"
                       THEN [seeded EXCEPT ![session(c)][target[c]] = NoIntent]
                       ELSE seeded
        /\ UNCHANGED <<tpc, tarticle, controls, delivered, resetAt, quiet>>
  BY DEF ServerStep
<1>2. ControlTypeOK /\ TypeOK /\ HandlersOK /\ TestersOK
  BY ControlParts DEF ControlTypeOK
<1>3. TypeOK' /\ HandlersOK'
  BY <1>1, ServerTyped
<1>4. asked' \in [Sessions -> BOOLEAN]
  BY <1>1, <1>2 DEF ControlTypeOK
<1>5. seeded' \in [Sessions -> [IntentIds -> Intents \cup {NoIntent}]]
  <2>1. CASE pc[c] = "store"
    <3>1. session(c) \in Sessions /\ target[c] \in IntentIds
      BY <1>2, <2>1, Serving DEF ServingFacts
    <3>2. QED
      BY <1>1, <1>2, <2>1, <3>1 DEF ControlTypeOK
  <2>2. CASE pc[c] # "store"
    BY <1>1, <1>2, <2>2 DEF ControlTypeOK
  <2>3. QED
    BY <2>1, <2>2
<1>6. ControlTypeOK'
  BY <1>1, <1>2, <1>3, <1>4, <1>5 DEF ControlTypeOK
<1>7. Known \subseteq Known'
  <2>1. issued \in Nat /\ issued' \in Nat /\ issued =< issued'
    <3>1. CASE Arrive(c) \/ IssueOnDelivered(c) \/ IssueOnListed(c)
      BY <1>2, <3>1, ControlArrival, ArrivesEffect DEF Arrives
    <3>2. CASE AcquireLock(c) \/ Handle(c)
      BY <1>2, <3>2, HandleEffect DEF Effect, OthersKeep
    <3>3. QED
      BY <1>1, <3>1, <3>2
  <2>2. QED
    BY <2>1 DEF Known
<1>8. TestersOK'
  BY <1>1, <1>2, <1>7 DEF TestersOK, TesterOK
<1>9. QED
  BY <1>3, <1>6, <1>8

\* A control request leaves the handlers alone.
LEMMA HandlersUntouched ==
  ASSUME HandlersOK, UNCHANGED handlers
  PROVE  HandlersOK'
BY DEF handlers, HandlersOK, HandlerOK, IdleOK, RequestOK, ControlOK, CopiesOK

LEMMA CountTyped ==
  ASSUME ControlTypeOK, Control
  PROVE  controls' \in 0 .. MaxControls
BY ControlAssumption DEF ControlTypeOK, Control

LEMMA ResetTyped ==
  ASSUME ControlInv, NEW s \in Sessions, Reset(s)
  PROVE  ControlTypeOK' /\ HandlersOK' /\ TestersOK'
<1>1. ControlTypeOK /\ TypeOK /\ HandlersOK /\ TestersOK
  BY ControlParts DEF ControlTypeOK
<1>2. HandlersOK' /\ controls' \in 0 .. MaxControls
  BY <1>1, HandlersUntouched, CountTyped DEF Reset
<1>3. /\ intents' \in [Sessions -> [IntentIds -> Intents \cup {NoIntent}]]
      /\ charges' \in [Sessions -> [ChargeIds -> Charges \cup {NoCharge}]]
      /\ seeded' \in [Sessions -> [IntentIds -> Intents \cup {NoIntent}]]
  BY <1>1 DEF Reset, TypeOK, ControlTypeOK
<1>4. /\ events' \in [Sessions -> Seq(Events)]
      /\ delivered' \in [Sessions -> Seq(Events)]
      /\ enabled' \in [Sessions -> BOOLEAN]
      /\ asked' \in [Sessions -> BOOLEAN]
      /\ quiet' \in [Sessions -> BOOLEAN]
      /\ resetAt' \in [Sessions -> 0 .. MaxRequests]
  BY <1>1 DEF Reset, TypeOK, ControlTypeOK
<1>5. ControlTypeOK'
  BY <1>1, <1>2, <1>3, <1>4 DEF Reset, handlers, TypeOK, ControlTypeOK
<1>6. TestersOK'
  BY <1>1 DEF Reset, handlers, TestersOK, TesterOK, Known
<1>7. QED
  BY <1>2, <1>5, <1>6

LEMMA ConfigTyped ==
  ASSUME ControlInv, NEW s \in Sessions, NEW on \in BOOLEAN, Config(s, on)
  PROVE  ControlTypeOK' /\ HandlersOK' /\ TestersOK'
<1>1. ControlTypeOK /\ TypeOK /\ HandlersOK /\ TestersOK
  BY ControlParts DEF ControlTypeOK
<1>2. HandlersOK' /\ controls' \in 0 .. MaxControls
  BY <1>1, HandlersUntouched, CountTyped DEF Config
<1>3. enabled' \in [Sessions -> BOOLEAN] /\ asked' \in [Sessions -> BOOLEAN]
  BY <1>1 DEF Config, TypeOK, ControlTypeOK
<1>4. ControlTypeOK'
  BY <1>1, <1>2, <1>3 DEF Config, handlers, TypeOK, ControlTypeOK
<1>5. TestersOK'
  BY <1>1 DEF Config, handlers, TestersOK, TesterOK, Known
<1>6. QED
  BY <1>2, <1>4, <1>5

LEMMA DrainTyped ==
  ASSUME ControlInv, NEW s \in Sessions, DrainEvents(s)
  PROVE  ControlTypeOK' /\ HandlersOK' /\ TestersOK'
<1>1. ControlTypeOK /\ TypeOK /\ HandlersOK /\ TestersOK
  BY ControlParts DEF ControlTypeOK
<1>2. HandlersOK' /\ controls' \in 0 .. MaxControls
  BY <1>1, HandlersUntouched, CountTyped DEF DrainEvents
<1>3. delivered[s] \o events[s] \in Seq(Events) /\ <<>> \in Seq(Events)
  BY <1>1 DEF TypeOK, ControlTypeOK
<1>4. /\ delivered' \in [Sessions -> Seq(Events)]
      /\ events' \in [Sessions -> Seq(Events)]
  BY <1>1, <1>3 DEF DrainEvents, TypeOK, ControlTypeOK
<1>5. ControlTypeOK'
  BY <1>1, <1>2, <1>4 DEF DrainEvents, handlers, TypeOK, ControlTypeOK
<1>6. TestersOK'
  BY <1>1 DEF DrainEvents, handlers, TestersOK, TesterOK, Known
<1>7. QED
  BY <1>2, <1>5, <1>6

LEMMA SeedPutTyped ==
  ASSUME ControlInv, NEW t \in Testers, NEW seed \in Seeds, SeedPut(t, seed)
  PROVE  ControlTypeOK' /\ HandlersOK' /\ TestersOK'
<1>1. ControlTypeOK /\ TypeOK /\ HandlersOK /\ TestersOK
  BY ControlParts DEF ControlTypeOK
<1>2. HandlersOK' /\ controls' \in 0 .. MaxControls
  BY <1>1, HandlersUntouched, CountTyped DEF SeedPut
<1>3. /\ seed.session \in Sessions /\ seed.id \in ForeignIds
      /\ seed.id \in IntentIds /\ seed.intent \in Intents
  BY SeedsAssumption DEF IntentIds
<1>4. /\ intents' \in [Sessions -> [IntentIds -> Intents \cup {NoIntent}]]
      /\ seeded' \in [Sessions -> [IntentIds -> Intents \cup {NoIntent}]]
      /\ asked' \in [Sessions -> BOOLEAN]
  BY <1>1, <1>3 DEF SeedPut, TypeOK, ControlTypeOK
<1>5. /\ tpc' \in [Testers -> {"idle", "enable", "enqueue"}]
      /\ tarticle' \in [Testers -> Articles \cup {Null}]
  BY <1>1 DEF SeedPut, ControlTypeOK, Articles
<1>6. ControlTypeOK'
  BY <1>1, <1>2, <1>4, <1>5 DEF SeedPut, handlers, TypeOK, ControlTypeOK
<1>7. TestersOK'
  BY <1>1 DEF SeedPut, handlers, ControlTypeOK, TestersOK, TesterOK, Known
<1>8. QED
  BY <1>2, <1>6, <1>7

LEMMA SeedEnableTyped ==
  ASSUME ControlInv, NEW t \in Testers, SeedEnable(t)
  PROVE  ControlTypeOK' /\ HandlersOK' /\ TestersOK'
<1>1. ControlTypeOK /\ TypeOK /\ HandlersOK /\ TestersOK
  BY ControlParts DEF ControlTypeOK
<1>2. HandlersOK'
  BY <1>1, HandlersUntouched DEF SeedEnable
<1>3. enabled' \in [Sessions -> BOOLEAN]
  BY <1>1 DEF SeedEnable, TypeOK
<1>4. /\ tpc' \in [Testers -> {"idle", "enable", "enqueue"}]
      /\ tarticle' \in [Testers -> Articles \cup {Null}]
  BY <1>1 DEF SeedEnable, ControlTypeOK
<1>5. ControlTypeOK'
  BY <1>1, <1>2, <1>3, <1>4 DEF SeedEnable, handlers, TypeOK, ControlTypeOK
<1>6. TestersOK'
  BY <1>1 DEF SeedEnable, handlers, ControlTypeOK, TestersOK, TesterOK, Known
<1>7. QED
  BY <1>2, <1>5, <1>6

LEMMA DerivedTypeTyped ==
  ASSUME NEW status \in Statuses
  PROVE  eventTypeForPaymentIntentStatus(status) \in EventTypes
BY DEF Statuses, eventTypeForPaymentIntentStatus, EventTypes

\* What an emit has built: the event of a stored intent, about no charge.
LEMMA EmitReadEffect ==
  ASSUME ControlInv, NEW t \in Testers, NEW s \in Sessions, NEW id \in IntentIds,
         EmitRead(t, s, id)
  PROVE  /\ \E event \in Events :
              /\ event.intent = id /\ event.charge = Null
              /\ tarticle' = [tarticle EXCEPT ![t] = [session |-> s, event |-> event]]
         /\ tpc[t] = "idle" /\ tpc' = [tpc EXCEPT ![t] = "enqueue"]
         /\ Stored(s, id) /\ Control
         /\ UNCHANGED <<vars, delivered, resetAt, quiet, asked, seeded>>
<1>1. intents[s][id] \in Intents
  BY ControlParts DEF ControlTypeOK, TypeOK, EmitRead, Stored
<1>2. eventTypeForPaymentIntentStatus(intents[s][id].status) \in EventTypes
  BY <1>1, DerivedTypeTyped DEF Intents
<1>3. PICK type \in EmitTypes
                 \cup {eventTypeForPaymentIntentStatus(intents[s][id].status)} :
        tarticle' = [tarticle EXCEPT ![t] =
          [session |-> s,
           event |-> [type |-> type, intent |-> id, charge |-> Null,
                      object |-> intents[s][id]]]]
  BY DEF EmitRead
<1>4. type \in EventTypes
  BY <1>2, <1>3, ControlAssumption
<1> DEFINE event == [type |-> type, intent |-> id, charge |-> Null,
                     object |-> intents[s][id]]
<1>5. event \in Events /\ event.intent = id /\ event.charge = Null
  BY <1>1, <1>4 DEF Events
<1>6. tarticle' = [tarticle EXCEPT ![t] = [session |-> s, event |-> event]]
  BY <1>3
<1> HIDE DEF event
<1>7. QED
  BY <1>5, <1>6 DEF EmitRead

LEMMA EmitReadTyped ==
  ASSUME ControlInv, NEW t \in Testers, NEW s \in Sessions, NEW id \in IntentIds,
         EmitRead(t, s, id)
  PROVE  ControlTypeOK' /\ HandlersOK' /\ TestersOK'
<1>1. ControlTypeOK /\ TypeOK /\ HandlersOK /\ TestersOK /\ IdsAreKnown
  BY ControlParts DEF ControlTypeOK
<1>2. PICK event \in Events :
        /\ event.intent = id /\ event.charge = Null
        /\ tarticle' = [tarticle EXCEPT ![t] = [session |-> s, event |-> event]]
  BY EmitReadEffect
<1>3. /\ tpc' = [tpc EXCEPT ![t] = "enqueue"]
      /\ Stored(s, id) /\ Control
      /\ UNCHANGED <<vars, delivered, resetAt, quiet, asked, seeded>>
  BY EmitReadEffect
<1>4. HandlersOK' /\ controls' \in 0 .. MaxControls
  BY <1>1, <1>3, HandlersUntouched, CountTyped DEF vars, handlers
<1> DEFINE article == [session |-> s, event |-> event]
<1>5. /\ article \in [session : Sessions, event : Events]
      /\ article.event.intent = id /\ article.event.charge = Null
      /\ id \in Known
      /\ tarticle' = [tarticle EXCEPT ![t] = article]
  BY <1>1, <1>2, <1>3 DEF IdsAreKnown
<1> HIDE DEF article
<1>6. /\ tpc' \in [Testers -> {"idle", "enable", "enqueue"}]
      /\ tarticle' \in [Testers -> Articles \cup {Null}]
  BY <1>1, <1>3, <1>5 DEF ControlTypeOK, Articles
<1>7. ControlTypeOK'
  BY <1>1, <1>3, <1>4, <1>6 DEF vars, TypeOK, ControlTypeOK
<1>8. TestersOK'
  BY <1>1, <1>3, <1>5 DEF vars, ControlTypeOK, TestersOK, TesterOK, Known
<1>9. QED
  BY <1>4, <1>7, <1>8

LEMMA EmitEnqueueTyped ==
  ASSUME ControlInv, NEW t \in Testers, EmitEnqueue(t)
  PROVE  ControlTypeOK' /\ HandlersOK' /\ TestersOK'
<1>1. ControlTypeOK /\ TypeOK /\ HandlersOK /\ TestersOK
  BY ControlParts DEF ControlTypeOK
<1>2. HandlersOK'
  BY <1>1, HandlersUntouched DEF EmitEnqueue
<1>3. tarticle[t].session \in Sessions /\ tarticle[t].event \in Events
  BY <1>1 DEF EmitEnqueue, TestersOK, TesterOK
<1>4. events' \in [Sessions -> Seq(Events)]
  BY <1>1, <1>3, EnqueueTyped DEF EmitEnqueue, Enqueue, TypeOK
<1>5. /\ tpc' \in [Testers -> {"idle", "enable", "enqueue"}]
      /\ tarticle' \in [Testers -> Articles \cup {Null}]
  BY <1>1 DEF EmitEnqueue, ControlTypeOK
<1>6. ControlTypeOK'
  BY <1>1, <1>2, <1>4, <1>5 DEF EmitEnqueue, handlers, TypeOK, ControlTypeOK
<1>7. TestersOK'
  BY <1>1 DEF EmitEnqueue, handlers, ControlTypeOK, TestersOK, TesterOK, Known
<1>8. QED
  BY <1>2, <1>6, <1>7

-----------------------------------------------------------------------------
(* The ids clients may come by                                             *)

\* What appending one event to a session's queue, or handing the queue over,
\* does to the events.
LEMMA AppendAt ==
  ASSUME NEW log \in [Sessions -> Seq(Events)], NEW s \in Sessions,
         NEW event \in Events, NEW r \in Sessions,
         NEW new, new = [log EXCEPT ![s] = Append(@, event)],
         NEW i \in DOMAIN new[r]
  PROVE  \/ r = s /\ new[r][i] = event
         \/ i \in DOMAIN log[r] /\ new[r][i] = log[r][i]
<1>1. CASE r # s
  BY <1>1
<1>2. CASE r = s
  <2>1. new[r] = Append(log[r], event) /\ log[r] \in Seq(Events)
    BY <1>2
  <2>2. QED
    BY <1>2, <2>1
<1>3. QED
  BY <1>1, <1>2

LEMMA HandOver ==
  ASSUME NEW p \in Seq(Events), NEW q \in Seq(Events),
         NEW new, new = p \o q, NEW i \in DOMAIN new
  PROVE  \/ i \in DOMAIN p /\ new[i] = p[i]
         \/ \E j \in DOMAIN q : new[i] = q[j]
<1>1. i \in 1 .. Len(p) + Len(q)
  OBVIOUS
<1>2. CASE i =< Len(p)
  BY <1>1, <1>2
<1>3. CASE i > Len(p)
  <2>1. i - Len(p) \in DOMAIN q /\ new[i] = q[i - Len(p)]
    BY <1>1, <1>3
  <2>2. QED
    BY <2>1
<1>4. QED
  BY <1>1, <1>2, <1>3

LEMMA NullIsFresh ==
  /\ \A s \in Sessions : Fresh(s, Null)
  /\ \A s \in Sessions, id \in ForeignIds : Fresh(s, id)
<1>1. Null \notin Serials
  BY DistinguishedValues, BoundsAssumption DEF Serials
<1>2. \A id \in ForeignIds : id \notin Serials
  BY DistinguishedValues
<1>3. QED
  BY <1>1, <1>2 DEF Fresh

\* What there is to show of a control request other than a reset.
LEMMA ControlFrame ==
  ASSUME ControlInv, UNCHANGED <<handlers, charges, resetAt, quiet>>,
         \A s \in Sessions, id \in IntentIds :
           Stored(s, id)' => Stored(s, id) \/ id \in ForeignIds,
         \A s \in Sessions : \A i \in DOMAIN events'[s] :
           /\ events'[s][i].intent \in Known
           /\ quiet[s] => /\ Fresh(s, events'[s][i].intent)
                          /\ Fresh(s, events'[s][i].charge),
         \A s \in Sessions : \A i \in DOMAIN delivered'[s] :
           /\ delivered'[s][i].intent \in Known
           /\ quiet[s] => Fresh(s, delivered'[s][i].intent),
         \A t \in Testers :
           (tpc'[t] = "enqueue" /\ quiet[tarticle'[t].session]) =>
             Fresh(tarticle'[t].session, tarticle'[t].event.intent)
  PROVE  IdsAreKnown' /\ ResetInv'
<1>1. IdsAreKnown /\ ResetInv
  BY ControlParts
<1>2. IdsAreKnown'
  <2>1. Known' = Known
    BY DEF Known, handlers
  <2>2. QED
    BY <1>1, <2>1 DEF IdsAreKnown, Known
<1>3. ASSUME NEW s \in Sessions, quiet[s]
      PROVE  QuietOK(s)'
  <2>1. QuietOK(s)
    BY <1>1, <1>3 DEF ResetInv
  <2>2. \A id \in IntentIds : Stored(s, id)' => Fresh(s, id)
    BY <2>1, NullIsFresh DEF QuietOK, IsolatedByReset, Fresh
  <2>3. \A id \in ChargeIds : charges'[s][id] # NoCharge => Fresh(s, id)
    BY <2>1 DEF QuietOK, IsolatedByReset, Fresh
  <2>4. IsolatedByReset(s)'
    BY <1>3, <2>2, <2>3 DEF IsolatedByReset, Fresh
  <2>5. \A c \in Clients : RequestFresh(c, s)'
    BY <2>1 DEF QuietOK, RequestFresh, handlers, session, Fresh
  <2>6. \A t \in Testers : EmitFresh(t, s)'
    BY <1>3 DEF EmitFresh, Fresh
  <2>7. QED
    BY <1>3, <2>4, <2>5, <2>6 DEF QuietOK, Fresh
<1>4. ResetInv'
  BY <1>1, <1>3 DEF ResetInv, handlers
<1>5. QED
  BY <1>2, <1>4

\* The events of the queue and of the webhooks, as the invariant has them.
LEMMA EventsFresh ==
  ASSUME ControlInv, NEW s \in Sessions
  PROVE  /\ \A i \in DOMAIN events[s] :
              /\ events[s][i].intent \in Known
              /\ quiet[s] => /\ Fresh(s, events[s][i].intent)
                             /\ Fresh(s, events[s][i].charge)
         /\ \A i \in DOMAIN delivered[s] :
              /\ delivered[s][i].intent \in Known
              /\ quiet[s] => Fresh(s, delivered[s][i].intent)
         /\ \A t \in Testers :
              (tpc[t] = "enqueue" /\ tarticle[t].session = s /\ quiet[s]) =>
                Fresh(s, tarticle[t].event.intent)
BY ControlParts DEF IdsAreKnown, ResetInv, QuietOK, EmitFresh, IsolatedByReset, Fresh

\* The session an emit is about.
LEMMA TesterFresh ==
  ASSUME ControlInv, NEW t \in Testers, tpc[t] = "enqueue"
  PROVE  /\ tarticle[t].session \in Sessions
         /\ tarticle[t].event \in Events
         /\ tarticle[t].event.intent \in Known
         /\ tarticle[t].event.charge = Null
         /\ quiet[tarticle[t].session] =>
              Fresh(tarticle[t].session, tarticle[t].event.intent)
<1>1. /\ tarticle[t].session \in Sessions
      /\ tarticle[t].event \in Events
      /\ tarticle[t].event.intent \in Known
      /\ tarticle[t].event.charge = Null
  BY ControlParts DEF TestersOK, TesterOK
<1>2. QED
  BY <1>1, EventsFresh

LEMMA ConfigFresh ==
  ASSUME ControlInv, NEW s \in Sessions, NEW on \in BOOLEAN, Config(s, on)
  PROVE  IdsAreKnown' /\ ResetInv'
<1>1. UNCHANGED <<intents, charges, events, handlers, tpc, tarticle, delivered,
                  resetAt, quiet>>
  BY DEF Config
<1>2. QED
  BY <1>1, EventsFresh, TesterFresh, ControlFrame DEF Stored

LEMMA SeedEnableFresh ==
  ASSUME ControlInv, NEW t \in Testers, SeedEnable(t)
  PROVE  IdsAreKnown' /\ ResetInv'
<1>1. /\ UNCHANGED <<intents, charges, events, handlers, delivered, resetAt, quiet>>
      /\ \A u \in Testers : tpc'[u] = "enqueue" =>
           tpc[u] = "enqueue" /\ tarticle'[u] = tarticle[u]
  BY ControlParts DEF SeedEnable, ControlTypeOK
<1>2. QED
  BY <1>1, EventsFresh, TesterFresh, ControlFrame DEF Stored

LEMMA SeedPutFresh ==
  ASSUME ControlInv, NEW t \in Testers, NEW seed \in Seeds, SeedPut(t, seed)
  PROVE  IdsAreKnown' /\ ResetInv'
<1>1. /\ UNCHANGED <<charges, events, handlers, delivered, resetAt, quiet>>
      /\ \A u \in Testers : tpc'[u] = "enqueue" =>
           tpc[u] = "enqueue" /\ tarticle'[u] = tarticle[u]
  BY ControlParts DEF SeedPut, ControlTypeOK
<1>2. \A s \in Sessions, id \in IntentIds :
        Stored(s, id)' => Stored(s, id) \/ id \in ForeignIds
  BY ControlParts, SeedsAssumption DEF SeedPut, ControlTypeOK, TypeOK, Stored
<1>3. QED
  BY <1>1, <1>2, EventsFresh, TesterFresh, ControlFrame

LEMMA EmitReadFresh ==
  ASSUME ControlInv, NEW t \in Testers, NEW s \in Sessions, NEW id \in IntentIds,
         EmitRead(t, s, id)
  PROVE  IdsAreKnown' /\ ResetInv'
<1>1. PICK event \in Events :
        /\ event.intent = id /\ event.charge = Null
        /\ tarticle' = [tarticle EXCEPT ![t] = [session |-> s, event |-> event]]
  BY EmitReadEffect
<1>2. /\ tpc' = [tpc EXCEPT ![t] = "enqueue"]
      /\ Stored(s, id)
      /\ UNCHANGED <<vars, delivered, resetAt, quiet, asked, seeded>>
  BY EmitReadEffect
<1>3. UNCHANGED <<intents, charges, events, handlers, delivered, resetAt, quiet>>
  BY <1>2 DEF vars, handlers
<1>4. ASSUME NEW u \in Testers, tpc'[u] = "enqueue", quiet[tarticle'[u].session]
      PROVE  Fresh(tarticle'[u].session, tarticle'[u].event.intent)
  <2>1. CASE u = t
    <3>1. tarticle'[u].session = s /\ tarticle'[u].event.intent = id
      BY <1>1, <2>1, ControlParts DEF ControlTypeOK
    <3>2. QED
      BY <1>2, <1>4, <3>1, ShownIsFresh
  <2>2. CASE u # t
    <3>1. tpc[u] = "enqueue" /\ tarticle'[u] = tarticle[u]
      BY <1>1, <1>2, <1>4, <2>2, ControlParts DEF ControlTypeOK
    <3>2. QED
      BY <1>4, <3>1, TesterFresh
  <2>3. QED
    BY <2>1, <2>2
<1>5. QED
  BY <1>3, <1>4, EventsFresh, ControlFrame DEF Stored

LEMMA EmitEnqueueFresh ==
  ASSUME ControlInv, NEW t \in Testers, EmitEnqueue(t)
  PROVE  IdsAreKnown' /\ ResetInv'
<1>1. /\ UNCHANGED <<intents, charges, handlers, delivered, resetAt, quiet>>
      /\ \A u \in Testers : tpc'[u] = "enqueue" =>
           tpc[u] = "enqueue" /\ tarticle'[u] = tarticle[u]
  BY ControlParts DEF EmitEnqueue, ControlTypeOK
<1>2. PICK s \in Sessions, event \in Events :
        s = tarticle[t].session /\ event = tarticle[t].event
  BY TesterFresh DEF EmitEnqueue
<1>3. /\ event.intent \in Known
      /\ quiet[s] => Fresh(s, event.intent) /\ Fresh(s, event.charge)
  BY <1>2, TesterFresh, NullIsFresh DEF EmitEnqueue
<1>4. /\ events \in [Sessions -> Seq(Events)]
      /\ events' = [events EXCEPT ![s] = Append(@, event)]
  BY <1>2, ControlParts DEF EmitEnqueue, Enqueue, ControlTypeOK, TypeOK
<1>5. ASSUME NEW r \in Sessions, NEW i \in DOMAIN events'[r]
      PROVE  /\ events'[r][i].intent \in Known
             /\ quiet[r] => /\ Fresh(r, events'[r][i].intent)
                            /\ Fresh(r, events'[r][i].charge)
  <2>1. \/ r = s /\ events'[r][i] = event
        \/ i \in DOMAIN events[r] /\ events'[r][i] = events[r][i]
    BY <1>4, AppendAt
  <2>2. QED
    BY <1>3, <2>1, EventsFresh
<1>6. QED
  BY <1>1, <1>5, EventsFresh, TesterFresh, ControlFrame DEF Stored

LEMMA DrainFresh ==
  ASSUME ControlInv, NEW s \in Sessions, DrainEvents(s)
  PROVE  IdsAreKnown' /\ ResetInv'
<1>1. UNCHANGED <<intents, charges, handlers, tpc, tarticle, resetAt, quiet>>
  BY DEF DrainEvents
<1>2. delivered \in [Sessions -> Seq(Events)] /\ events \in [Sessions -> Seq(Events)]
  BY ControlParts DEF ControlTypeOK, TypeOK
<1>3. /\ \A r \in Sessions : r # s => delivered'[r] = delivered[r] /\ events'[r] = events[r]
      /\ delivered'[s] = delivered[s] \o events[s]
      /\ events'[s] = <<>>
  BY <1>2 DEF DrainEvents
<1>4. ASSUME NEW r \in Sessions, NEW i \in DOMAIN events'[r]
      PROVE  /\ events'[r][i].intent \in Known
             /\ quiet[r] => /\ Fresh(r, events'[r][i].intent)
                            /\ Fresh(r, events'[r][i].charge)
  <2>1. CASE r = s
    BY <1>3, <1>4, <2>1
  <2>2. CASE r # s
    BY <1>3, <1>4, <2>2, EventsFresh
  <2>3. QED
    BY <2>1, <2>2
<1>5. ASSUME NEW r \in Sessions, NEW i \in DOMAIN delivered'[r]
      PROVE  /\ delivered'[r][i].intent \in Known
             /\ quiet[r] => Fresh(r, delivered'[r][i].intent)
  <2>1. CASE r # s
    BY <1>3, <1>5, <2>1, EventsFresh
  <2>2. CASE r = s
    <3>1. delivered[r] \in Seq(Events) /\ events[r] \in Seq(Events)
      BY <1>2
    <3>2. \/ i \in DOMAIN delivered[r] /\ delivered'[r][i] = delivered[r][i]
          \/ \E j \in DOMAIN events[r] : delivered'[r][i] = events[r][j]
      <4>1. PICK p \in Seq(Events), q \in Seq(Events), new \in {delivered'[r]} :
              p = delivered[r] /\ q = events[r] /\ new = delivered'[r]
        BY <3>1
      <4>2. new = p \o q /\ i \in DOMAIN new
        BY <1>3, <1>5, <2>2, <4>1
      <4>3. \/ i \in DOMAIN p /\ new[i] = p[i]
            \/ \E j \in DOMAIN q : new[i] = q[j]
        BY <4>2, HandOver
      <4>4. QED
        BY <4>1, <4>3
    <3>3. QED
      BY <3>2, EventsFresh
  <2>3. QED
    BY <2>1, <2>2
<1>6. QED
  BY <1>1, <1>4, <1>5, TesterFresh, ControlFrame DEF Stored

\* A reset empties the session; that it stays quiet means that no request and
\* no emit of the example before is left to write.
LEMMA ResetFresh ==
  ASSUME ControlInv, NEW s \in Sessions, Reset(s)
  PROVE  IdsAreKnown' /\ ResetInv'
<1>1. ControlTypeOK /\ TypeOK /\ IdsAreKnown /\ ResetInv /\ issued \in Nat
  BY ControlParts DEF ControlTypeOK, TypeOK
<1>2. /\ UNCHANGED <<handlers, tpc, tarticle>>
      /\ quiet' = [quiet EXCEPT ![s] = @ /\ ~Busy(s)]
      /\ \A r \in Sessions : r # s =>
           /\ intents'[r] = intents[r] /\ charges'[r] = charges[r]
           /\ events'[r] = events[r] /\ delivered'[r] = delivered[r]
           /\ resetAt'[r] = resetAt[r]
      /\ \A id \in IntentIds : intents'[s][id] = NoIntent
      /\ \A id \in ChargeIds : charges'[s][id] = NoCharge
      /\ events'[s] = <<>> /\ delivered'[s] = <<>>
      /\ resetAt'[s] = issued
  BY <1>1 DEF Reset, ControlTypeOK, TypeOK
<1>3. IdsAreKnown'
  <2>1. Known' = Known
    BY <1>2 DEF Known, handlers
  <2>2. \A r \in Sessions, id \in IntentIds : Stored(r, id)' => id \in Known
    BY <1>1, <1>2 DEF IdsAreKnown, Stored
  <2>3. \A r \in Sessions : \A i \in DOMAIN events'[r] : events'[r][i].intent \in Known
    <3> TAKE r \in Sessions
    <3>1. CASE r = s
      BY <1>2, <3>1
    <3>2. CASE r # s
      BY <1>1, <1>2, <3>2 DEF IdsAreKnown
    <3>3. QED BY <3>1, <3>2
  <2>4. \A r \in Sessions : \A i \in DOMAIN delivered'[r] : delivered'[r][i].intent \in Known
    <3> TAKE r \in Sessions
    <3>1. CASE r = s
      BY <1>2, <3>1
    <3>2. CASE r # s
      BY <1>1, <1>2, <3>2 DEF IdsAreKnown
    <3>3. QED BY <3>1, <3>2
  <2>5. QED
    BY <2>1, <2>2, <2>3, <2>4 DEF IdsAreKnown
<1>4. ASSUME NEW r \in Sessions, r # s, quiet'[r]
      PROVE  QuietOK(r)'
  <2>1. QuietOK(r)
    BY <1>1, <1>2, <1>4 DEF ControlTypeOK, ResetInv
  <2>2. IsolatedByReset(r)'
    BY <1>2, <1>4, <2>1 DEF QuietOK, IsolatedByReset, Stored
  <2>3. \A c \in Clients : RequestFresh(c, r)'
    BY <1>2, <1>4, <2>1 DEF QuietOK, RequestFresh, handlers, session, Fresh
  <2>4. \A t \in Testers : EmitFresh(t, r)'
    BY <1>2, <1>4, <2>1 DEF QuietOK, EmitFresh, Fresh
  <2>5. QED
    BY <1>2, <1>4, <2>1, <2>2, <2>3, <2>4 DEF QuietOK, Fresh
<1>5. ASSUME quiet'[s]
      PROVE  QuietOK(s)'
  <2>1. ~Busy(s)
    BY <1>1, <1>2, <1>5 DEF ControlTypeOK
  <2>2. DOMAIN events'[s] = {} /\ DOMAIN delivered'[s] = {}
    BY <1>2
  <2>3. IsolatedByReset(s)'
    BY <1>2, <2>2 DEF IsolatedByReset, Stored
  <2>4. \A c \in Clients : RequestFresh(c, s)'
    BY <1>2, <2>1 DEF Busy, RequestFresh, handlers, session
  <2>5. \A t \in Testers : EmitFresh(t, s)'
    BY <1>2, <2>1 DEF Busy, EmitFresh
  <2>6. QED
    BY <2>2, <2>3, <2>4, <2>5 DEF QuietOK
<1>6. \A r \in Sessions : (resetAt[r] =< issued)'
  BY <1>1, <1>2 DEF ResetInv, handlers
<1>7. QED
  BY <1>3, <1>4, <1>5, <1>6 DEF ResetInv

\* A step of a handler leaves what the tests control alone.
Served(c) ==
  /\ \/ Arrive(c) \/ IssueOnDelivered(c) \/ IssueOnListed(c)
     \/ AcquireLock(c) \/ Handle(c)
  /\ UNCHANGED <<tpc, tarticle, controls, delivered, resetAt, quiet>>

LEMMA ArrivalFresh ==
  ASSUME ControlInv, NEW c \in Clients, Served(c),
         Arrive(c) \/ IssueOnDelivered(c) \/ IssueOnListed(c)
  PROVE  IdsAreKnown' /\ ResetInv'
<1>1. TypeOK /\ HandlersOK /\ IdsAreKnown /\ ResetInv
  BY ControlParts DEF ControlTypeOK
<1>2. PICK r \in Requests : \E id \in Known \cup {issued + 1} : Arrives(c, r, id)
  BY ControlArrival
<1>3. PICK id \in Known \cup {issued + 1} : Arrives(c, r, id)
  BY <1>2
<1>4. /\ OthersKeep(c)
      /\ pc[c] = "idle" /\ pc'[c] \in {"opt_in", "gate"}
      /\ rq'[c] = r /\ serial'[c] = issued + 1 /\ target'[c] = id
      /\ issued \in Nat /\ issued' = issued + 1 /\ issued + 1 \in Serials
      /\ UNCHANGED <<enabled, intents, charges, events, lock, pi, ch, reply>>
  BY <1>1, <1>3, ArrivesEffect DEF Arrives
<1>5. UNCHANGED <<tpc, tarticle, delivered, resetAt, quiet>>
  BY DEF Served
<1>6. Known \subseteq Known'
  BY <1>4 DEF Known
<1>7. IdsAreKnown'
  BY <1>1, <1>4, <1>5, <1>6 DEF IdsAreKnown, Stored
<1>8. ASSUME NEW s \in Sessions, quiet[s]
      PROVE  QuietOK(s)'
  <2>1. QuietOK(s) /\ resetAt[s] =< issued /\ resetAt[s] \in Nat
    BY <1>1, <1>8, ControlParts DEF ResetInv, ControlTypeOK
  <2>2. IsolatedByReset(s)'
    BY <1>4, <1>5, <2>1 DEF QuietOK, IsolatedByReset, Stored
  <2>3. RequestFresh(c, s)'
    <3>1. session(c)' = r.session
      BY <1>4 DEF session
    <3>2. r.session = s /\ r.op # "retrieve_charge" => Fresh(s, id)
      BY <1>3, <1>8 DEF Arrives
    <3>3. QED
      BY <1>4, <1>5, <2>1, <3>1, <3>2 DEF RequestFresh, Fresh
  <2>4. ASSUME NEW d \in Clients, d # c
        PROVE  RequestFresh(d, s)'
    BY <1>4, <1>5, <2>1, <2>4 DEF QuietOK, RequestFresh, OthersKeep, session, Fresh
  <2>5. \A t \in Testers : EmitFresh(t, s)'
    BY <1>5, <2>1 DEF QuietOK, EmitFresh, Fresh
  <2>6. QED
    BY <1>5, <2>1, <2>2, <2>3, <2>4, <2>5 DEF QuietOK, Fresh
<1>9. \A s \in Sessions : (resetAt[s] =< issued)'
  BY <1>1, <1>4, <1>5, ControlParts DEF ResetInv, ControlTypeOK
<1>10. ResetInv'
  BY <1>5, <1>8, <1>9 DEF ResetInv
<1>11. QED
  BY <1>7, <1>10

\* How a handler comes to the charge it is about to write or to report.
LEMMA CopyFresh ==
  ASSUME ControlInv, NEW c \in Clients, AcquireLock(c) \/ Handle(c),
         NEW s \in Sessions, s = session(c), quiet[s],
         pc'[c] = "charge_event" \/ (pc'[c] = "put_charge" /\ ch'[c] # NoCharge)
  PROVE  Fresh(s, pi'[c].latest_charge)
<1>1. TypeOK /\ HandlersOK /\ QuietOK(s)
  BY ControlParts DEF ControlTypeOK, ResetInv
<1>2. pc[c] # "idle" /\ ServingFacts(c)
  BY <1>1, HandleEffect, Serving DEF Effect
<1>3. RequestFresh(c, s)
  BY <1>1 DEF QuietOK
<1>4. resetAt[s] \in Nat /\ serial[c] > resetAt[s]
  BY <1>2, <1>3, ControlParts DEF RequestFresh, ControlTypeOK
<1>5. CASE FindCharge(c)
  <2>1. /\ pi' = pi /\ pi[c].latest_charge \in ChargeIds
        /\ ch'[c] = NoCharge \/ charges[s][pi[c].latest_charge] # NoCharge
    BY <1>1, <1>2, <1>5
       DEF FindCharge, ServingFacts, CopiesOK, TypeOK, reusable
  <2>2. pc'[c] = "put_charge"
    BY <1>1, <1>5 DEF FindCharge, Goto, TypeOK
  <2>3. charges[s][pi[c].latest_charge] # NoCharge
    BY <2>1, <2>2
  <2>4. QED
    BY <1>1, <2>1, <2>3 DEF QuietOK, IsolatedByReset, Fresh
<1>6. CASE PutCharge(c)
  <2>1. pi'[c].latest_charge
          = (IF ch[c] = NoCharge THEN serial[c] ELSE pi[c].latest_charge)
    <3>1. pi[c] \in Intents
      BY <1>2, <1>6 DEF PutCharge, ServingFacts, CopiesOK, Building, Recording, Locked
    <3>2. PICK k : k = IF ch[c] = NoCharge THEN serial[c] ELSE pi[c].latest_charge
      OBVIOUS
    <3>3. pi' = [pi EXCEPT ![c].latest_charge = k]
      BY <1>6, <3>2 DEF PutCharge
    <3>4. pi'[c].latest_charge = k
      BY <1>1, <3>1, <3>3 DEF TypeOK, Intents
    <3>5. QED
      BY <3>2, <3>4
  <2>2. ch[c] # NoCharge => Fresh(s, pi[c].latest_charge)
    BY <1>2, <1>3, <1>6 DEF RequestFresh, PutCharge
  <2>3. Fresh(s, serial[c])
    BY <1>4 DEF Fresh
  <2>4. QED
    BY <2>1, <2>2, <2>3
<1>7. CASE LoadAndApply(c) \/ EnqueueCreated(c)
  <2>1. ch[c] = NoCharge /\ ch' = ch
    BY <1>2, <1>7
       DEF LoadAndApply, EnqueueCreated, ServingFacts, CopiesOK, store
  <2>2. pc'[c] # "charge_event"
    BY <1>1, <1>7 DEF LoadAndApply, EnqueueCreated, Goto, RecordFrom, TypeOK
  <2>3. QED
    BY <2>1, <2>2
<1>8. QED
  BY <1>1, <1>2, <1>5, <1>6, <1>7
     DEF TypeOK, Handle, OptIn, FallThrough, GateOpen, RefuseCreate, ListCharges,
         RetrieveCharge, ExpandCharge, Retrieve, AcquireLock, LeaveUnsimulated,
         LoadAndReject, EnqueueChargeEvent, EnqueueIntentEvent, StoreIntent,
         Expand, Respond, Goto, Answer, ServingFacts, ReadOps

\* Whatever a handler writes to the store of its session, it writes under ids
\* as new as the request.
LEMMA StoreFresh ==
  ASSUME ControlInv, NEW c \in Clients, Served(c), AcquireLock(c) \/ Handle(c),
         NEW s \in Sessions, quiet[s]
  PROVE  IsolatedByReset(s)'
<1>1. TypeOK /\ HandlersOK /\ QuietOK(s)
  BY ControlParts DEF ControlTypeOK, ResetInv
<1>2. pc[c] # "idle" /\ ServingFacts(c) /\ Effect(c) /\ Writes(c)
  BY <1>1, HandleEffect, HandleWrites, Serving DEF Effect
<1>3. RequestFresh(c, s) /\ resetAt' = resetAt /\ resetAt[s] \in Nat
  BY <1>1, ControlParts DEF QuietOK, Served, ControlTypeOK
<1>4. ASSUME NEW id \in IntentIds, Stored(s, id)'
      PROVE  Fresh(s, id)
  <2>1. CASE intents' = intents
    BY <1>1, <1>4, <2>1 DEF QuietOK, IsolatedByReset, Stored, Fresh
  <2>2. CASE StoreIntent(c)
    <3>1. /\ pc[c] = "store"
          /\ intents'[s][id] = IF s = session(c) /\ id = target[c]
                                 THEN pi[c] ELSE intents[s][id]
      BY <1>1, <2>2, StoreEffect
    <3>2. rq[c].op # "retrieve_charge"
      BY <1>2, <3>1 DEF ServingFacts, ControlOK, Recording, Locked, LifecycleOps
    <3>3. QED
      BY <1>1, <1>2, <1>3, <1>4, <3>1, <3>2
         DEF QuietOK, RequestFresh, IsolatedByReset, Stored, Fresh
  <2>3. QED
    BY <1>2, <2>1, <2>2 DEF Effect
<1>5. ASSUME NEW id \in ChargeIds, charges'[s][id] # NoCharge
      PROVE  Fresh(s, id)
  <2>1. CASE charges' = charges
    BY <1>1, <1>5, <2>1 DEF QuietOK, IsolatedByReset, Fresh
  <2>2. CASE PutCharge(c)
    <3>1. PICK k, charge :
            /\ k = IF ch[c] = NoCharge THEN serial[c] ELSE pi[c].latest_charge
            /\ charges' = [charges EXCEPT ![session(c)][k] = charge]
      BY <2>2 DEF PutCharge
    <3>2. pc[c] = "put_charge"
      BY <2>2 DEF PutCharge
    <3>3. CASE s = session(c) /\ id = k
      BY <1>2, <1>3, <3>1, <3>2, <3>3 DEF RequestFresh, Fresh
    <3>4. CASE ~(s = session(c) /\ id = k)
      <4>1. charges'[s][id] = charges[s][id]
        BY <1>1, <3>1, <3>4 DEF TypeOK
      <4>2. QED
        BY <1>1, <1>5, <4>1 DEF QuietOK, IsolatedByReset, Fresh
    <3>5. QED
      BY <3>3, <3>4
  <2>3. QED
    BY <1>2, <2>1, <2>2 DEF Writes
<1>6. ASSUME NEW i \in DOMAIN events'[s]
      PROVE  Fresh(s, events'[s][i].intent) /\ Fresh(s, events'[s][i].charge)
  <2>1. ASSUME i \in DOMAIN events[s], events'[s][i] = events[s][i]
        PROVE  Fresh(s, events'[s][i].intent) /\ Fresh(s, events'[s][i].charge)
    BY <1>1, <2>1 DEF QuietOK, IsolatedByReset, Fresh
  <2>2. CASE events' = events
    BY <1>6, <2>1, <2>2
  <2>3. ASSUME NEW event \in Events, OwnEvent(c, event),
               pc[c] \in {"created_event", "charge_event", "intent_event"},
               events' = [events EXCEPT ![session(c)] = Append(@, event)]
        PROVE  Fresh(s, events'[s][i].intent) /\ Fresh(s, events'[s][i].charge)
    <3>1. \/ s = session(c) /\ events'[s][i] = event
          \/ i \in DOMAIN events[s] /\ events'[s][i] = events[s][i]
      <4>1. PICK r \in Sessions : r = session(c)
        BY <1>2 DEF ServingFacts
      <4>2. events \in [Sessions -> Seq(Events)]
        BY <1>1 DEF TypeOK
      <4>3. QED
        BY <1>6, <2>3, <4>1, <4>2, AppendAt
    <3>2. ASSUME s = session(c)
          PROVE  Fresh(s, event.intent) /\ Fresh(s, event.charge)
      <4>1. rq[c].op # "retrieve_charge"
        BY <1>2, <2>3 DEF ServingFacts, ControlOK, Recording, Locked, LifecycleOps
      <4>2. QED
        BY <1>2, <1>3, <2>3, <3>2, <4>1, NullIsFresh DEF OwnEvent, RequestFresh
    <3>3. QED
      BY <2>1, <3>1, <3>2
  <2>4. QED
    BY <1>2, <2>2, <2>3 DEF Writes
<1>7. QED
  BY <1>3, <1>4, <1>5, <1>6 DEF IsolatedByReset, Fresh

LEMMA HandleFresh ==
  ASSUME ControlInv, NEW c \in Clients, Served(c), AcquireLock(c) \/ Handle(c)
  PROVE  IdsAreKnown' /\ ResetInv'
<1>1. TypeOK /\ HandlersOK /\ IdsAreKnown /\ ResetInv
  BY ControlParts DEF ControlTypeOK
<1>2. pc[c] # "idle" /\ ServingFacts(c) /\ Effect(c) /\ Writes(c)
  BY <1>1, HandleEffect, HandleWrites, Serving DEF Effect
<1>3. UNCHANGED <<tpc, tarticle, delivered, resetAt, quiet>> /\ issued' = issued
  BY <1>2 DEF Served, Effect
<1>4. target[c] \in Known /\ Known' = Known
  BY <1>2, <1>3 DEF ServingFacts, RequestOK, Known
<1>5. IdsAreKnown'
  <2>1. \A s \in Sessions, id \in IntentIds : Stored(s, id)' => id \in Known
    <3>1. CASE intents' = intents
      BY <1>1, <3>1 DEF IdsAreKnown, Stored
    <3>2. CASE StoreIntent(c)
      BY <1>1, <1>4, <3>2, StoreEffect DEF IdsAreKnown, Stored
    <3>3. QED
      BY <1>2, <3>1, <3>2 DEF Effect
  <2>2. ASSUME NEW s \in Sessions, NEW i \in DOMAIN events'[s]
        PROVE  events'[s][i].intent \in Known
    <3>1. CASE events' = events
      BY <1>1, <2>2, <3>1 DEF IdsAreKnown
    <3>2. ASSUME NEW event \in Events, OwnEvent(c, event),
                 events' = [events EXCEPT ![session(c)] = Append(@, event)]
          PROVE  events'[s][i].intent \in Known
      <4>1. PICK r \in Sessions : r = session(c)
        BY <1>2 DEF ServingFacts
      <4>2. events \in [Sessions -> Seq(Events)]
        BY <1>1 DEF TypeOK
      <4>3. \/ events'[s][i] = event
            \/ i \in DOMAIN events[s] /\ events'[s][i] = events[s][i]
        BY <2>2, <3>2, <4>1, <4>2, AppendAt
      <4>4. QED
        BY <1>1, <1>4, <3>2, <4>3 DEF OwnEvent, IdsAreKnown
    <3>3. QED
      BY <1>2, <3>1, <3>2 DEF Writes
  <2>3. QED
    BY <1>1, <1>3, <1>4, <2>1, <2>2 DEF IdsAreKnown
<1>6. ASSUME NEW s \in Sessions, quiet[s]
      PROVE  QuietOK(s)'
  <2>1. QuietOK(s)
    BY <1>1, <1>6 DEF ResetInv
  <2>2. IsolatedByReset(s)'
    BY <1>6, StoreFresh
  <2>3. RequestFresh(c, s)'
    <3> SUFFICES ASSUME pc'[c] # "idle", session(c)' = s
                 PROVE  RequestFresh(c, s)'
      BY DEF RequestFresh
    <3>1. /\ rq'[c] = rq[c] /\ serial'[c] = serial[c] /\ target'[c] = target[c]
          /\ session(c) = s
      BY <1>2 DEF Effect, session
    <3>2. RequestFresh(c, s)
      BY <2>1 DEF QuietOK
    <3>3. (pc'[c] = "charge_event" \/ (pc'[c] = "put_charge" /\ ch'[c] # NoCharge)) =>
             Fresh(s, pi'[c].latest_charge)
      BY <1>6, <3>1, CopyFresh
    <3>4. QED
      BY <1>2, <1>3, <3>1, <3>2, <3>3 DEF RequestFresh, Fresh
  <2>4. ASSUME NEW d \in Clients, d # c
        PROVE  RequestFresh(d, s)'
    BY <1>2, <1>3, <2>1, <2>4 DEF Effect, QuietOK, RequestFresh, OthersKeep, session, Fresh
  <2>5. \A t \in Testers : EmitFresh(t, s)'
    BY <1>3, <2>1 DEF QuietOK, EmitFresh, Fresh
  <2>6. QED
    BY <1>3, <2>1, <2>2, <2>3, <2>4, <2>5 DEF QuietOK, Fresh
<1>7. ResetInv'
  BY <1>1, <1>3, <1>6 DEF ResetInv
<1>8. QED
  BY <1>5, <1>7

-----------------------------------------------------------------------------
(* Sessions nobody asked statefulness of                                   *)

Unasked(s) == quiet[s] /\ ~asked[s]

Nothing(s) ==
  /\ ~enabled[s]
  /\ \A id \in IntentIds : intents[s][id] = NoIntent
  /\ \A id \in ChargeIds : charges[s][id] = NoCharge
  /\ events[s] = <<>>

Inactive(s) ==
  /\ \A c \in Clients : (pc[c] # "idle" /\ session(c) = s) =>
       pc[c] \in {"opt_in", "gate", "respond"}
  /\ \A t \in Testers : tpc[t] # "idle" => tarticle[t].session # s

UnaskedOK == \A s \in Sessions : Unasked(s) => Nothing(s) /\ Inactive(s)

LEMMA UnaskedParts == NotAskedNothingStored /\ UnaskedInv <=> UnaskedOK
BY DEF NotAskedNothingStored, UnaskedInv, UnaskedOK, Unasked, Nothing,
       Inactive, Stored

\* What there is to show of a control request that only touches session s.
LEMMA UnaskedFrame ==
  ASSUME ControlInv, UNCHANGED handlers, NEW s \in Sessions,
         \A r \in Sessions \ {s} :
           /\ quiet'[r] = quiet[r] /\ asked'[r] = asked[r]
           /\ enabled'[r] = enabled[r] /\ intents'[r] = intents[r]
           /\ charges'[r] = charges[r] /\ events'[r] = events[r],
         \A t \in Testers : tpc'[t] # "idle" =>
           \/ tarticle'[t].session = s
           \/ tpc[t] # "idle" /\ tarticle'[t] = tarticle[t],
         Unasked(s)' => Nothing(s)' /\ Inactive(s)'
  PROVE  UnaskedOK'
<1> SUFFICES ASSUME NEW r \in Sessions, r # s, Unasked(r)'
             PROVE  Nothing(r)' /\ Inactive(r)'
  BY DEF UnaskedOK
<1>1. Unasked(r) /\ Nothing(r) /\ Inactive(r)
  BY ControlParts, UnaskedParts DEF UnaskedOK, Unasked
<1>2. Nothing(r)'
  BY <1>1 DEF Nothing
<1>3. Inactive(r)'
  BY <1>1 DEF Inactive, handlers, session
<1>4. QED
  BY <1>2, <1>3

LEMMA UnaskedNow ==
  ASSUME ControlInv, NEW s \in Sessions, Unasked(s)
  PROVE  Nothing(s) /\ Inactive(s)
BY ControlParts, UnaskedParts DEF UnaskedOK

LEMMA ResetUnasked ==
  ASSUME ControlInv, NEW s \in Sessions, Reset(s)
  PROVE  UnaskedOK'
<1>1. ControlTypeOK /\ TypeOK
  BY ControlParts DEF ControlTypeOK
<1>2. UNCHANGED <<handlers, tpc, tarticle>>
  BY DEF Reset
<1>3. \A r \in Sessions \ {s} :
        /\ quiet'[r] = quiet[r] /\ asked'[r] = asked[r]
        /\ enabled'[r] = enabled[r] /\ intents'[r] = intents[r]
        /\ charges'[r] = charges[r] /\ events'[r] = events[r]
  BY <1>1 DEF Reset, ControlTypeOK, TypeOK
<1>4. Nothing(s)'
  BY <1>1 DEF Reset, TypeOK, Nothing
<1>5. quiet'[s] => Inactive(s)'
  <2>1. quiet'[s] => ~Busy(s)
    BY <1>1 DEF Reset, ControlTypeOK
  <2>2. QED
    BY <1>2, <2>1 DEF Busy, Inactive, handlers, session
<1>6. QED
  BY <1>2, <1>3, <1>4, <1>5, UnaskedFrame DEF Unasked

LEMMA ConfigUnasked ==
  ASSUME ControlInv, NEW s \in Sessions, NEW on \in BOOLEAN, Config(s, on)
  PROVE  UnaskedOK'
<1>1. ControlTypeOK /\ TypeOK
  BY ControlParts DEF ControlTypeOK
<1>2. UNCHANGED <<intents, charges, events, handlers, tpc, tarticle, quiet>>
  BY DEF Config
<1>3. /\ \A r \in Sessions \ {s} : asked'[r] = asked[r] /\ enabled'[r] = enabled[r]
      /\ asked'[s] = (asked[s] \/ on) /\ enabled'[s] = on
  BY <1>1 DEF Config, ControlTypeOK, TypeOK
<1>4. Unasked(s)' => Nothing(s)' /\ Inactive(s)'
  <2> SUFFICES ASSUME Unasked(s)'
               PROVE  Nothing(s)' /\ Inactive(s)'
    OBVIOUS
  <2>1. Unasked(s) /\ ~enabled'[s]
    BY <1>2, <1>3 DEF Unasked
  <2>2. Nothing(s) /\ Inactive(s)
    BY <2>1, UnaskedNow
  <2>3. QED
    BY <1>2, <2>1, <2>2 DEF Nothing, Inactive, handlers, session
<1>5. QED
  BY <1>2, <1>3, <1>4, UnaskedFrame

LEMMA DrainUnasked ==
  ASSUME ControlInv, NEW s \in Sessions, DrainEvents(s)
  PROVE  UnaskedOK'
<1>1. ControlTypeOK /\ TypeOK
  BY ControlParts DEF ControlTypeOK
<1>2. UNCHANGED <<enabled, intents, charges, handlers, tpc, tarticle, quiet, asked>>
  BY DEF DrainEvents
<1>3. /\ \A r \in Sessions \ {s} : events'[r] = events[r]
      /\ events'[s] = <<>>
  BY <1>1 DEF DrainEvents, TypeOK
<1>4. Unasked(s)' => Nothing(s)' /\ Inactive(s)'
  BY <1>2, <1>3, UnaskedNow DEF Unasked, Nothing, Inactive, handlers, session
<1>5. QED
  BY <1>2, <1>3, <1>4, UnaskedFrame

LEMMA SeedPutUnasked ==
  ASSUME ControlInv, NEW t \in Testers, NEW seed \in Seeds, SeedPut(t, seed)
  PROVE  UnaskedOK'
<1>1. ControlTypeOK /\ TypeOK
  BY ControlParts DEF ControlTypeOK
<1>2. PICK s \in Sessions : s = seed.session
  BY SeedsAssumption
<1>3. UNCHANGED <<enabled, charges, events, handlers, quiet>>
  BY DEF SeedPut
<1>4. /\ \A r \in Sessions \ {s} : intents'[r] = intents[r] /\ asked'[r] = asked[r]
      /\ asked'[s]
  BY <1>1, <1>2 DEF SeedPut, ControlTypeOK, TypeOK
<1>5. \A u \in Testers : tpc'[u] # "idle" =>
        \/ tarticle'[u].session = s
        \/ tpc[u] # "idle" /\ tarticle'[u] = tarticle[u]
  BY <1>1, <1>2 DEF SeedPut, ControlTypeOK
<1>6. ~Unasked(s)'
  BY <1>4 DEF Unasked
<1>7. QED
  BY <1>3, <1>4, <1>5, <1>6, UnaskedFrame

\* A two-step control request of s is in progress only if s was asked for or
\* some reset of it was not quiet.
LEMMA TesterAsked ==
  ASSUME ControlInv, NEW t \in Testers, tpc[t] # "idle"
  PROVE  /\ tarticle[t].session \in Sessions
         /\ ~Unasked(tarticle[t].session)
<1>1. tarticle[t].session \in Sessions
  BY SeedsAssumption, ControlParts DEF TestersOK, TesterOK, ControlTypeOK
<1>2. QED
  BY <1>1, UnaskedNow DEF Inactive

LEMMA SeedEnableUnasked ==
  ASSUME ControlInv, NEW t \in Testers, SeedEnable(t)
  PROVE  UnaskedOK'
<1>1. ControlTypeOK /\ TypeOK
  BY ControlParts DEF ControlTypeOK
<1>2. PICK s \in Sessions : s = tarticle[t].session /\ ~Unasked(s)
  BY TesterAsked DEF SeedEnable
<1>3. UNCHANGED <<intents, charges, events, handlers, quiet, asked>>
  BY DEF SeedEnable
<1>4. \A r \in Sessions \ {s} : enabled'[r] = enabled[r]
  BY <1>1, <1>2 DEF SeedEnable, TypeOK
<1>5. \A u \in Testers : tpc'[u] # "idle" => tpc[u] # "idle" /\ tarticle'[u] = tarticle[u]
  BY <1>1 DEF SeedEnable, ControlTypeOK
<1>6. ~Unasked(s)'
  BY <1>2, <1>3 DEF Unasked
<1>7. QED
  BY <1>3, <1>4, <1>5, <1>6, UnaskedFrame

LEMMA EmitEnqueueUnasked ==
  ASSUME ControlInv, NEW t \in Testers, EmitEnqueue(t)
  PROVE  UnaskedOK'
<1>1. ControlTypeOK /\ TypeOK
  BY ControlParts DEF ControlTypeOK
<1>2. PICK s \in Sessions : s = tarticle[t].session /\ ~Unasked(s)
  BY TesterAsked DEF EmitEnqueue
<1>3. UNCHANGED <<enabled, intents, charges, handlers, quiet, asked>>
  BY DEF EmitEnqueue
<1>4. \A r \in Sessions \ {s} : events'[r] = events[r]
  BY <1>1, <1>2 DEF EmitEnqueue, Enqueue, TypeOK
<1>5. \A u \in Testers : tpc'[u] # "idle" => tpc[u] # "idle" /\ tarticle'[u] = tarticle[u]
  BY <1>1 DEF EmitEnqueue, ControlTypeOK
<1>6. ~Unasked(s)'
  BY <1>2, <1>3 DEF Unasked
<1>7. QED
  BY <1>3, <1>4, <1>5, <1>6, UnaskedFrame

LEMMA EmitReadUnasked ==
  ASSUME ControlInv, NEW t \in Testers, NEW s \in Sessions, NEW id \in IntentIds,
         EmitRead(t, s, id)
  PROVE  UnaskedOK'
<1>1. ControlTypeOK /\ TypeOK
  BY ControlParts DEF ControlTypeOK
<1>2. PICK event \in Events :
        tarticle' = [tarticle EXCEPT ![t] = [session |-> s, event |-> event]]
  BY EmitReadEffect
<1>3. /\ tpc' = [tpc EXCEPT ![t] = "enqueue"]
      /\ Stored(s, id)
      /\ UNCHANGED <<vars, quiet, asked>>
  BY EmitReadEffect
<1>4. UNCHANGED <<enabled, intents, charges, events, handlers, quiet, asked>>
  BY <1>3 DEF vars, handlers
<1>5. \A u \in Testers : tpc'[u] # "idle" =>
        \/ tarticle'[u].session = s
        \/ tpc[u] # "idle" /\ tarticle'[u] = tarticle[u]
  BY <1>1, <1>2, <1>3 DEF ControlTypeOK
<1>6. ~Unasked(s)'
  BY <1>3, <1>4, UnaskedNow DEF Nothing, Stored, Unasked
<1>7. QED
  BY <1>4, <1>5, <1>6, UnaskedFrame

\* The requests of such a session are answered without touching the store; an
\* opt-in among them is what asks for statefulness.
LEMMA ServerUnasked ==
  ASSUME ControlInv, NEW c \in Clients, Served(c),
         asked' = [s \in Sessions |->
                     asked[s] \/ (pc[c] = "opt_in" /\ session(c) = s)]
  PROVE  UnaskedOK'
<1> SUFFICES ASSUME NEW s \in Sessions, Unasked(s)'
             PROVE  Nothing(s)' /\ Inactive(s)'
  BY DEF UnaskedOK
<1>1. TypeOK /\ HandlersOK
  BY ControlParts DEF ControlTypeOK
<1>2. Unasked(s) /\ ~(pc[c] = "opt_in" /\ session(c) = s)
  BY DEF Unasked, Served
<1>3. Nothing(s) /\ Inactive(s) /\ UNCHANGED <<tpc, tarticle>>
  BY <1>2, UnaskedNow DEF Served
<1>4. CASE Arrive(c) \/ IssueOnDelivered(c) \/ IssueOnListed(c)
  <2>1. PICK r \in Requests : \E id \in Known \cup {issued + 1} : Arrives(c, r, id)
    BY <1>4, ControlArrival
  <2>2. PICK id \in Known \cup {issued + 1} : Arrives(c, r, id)
    BY <2>1
  <2>3. /\ OthersKeep(c) /\ pc'[c] \in {"opt_in", "gate"}
        /\ UNCHANGED <<enabled, intents, charges, events>>
    BY <1>1, <2>2, ArrivesEffect DEF Arrives
  <2>4. QED
    BY <1>3, <2>3 DEF Nothing, Inactive, OthersKeep, session
<1>5. CASE AcquireLock(c) \/ Handle(c)
  <2>1. pc[c] # "idle" /\ ServingFacts(c) /\ Effect(c) /\ Writes(c)
    BY <1>1, <1>5, HandleEffect, HandleWrites, Serving DEF Effect
  <2>2. \A d \in Clients \ {c} :
          (pc'[d] # "idle" /\ session(d)' = s) =>
            pc'[d] \in {"opt_in", "gate", "respond"}
    BY <1>3, <2>1 DEF Effect, OthersKeep, Inactive, session
  <2>3. CASE session(c) = s
    <3>1. pc[c] \in {"gate", "respond"} /\ ~enabled[session(c)]
      BY <1>2, <1>3, <2>1, <2>3 DEF Inactive, Nothing
    <3>2. FallThrough(c) \/ Respond(c)
      BY <1>5, <3>1
         DEF Handle, OptIn, GateOpen, RefuseCreate, ListCharges, RetrieveCharge,
             ExpandCharge, Retrieve, AcquireLock, LeaveUnsimulated,
             LoadAndReject, LoadAndApply, EnqueueCreated, FindCharge, PutCharge,
             EnqueueChargeEvent, EnqueueIntentEvent, StoreIntent, Expand
    <3>3. /\ UNCHANGED <<enabled, intents, charges, events>>
          /\ pc'[c] \in {"respond", "idle"}
      BY <1>1, <3>2 DEF FallThrough, Respond, Answer, Goto, store, TypeOK
    <3>4. QED
      BY <1>3, <2>2, <3>3 DEF Nothing, Inactive
  <2>4. CASE session(c) # s
    <3>1. enabled'[s] = enabled[s]
      BY <1>1, <2>1, <2>4 DEF Writes, TypeOK
    <3>2. \A id \in IntentIds : intents'[s][id] = intents[s][id]
      <4>1. CASE intents' = intents
        BY <4>1
      <4>2. CASE StoreIntent(c)
        BY <1>1, <2>4, <4>2, StoreEffect
      <4>3. QED
        BY <2>1, <4>1, <4>2 DEF Effect
    <3>3. charges'[s] = charges[s]
      BY <1>1, <2>1, <2>4 DEF Writes, PutCharge, TypeOK
    <3>4. events'[s] = events[s]
      BY <1>1, <2>1, <2>4 DEF Writes, TypeOK
    <3>5. session(c)' = s => pc'[c] = "idle"
      BY <2>1, <2>4 DEF Effect, session
    <3>6. QED
      BY <1>3, <2>2, <3>1, <3>2, <3>3, <3>4, <3>5 DEF Nothing, Inactive
  <2>5. QED
    BY <2>3, <2>4
<1>6. QED
  BY <1>4, <1>5 DEF Served

-----------------------------------------------------------------------------
(* Seeds                                                                   *)

\* What the invariant says of one seed.
Governs(s, id) ==
  LET seed == seeded[s][id] IN
  seed # NoIntent =>
    /\ id \in ForeignIds
    /\ intents[s][id] = seed
    /\ \A c \in Clients : Writing(c, s, id) =>
         /\ Accepts(rq[c].op, seed, params(c))
         /\ SameButCharge(pi[c], Apply(rq[c].op, seed, params(c)))

SeedsOK == \A s \in Sessions, id \in IntentIds : Governs(s, id)

LEMMA SeedsParts == SeedsGovern /\ SeededAreForeign <=> SeedsOK
BY DEF SeedsGovern, SeededAreForeign, SeedsOK, Governs

LEMMA SeedsFrame ==
  ASSUME ControlInv, UNCHANGED handlers,
         NEW s \in Sessions, NEW id \in IntentIds,
         seeded'[s][id] = seeded[s][id], intents'[s][id] = intents[s][id]
  PROVE  Governs(s, id)'
<1>1. Governs(s, id)
  BY ControlParts, SeedsParts DEF SeedsOK
<1>2. QED
  BY <1>1 DEF Governs, Writing, handlers, session, params

LEMMA ControlSeeds ==
  ASSUME ControlInv, ControlStep
  PROVE  SeedsOK'
<1> SUFFICES ASSUME NEW s \in Sessions, NEW id \in IntentIds
             PROVE  Governs(s, id)'
  BY DEF SeedsOK
<1>1. ControlTypeOK /\ TypeOK
  BY ControlParts DEF ControlTypeOK
<1>2. ASSUME NEW r \in Sessions, Reset(r)
      PROVE  Governs(s, id)'
  <2>1. CASE s = r
    BY <1>1, <1>2, <2>1 DEF Reset, ControlTypeOK, Governs
  <2>2. CASE s # r
    BY <1>1, <1>2, <2>2, SeedsFrame DEF Reset, ControlTypeOK, TypeOK
  <2>3. QED
    BY <2>1, <2>2
<1>3. ASSUME NEW t \in Testers, NEW seed \in Seeds, SeedPut(t, seed)
      PROVE  Governs(s, id)'
  <2>1. /\ seed.session \in Sessions /\ seed.id \in ForeignIds
        /\ seed.id \in IntentIds /\ seed.intent \in Intents
    BY SeedsAssumption DEF IntentIds
  <2>2. CASE ~(s = seed.session /\ id = seed.id)
    <3>1. seeded'[s][id] = seeded[s][id] /\ intents'[s][id] = intents[s][id]
      BY <1>1, <1>3, <2>1, <2>2 DEF SeedPut, ControlTypeOK, TypeOK
    <3>2. UNCHANGED handlers
      BY <1>3 DEF SeedPut
    <3>3. QED
      BY <3>1, <3>2, SeedsFrame
  <2>3. CASE s = seed.session /\ id = seed.id
    <3>1. /\ intents'[s][id] = seed.intent
          /\ seeded'[s][id] = IF \E c \in Clients : Writing(c, s, id)
                                THEN NoIntent ELSE seed.intent
      BY <1>1, <1>3, <2>1, <2>3 DEF SeedPut, ControlTypeOK, TypeOK
    <3>2. \A c \in Clients : Writing(c, s, id)' = Writing(c, s, id)
      BY <1>3 DEF SeedPut, handlers, Writing, session
    <3>3. QED
      BY <2>1, <2>3, <3>1, <3>2 DEF Governs
  <2>4. QED
    BY <2>2, <2>3
<1>4. ASSUME UNCHANGED <<intents, handlers, seeded>>
      PROVE  Governs(s, id)'
  BY <1>4, SeedsFrame
<1>5. QED
  BY <1>2, <1>3, <1>4
     DEF ControlStep, DrainEvents, Config, SeedEnable, EmitEnqueue, EmitRead,
         vars, handlers

\* An action that builds on a seed builds on what was seeded, as its seed is
\* what it loads.
LEMMA ServerSeeds ==
  ASSUME ControlInv, NEW c \in Clients, Served(c),
         seeded' = IF pc[c] = "store"
                     THEN [seeded EXCEPT ![session(c)][target[c]] = NoIntent]
                     ELSE seeded
  PROVE  SeedsOK'
<1> SUFFICES ASSUME NEW s \in Sessions, NEW id \in IntentIds,
                    seeded'[s][id] # NoIntent
             PROVE  Governs(s, id)'
  BY DEF SeedsOK, Governs
<1>1. ControlTypeOK /\ TypeOK /\ HandlersOK
  BY ControlParts DEF ControlTypeOK
<1>2. /\ pc[c] # "store" => seeded' = seeded
      /\ pc[c] = "store" =>
           /\ seeded' = [seeded EXCEPT ![session(c)][target[c]] = NoIntent]
           /\ session(c) \in Sessions /\ target[c] \in IntentIds
  BY <1>1, Serving DEF ServingFacts
<1>3. /\ seeded'[s][id] = seeded[s][id] /\ seeded[s][id] # NoIntent
      /\ ~(pc[c] = "store" /\ session(c) = s /\ target[c] = id)
  BY <1>1, <1>2 DEF ControlTypeOK
<1>4. PICK seed \in Intents : seed = seeded[s][id]
  BY <1>1, <1>3 DEF ControlTypeOK
<1>5. /\ id \in ForeignIds /\ intents[s][id] = seed
      /\ \A d \in Clients : Writing(d, s, id) =>
           /\ Accepts(rq[d].op, seed, params(d))
           /\ SameButCharge(pi[d], Apply(rq[d].op, seed, params(d)))
  BY <1>3, <1>4, ControlParts, SeedsParts DEF SeedsOK, Governs
<1>6. orAdopted(seed) = seed
  BY DistinguishedValues DEF orAdopted
<1>7. intents'[s][id] = seed /\ OthersKeep(c)
  <2>1. CASE Arrive(c) \/ IssueOnDelivered(c) \/ IssueOnListed(c)
    BY <1>1, <1>5, <2>1, ControlArrival, ArrivesEffect DEF Arrives
  <2>2. CASE AcquireLock(c) \/ Handle(c)
    <3>1. Effect(c)
      BY <1>1, <2>2, HandleEffect
    <3>2. CASE intents' = intents
      BY <1>5, <3>1, <3>2 DEF Effect
    <3>3. CASE StoreIntent(c)
      BY <1>1, <1>3, <1>5, <3>1, <3>3, StoreEffect DEF Effect
    <3>4. QED
      BY <3>1, <3>2, <3>3 DEF Effect
  <2>3. QED
    BY <2>1, <2>2 DEF Served
<1>8. ASSUME Writing(c, s, id)'
      PROVE  /\ Accepts(rq'[c].op, seed, params(c)')
             /\ SameButCharge(pi'[c], Apply(rq'[c].op, seed, params(c)'))
  <2>1. pc'[c] \in Building
    BY <1>8 DEF Writing, Building, Recording, Locked
  <2>2. AcquireLock(c) \/ Handle(c)
    <3>1. ~(Arrive(c) \/ IssueOnDelivered(c) \/ IssueOnListed(c))
      BY <1>1, <2>1, ControlArrival, ArrivesEffect
         DEF Arrives, Building, Recording, Locked
    <3>2. QED
      BY <3>1 DEF Served
  <2>3. Effect(c) /\ pc[c] # "idle" /\ ServingFacts(c)
    BY <1>1, <2>2, HandleEffect, Serving DEF Effect
  <2>4. /\ rq'[c] = rq[c] /\ target'[c] = target[c]
        /\ session(c) = s /\ target[c] = id /\ session(c)' = s
    BY <1>8, <2>1, <2>3 DEF Effect, Writing, session, Building, Recording, Locked
  <2>5. rq[c].op # "create"
    BY <1>5, <2>3, <2>4, DistinguishedValues
       DEF ServingFacts, RequestOK, ChargeIds
  <2>6. Loaded(c) = seed /\ Loaded(c)' = seed
    BY <1>5, <1>6, <1>7, <2>4 DEF Loaded
  <2>7. WriteOKFor(c)
    <3> SUFFICES ASSUME pc[c] \in Building
                 PROVE  WriteOKFor(c)
      BY DEF WriteOKFor
    <3>1. Writing(c, s, id)
      BY <2>4 DEF Writing, Building, Recording, Locked
    <3>2. QED
      BY <1>5, <2>5, <2>6, <3>1 DEF WriteOKFor, Accepted
  <2>8. WriteOKFor(c)'
    BY <1>1, <2>2, <2>7, OwnWrite
  <2>9. QED
    BY <2>1, <2>4, <2>5, <2>6, <2>8 DEF WriteOKFor, Accepted
<1>9. ASSUME NEW d \in Clients, d # c, Writing(d, s, id)'
      PROVE  /\ Accepts(rq'[d].op, seed, params(d)')
             /\ SameButCharge(pi'[d], Apply(rq'[d].op, seed, params(d)'))
  BY <1>5, <1>7, <1>9 DEF OthersKeep, Writing, session, params
<1>10. QED
  BY <1>3, <1>4, <1>5, <1>7, <1>8, <1>9 DEF Governs

-----------------------------------------------------------------------------
(* The theorems                                                            *)

LEMMA ControlInitOK == ControlInit => ControlInv
<1> SUFFICES ASSUME ControlInit PROVE ControlInv
  OBVIOUS
<1>1. TypeOK /\ HandlersOK
  BY TypedInit DEF ControlInit
<1>2. ControlTypeOK
  BY <1>1, ControlAssumption, BoundsAssumption DEF ControlInit, ControlTypeOK
<1>3. TestersOK
  BY DEF ControlInit, TestersOK, TesterOK
<1>4. IdsAreKnown
  BY DEF ControlInit, Init, IdsAreKnown, Stored
<1>5. ResetInv
  <2> SUFFICES ASSUME NEW s \in Sessions
               PROVE  resetAt[s] =< issued /\ QuietOK(s)
    BY DEF ResetInv
  <2>1. resetAt[s] =< issued
    BY DEF ControlInit, Init
  <2>2. IsolatedByReset(s)
    BY DEF ControlInit, Init, IsolatedByReset, Stored
  <2>3. QED
    BY <2>1, <2>2 DEF ControlInit, Init, QuietOK, RequestFresh, EmitFresh
<1>6. UnaskedOK
  BY DEF ControlInit, Init, UnaskedOK, Nothing, Inactive
<1>7. SeedsOK
  BY DEF ControlInit, SeedsOK, Governs
<1>8. QED
  BY <1>1, <1>2, <1>3, <1>4, <1>5, <1>6, <1>7, ControlParts, UnaskedParts, SeedsParts

\* The invariant, split as the steps above keep it.
ControlInvSplit ==
  /\ ControlTypeOK /\ HandlersOK /\ TestersOK
  /\ IdsAreKnown /\ ResetInv
  /\ UnaskedOK
  /\ SeedsOK

LEMMA ControlSplit == ControlInvSplit => ControlInv
BY ControlParts, UnaskedParts, SeedsParts DEF ControlInvSplit

LEMMA ControlStepOK == ControlInv /\ [ControlNext]_allvars => ControlInvSplit'
<1> SUFFICES ASSUME ControlInv, [ControlNext]_allvars PROVE ControlInvSplit'
  OBVIOUS
<1>1. CASE ServerStep
  <2>1. PICK c \in Clients :
          /\ Served(c)
          /\ asked' = [s \in Sessions |->
                         asked[s] \/ (pc[c] = "opt_in" /\ session(c) = s)]
          /\ seeded' = IF pc[c] = "store"
                         THEN [seeded EXCEPT ![session(c)][target[c]] = NoIntent]
                         ELSE seeded
    BY <1>1 DEF ServerStep, Served
  <2>2. ControlTypeOK' /\ HandlersOK' /\ TestersOK'
    BY <1>1, ServerStepTyped
  <2>3. IdsAreKnown' /\ ResetInv'
    BY <2>1, ArrivalFresh, HandleFresh DEF Served
  <2>4. UnaskedOK' /\ SeedsOK'
    BY <2>1, ServerUnasked, ServerSeeds
  <2>5. QED
    BY <2>2, <2>3, <2>4 DEF ControlInvSplit
<1>2. CASE ControlStep
  <2>1. SeedsOK'
    BY <1>2, ControlSeeds
  <2>2. ASSUME NEW s \in Sessions,
               Reset(s) \/ DrainEvents(s) \/ \E on \in BOOLEAN : Config(s, on)
        PROVE  ControlInvSplit'
    BY <2>1, <2>2, ResetTyped, DrainTyped, ConfigTyped, ResetFresh, DrainFresh,
       ConfigFresh, ResetUnasked, DrainUnasked, ConfigUnasked
       DEF ControlInvSplit
  <2>3. ASSUME NEW t \in Testers, SeedEnable(t) \/ EmitEnqueue(t)
        PROVE  ControlInvSplit'
    BY <2>1, <2>3, SeedEnableTyped, EmitEnqueueTyped, SeedEnableFresh,
       EmitEnqueueFresh, SeedEnableUnasked, EmitEnqueueUnasked
       DEF ControlInvSplit
  <2>4. ASSUME NEW t \in Testers, NEW seed \in Seeds, SeedPut(t, seed)
        PROVE  ControlInvSplit'
    BY <2>1, <2>4, SeedPutTyped, SeedPutFresh, SeedPutUnasked
       DEF ControlInvSplit
  <2>5. ASSUME NEW t \in Testers, NEW s \in Sessions, NEW id \in IntentIds,
               EmitRead(t, s, id)
        PROVE  ControlInvSplit'
    BY <2>1, <2>5, EmitReadTyped, EmitReadFresh, EmitReadUnasked
       DEF ControlInvSplit
  <2>6. QED
    BY <1>2, <2>2, <2>3, <2>4, <2>5 DEF ControlStep
<1>3. CASE UNCHANGED allvars
  <2>1. /\ ControlTypeOK /\ HandlersOK /\ TestersOK
        /\ IdsAreKnown /\ ResetInv /\ UnaskedOK /\ SeedsOK
    BY ControlParts, UnaskedParts, SeedsParts
  <2>2. UNCHANGED <<handlers, store, tpc, tarticle, controls, delivered, resetAt,
                    quiet, asked, seeded>>
    BY <1>3 DEF allvars, vars, cvars, handlers, store
  <2>3. ControlTypeOK' /\ HandlersOK' /\ TestersOK'
    BY <2>1, <2>2, HandlersUntouched
       DEF ControlTypeOK, TypeOK, handlers, store, TestersOK, TesterOK, Known
  <2>4. IdsAreKnown'
    BY <2>1, <2>2 DEF IdsAreKnown, Known, Stored, handlers, store
  <2>5. ResetInv'
    BY <2>1, <2>2
       DEF ResetInv, QuietOK, IsolatedByReset, RequestFresh, EmitFresh, Fresh,
           Stored, session, handlers, store
  <2>6. UnaskedOK'
    BY <2>1, <2>2 DEF UnaskedOK, Unasked, Nothing, Inactive, session, handlers, store
  <2>7. SeedsOK'
    BY <2>1, <2>2 DEF SeedsOK, Governs, Writing, session, params, handlers, store
  <2>8. QED
    BY <2>3, <2>4, <2>5, <2>6, <2>7 DEF ControlInvSplit
<1>4. QED
  BY <1>1, <1>2, <1>3 DEF ControlNext, ControlDone

\* With control requests between any two store operations of any handler, what
\* is on its way into a session stays of the example that runs now, no request
\* of a session nobody asked for stores anything, and what is built on a seed
\* is built on what was seeded.
THEOREM ControlInvariance == ControlSpec => []ControlInv
<1>1. ControlInv /\ [ControlNext]_allvars => ControlInv'
  BY ControlStepOK, ControlSplit, PTL
<1>2. QED
  BY <1>1, ControlInitOK, PTL DEF ControlSpec

\* Whatever a test controls and when, the store, the queues, the seeds and
\* every copy a handler holds are well formed.
THEOREM ControlTypes == ControlSpec => []ControlTypeOK
<1>1. ControlInv => ControlTypeOK
  BY DEF ControlInv
<1>2. QED
  BY <1>1, ControlInvariance, PTL

\* reset isolates test examples as long as it finds no request of its session
\* in progress, for any number of requests, control requests and sessions.
THEOREM ResetsIsolate == ControlSpec => []QuietResetIsolates
<1>1. ControlInv => QuietResetIsolates
  BY DEF ControlInv, ResetInv, QuietOK, QuietResetIsolates
<1>2. QED
  BY <1>1, ControlInvariance, PTL

\* A session that was neither opted in nor seeded since its reset keeps no
\* state.
THEOREM UnaskedKeepsNothing == ControlSpec => []NotAskedNothingStored
<1>1. ControlInv => NotAskedNothingStored
  BY DEF ControlInv
<1>2. QED
  BY <1>1, ControlInvariance, PTL

\* A seed is what requests find and what the next accepted action acts on.
THEOREM SeedsAreFound == ControlSpec => []SeedsGovern
<1>1. ControlInv => SeedsGovern
  BY DEF ControlInv
<1>2. QED
  BY <1>1, ControlInvariance, PTL
=============================================================================
