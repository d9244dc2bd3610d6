--------------------- MODULE PaymentIntentCharges_proofs ---------------------
(***************************************************************************)
(* Theorems about the charges of PaymentIntentServer, for every set of     *)
(* clients, sessions, ids and requests and every number of requests: what  *)
(* a stored intent, its charge and the responses about them say together.  *)
(***************************************************************************)
EXTENDS PaymentIntentInvariants, PaymentIntentServer_proofs

-----------------------------------------------------------------------------
(* What the lifecycle functions do to an intent                            *)

\* The relation between status and fields of LifecycleFieldsFollowStatus.
FieldsOK(intent) ==
  /\ intent.next_action <=> intent.status = "requires_action"
  /\ intent.amount_capturable # 0 => intent.status = "requires_capture"
  /\ intent.amount_received # 0 => intent.status = "succeeded"

\* Attaching a payment method changes no other field.
LEMMA AttachKeeps ==
  ASSUME NEW intent \in Intents, NEW p \in ParamSpace
  PROVE  LET att == attachPaymentMethod(intent, p)
         IN  /\ att \in Intents
             /\ att.status = intent.status
             /\ att.amount = intent.amount
             /\ att.capture_method = intent.capture_method
             /\ att.next_action = intent.next_action
             /\ att.last_payment_error = intent.last_payment_error
             /\ att.amount_capturable = intent.amount_capturable
             /\ att.amount_received = intent.amount_received
             /\ att.latest_charge = intent.latest_charge
BY attachPaymentMethodTyped DEF attachPaymentMethod, Intents

\* Copying request parameters changes none of the lifecycle's own fields.
LEMMA CopyKeeps ==
  ASSUME NEW intent \in Intents, NEW p \in ParamSpace
  PROVE  LET copied == copyPaymentIntentParams(intent, p)
         IN  /\ copied \in Intents
             /\ copied.status = intent.status
             /\ copied.next_action = intent.next_action
             /\ copied.last_payment_error = intent.last_payment_error
             /\ copied.amount_capturable = intent.amount_capturable
             /\ copied.amount_received = intent.amount_received
             /\ copied.latest_charge = intent.latest_charge
BY copyParamsTyped DEF copyPaymentIntentParams, Intents

\* Confirming requires action, declines, authorizes or settles; it names no
\* charge of its own accord.
LEMMA ConfirmOutcome ==
  ASSUME NEW intent \in Intents, NEW p \in ParamSpace
  PROVE  LET done == applyConfirm(intent, p)
         IN  /\ done.latest_charge = intent.latest_charge
             /\ done.status \in {"requires_action", "requires_payment_method",
                                 "requires_capture", "succeeded"}
             /\ done.status = "requires_payment_method" => done.last_payment_error
             /\ (/\ intent.amount_capturable = 0
                 /\ intent.amount_received = 0) => FieldsOK(done)
<1> DEFINE att  == attachPaymentMethod(intent, p)
           done == applyConfirm(intent, p)
<1>1. /\ att \in Intents
      /\ att.latest_charge = intent.latest_charge
      /\ att.amount_capturable = intent.amount_capturable
      /\ att.amount_received = intent.amount_received
  BY AttachKeeps
<1> HIDE DEF att
<1>2. \/ done = [att EXCEPT !.status = "requires_action",
                            !.last_payment_error = FALSE,
                            !.next_action = TRUE]
      \/ done = [att EXCEPT !.status = "requires_payment_method",
                            !.next_action = FALSE,
                            !.last_payment_error = TRUE]
      \/ done = [att EXCEPT !.next_action = FALSE, !.last_payment_error = FALSE,
                            !.status = "requires_capture",
                            !.amount_capturable = att.amount]
      \/ done = [att EXCEPT !.next_action = FALSE, !.last_payment_error = FALSE,
                            !.status = "succeeded",
                            !.amount_received = att.amount]
  BY <1>1 DEF applyConfirm, settlePaymentIntent, att, Intents
<1> HIDE DEF done
<1>3. /\ done.latest_charge = intent.latest_charge
      /\ done.status \in {"requires_action", "requires_payment_method",
                          "requires_capture", "succeeded"}
      /\ done.status = "requires_payment_method" => done.last_payment_error
      /\ (/\ intent.amount_capturable = 0
          /\ intent.amount_received = 0) => FieldsOK(done)
  BY <1>1, <1>2 DEF Intents, FieldsOK
<1>4. QED
  BY <1>3 DEF done

\* An update only moves an intent from waiting for a payment method to
\* waiting for a confirmation.
LEMMA UpdateOutcome ==
  ASSUME NEW intent \in Intents, NEW p \in ParamSpace
  PROVE  LET done == applyUpdate(intent, p)
         IN  /\ done.latest_charge = intent.latest_charge
             /\ \/ done.status = intent.status
                \/ /\ intent.status = "requires_payment_method"
                   /\ done.status = "requires_confirmation"
             /\ done.last_payment_error = intent.last_payment_error
             /\ done.amount_received = intent.amount_received
             /\ FieldsOK(intent) => FieldsOK(done)
<1> DEFINE copied == copyPaymentIntentParams(intent, p)
           att    == attachPaymentMethod(copied, p)
           done   == applyUpdate(intent, p)
<1>1. /\ att \in Intents
      /\ att.status = intent.status
      /\ att.latest_charge = intent.latest_charge
      /\ att.next_action = intent.next_action
      /\ att.last_payment_error = intent.last_payment_error
      /\ att.amount_capturable = intent.amount_capturable
      /\ att.amount_received = intent.amount_received
  <2>1. copied \in Intents
    BY CopyKeeps
  <2>2. QED
    BY <2>1, CopyKeeps, AttachKeeps
<1>2. \/ done = att
      \/ /\ att.status = "requires_payment_method"
         /\ done = [att EXCEPT !.status = "requires_confirmation"]
  BY DEF applyUpdate
<1> HIDE DEF att, copied, done
<1>3. /\ done.latest_charge = intent.latest_charge
      /\ \/ done.status = intent.status
         \/ /\ intent.status = "requires_payment_method"
            /\ done.status = "requires_confirmation"
      /\ done.last_payment_error = intent.last_payment_error
      /\ done.amount_received = intent.amount_received
      /\ FieldsOK(intent) => FieldsOK(done)
  BY <1>1, <1>2 DEF Intents, FieldsOK
<1>4. QED
  BY <1>3 DEF done

\* A new intent names no charge, and one that is not confirmed on the spot
\* waits without having failed.
LEMMA NewOutcome ==
  ASSUME NEW p \in ParamSpace
  PROVE  LET done == newPaymentIntent(p)
         IN  /\ done.latest_charge = Null
             /\ FieldsOK(done)
             /\ intentEventType(done) = Null => done.status \in Waiting
<1> DEFINE copied == copyPaymentIntentParams(BaseIntent, p)
           att    == attachPaymentMethod(copied, p)
           done   == newPaymentIntent(p)
<1>1. /\ BaseIntent \in Intents
      /\ BaseIntent.latest_charge = Null
      /\ BaseIntent.next_action = FALSE
      /\ BaseIntent.amount_capturable = 0
      /\ BaseIntent.amount_received = 0
  BY BaseTyped DEF BaseIntent, FixtureIntent, resetPaymentIntentLifecycleFields
<1>2. /\ att \in Intents
      /\ att.latest_charge = Null
      /\ att.next_action = FALSE
      /\ att.amount_capturable = 0
      /\ att.amount_received = 0
  <2>1. copied \in Intents
    BY <1>1, CopyKeeps
  <2>2. QED
    BY <1>1, <2>1, CopyKeeps, AttachKeeps
<1>3. \/ done = applyConfirm(att, p)
      \/ done = [att EXCEPT !.status = "requires_confirmation"]
      \/ done = [att EXCEPT !.status = "requires_payment_method"]
  BY DEF newPaymentIntent
<1>4. done \in Intents
  BY newPaymentIntentTyped
<1> HIDE DEF att, copied, done
<1>5. CASE done = applyConfirm(att, p)
  <2>1. /\ done.latest_charge = Null
        /\ done.status \in {"requires_action", "requires_payment_method",
                            "requires_capture", "succeeded"}
        /\ done.status = "requires_payment_method" => done.last_payment_error
        /\ FieldsOK(done)
    BY <1>2, <1>5, ConfirmOutcome
  <2>2. intentEventType(done) # Null
    BY <2>1, EventTypesAssumption DEF intentEventType, EventTypes
  <2>3. QED
    BY <2>1, <2>2 DEF done
<1>6. CASE done # applyConfirm(att, p)
  <2>1. /\ done.latest_charge = Null
        /\ done.status \in Waiting
        /\ FieldsOK(done)
    BY <1>2, <1>3, <1>6 DEF Intents, FieldsOK, Waiting
  <2>2. QED
    BY <2>1 DEF done
<1>7. QED
  BY <1>5, <1>6

\* Two intents that differ in the charge they name at most.
LEMMA SameFields ==
  ASSUME NEW intent \in Intents, NEW other \in Intents,
         SameButCharge(intent, other)
  PROVE  /\ intent.status = other.status
         /\ intent.last_payment_error = other.last_payment_error
         /\ intent.amount_received = other.amount_received
         /\ FieldsOK(other) => FieldsOK(intent)
         /\ NeedsCharge(intent) <=> NeedsCharge(other)
         /\ intentEventType(intent) = intentEventType(other)
         /\ intent = [other EXCEPT !.latest_charge = intent.latest_charge]
         /\ intent.latest_charge = other.latest_charge => intent = other
<1>1. /\ intent.status = other.status
      /\ intent.capture_method = other.capture_method
      /\ intent.payment_method = other.payment_method
      /\ intent.amount = other.amount
      /\ intent.amount_capturable = other.amount_capturable
      /\ intent.amount_received = other.amount_received
      /\ intent.next_action = other.next_action
      /\ intent.last_payment_error = other.last_payment_error
  BY DEF SameButCharge, Intents
<1>2. /\ intent = [other EXCEPT !.latest_charge = intent.latest_charge]
      /\ intent.latest_charge = other.latest_charge => intent = other
  BY <1>1 DEF Intents
<1>3. FieldsOK(other) => FieldsOK(intent)
  BY <1>1 DEF FieldsOK
<1>4. NeedsCharge(intent) <=> NeedsCharge(other)
  BY <1>1 DEF NeedsCharge
<1>5. intentEventType(intent) = intentEventType(other)
  BY <1>1 DEF intentEventType
<1>6. QED
  BY <1>1, <1>2, <1>3, <1>4, <1>5

-----------------------------------------------------------------------------
(* What is known of a handler that is about to store an intent             *)

\* The intent that is (or would be) stored when c stores its copy.
Base(c) == intents[session(c)][target[c]]

\* How the copy of c relates to what is stored: by the operation it serves.
CopyFacts(c) ==
  /\ pi[c] \in Intents /\ Loaded(c) \in Intents
  /\ rq[c].op \in {"create", "confirm", "capture", "cancel", "update"}
  /\ Base(c) # NoIntent => Loaded(c) = Base(c)
  /\ Base(c) = NoIntent =>
       /\ Loaded(c).latest_charge = Null
       /\ Loaded(c).status = "requires_confirmation"
  /\ rq[c].op = "create" =>
       /\ Base(c) = NoIntent
       /\ intentEventType(pi[c]) = Null => pi[c].status \in Waiting
  /\ rq[c].op = "confirm" =>
       /\ Loaded(c).status \in {"requires_confirmation", "requires_action",
                                "requires_payment_method"}
       /\ pi[c].status \in {"requires_action", "requires_payment_method",
                            "requires_capture", "succeeded"}
       /\ pi[c].status = "requires_payment_method" => pi[c].last_payment_error
       /\ intentEventType(pi[c]) # Null
  /\ rq[c].op = "capture" =>
       /\ Loaded(c).status = "requires_capture"
       /\ pi[c].status = "succeeded"
  /\ rq[c].op = "cancel" =>
       /\ Loaded(c).status \notin {"succeeded", "canceled"}
       /\ pi[c].status = "canceled"
  /\ rq[c].op = "update" =>
       /\ \/ pi[c].status = Loaded(c).status
          \/ /\ Loaded(c).status = "requires_payment_method"
             /\ pi[c].status = "requires_confirmation"
       /\ pi[c].last_payment_error = Loaded(c).last_payment_error
       /\ pi[c].amount_received = Loaded(c).amount_received

\* An adopted intent has no charge and nothing capturable or received.
LEMMA AdoptedFacts ==
  /\ AdoptedIntent.latest_charge = Null
  /\ AdoptedIntent.status = "requires_confirmation"
  /\ FieldsOK(AdoptedIntent)
BY BaseTyped DEF AdoptedIntent, BaseIntent, FixtureIntent, FieldsOK,
   resetPaymentIntentLifecycleFields

\* No stale copy (WriteOK) turned into facts about each operation's copy.
LEMMA CopyOutcome ==
  ASSUME TypeOK, HandlersOK, FreshOK, WriteOK,
         NEW c \in Clients, pc[c] \in Building
  PROVE  ServingFacts(c) /\ CopyFacts(c)
<1>1. pc[c] # "idle" /\ ServingFacts(c)
  BY Serving DEF Building, Recording, Locked
<1>2. /\ pi[c] \in Intents
      /\ params(c) \in ParamSpace
      /\ rq[c].op \in {"create", "confirm", "capture", "cancel", "update"}
  BY <1>1 DEF ServingFacts, CopiesOK, ControlOK, Building, Recording, Locked,
     LifecycleOps
<1>3. Base(c) \in Intents \cup {NoIntent} /\ Loaded(c) \in Intents
  BY <1>1, LoadedTyped DEF ServingFacts, Loaded, Base
<1>4. /\ Base(c) # NoIntent => Loaded(c) = Base(c)
      /\ Base(c) = NoIntent => /\ Loaded(c).latest_charge = Null
                               /\ Loaded(c).status = "requires_confirmation"
  BY AdoptedFacts DEF Base, Loaded, orAdopted
<1> DEFINE done == IF rq[c].op = "create" THEN newPaymentIntent(params(c))
                   ELSE Apply(rq[c].op, Loaded(c), params(c))
<1>5. SameButCharge(pi[c], done) /\ (rq[c].op # "create" => Accepted(c))
  BY DEF WriteOK
<1>6. done \in Intents
  BY <1>2, <1>3, newPaymentIntentTyped, ApplyTyped
<1>7. /\ pi[c].status = done.status
      /\ pi[c].last_payment_error = done.last_payment_error
      /\ pi[c].amount_received = done.amount_received
      /\ intentEventType(pi[c]) = intentEventType(done)
  BY <1>2, <1>5, <1>6, SameFields
<1>8. rq[c].op = "create" => Base(c) = NoIntent
  BY <1>1 DEF FreshOK, Stored, Base, ServingFacts, Building, Recording, Locked
<1>9. CASE rq[c].op = "create"
  BY <1>2, <1>3, <1>4, <1>7, <1>8, <1>9, NewOutcome, <1>1 DEF CopyFacts
<1>10. CASE rq[c].op = "confirm"
  <2>1. done = applyConfirm(Loaded(c), params(c)) /\ mayConfirm(Loaded(c), params(c))
    BY <1>5, <1>10 DEF Apply, Accepted, Accepts
  <2>2. /\ pi[c].status \in {"requires_action", "requires_payment_method",
                             "requires_capture", "succeeded"}
        /\ pi[c].status = "requires_payment_method" => pi[c].last_payment_error
    BY <1>2, <1>3, <1>7, <2>1, ConfirmOutcome
  <2>3. intentEventType(pi[c]) # Null
    BY <2>2, EventTypesAssumption DEF intentEventType, EventTypes
  <2>4. QED
    BY <1>1, <1>2, <1>3, <1>4, <1>10, <2>1, <2>2, <2>3 DEF CopyFacts, mayConfirm
<1>11. CASE rq[c].op = "capture"
  <2>1. done = applyCapture(Loaded(c), params(c)) /\ mayCapture(Loaded(c), params(c))
    BY <1>5, <1>11 DEF Apply, Accepted, Accepts
  <2>2. done.status = "succeeded"
    BY <1>3, <2>1 DEF applyCapture, Intents
  <2>3. QED
    BY <1>1, <1>2, <1>3, <1>4, <1>7, <1>11, <2>1, <2>2 DEF CopyFacts, mayCapture
<1>12. CASE rq[c].op = "cancel"
  <2>1. done = applyCancel(Loaded(c)) /\ mayCancel(Loaded(c))
    BY <1>5, <1>12 DEF Apply, Accepted, Accepts
  <2>2. done.status = "canceled"
    BY <1>3, <2>1 DEF applyCancel, Intents
  <2>3. QED
    BY <1>1, <1>2, <1>3, <1>4, <1>7, <1>12, <2>1, <2>2 DEF CopyFacts, mayCancel
<1>13. CASE rq[c].op = "update"
  <2>1. done = applyUpdate(Loaded(c), params(c))
    BY <1>13 DEF Apply
  <2>2. /\ \/ done.status = Loaded(c).status
           \/ /\ Loaded(c).status = "requires_payment_method"
              /\ done.status = "requires_confirmation"
        /\ done.last_payment_error = Loaded(c).last_payment_error
        /\ done.amount_received = Loaded(c).amount_received
    BY <1>2, <1>3, <2>1, UpdateOutcome
  <2>3. QED
    BY <1>1, <1>2, <1>3, <1>4, <1>7, <1>13, <2>2 DEF CopyFacts
<1>14. QED
  BY <1>2, <1>9, <1>10, <1>11, <1>12, <1>13

\* The parts of IInv under the names the lemmas use.
LEMMA Parts ==
  ASSUME IInv
  PROVE  TypeOK /\ HandlersOK /\ LockOK /\ PrivateOK /\ FreshOK /\ WriteOK
BY DEF IInv, HandlersOK

\* Only storing an intent changes the stored intents.
LEMMA IntentsChange ==
  ASSUME IInv, [Next]_vars
  PROVE  intents' = intents \/ \E c \in Clients : StoreIntent(c)
<1>1. TypeOK /\ HandlersOK
  BY Parts
<1>2. QED
  BY <1>1, StepCases, ArriveEffect, HandleEffect DEF Effect, vars

\* A copy has the fields its status calls for.
LEMMA CopyFields ==
  ASSUME IInv, LifecycleFieldsFollowStatus, NEW c \in Clients, pc[c] \in Building
  PROVE  FieldsOK(pi[c])
<1>1. ServingFacts(c) /\ CopyFacts(c)
  BY Parts, CopyOutcome
<1>2. FieldsOK(Loaded(c))
  BY <1>1, AdoptedFacts
     DEF Loaded, orAdopted, ServingFacts, LifecycleFieldsFollowStatus, Stored,
         FieldsOK
<1> DEFINE done == IF rq[c].op = "create" THEN newPaymentIntent(params(c))
                   ELSE Apply(rq[c].op, Loaded(c), params(c))
<1>3. SameButCharge(pi[c], done) /\ (rq[c].op # "create" => Accepted(c))
  BY Parts DEF WriteOK
<1>4. /\ pi[c] \in Intents /\ Loaded(c) \in Intents /\ params(c) \in ParamSpace
      /\ done \in Intents
  BY <1>1, newPaymentIntentTyped, ApplyTyped DEF CopyFacts, ServingFacts
<1>5. FieldsOK(done)
  <2>1. CASE rq[c].op = "create"
    BY <1>4, <2>1, NewOutcome
  <2>2. CASE rq[c].op = "confirm"
    <3>1. Loaded(c).amount_capturable = 0 /\ Loaded(c).amount_received = 0
      BY <1>1, <1>2, <2>2 DEF CopyFacts, FieldsOK
    <3>2. done = applyConfirm(Loaded(c), params(c))
      BY <2>2 DEF Apply
    <3>3. QED
      BY <1>4, <3>1, <3>2, ConfirmOutcome
  <2>3. CASE rq[c].op = "capture"
    <3>1. done = applyCapture(Loaded(c), params(c))
      BY <2>3 DEF Apply
    <3>2. done.status = "succeeded" /\ done.next_action = FALSE
          /\ done.amount_capturable = 0
      BY <1>4, <3>1 DEF applyCapture, Intents
    <3>3. QED
      BY <3>2 DEF FieldsOK
  <2>4. CASE rq[c].op = "cancel"
    <3>1. done = applyCancel(Loaded(c))
      BY <2>4 DEF Apply
    <3>2. done.status = "canceled" /\ done.next_action = FALSE
          /\ done.amount_capturable = 0
          /\ done.amount_received = Loaded(c).amount_received
      BY <1>4, <3>1 DEF applyCancel, Intents
    <3>3. QED
      BY <1>1, <1>2, <2>4, <3>2 DEF FieldsOK, CopyFacts
  <2>5. CASE rq[c].op = "update"
    <3>1. done = applyUpdate(Loaded(c), params(c))
      BY <2>5 DEF Apply
    <3>2. QED
      BY <1>2, <1>4, <3>1, UpdateOutcome
  <2>6. QED
    BY <1>1, <2>1, <2>2, <2>3, <2>4, <2>5 DEF CopyFacts
<1>6. QED
  BY <1>3, <1>4, <1>5, SameFields

LEMMA FieldsStep ==
  ASSUME IInv, LifecycleFieldsFollowStatus, [Next]_vars
  PROVE  LifecycleFieldsFollowStatus'
<1>1. CASE intents' = intents
  BY <1>1 DEF LifecycleFieldsFollowStatus, Stored
<1>2. ASSUME NEW c \in Clients, StoreIntent(c)
      PROVE  LifecycleFieldsFollowStatus'
  <2>1. /\ pc[c] = "store"
        /\ \A s \in Sessions, id \in IntentIds :
             intents'[s][id] = IF s = session(c) /\ id = target[c]
                                 THEN pi[c] ELSE intents[s][id]
    BY <1>2, Parts, StoreEffect
  <2>2. FieldsOK(pi[c])
    BY <2>1, CopyFields DEF Building, Recording, Locked
  <2>3. QED
    BY <2>1, <2>2 DEF LifecycleFieldsFollowStatus, Stored, FieldsOK
<1>3. QED
  BY <1>1, <1>2, IntentsChange

-----------------------------------------------------------------------------
(* What a step does to the charges                                         *)

\* Some step of c: the arrival of its request or a step of its handler.
StepOf(c) == Arrive(c) \/ AcquireLock(c) \/ Handle(c)

\* The variables of c's request, which no step of another handler changes.
Same(c) ==
  /\ pc'[c] = pc[c] /\ rq'[c] = rq[c] /\ serial'[c] = serial[c]
  /\ target'[c] = target[c] /\ pi'[c] = pi[c] /\ ch'[c] = ch[c]
  /\ reply'[c] = reply[c]

LEMMA OthersSame ==
  ASSUME IInv, NEW c \in Clients, StepOf(c), NEW d \in Clients, d # c
  PROVE  Same(d)
BY Parts, ArriveEffect, HandleEffect DEF StepOf, Effect, OthersKeep, Same

\* Two handlers with an intent to store are about different intents.
LEMMA UniqueWriter ==
  ASSUME IInv, NEW c \in Clients, NEW d \in Clients, c # d,
         pc[c] \in Building, pc[d] \in Building
  PROVE  target[c] # target[d]
<1>1. /\ pc[c] # "idle" /\ pc[d] # "idle"
      /\ ServingFacts(c) /\ ServingFacts(d)
  BY Parts, Serving DEF Building, Recording, Locked
<1>2. CASE rq[c].op = "create" \/ rq[d].op = "create"
  BY <1>1, <1>2, Parts DEF PrivateOK
<1>3. CASE rq[c].op # "create" /\ rq[d].op # "create"
  <2>1. Holds(c) /\ Holds(d)
    BY <1>1, <1>3
       DEF ServingFacts, ControlOK, Holds, Building, Recording, Locked,
           LifecycleOps, ActionOps
  <2>2. QED
    BY <2>1, Parts DEF LockOK
<1>4. QED
  BY <1>2, <1>3

\* The id under which c puts its charge.
PutId(c) == IF ch[c] = NoCharge THEN serial[c] ELSE pi[c].latest_charge

\* What ensureChargeForPI writes does not depend on the charge it replaces.
LEMMA ChargeFields ==
  ASSUME NEW intent \in Intents, NEW id \in IntentIds
  PROVE  LET charge == chargeForPI(intent, id)
         IN  /\ charge \in Charges /\ charge # NoCharge
             /\ charge.payment_intent = id
             /\ charge.status = IF intent.status = "requires_payment_method"
                                  THEN "failed" ELSE "succeeded"
             /\ charge.captured <=> intent.status = "succeeded"
             /\ intent.status = "succeeded" =>
                  charge.amount_captured = intent.amount_received
             /\ \A k : chargeForPI([intent EXCEPT !.latest_charge = k], id) = charge
<1>1. chargeForPI(intent, id) \in Charges /\ chargeForPI(intent, id) # NoCharge
  BY chargeForPITyped, DistinguishedValues
<1>2. \A k : /\ [intent EXCEPT !.latest_charge = k].status = intent.status
             /\ [intent EXCEPT !.latest_charge = k].amount = intent.amount
             /\ [intent EXCEPT !.latest_charge = k].amount_received
                  = intent.amount_received
  BY DEF Intents
<1>3. QED
  BY <1>1, <1>2 DEF chargeForPI

LEMMA PutEffect ==
  ASSUME IInv, NEW c \in Clients, PutCharge(c)
  PROVE  /\ pc[c] = "put_charge" /\ pc'[c] = "charge_event"
         /\ PutId(c) \in ChargeIds
         /\ session(c) \in Sessions /\ target[c] \in IntentIds
         /\ \A s \in Sessions, k \in ChargeIds :
              charges'[s][k] = IF s = session(c) /\ k = PutId(c)
                                 THEN chargeForPI(pi[c], target[c])
                                 ELSE charges[s][k]
         /\ pi[c] \in Intents /\ pi'[c] \in Intents
         /\ pi'[c] = [pi[c] EXCEPT !.latest_charge = PutId(c)]
         /\ pi'[c].latest_charge = PutId(c)
         /\ pi'[c].status = pi[c].status
         /\ NeedsCharge(pi[c]) /\ NeedsCharge(pi'[c])
         /\ ch'[c] = chargeForPI(pi[c], target[c])
         /\ UNCHANGED <<enabled, intents, events, lock, issued, rq, serial,
                        target, reply>>
<1>1. TypeOK /\ HandlersOK
  BY Parts
<1>2. pc[c] = "put_charge" /\ ServingFacts(c)
  BY <1>1, Serving DEF PutCharge
<1>3. pi[c] \in Intents /\ PutId(c) \in ChargeIds /\ NeedsCharge(pi[c])
  BY <1>2 DEF ServingFacts, CopiesOK, PutId, Building, Recording, Locked
<1>4. /\ charges' = [charges EXCEPT ![session(c)][PutId(c)]
                       = chargeForPI(pi[c], target[c])]
      /\ ch' = [ch EXCEPT ![c] = chargeForPI(pi[c], target[c])]
      /\ pi' = [pi EXCEPT ![c].latest_charge = PutId(c)]
      /\ pc' = [pc EXCEPT ![c] = "charge_event"]
      /\ UNCHANGED <<enabled, intents, events, lock, issued, rq, serial,
                     target, reply>>
  BY DEF PutCharge, PutId, Goto
<1>5. pi'[c] = [pi[c] EXCEPT !.latest_charge = PutId(c)]
  BY <1>1, <1>4 DEF TypeOK
<1>6. /\ pi'[c] \in Intents /\ pi'[c].latest_charge = PutId(c)
      /\ NeedsCharge(pi'[c]) /\ pi'[c].status = pi[c].status
  BY <1>3, <1>5, LatestChargeTyped DEF Intents
<1>7. \A s \in Sessions, k \in ChargeIds :
        charges'[s][k] = IF s = session(c) /\ k = PutId(c)
                           THEN chargeForPI(pi[c], target[c])
                           ELSE charges[s][k]
  BY <1>1, <1>2, <1>3, <1>4 DEF TypeOK, ServingFacts
<1>8. pc'[c] = "charge_event" /\ ch'[c] = chargeForPI(pi[c], target[c])
  BY <1>1, <1>4 DEF TypeOK
<1>9. QED
  BY <1>2, <1>3, <1>4, <1>5, <1>6, <1>7, <1>8 DEF ServingFacts

LEMMA ChargesChange ==
  ASSUME NEW c \in Clients, StepOf(c)
  PROVE  charges' = charges \/ PutCharge(c)
BY DEF StepOf, Arrive, IssueCreate, IssueOnIntent, IssueOnCharge, Issue,
   AcquireLock, Handle, OptIn, FallThrough, GateOpen, RefuseCreate,
   ListCharges, RetrieveCharge, ExpandCharge, Retrieve, LeaveUnsimulated,
   LoadAndReject, LoadAndApply, EnqueueCreated, FindCharge,
   EnqueueChargeEvent, EnqueueIntentEvent, StoreIntent, Expand, Respond, store

\* A capture finds the succeeded charge of its authorization; every other
\* transition puts a charge under an id nothing uses yet.
LEMMA PutWhere ==
  ASSUME IInv, ChargeInv, NEW c \in Clients, pc[c] = "put_charge"
  PROVE  /\ CopyFacts(c)
         /\ rq[c].op \in {"create", "confirm", "capture"}
         /\ IF rq[c].op = "capture"
              THEN /\ PutId(c) = Loaded(c).latest_charge
                   /\ Base(c) # NoIntent /\ Base(c).status = "requires_capture"
                   /\ charges[session(c)][PutId(c)] # NoCharge
                   /\ charges[session(c)][PutId(c)].payment_intent = target[c]
              ELSE /\ PutId(c) = serial[c]
                   /\ charges[session(c)][PutId(c)] = NoCharge
<1>1. pc[c] \in Building /\ ServingFacts(c) /\ CopyFacts(c)
  BY Parts, CopyOutcome DEF Building, Recording, Locked
<1>2. /\ pi[c].latest_charge = Loaded(c).latest_charge
      /\ rq[c].op \in {"create", "confirm", "capture"}
      /\ ch[c] # NoCharge <=> rq[c].op = "capture"
  BY <1>1 DEF ChargeInv, CopyChargesOK, CopyChargeOK, Recorded
<1>3. CASE rq[c].op = "capture"
  <2>1. Loaded(c).status = "requires_capture" /\ Loaded(c) = Base(c)
        /\ Base(c) # NoIntent
    BY <1>1, <1>3 DEF CopyFacts
  <2>2. StoredChargeOK(session(c), target[c])
    BY <1>1, <2>1
       DEF ChargeInv, StoredChargesOK, Stored, Base, ServingFacts
  <2>3. QED
    BY <1>1, <1>2, <1>3, <2>1, <2>2 DEF StoredChargeOK, PutId, Base, NeedsCharge
<1>4. CASE rq[c].op # "capture"
  <2>1. charges[session(c)][serial[c]] = NoCharge
    BY <1>1 DEF ChargeInv, UnusedOK, Unspent, ServingFacts
  <2>2. QED
    BY <1>1, <1>2, <1>4, <2>1 DEF PutId
<1>5. QED
  BY <1>3, <1>4

\* A charge is never deleted, moved to another intent or uncaptured, and only
\* the handler about to store its intent overwrites it.
LEMMA ChargesGrow ==
  ASSUME IInv, ChargeInv, NEW c \in Clients, StepOf(c),
         NEW s \in Sessions, NEW k \in ChargeIds, charges[s][k] # NoCharge
  PROVE  /\ charges'[s][k] # NoCharge
         /\ charges'[s][k].payment_intent = charges[s][k].payment_intent
         /\ charges[s][k].captured => charges'[s][k].captured
         /\ charges'[s][k] = charges[s][k]
            \/ /\ PutCharge(c) /\ rq[c].op = "capture" /\ s = session(c)
               /\ k = PutId(c) /\ charges[s][k].payment_intent = target[c]
<1>1. CASE charges' = charges
  BY <1>1
<1>2. CASE PutCharge(c)
  <2> DEFINE here == s = session(c) /\ k = PutId(c)
  <2>0. \A t \in Sessions, j \in ChargeIds :
          charges'[t][j] = IF t = session(c) /\ j = PutId(c)
                             THEN chargeForPI(pi[c], target[c])
                             ELSE charges[t][j]
    BY <1>2, PutEffect
  <2>1. CASE ~here
    <3>1. charges'[s][k] = charges[s][k]
      BY <2>0, <2>1
    <3>2. QED
      BY <3>1
  <2>2. CASE s = session(c) /\ k = PutId(c)
    <3>1. /\ rq[c].op = "capture" /\ CopyFacts(c)
          /\ charges[s][k].payment_intent = target[c]
      BY <1>2, <2>2, PutEffect, PutWhere
    <3>2. /\ charges'[s][k] = chargeForPI(pi[c], target[c])
          /\ pi[c] \in Intents /\ target[c] \in IntentIds
      BY <1>2, <2>2, PutEffect
    <3>3. pi[c].status = "succeeded"
      BY <3>1 DEF CopyFacts
    <3>4. QED
      BY <1>2, <2>2, <3>1, <3>2, <3>3, ChargeFields
  <2>3. QED
    BY <2>1, <2>2
<1>3. QED
  BY <1>1, <1>2, ChargesChange

\* What a handler has recorded stays recorded until it stores the intent.
LEMMA RecordedKeeps ==
  ASSUME IInv, NEW d \in Clients, StepOf(d), NEW c \in Clients, Recorded(c),
         ~(c = d /\ StoreIntent(c))
  PROVE  /\ Recorded(c)'
         /\ pi'[c] = pi[c] /\ rq'[c] = rq[c] /\ target'[c] = target[c]
<1>1. CASE c # d
  BY <1>1, OthersSame DEF Same, Recorded
<1>2. CASE c = d
  <2>1. EnqueueChargeEvent(c) \/ EnqueueIntentEvent(c)
    BY <1>2
       DEF Recorded, StepOf, Arrive, IssueCreate, IssueOnIntent, IssueOnCharge,
           Issue, AcquireLock, Handle, OptIn, FallThrough, GateOpen,
           RefuseCreate, ListCharges, RetrieveCharge, ExpandCharge, Retrieve,
           LeaveUnsimulated, LoadAndReject, LoadAndApply, EnqueueCreated,
           FindCharge, PutCharge, Expand, Respond
  <2>2. pc'[c] \in {"intent_event", "store"} /\ UNCHANGED <<pi, rq, target>>
    BY <2>1, Parts DEF EnqueueChargeEvent, EnqueueIntentEvent, Goto, TypeOK
  <2>3. QED
    BY <2>2 DEF Recorded
<1>3. QED
  BY <1>1, <1>2

-----------------------------------------------------------------------------
(* Each part of ChargeInv is preserved by every step                       *)

LEMMA IssuedStep ==
  ASSUME IInv, IssuedOK, NEW c \in Clients, StepOf(c)
  PROVE  IssuedOK'
<1>1. \A d \in Clients \ {c} : Same(d)
  BY OthersSame
<1>2. pc'[c] # "idle" => rq'[c] \in Workload
  <2>1. CASE Arrive(c)
    <3>1. PICK r \in Workload : rq' = [rq EXCEPT ![c] = r]
      BY <2>1 DEF Arrive, IssueCreate, IssueOnIntent, IssueOnCharge, Issue
    <3>2. QED
      BY <3>1, Parts DEF TypeOK
  <2>2. CASE AcquireLock(c) \/ Handle(c)
    BY <2>2, Parts, HandleEffect DEF Effect, IssuedOK
  <2>3. QED
    BY <2>1, <2>2 DEF StepOf
<1>3. QED
  BY <1>1, <1>2 DEF IssuedOK, Same

\* A handler that may still mint its charge has not put it in this step.
LEMMA UnspentBefore ==
  ASSUME IInv, NEW c \in Clients, Handle(c) \/ AcquireLock(c),
         pc'[c] \in Unspent
  PROVE  pc[c] \in Unspent /\ ~PutCharge(c)
BY Parts, Serving
   DEF Unspent, TypeOK, PCs, Locked, ReadOps, ActionOps, Handle, OptIn,
       FallThrough, GateOpen, RefuseCreate, ListCharges, RetrieveCharge,
       ExpandCharge, Retrieve, AcquireLock, LeaveUnsimulated, LoadAndReject,
       LoadAndApply, EnqueueCreated, FindCharge, PutCharge,
       EnqueueChargeEvent, EnqueueIntentEvent, StoreIntent, Expand, Respond,
       Goto, Answer

LEMMA UnusedStep ==
  ASSUME IInv, ChargeInv, NEW c \in Clients, StepOf(c)
  PROVE  UnusedOK'
<1>1. TypeOK /\ HandlersOK /\ PrivateOK /\ UnusedOK
  BY Parts DEF ChargeInv
<1>2. CASE Arrive(c)
  <2>1. /\ issued \in Nat /\ issued' = issued + 1 /\ issued + 1 \in ChargeIds
        /\ serial'[c] = issued + 1
    BY <1>1, <1>2, ArriveEffect DEF TypeOK, ChargeIds
  <2>2. charges' = charges
    BY <1>2 DEF Arrive, IssueCreate, IssueOnIntent, IssueOnCharge, Issue
  <2>3. \A d \in Clients \ {c} : Same(d)
    BY OthersSame
  <2>4. ASSUME NEW s \in Sessions
        PROVE  /\ \A k \in ChargeIds : k > issued' => charges'[s][k] = NoCharge
               /\ \A d \in Clients : pc'[d] \in Unspent =>
                                       charges'[s][serial'[d]] = NoCharge
    <3>1. \A k \in ChargeIds : k > issued + 1 => k > issued
      BY <2>1, BoundsAssumption DEF ChargeIds, Serials
    <3>2. charges[s][issued + 1] = NoCharge
      BY <1>1, <2>1 DEF UnusedOK
    <3>3. QED
      BY <1>1, <2>1, <2>2, <2>3, <3>1, <3>2 DEF UnusedOK, Same
  <2>5. QED
    BY <2>4 DEF UnusedOK
<1>3. CASE Handle(c) \/ AcquireLock(c)
  <2>1. issued' = issued /\ Effect(c)
    BY <1>1, <1>3, HandleEffect DEF Effect
  <2>2. ASSUME NEW d \in Clients, pc'[d] \in Unspent
        PROVE  /\ pc[d] \in Unspent /\ serial'[d] = serial[d]
               /\ ~(d = c /\ PutCharge(c))
    <3>1. CASE d = c
      BY <1>3, <2>1, <2>2, <3>1, UnspentBefore DEF Effect, Unspent
    <3>2. CASE d # c
      BY <2>2, <3>2, OthersSame DEF Same
    <3>3. QED
      BY <3>1, <3>2
  <2>3. CASE charges' = charges
    BY <1>1, <2>1, <2>2, <2>3 DEF UnusedOK
  <2>4. CASE PutCharge(c)
    <3>1. /\ pc[c] = "put_charge" /\ PutId(c) \in ChargeIds
          /\ session(c) \in Sessions
      BY <2>4, PutEffect
    <3>2. \A s \in Sessions, k \in ChargeIds :
            charges'[s][k] = IF s = session(c) /\ k = PutId(c)
                               THEN chargeForPI(pi[c], target[c])
                               ELSE charges[s][k]
      BY <2>4, PutEffect
    <3>3. ASSUME NEW s \in Sessions, NEW k \in ChargeIds,
                 charges[s][k] = NoCharge, ~(k = serial[c])
          PROVE  charges'[s][k] = NoCharge
      <4>1. ~(s = session(c) /\ k = PutId(c))
        BY <3>1, <3>3, PutWhere
      <4>2. QED
        BY <3>2, <3>3, <4>1
    <3>4. serial[c] \in 1 .. issued
      BY <1>1, <3>1 DEF HandlersOK, HandlerOK, RequestOK
    <3>5. ASSUME NEW s \in Sessions, NEW k \in ChargeIds, k > issued
          PROVE  charges'[s][k] = NoCharge
      <4>1. charges[s][k] = NoCharge /\ k # serial[c]
        BY <1>1, <3>4, <3>5 DEF UnusedOK, TypeOK
      <4>2. QED
        BY <3>3, <4>1
    <3>6. ASSUME NEW s \in Sessions, NEW d \in Clients, pc'[d] \in Unspent
          PROVE  charges'[s][serial'[d]] = NoCharge
      <4>1. /\ pc[d] \in Unspent /\ serial'[d] = serial[d] /\ d # c
            /\ pc[d] # "idle"
        BY <2>2, <2>4, <3>6 DEF Unspent
      <4>2. serial[d] \in ChargeIds /\ serial[d] # serial[c]
        BY <1>1, <3>1, <4>1, Serving DEF ServingFacts, PrivateOK
      <4>3. charges[s][serial[d]] = NoCharge
        BY <1>1, <4>1 DEF UnusedOK
      <4>4. QED
        BY <3>3, <4>1, <4>2, <4>3
    <3>7. QED
      BY <2>1, <3>5, <3>6 DEF UnusedOK
  <2>5. QED
    BY <1>3, <2>3, <2>4, ChargesChange DEF StepOf
<1>4. QED
  BY <1>2, <1>3 DEF StepOf

\* A stored intent whose charge and whose writer a step leaves alone.
LEMMA StoredChargeKeeps ==
  ASSUME IInv, ChargeInv, NEW c \in Clients, StepOf(c),
         NEW s \in Sessions, NEW id \in IntentIds,
         Stored(s, id), intents'[s][id] = intents[s][id],
         ~(StoreIntent(c) /\ session(c) = s /\ target[c] = id)
  PROVE  StoredChargeOK(s, id)'
<1> DEFINE intent == intents[s][id]
           k      == intent.latest_charge
<1>1. StoredChargeOK(s, id) /\ intent \in Intents
  BY Parts DEF ChargeInv, StoredChargesOK, Stored, TypeOK
<1>2. CASE k = Null
  BY <1>1, <1>2 DEF StoredChargeOK
<1>3. CASE k # Null
  <2>1. /\ k \in ChargeIds /\ charges[s][k] # NoCharge
        /\ charges[s][k].payment_intent = id
    BY <1>1, <1>3, LatestChargeTyped DEF StoredChargeOK
  <2>2. CASE charges'[s][k] = charges[s][k]
    <3>1. ASSUME NEW d \in Clients, RecordedFor(d, s, id), rq[d].op = "capture"
          PROVE  RecordedFor(d, s, id)' /\ rq'[d].op = "capture"
      BY <3>1, RecordedKeeps DEF RecordedFor, session
    <3>2. (\E d \in Clients : RecordedFor(d, s, id) /\ rq[d].op = "capture") =>
            (\E d \in Clients : RecordedFor(d, s, id)' /\ rq'[d].op = "capture")
      BY <3>1
    <3> DEFINE before == \E d \in Clients : RecordedFor(d, s, id) /\ rq[d].op = "capture"
               after  == \E d \in Clients : RecordedFor(d, s, id)' /\ rq'[d].op = "capture"
    <3>3. /\ charges[s][k] # NoCharge
          /\ charges[s][k].payment_intent = id
          /\ CASE intent.status = "succeeded" ->
                    /\ charges[s][k].captured
                    /\ charges[s][k].amount_captured = intent.amount_received
               [] intent.status = "requires_capture" ->
                    /\ charges[s][k].status = "succeeded"
                    /\ charges[s][k].captured => before
               [] intent.status = "canceled" -> TRUE
               [] OTHER -> charges[s][k].status = "failed"
      BY <1>1, <1>3 DEF StoredChargeOK
    <3>4. before => after
      BY <3>2
    <3> HIDE DEF before
    <3>5. CASE intent.status = "requires_capture"
      BY <1>3, <2>2, <3>3, <3>4, <3>5 DEF StoredChargeOK
    <3>6. CASE intent.status # "requires_capture"
      BY <1>3, <2>2, <3>3, <3>6 DEF StoredChargeOK
    <3>7. QED
      BY <3>5, <3>6
  <2>3. CASE charges'[s][k] # charges[s][k]
    <3>1. /\ PutCharge(c) /\ rq[c].op = "capture" /\ s = session(c)
          /\ k = PutId(c) /\ id = target[c]
      BY <2>1, <2>3, ChargesGrow
    <3>2. CopyFacts(c) /\ intent.status = "requires_capture"
      BY <3>1, PutEffect, PutWhere DEF Base
    <3>3. pi[c].status = "succeeded" /\ pi[c] \in Intents
      BY <3>1, <3>2 DEF CopyFacts
    <3>4. charges'[s][k] = chargeForPI(pi[c], target[c])
      <4>1. \A t \in Sessions, j \in ChargeIds :
              charges'[t][j] = IF t = session(c) /\ j = PutId(c)
                                 THEN chargeForPI(pi[c], target[c])
                                 ELSE charges[t][j]
        BY <3>1, PutEffect
      <4>2. QED
        BY <2>1, <3>1, <4>1
    <3>5. /\ charges'[s][k] # NoCharge
          /\ charges'[s][k].payment_intent = id
          /\ charges'[s][k].status = "succeeded"
      BY <3>1, <3>3, <3>4, ChargeFields
    <3>6. RecordedFor(c, s, id)' /\ rq'[c].op = "capture"
      BY <3>1, PutEffect DEF RecordedFor, Recorded, session
    <3>7. QED
      BY <1>3, <3>2, <3>5, <3>6 DEF StoredChargeOK
  <2>4. QED
    BY <2>2, <2>3
<1>4. QED
  BY <1>2, <1>3

\* The charge of an intent that has just been stored.
LEMMA StoredChargeNew ==
  ASSUME IInv, ChargeInv, NEW c \in Clients, StoreIntent(c)
  PROVE  StoredChargeOK(session(c), target[c])'
<1> DEFINE s  == session(c)
           id == target[c]
           k  == pi[c].latest_charge
<1>1. /\ pc[c] = "store" /\ pc[c] \in Building
      /\ s \in Sessions /\ id \in IntentIds
      /\ ServingFacts(c) /\ CopyFacts(c)
  BY Parts, CopyOutcome DEF StoreIntent, Building, Recording, Locked, ServingFacts
<1>2. intents'[s][id] = pi[c] /\ charges' = charges /\ s' = s /\ id' = id
  <2>1. \A t \in Sessions, j \in IntentIds :
          intents'[t][j] = IF t = session(c) /\ j = target[c]
                             THEN pi[c] ELSE intents[t][j]
    BY Parts, StoreEffect
  <2>2. intents'[s][id] = pi[c]
    BY <1>1, <2>1
  <2>3. QED
    BY <2>2 DEF StoreIntent, session
<1>3. k \in ChargeIds \cup {Null} /\ pi[c] \in Intents
  BY <1>1, LatestChargeTyped DEF CopyFacts
<1>4. Null \notin ChargeIds
  BY DistinguishedValues, BoundsAssumption DEF ChargeIds, Serials
\* What is left to show of the stored copy.
<1> DEFINE Backed ==
      IF k = Null
        THEN ~NeedsCharge(pi[c])
        ELSE /\ charges[s][k] # NoCharge
             /\ charges[s][k].payment_intent = id
             /\ CASE pi[c].status = "succeeded" ->
                       /\ charges[s][k].captured
                       /\ charges[s][k].amount_captured = pi[c].amount_received
                  [] pi[c].status = "requires_capture" ->
                       /\ charges[s][k].status = "succeeded"
                       /\ ~charges[s][k].captured
                  [] pi[c].status = "canceled" -> TRUE
                  [] OTHER -> charges[s][k].status = "failed"
<1>5. SUFFICES Backed
  BY <1>2 DEF StoredChargeOK
<1>6. CASE Recorded(c)
  <2>1. k \in ChargeIds /\ charges[s][k] = chargeForPI(pi[c], id)
    BY <1>1, <1>6 DEF ChargeInv, CopyChargesOK, CopyChargeOK
  <2>2. NeedsCharge(pi[c])
    BY <1>6 DEF Recorded
  <2>3. QED
    BY <1>1, <1>3, <1>4, <2>1, <2>2, ChargeFields DEF NeedsCharge
<1>7. CASE ~Recorded(c)
  <2>1. k = Loaded(c).latest_charge /\ (rq[c].op # "update" => ~NeedsCharge(pi[c]))
    BY <1>1, <1>7 DEF ChargeInv, CopyChargesOK, CopyChargeOK, Recorded
  <2>2. CASE Base(c) = NoIntent
    <3>1. k = Null /\ Loaded(c).status = "requires_confirmation"
      BY <1>1, <2>1, <2>2 DEF CopyFacts
    <3>2. rq[c].op = "update" => pi[c].status = "requires_confirmation"
      BY <1>1, <3>1 DEF CopyFacts
    <3>3. QED
      BY <2>1, <3>1, <3>2 DEF NeedsCharge
  <2>3. CASE Base(c) # NoIntent
    <3>1. Loaded(c) = intents[s][id] /\ StoredChargeOK(s, id)
      BY <1>1, <2>3 DEF CopyFacts, Base, ChargeInv, StoredChargesOK, Stored
    <3>2. ~\E d \in Clients : RecordedFor(d, s, id) /\ rq[d].op = "capture"
      <4>1. ASSUME NEW d \in Clients, RecordedFor(d, s, id), rq[d].op = "capture"
            PROVE  FALSE
        <5>1. pc[d] \in Building
          BY <4>1 DEF RecordedFor, Recorded, Building, Recording, Locked
        <5>2. d # c
          BY <4>1, <1>7 DEF RecordedFor
        <5>3. QED
          BY <1>1, <4>1, <5>1, <5>2, UniqueWriter DEF RecordedFor
      <4>2. QED
        BY <4>1
    <3> DEFINE intent == Loaded(c)
    <3>3. IF k = Null
            THEN ~NeedsCharge(intent)
            ELSE /\ charges[s][k] # NoCharge
                 /\ charges[s][k].payment_intent = id
                 /\ CASE intent.status = "succeeded" ->
                           /\ charges[s][k].captured
                           /\ charges[s][k].amount_captured = intent.amount_received
                      [] intent.status = "requires_capture" ->
                           /\ charges[s][k].status = "succeeded"
                           /\ ~charges[s][k].captured
                      [] intent.status = "canceled" -> TRUE
                      [] OTHER -> charges[s][k].status = "failed"
      <4> DEFINE pending == \E d \in Clients : /\ RecordedFor(d, s, id)
                                               /\ rq[d].op = "capture"
      <4>1. IF k = Null
            THEN ~NeedsCharge(intent)
            ELSE /\ charges[s][k] # NoCharge
                 /\ charges[s][k].payment_intent = id
                 /\ CASE intent.status = "succeeded" ->
                           /\ charges[s][k].captured
                           /\ charges[s][k].amount_captured = intent.amount_received
                      [] intent.status = "requires_capture" ->
                           /\ charges[s][k].status = "succeeded"
                           /\ charges[s][k].captured => pending
                      [] intent.status = "canceled" -> TRUE
                      [] OTHER -> charges[s][k].status = "failed"
        BY <2>1, <3>1 DEF StoredChargeOK
      <4>2. ~pending
        BY <3>2
      <4> HIDE DEF pending, intent, k, s, id
      <4>3. QED
        BY <4>1, <4>2
    <3>4. CASE rq[c].op = "update"
      <4>1. /\ \/ pi[c].status = intent.status
               \/ /\ intent.status = "requires_payment_method"
                  /\ pi[c].status = "requires_confirmation"
            /\ pi[c].last_payment_error = intent.last_payment_error
            /\ pi[c].amount_received = intent.amount_received
        BY <1>1, <3>4 DEF CopyFacts
      <4> HIDE DEF intent, k, s, id
      <4>2. CASE k = Null
        BY <3>3, <4>1, <4>2 DEF NeedsCharge
      <4>3. CASE k # Null
        BY <3>3, <4>1, <4>3
      <4>4. QED
        BY <4>2, <4>3
    <3>5. CASE rq[c].op = "cancel"
      <4>1. pi[c].status = "canceled"
        BY <1>1, <3>5 DEF CopyFacts
      <4> HIDE DEF intent, k, s, id
      <4>2. QED
        BY <3>3, <4>1 DEF NeedsCharge
    <3>6. CASE rq[c].op = "confirm"
      <4>1. /\ intent.status \in {"requires_confirmation", "requires_action",
                                  "requires_payment_method"}
            /\ pi[c].status = "requires_action"
        BY <1>1, <2>1, <3>6 DEF CopyFacts, NeedsCharge
      <4> HIDE DEF intent, k, s, id
      <4>2. QED
        BY <3>3, <4>1 DEF NeedsCharge
    <3>7. rq[c].op \in {"confirm", "cancel", "update"}
      BY <1>1, <2>1, <2>3 DEF CopyFacts, NeedsCharge
    <3>8. QED
      BY <3>4, <3>5, <3>6, <3>7
  <2>4. QED
    BY <2>2, <2>3
<1>8. QED
  BY <1>6, <1>7

LEMMA StoredChargesStep ==
  ASSUME IInv, ChargeInv, NEW c \in Clients, StepOf(c)
  PROVE  StoredChargesOK'
<1>1. SUFFICES ASSUME NEW s \in Sessions, NEW id \in IntentIds, Stored(s, id)'
               PROVE  StoredChargeOK(s, id)'
  BY DEF StoredChargesOK
<1>2. CASE StoreIntent(c) /\ session(c) = s /\ target[c] = id
  <2>1. session(c)' = s /\ target'[c] = id
    BY <1>2 DEF StoreIntent, session
  <2>2. StoredChargeOK(session(c), target[c])'
    BY <1>2, StoredChargeNew
  <2>3. QED
    BY <2>1, <2>2 DEF StoredChargeOK, RecordedFor
<1>3. CASE ~(StoreIntent(c) /\ session(c) = s /\ target[c] = id)
  <2>1. intents'[s][id] = intents[s][id]
    <3>1. CASE intents' = intents
      BY <3>1
    <3>2. CASE StoreIntent(c)
      BY <1>3, <3>2, Parts, StoreEffect
    <3>3. QED
      BY <3>1, <3>2, Parts, ArriveEffect, HandleEffect DEF StepOf, Effect
  <2>2. QED
    BY <1>1, <1>3, <2>1, StoredChargeKeeps DEF Stored
<1>4. QED
  BY <1>2, <1>3

\* No step of another handler touches the intent c is about to store.
LEMMA BaseKeeps ==
  ASSUME IInv, NEW d \in Clients, StepOf(d),
         NEW c \in Clients, c # d, pc[c] \in Building
  PROVE  Loaded(c)' = Loaded(c)
<1>1. rq'[c] = rq[c] /\ target'[c] = target[c]
  BY OthersSame DEF Same
<1>2. session(c) \in Sessions /\ target[c] \in IntentIds
  BY Parts, Serving DEF ServingFacts, Building, Recording, Locked
<1>3. intents'[session(c)][target[c]] = intents[session(c)][target[c]]
  <2>1. CASE intents' = intents
    BY <2>1
  <2>2. CASE StoreIntent(d)
    <3>1. /\ pc[d] \in Building
          /\ \A t \in Sessions, j \in IntentIds :
               intents'[t][j] = IF t = session(d) /\ j = target[d]
                                  THEN pi[d] ELSE intents[t][j]
      BY <2>2, Parts, StoreEffect DEF Building, Recording, Locked
    <3>2. target[c] # target[d]
      BY <3>1, UniqueWriter
    <3>3. QED
      BY <1>2, <3>1, <3>2
  <2>3. QED
    BY <2>1, <2>2, Parts, ArriveEffect, HandleEffect DEF StepOf, Effect
<1>4. QED
  BY <1>1, <1>3 DEF Loaded, session

\* A step of another handler leaves the charge c is recording as it is.
LEMMA OthersCopyCharge ==
  ASSUME IInv, ChargeInv, NEW d \in Clients, StepOf(d),
         NEW c \in Clients, c # d
  PROVE  CopyChargeOK(c)'
<1>1. Same(c) /\ CopyChargeOK(c)
  BY OthersSame DEF ChargeInv, CopyChargesOK
<1>2. CASE pc[c] \notin Building
  BY <1>1, <1>2 DEF CopyChargeOK, Same, Building, Recording, Locked
<1>3. CASE pc[c] \in Building
  <2>1. Loaded(c)' = Loaded(c) /\ ServingFacts(c) /\ CopyFacts(c)
    BY <1>3, BaseKeeps, Parts, CopyOutcome
  <2>2. CASE Recorded(c)
    <3> DEFINE s == session(c)
               k == pi[c].latest_charge
    <3>1. k \in ChargeIds /\ charges[s][k] = chargeForPI(pi[c], target[c])
          /\ s \in Sessions
      BY <1>1, <1>3, <2>1, <2>2 DEF CopyChargeOK, ServingFacts
    <3>2. charges[s][k] # NoCharge /\ charges[s][k].payment_intent = target[c]
      BY <2>1, <3>1, ChargeFields DEF CopyFacts, ServingFacts
    <3>3. charges'[s][k] = charges[s][k]
      <4>1. SUFFICES ASSUME PutCharge(d), charges[s][k].payment_intent = target[d]
                     PROVE  FALSE
        BY <3>1, <3>2, ChargesGrow
      <4>2. pc[d] \in Building
        BY <4>1 DEF PutCharge, Building, Recording, Locked
      <4>3. QED
        BY <1>3, <3>2, <4>1, <4>2, UniqueWriter
    <3>4. QED
      BY <1>1, <1>3, <2>1, <2>2, <3>3 DEF CopyChargeOK, Same, Recorded, session
  <2>3. CASE ~Recorded(c)
    BY <1>1, <1>3, <2>1, <2>3 DEF CopyChargeOK, Same, Recorded, session
  <2>4. QED
    BY <2>2, <2>3
<1>4. QED
  BY <1>2, <1>3

LEMMA GateCopyCharge ==
  ASSUME IInv, ChargeInv, NEW c \in Clients, GateOpen(c)
  PROVE  CopyChargeOK(c)'
<1>1. pc[c] # "idle" /\ ServingFacts(c) /\ rq[c].op # "other" /\ rq' = rq
      /\ target' = target /\ intents' = intents
  BY Parts, Serving DEF GateOpen, store
<1>2. /\ pc'[c] \in ReadOps \cup {"lock", "created_event"}
      /\ pc'[c] = "created_event" =>
           rq[c].op = "create" /\ pi'[c] = newPaymentIntent(params(c))
  BY <1>1, Parts DEF GateOpen, Goto, TypeOK, ServingFacts, Ops, ReadOps, ActionOps
<1>3. CASE pc'[c] = "created_event"
  <2>1. pi'[c].latest_charge = Null
    BY <1>1, <1>2, <1>3, NewOutcome DEF ServingFacts
  <2>2. ~Stored(session(c), target[c])
    BY <1>1, <1>2, <1>3, Parts DEF FreshOK, ServingFacts, GateOpen
  <2>3. Loaded(c)'.latest_charge = Null
    BY <1>1, <2>2, AdoptedFacts DEF Loaded, orAdopted, Stored, session
  <2>4. QED
    BY <1>3, <2>1, <2>3 DEF CopyChargeOK, Recorded
<1>4. CASE pc'[c] # "created_event"
  BY <1>2, <1>4 DEF CopyChargeOK, Building, Recording, Locked, ReadOps
<1>5. QED
  BY <1>3, <1>4

LEMMA LoadCopyCharge ==
  ASSUME IInv, ChargeInv, NEW c \in Clients, LoadAndApply(c)
  PROVE  CopyChargeOK(c)'
<1> DEFINE intent == Apply(rq[c].op, Loaded(c), params(c))
           label  == IF rq[c].op = "update" THEN "store" ELSE RecordFrom(intent)
<1>1. pc[c] = "load" /\ ServingFacts(c) /\ rq[c].op # "unsimulated" /\ Accepted(c)
  BY Parts, Serving DEF LoadAndApply
<1>2. /\ rq[c].op \in LifecycleOps /\ Loaded(c) \in Intents
      /\ params(c) \in ParamSpace /\ ch[c] = NoCharge
  BY <1>1, LoadedTyped
     DEF ServingFacts, ControlOK, CopiesOK, ActionOps, LifecycleOps, Loaded
<1>3. intent \in Intents /\ intent.latest_charge = Loaded(c).latest_charge
  <2>1. intent \in Intents
    BY <1>2, ApplyTyped
  <2>2. applyConfirm(Loaded(c), params(c)).latest_charge = Loaded(c).latest_charge
    BY <1>2, ConfirmOutcome
  <2>3. applyUpdate(Loaded(c), params(c)).latest_charge = Loaded(c).latest_charge
    BY <1>2, UpdateOutcome
  <2>4. applyCapture(Loaded(c), params(c)).latest_charge = Loaded(c).latest_charge
    BY <1>2 DEF applyCapture, Intents
  <2>5. applyCancel(Loaded(c)).latest_charge = Loaded(c).latest_charge
    BY <1>2 DEF applyCancel, Intents
  <2>6. QED
    BY <2>1, <2>2, <2>3, <2>4, <2>5 DEF Apply
<1>4. /\ pi'[c] = intent /\ pc'[c] = label
      /\ UNCHANGED <<intents, charges, rq, serial, target, ch>>
  BY Parts DEF LoadAndApply, Goto, TypeOK, store
<1>5. Loaded(c)' = Loaded(c)
  BY <1>4 DEF Loaded, session
<1>6. rq[c].op = "cancel" => ~NeedsCharge(intent)
  BY <1>2 DEF Apply, applyCancel, NeedsCharge, Intents
<1>7. rq[c].op = "capture" => Loaded(c).latest_charge # Null
  <2>1. SUFFICES ASSUME rq[c].op = "capture"
                 PROVE  Loaded(c).latest_charge # Null
    OBVIOUS
  <2>2. Loaded(c).status = "requires_capture"
    BY <1>1, <2>1 DEF Accepted, Accepts, mayCapture
  <2>3. Base(c) # NoIntent /\ Loaded(c) = Base(c)
    BY <2>2, AdoptedFacts DEF Base, Loaded, orAdopted
  <2>4. StoredChargeOK(session(c), target[c])
    BY <1>1, <2>3 DEF Base, ChargeInv, StoredChargesOK, Stored, ServingFacts
  <2>5. QED
    BY <2>2, <2>3, <2>4 DEF StoredChargeOK, Base, NeedsCharge
<1> HIDE DEF intent
<1>8. /\ label \in {"find_charge", "put_charge"} =>
           NeedsCharge(intent) /\ rq[c].op # "update"
      /\ label \in {"intent_event", "store"} =>
           rq[c].op = "update" \/ ~NeedsCharge(intent)
      /\ label = "put_charge" => intent.latest_charge = Null
      /\ label \in {"find_charge", "put_charge", "intent_event", "store"}
  BY DEF RecordFrom
<1> HIDE DEF label
<1>9. ~Recorded(c)'
  BY <1>4, <1>8 DEF Recorded
<1>10. pi'[c].latest_charge = Loaded(c)'.latest_charge
  BY <1>3, <1>4, <1>5
<1>11. pc'[c] \in {"find_charge", "put_charge"} => rq'[c].op \in {"confirm", "capture"}
  BY <1>2, <1>4, <1>6, <1>8 DEF LifecycleOps
<1>12. pc'[c] = "put_charge" => rq'[c].op # "capture" /\ ch'[c] = NoCharge
  BY <1>2, <1>3, <1>4, <1>7, <1>8
<1>13. pc'[c] # "charge_event"
  BY <1>4, <1>8
<1>14. QED
  BY <1>9, <1>10, <1>11, <1>12, <1>13 DEF CopyChargeOK

LEMMA CreatedCopyCharge ==
  ASSUME IInv, ChargeInv, NEW c \in Clients, EnqueueCreated(c)
  PROVE  CopyChargeOK(c)'
<1>1. pc[c] = "created_event" /\ pc[c] \in Building
  BY DEF EnqueueCreated, Building
<1>2. ServingFacts(c) /\ CopyFacts(c) /\ rq[c].op = "create" /\ ch[c] = NoCharge
  BY <1>1, Parts, CopyOutcome DEF ServingFacts, ControlOK, CopiesOK
<1>3. pi[c].latest_charge = Loaded(c).latest_charge /\ pi[c].latest_charge = Null
  BY <1>1, <1>2 DEF ChargeInv, CopyChargesOK, CopyChargeOK, Recorded, CopyFacts
<1>4. /\ pc'[c] = RecordFrom(pi[c])
      /\ UNCHANGED <<intents, charges, rq, serial, target, ch, pi>>
  BY Parts DEF EnqueueCreated, Goto, TypeOK
<1>5. /\ pc'[c] \in {"put_charge", "intent_event", "store"}
      /\ pc'[c] \in {"intent_event", "store"} => ~NeedsCharge(pi[c])
  BY <1>3, <1>4 DEF RecordFrom
<1>6. Loaded(c)' = Loaded(c)
  BY <1>4 DEF Loaded, session
<1>7. QED
  BY <1>2, <1>3, <1>4, <1>5, <1>6 DEF CopyChargeOK, Recorded

LEMMA FindCopyCharge ==
  ASSUME IInv, ChargeInv, NEW c \in Clients, FindCharge(c)
  PROVE  CopyChargeOK(c)'
<1> DEFINE charge == charges[session(c)][pi[c].latest_charge]
<1>1. pc[c] = "find_charge" /\ pc[c] \in Building
  BY DEF FindCharge, Building, Recording, Locked
<1>2. /\ ServingFacts(c) /\ CopyFacts(c)
      /\ pi[c].latest_charge \in ChargeIds
  BY <1>1, Parts, CopyOutcome DEF ServingFacts, CopiesOK
<1>3. /\ pi[c].latest_charge = Loaded(c).latest_charge
      /\ rq[c].op \in {"create", "confirm", "capture"}
  BY <1>1 DEF ChargeInv, CopyChargesOK, CopyChargeOK, Recorded
<1>4. Null \notin ChargeIds
  BY DistinguishedValues, BoundsAssumption DEF ChargeIds, Serials
<1>5. Base(c) # NoIntent /\ Loaded(c) = Base(c)
  BY <1>2, <1>3, <1>4 DEF CopyFacts
<1>6. StoredChargeOK(session(c), target[c])
  BY <1>2, <1>5 DEF Base, ChargeInv, StoredChargesOK, Stored, ServingFacts
<1>7. charge # NoCharge /\ (charge.status # "failed" <=> rq[c].op = "capture")
  <2>1. rq[c].op \in {"confirm", "capture"}
    BY <1>2, <1>3, <1>5 DEF CopyFacts
  <2>2. CASE rq[c].op = "capture"
    BY <1>2, <1>3, <1>4, <1>5, <1>6, <2>2 DEF CopyFacts, StoredChargeOK, Base
  <2>3. CASE rq[c].op = "confirm"
    BY <1>2, <1>3, <1>4, <1>5, <1>6, <2>3 DEF CopyFacts, StoredChargeOK, Base
  <2>4. QED
    BY <2>1, <2>2, <2>3
<1>8. /\ pc'[c] = "put_charge"
      /\ ch'[c] = IF reusable(charge) THEN charge ELSE NoCharge
      /\ UNCHANGED <<intents, charges, rq, serial, target, pi>>
  BY Parts DEF FindCharge, Goto, TypeOK, store
<1>9. Loaded(c)' = Loaded(c)
  BY <1>8 DEF Loaded, session
<1>10. ch'[c] # NoCharge <=> rq'[c].op = "capture"
  BY <1>7, <1>8 DEF reusable
<1>11. QED
  BY <1>3, <1>8, <1>9, <1>10 DEF CopyChargeOK, Recorded

LEMMA PutCopyCharge ==
  ASSUME IInv, ChargeInv, NEW c \in Clients, PutCharge(c)
  PROVE  CopyChargeOK(c)'
<1> DEFINE s == session(c)
           k == PutId(c)
<1>1. /\ pc'[c] = "charge_event" /\ k \in ChargeIds /\ s \in Sessions
      /\ target[c] \in IntentIds /\ pi[c] \in Intents
      /\ pi'[c] = [pi[c] EXCEPT !.latest_charge = k]
      /\ pi'[c].latest_charge = k
      /\ NeedsCharge(pi'[c])
      /\ ch'[c] = chargeForPI(pi[c], target[c])
      /\ UNCHANGED <<intents, rq, serial, target>>
  BY PutEffect
<1>2. \A t \in Sessions, j \in ChargeIds :
        charges'[t][j] = IF t = session(c) /\ j = PutId(c)
                           THEN chargeForPI(pi[c], target[c])
                           ELSE charges[t][j]
  BY PutEffect
<1>3. charges'[s][k] = chargeForPI(pi[c], target[c])
  BY <1>1, <1>2
<1>4. chargeForPI(pi'[c], target[c]) = chargeForPI(pi[c], target[c])
  BY <1>1, ChargeFields
<1>5. /\ CopyFacts(c) /\ pc[c] = "put_charge"
      /\ rq[c].op \in {"create", "confirm", "capture"}
      /\ IF rq[c].op = "capture"
           THEN k = Loaded(c).latest_charge
           ELSE k = serial[c] /\ charges[s][k] = NoCharge
  BY PutEffect, PutWhere
<1>6. rq[c].op # "capture" => k # Loaded(c).latest_charge
  <2>1. SUFFICES ASSUME rq[c].op # "capture", k = Loaded(c).latest_charge
                 PROVE  FALSE
    OBVIOUS
  <2>2. Null \notin ChargeIds
    BY DistinguishedValues, BoundsAssumption DEF ChargeIds, Serials
  <2>3. Base(c) # NoIntent /\ Loaded(c) = Base(c)
    BY <1>1, <1>5, <2>1, <2>2 DEF CopyFacts
  <2>4. StoredChargeOK(s, target[c])
    BY <1>1, <2>3 DEF Base, ChargeInv, StoredChargesOK, Stored
  <2>5. QED
    BY <1>1, <1>5, <2>1, <2>2, <2>3, <2>4 DEF StoredChargeOK, Base
<1>7. Loaded(c)' = Loaded(c) /\ session(c)' = session(c)
  BY <1>1 DEF Loaded, session
<1>8. Recorded(c)'
  BY <1>1, <1>5 DEF Recorded
<1> HIDE DEF s, k
<1>9. /\ charges'[session(c)'][pi'[c].latest_charge] = chargeForPI(pi'[c], target'[c])
      /\ ch'[c] = chargeForPI(pi'[c], target'[c])
  BY <1>1, <1>3, <1>4, <1>7 DEF s
<1>10. QED
  BY <1>1, <1>5, <1>6, <1>7, <1>8, <1>9 DEF CopyChargeOK

LEMMA EventCopyCharge ==
  ASSUME IInv, ChargeInv, NEW c \in Clients,
         EnqueueChargeEvent(c) \/ EnqueueIntentEvent(c)
  PROVE  CopyChargeOK(c)'
<1>1. /\ pc[c] \in {"charge_event", "intent_event"}
      /\ pc'[c] \in {"intent_event", "store"}
      /\ UNCHANGED <<intents, charges, rq, serial, target, ch, pi>>
  BY Parts DEF EnqueueChargeEvent, EnqueueIntentEvent, Goto, TypeOK
<1>2. Loaded(c)' = Loaded(c) /\ session(c)' = session(c)
  BY <1>1 DEF Loaded, session
<1>3. Recorded(c)' <=> Recorded(c)
  BY <1>1 DEF Recorded
<1>4. CopyChargeOK(c) /\ pc[c] \in Building
  BY <1>1 DEF ChargeInv, CopyChargesOK, Building, Recording, Locked
<1>5. QED
  BY <1>1, <1>2, <1>3, <1>4 DEF CopyChargeOK

LEMMA CopyChargesStep ==
  ASSUME IInv, ChargeInv, NEW c \in Clients, StepOf(c)
  PROVE  CopyChargesOK'
<1>1. \A d \in Clients : d # c => CopyChargeOK(d)'
  BY OthersCopyCharge
<1>2. CopyChargeOK(c)'
  <2>1. CASE pc'[c] \notin Building
    BY <2>1 DEF CopyChargeOK, Building, Recording, Locked
  <2>2. CASE pc'[c] \in Building
    <3>1. \/ GateOpen(c) \/ LoadAndApply(c) \/ EnqueueCreated(c)
          \/ FindCharge(c) \/ PutCharge(c)
          \/ EnqueueChargeEvent(c) \/ EnqueueIntentEvent(c)
      BY <2>2, Parts, ArriveEffect
         DEF StepOf, TypeOK, Building, Recording, Locked, AcquireLock, Handle,
             OptIn, FallThrough, RefuseCreate, ListCharges, RetrieveCharge,
             ExpandCharge, Retrieve, LeaveUnsimulated, LoadAndReject,
             StoreIntent, Expand, Respond, Goto, Answer
    <3>2. QED
      BY <3>1, GateCopyCharge, LoadCopyCharge, CreatedCopyCharge,
         FindCopyCharge, PutCopyCharge, EventCopyCharge
  <2>3. QED
    BY <2>1, <2>2
<1>3. QED
  BY <1>1, <1>2 DEF CopyChargesOK

\* A live charge that its intent does not name while c has loaded the intent
\* cannot be one c leaves behind: c replaces only a failed charge.
LEMMA StoreKeepsLive ==
  ASSUME IInv, ChargeInv, NEW c \in Clients, StoreIntent(c),
         Base(c) # NoIntent,
         NEW k \in LiveCharges(session(c), target[c]),
         Base(c).latest_charge = k
  PROVE  pi[c].latest_charge = k
<1>1. /\ pc[c] \in Building /\ ServingFacts(c) /\ CopyFacts(c)
      /\ session(c) \in Sessions /\ target[c] \in IntentIds
  BY Parts, CopyOutcome DEF StoreIntent, Building, Recording, Locked, ServingFacts
<1>2. Loaded(c) = Base(c)
  BY <1>1 DEF CopyFacts
<1>3. IF Recorded(c) /\ rq[c].op # "capture"
        THEN rq[c].op = "confirm"
        ELSE pi[c].latest_charge = Loaded(c).latest_charge
  <2>1. CASE Recorded(c) /\ rq[c].op # "capture"
    BY <1>1, <2>1 DEF CopyFacts, Recorded, NeedsCharge
  <2>2. CASE ~(Recorded(c) /\ rq[c].op # "capture")
    BY <1>1, <2>2 DEF ChargeInv, CopyChargesOK, CopyChargeOK
  <2>3. QED
    BY <2>1, <2>2
<1>4. CASE Recorded(c) /\ rq[c].op # "capture"
  <2>1. Base(c).status \in {"requires_confirmation", "requires_action",
                            "requires_payment_method"}
    BY <1>1, <1>2, <1>3, <1>4 DEF CopyFacts
  <2>2. StoredChargeOK(session(c), target[c])
    BY <1>1 DEF ChargeInv, StoredChargesOK, Stored, Base
  <2>3. k # Null /\ charges[session(c)][k].status = "succeeded"
    BY DistinguishedValues, BoundsAssumption DEF LiveCharges, ChargeIds, Serials
  <2>4. charges[session(c)][k].status = "failed"
    BY <2>1, <2>2, <2>3 DEF StoredChargeOK, Base
  <2>5. QED
    BY <2>3, <2>4
<1>5. CASE ~(Recorded(c) /\ rq[c].op # "capture")
  BY <1>2, <1>3, <1>5
<1>6. QED
  BY <1>4, <1>5

LEMMA LiveStep ==
  ASSUME IInv, ChargeInv, NEW c \in Clients, StepOf(c)
  PROVE  LiveOK'
<1>1. SUFFICES ASSUME NEW s \in Sessions, NEW id \in IntentIds,
                      NEW k \in ChargeIds, k \in LiveCharges(s, id)'
               PROVE  \/ Stored(s, id)' /\ intents'[s][id].latest_charge = k
                      \/ \E d \in Clients : /\ RecordedFor(d, s, id)'
                                            /\ pi'[d].latest_charge = k
  BY DEF LiveOK, LiveCharges
<1>2. ASSUME k \in LiveCharges(s, id), ~PutCharge(c) \/ ~(s = session(c) /\ k = PutId(c))
      PROVE  \/ Stored(s, id)' /\ intents'[s][id].latest_charge = k
             \/ \E d \in Clients : /\ RecordedFor(d, s, id)'
                                   /\ pi'[d].latest_charge = k
  <2>1. CASE StoreIntent(c) /\ session(c) = s /\ target[c] = id
    <3>1. \A t \in Sessions, j \in IntentIds :
            intents'[t][j] = IF t = session(c) /\ j = target[c]
                               THEN pi[c] ELSE intents[t][j]
      BY <2>1, Parts, StoreEffect
    <3>2. intents'[s][id] = pi[c]
      BY <2>1, <3>1
    <3>3. /\ pc[c] \in Building /\ ServingFacts(c) /\ pi[c] \in Intents
      BY <2>1, Parts, CopyOutcome DEF StoreIntent, Building, Recording, Locked, CopyFacts
    <3>4. Stored(s, id)'
      BY <3>2, <3>3, DistinguishedValues DEF Stored
    <3>5. pi[c].latest_charge = k
      <4>1. CASE Stored(s, id) /\ intents[s][id].latest_charge = k
        BY <1>2, <2>1, <4>1, StoreKeepsLive DEF Stored, Base
      <4>2. ASSUME NEW d \in Clients, RecordedFor(d, s, id), pi[d].latest_charge = k
            PROVE  pi[c].latest_charge = k
        <5>1. pc[d] \in Building
          BY <4>2 DEF RecordedFor, Recorded, Building, Recording, Locked
        <5>2. d = c
          BY <2>1, <3>3, <4>2, <5>1, UniqueWriter DEF RecordedFor
        <5>3. QED
          BY <4>2, <5>2
      <4>3. QED
        BY <1>2, <4>1, <4>2 DEF ChargeInv, LiveOK
    <3>6. QED
      BY <3>2, <3>4, <3>5
  <2>2. CASE ~(StoreIntent(c) /\ session(c) = s /\ target[c] = id)
    <3>1. intents'[s][id] = intents[s][id]
      <4>1. CASE intents' = intents
        BY <4>1
      <4>2. CASE StoreIntent(c)
        BY <2>2, <4>2, Parts, StoreEffect
      <4>3. QED
        BY <4>1, <4>2, Parts, ArriveEffect, HandleEffect DEF StepOf, Effect
    <3>2. CASE Stored(s, id) /\ intents[s][id].latest_charge = k
      BY <3>1, <3>2 DEF Stored
    <3>3. ASSUME NEW d \in Clients, RecordedFor(d, s, id), pi[d].latest_charge = k
          PROVE  RecordedFor(d, s, id)' /\ pi'[d].latest_charge = k
      <4>1. ~(d = c /\ StoreIntent(c))
        BY <2>2, <3>3 DEF RecordedFor
      <4>2. QED
        BY <3>3, <4>1, RecordedKeeps DEF RecordedFor, session
    <3>4. QED
      BY <1>2, <3>2, <3>3 DEF ChargeInv, LiveOK
  <2>3. QED
    BY <2>1, <2>2
<1>3. CASE ~PutCharge(c)
  <2>1. k \in LiveCharges(s, id)
    BY <1>1, <1>3, ChargesChange DEF LiveCharges
  <2>2. QED
    BY <1>2, <1>3, <2>1
<1>4. CASE PutCharge(c)
  <2>1. \A t \in Sessions, j \in ChargeIds :
          charges'[t][j] = IF t = session(c) /\ j = PutId(c)
                             THEN chargeForPI(pi[c], target[c])
                             ELSE charges[t][j]
    BY <1>4, PutEffect
  <2>2. CASE s = session(c) /\ k = PutId(c)
    <3>1. /\ pi'[c].latest_charge = k /\ NeedsCharge(pi'[c])
          /\ pc'[c] = "charge_event" /\ UNCHANGED <<rq, target>>
          /\ rq[c].op \in {"create", "confirm", "capture"}
          /\ target[c] \in IntentIds /\ pi[c] \in Intents
      BY <1>4, <2>2, PutEffect, PutWhere
    <3>2. charges'[s][k].payment_intent = target[c]
      BY <2>1, <2>2, <3>1, ChargeFields
    <3>3. id = target[c]
      BY <1>1, <3>2 DEF LiveCharges
    <3>4. QED
      BY <2>2, <3>1, <3>3 DEF RecordedFor, Recorded, session
  <2>3. CASE ~(s = session(c) /\ k = PutId(c))
    <3>1. charges'[s][k] = charges[s][k]
      BY <2>1, <2>3
    <3>2. k \in LiveCharges(s, id)
      BY <1>1, <3>1 DEF LiveCharges
    <3>3. QED
      BY <1>2, <2>3, <3>2
  <2>4. QED
    BY <2>2, <2>3
<1>5. QED
  BY <1>3, <1>4

\* The charge a response is built from stays there and never falls back.
LEMMA OthersRead ==
  ASSUME IInv, ChargeInv, NEW d \in Clients, StepOf(d),
         NEW c \in Clients, c # d
  PROVE  ReadOK(c)'
<1>1. SUFFICES ASSUME pc'[c] \in {"expand", "respond"}, reply'[c] = "intent"
               PROVE  ReadOK(c)'
  BY DEF ReadOK
<1>2. Same(c) /\ ReadOK(c)
  BY OthersSame DEF ChargeInv, ReadsOK
<1>3. ServingFacts(c) /\ pi[c] \in Intents
  BY <1>1, <1>2, Parts, Serving DEF Same, ReadOK
<1>4. pi[c].latest_charge # Null =>
        Backs(charges'[session(c)][pi[c].latest_charge], target[c], pi[c])
  BY <1>1, <1>2, <1>3, ChargesGrow, LatestChargeTyped
     DEF ReadOK, Backs, Same, ServingFacts
<1>5. QED
  BY <1>1, <1>2, <1>3, <1>4 DEF ReadOK, Same, session, Expands

LEMMA ReadsStep ==
  ASSUME IInv, ChargeInv, StoredChargesOK', NEW c \in Clients, StepOf(c)
  PROVE  ReadsOK'
<1>1. SUFFICES ASSUME pc'[c] \in {"expand", "respond"}, reply'[c] = "intent"
               PROVE  ReadOK(c)'
  BY OthersRead DEF ReadsOK, ReadOK
<1>2. /\ Handle(c) /\ pc[c] # "idle" /\ ServingFacts(c)
      /\ rq'[c] = rq[c] /\ target'[c] = target[c] /\ session(c)' = session(c)
  BY <1>1, Parts, ArriveEffect, HandleEffect, Serving
     DEF StepOf, Effect, AcquireLock, Goto, TypeOK, session
<1>3. Retrieve(c) \/ StoreIntent(c) \/ Expand(c)
  <2>1. \/ FallThrough(c) \/ RefuseCreate(c) \/ ListCharges(c)
        \/ RetrieveCharge(c) \/ ExpandCharge(c) \/ Retrieve(c)
        \/ LeaveUnsimulated(c) \/ LoadAndReject(c) \/ StoreIntent(c) \/ Expand(c)
    BY <1>1, <1>2, Parts
       DEF TypeOK, Handle, OptIn, GateOpen, LoadAndApply, EnqueueCreated,
           FindCharge, PutCharge, EnqueueChargeEvent, EnqueueIntentEvent,
           Respond, Goto, RecordFrom, ReadOps, ActionOps
  <2>2. pc[c] = "expand_charge" => reply[c] # "intent"
    BY <1>2 DEF ServingFacts, ControlOK, LifecycleOps
  <2>3. QED
    BY <1>1, <2>1, <2>2, Parts
       DEF TypeOK, FallThrough, RefuseCreate, ListCharges, RetrieveCharge,
           ExpandCharge, LeaveUnsimulated, LoadAndReject, Answer
\* What is copied is stored after the step.
<1>4. ASSUME NEW intent \in Intents, pi'[c] = intent,
             intents'[session(c)][target[c]] = intent, charges' = charges,
             pc'[c] = IF Expands(c, intent) THEN "expand" ELSE "respond"
      PROVE  ReadOK(c)'
  <2>1. StoredChargeOK(session(c), target[c])'
    BY <1>2, <1>4, DistinguishedValues
       DEF StoredChargesOK, Stored, ServingFacts, StoredChargeOK, RecordedFor
  <2>2. intent.latest_charge # Null =>
          Backs(charges[session(c)][intent.latest_charge], target[c], intent)
    BY <1>2, <1>4, <2>1 DEF StoredChargeOK, Backs
  <2>3. Expands(c, intent)' <=> Expands(c, intent)
    BY <1>2 DEF Expands
  <2>4. QED
    BY <1>2, <1>4, <2>2, <2>3 DEF ReadOK, session, Expands
<1>5. CASE Retrieve(c)
  <2> DEFINE intent == intents[session(c)][target[c]]
  <2>1. /\ intent # NoIntent /\ pi'[c] = intent
        /\ pc'[c] = IF Expands(c, intent) THEN "expand" ELSE "respond"
    BY <1>1, <1>5, Parts DEF Retrieve, Answer, Goto, TypeOK
  <2>2. intent \in Intents /\ intents' = intents /\ charges' = charges
    BY <1>2, <1>5, <2>1 DEF ServingFacts, Retrieve, store
  <2>3. QED
    BY <1>4, <2>1, <2>2
<1>6. CASE StoreIntent(c)
  <2>1. \A t \in Sessions, j \in IntentIds :
          intents'[t][j] = IF t = session(c) /\ j = target[c]
                             THEN pi[c] ELSE intents[t][j]
    BY <1>6, Parts, StoreEffect
  <2>2. intents'[session(c)][target[c]] = pi[c]
    BY <1>2, <2>1 DEF ServingFacts
  <2>3. pi[c] \in Intents
    BY <1>2, <1>6 DEF ServingFacts, CopiesOK, StoreIntent, Building, Recording, Locked
  <2>4. /\ pi' = pi /\ charges' = charges
        /\ pc'[c] = IF Expands(c, pi[c]) THEN "expand" ELSE "respond"
    BY <1>6, Parts DEF StoreIntent, Goto, TypeOK
  <2>5. QED
    BY <1>4, <2>2, <2>3, <2>4
<1>7. CASE Expand(c)
  <2>1. /\ pc[c] = "expand" /\ pi' = pi /\ charges' = charges /\ reply' = reply
        /\ ch'[c] = charges[session(c)][pi[c].latest_charge]
    BY <1>7, Parts DEF Expand, TypeOK, store
  <2>2. ReadOK(c) /\ reply[c] = "intent"
    BY <1>1, <2>1 DEF ChargeInv, ReadsOK
  <2>3. /\ pi[c] \in Intents
        /\ pi[c].latest_charge # Null =>
             Backs(charges[session(c)][pi[c].latest_charge], target[c], pi[c])
    BY <2>1, <2>2 DEF ReadOK
  <2>4. QED
    BY <1>2, <2>1, <2>3 DEF ReadOK, Expands, session
<1>8. QED
  BY <1>3, <1>5, <1>6, <1>7

-----------------------------------------------------------------------------
(* The theorems                                                            *)

LEMMA ChargeInit == Init => ChargeInv
<1> SUFFICES ASSUME Init PROVE ChargeInv
  OBVIOUS
<1>1. /\ \A s \in Sessions, id \in IntentIds : ~Stored(s, id)
      /\ \A s \in Sessions, k \in ChargeIds : charges[s][k] = NoCharge
      /\ \A c \in Clients : pc[c] = "idle"
  BY DEF Init, Stored
<1>2. IssuedOK /\ LifecycleFieldsFollowStatus /\ StoredChargesOK
  BY <1>1 DEF IssuedOK, LifecycleFieldsFollowStatus, StoredChargesOK
<1>3. CopyChargesOK /\ UnusedOK /\ ReadsOK
  BY <1>1 DEF CopyChargesOK, CopyChargeOK, UnusedOK, Unspent, ReadsOK, ReadOK,
     Building, Recording, Locked
<1>4. LiveOK
  BY <1>1 DEF LiveOK, LiveCharges
<1>5. QED
  BY <1>2, <1>3, <1>4 DEF ChargeInv

LEMMA ChargeInvStep == IInv /\ ChargeInv /\ [Next]_vars => ChargeInv'
<1> SUFFICES ASSUME IInv, ChargeInv, [Next]_vars
             PROVE  ChargeInv'
  OBVIOUS
<1>1. ASSUME NEW c \in Clients, StepOf(c)
      PROVE  ChargeInv'
  <2>1. IssuedOK'
    BY <1>1, IssuedStep DEF ChargeInv
  <2>2. LifecycleFieldsFollowStatus'
    BY FieldsStep DEF ChargeInv
  <2>3. StoredChargesOK'
    BY <1>1, StoredChargesStep
  <2>4. CopyChargesOK' /\ UnusedOK' /\ LiveOK' /\ ReadsOK'
    BY <1>1, <2>3, CopyChargesStep, UnusedStep, LiveStep, ReadsStep
  <2>5. QED
    BY <2>1, <2>2, <2>3, <2>4 DEF ChargeInv
<1>2. ASSUME UNCHANGED vars
      PROVE  ChargeInv'
  <2>1. IssuedOK' /\ LifecycleFieldsFollowStatus' /\ UnusedOK'
    BY <1>2 DEF vars, ChargeInv, IssuedOK, LifecycleFieldsFollowStatus, Stored,
       UnusedOK
  <2>2. StoredChargesOK'
    BY <1>2 DEF vars, ChargeInv, StoredChargesOK, StoredChargeOK, Stored,
       RecordedFor, Recorded, session
  <2>3. CopyChargesOK'
    BY <1>2 DEF vars, ChargeInv, CopyChargesOK, CopyChargeOK, Recorded, session,
       Loaded
  <2>4. LiveOK'
    BY <1>2 DEF vars, ChargeInv, LiveOK, LiveCharges, Stored, RecordedFor,
       Recorded, session
  <2>5. ReadsOK'
    BY <1>2 DEF vars, ChargeInv, ReadsOK, ReadOK, session, Expands
  <2>6. QED
    BY <2>1, <2>2, <2>3, <2>4, <2>5 DEF ChargeInv
<1>3. QED
  BY <1>1, <1>2, StepCases DEF StepOf

\* The inductive invariant: a charge id belongs to one request until it is
\* spent, and to one intent ever after; a handler's copy names the charge it
\* has put or the one it has found.
THEOREM ChargeInvariance == Spec => [](IInv /\ ChargeInv)
<1>1. Init => IInv /\ ChargeInv
  BY InitOK, ChargeInit
<1>2. IInv /\ ChargeInv /\ [Next]_vars => (IInv /\ ChargeInv)'
  BY IInvStep, ChargeInvStep
<1>3. QED
  BY <1>1, <1>2, PTL DEF Spec

\* The fields of every stored intent follow its status, whatever sequence of
\* creates, updates, confirms, captures and cancels led there.
THEOREM FieldsFollowStatus == Spec => []LifecycleFieldsFollowStatus
<1>1. IInv /\ ChargeInv => LifecycleFieldsFollowStatus
  BY DEF ChargeInv
<1>2. QED
  BY <1>1, ChargeInvariance, PTL

\* No reader of the store ever sees an intent ahead of its charge.
THEOREM IntentsAreBacked == Spec => []StoredIntentIsBacked
<1>1. ASSUME IInv, ChargeInv, NEW s \in Sessions, NEW id \in IntentIds,
             Stored(s, id), NeedsCharge(intents[s][id])
      PROVE  LET intent == intents[s][id]
                 charge == charges[s][intent.latest_charge]
             IN  /\ intent.latest_charge # Null
                 /\ charge # NoCharge
                 /\ charge.payment_intent = id
                 /\ CASE intent.status = "succeeded" ->
                           /\ charge.captured
                           /\ charge.amount_captured = intent.amount_received
                      [] intent.status = "requires_capture" ->
                           /\ charge.status = "succeeded"
                           /\ charge.captured =>
                                \E c \in Clients : Writing(c, s, id)
                      [] OTHER -> charge.status = "failed"
  <2>1. StoredChargeOK(s, id)
    BY <1>1 DEF ChargeInv, StoredChargesOK
  <2>2. intents[s][id].status \in {"succeeded", "requires_capture",
                                   "requires_payment_method"}
    BY <1>1 DEF NeedsCharge
  <2>3. (\E c \in Clients : RecordedFor(c, s, id) /\ rq[c].op = "capture")
          => \E c \in Clients : Writing(c, s, id)
    BY DEF RecordedFor, Recorded, Writing, Locked
  <2> DEFINE pending == \E c \in Clients : RecordedFor(c, s, id) /\ rq[c].op = "capture"
             writing == \E c \in Clients : Writing(c, s, id)
             intent  == intents[s][id]
             charge  == charges[s][intent.latest_charge]
  <2>4. /\ intent.latest_charge # Null
        /\ charge # NoCharge
        /\ charge.payment_intent = id
        /\ CASE intent.status = "succeeded" ->
                  /\ charge.captured
                  /\ charge.amount_captured = intent.amount_received
             [] intent.status = "requires_capture" ->
                  /\ charge.status = "succeeded"
                  /\ charge.captured => pending
             [] intent.status = "canceled" -> TRUE
             [] OTHER -> charge.status = "failed"
    BY <1>1, <2>1 DEF StoredChargeOK
  <2>5. intent.status \in {"succeeded", "requires_capture",
                           "requires_payment_method"} /\ (pending => writing)
    BY <2>2, <2>3
  <2> HIDE DEF pending, writing, intent, charge
  <2>6. /\ intent.latest_charge # Null
        /\ charge # NoCharge
        /\ charge.payment_intent = id
        /\ CASE intent.status = "succeeded" ->
                  /\ charge.captured
                  /\ charge.amount_captured = intent.amount_received
             [] intent.status = "requires_capture" ->
                  /\ charge.status = "succeeded"
                  /\ charge.captured => writing
             [] OTHER -> charge.status = "failed"
    BY <2>4, <2>5
  <2>7. QED
    BY <2>6 DEF writing, intent, charge
<1>2. IInv /\ ChargeInv => StoredIntentIsBacked
  BY <1>1 DEF StoredIntentIsBacked
<1>3. QED
  BY <1>2, ChargeInvariance, PTL

\* An intent never owns two charges that moved money, however many requests
\* confirm and capture it at once.
THEOREM OneLiveCharge == Spec => []AtMostOneLiveCharge
<1>1. ASSUME IInv, ChargeInv, NEW s \in Sessions, NEW id \in IntentIds,
             NEW j \in LiveCharges(s, id), NEW k \in LiveCharges(s, id)
      PROVE  j = k
  <2> DEFINE Pending(i) == \E c \in Clients : /\ RecordedFor(c, s, id)
                                              /\ pi[c].latest_charge = i
  <2>1. /\ Pending(j) \/ (Stored(s, id) /\ intents[s][id].latest_charge = j)
        /\ Pending(k) \/ (Stored(s, id) /\ intents[s][id].latest_charge = k)
    BY <1>1 DEF ChargeInv, LiveOK
  <2>2. ASSUME Pending(j), Pending(k)
        PROVE  j = k
    <3>1. PICK c \in Clients : RecordedFor(c, s, id) /\ pi[c].latest_charge = j
      BY <2>2
    <3>2. PICK d \in Clients : RecordedFor(d, s, id) /\ pi[d].latest_charge = k
      BY <2>2
    <3>3. pc[c] \in Building /\ pc[d] \in Building /\ target[c] = target[d]
      BY <3>1, <3>2 DEF RecordedFor, Recorded, Building, Recording, Locked
    <3>4. c = d
      BY <1>1, <3>3, UniqueWriter
    <3>5. QED
      BY <3>1, <3>2, <3>4
  <2>3. ASSUME NEW l \in LiveCharges(s, id), Stored(s, id),
               intents[s][id].latest_charge = l,
               NEW i, Pending(i)
        PROVE  i = l
    <3>1. PICK c \in Clients : RecordedFor(c, s, id) /\ pi[c].latest_charge = i
      BY <2>3
    <3>2. /\ pc[c] \in Building /\ Recorded(c) /\ session(c) = s /\ target[c] = id
      BY <3>1 DEF RecordedFor, Recorded, Building, Recording, Locked
    <3>3. CopyFacts(c) /\ CopyChargeOK(c)
      BY <1>1, <3>2, Parts, CopyOutcome DEF ChargeInv, CopyChargesOK
    <3>4. Base(c) = intents[s][id] /\ Base(c) # NoIntent /\ Loaded(c) = Base(c)
      BY <2>3, <3>2, <3>3 DEF Base, Stored, CopyFacts
    <3>5. rq[c].op \in {"confirm", "capture"}
      BY <3>2, <3>3, <3>4 DEF CopyFacts, Recorded, NeedsCharge
    <3>6. CASE rq[c].op = "confirm"
      <4>1. Loaded(c).status \in {"requires_confirmation", "requires_action",
                                  "requires_payment_method"}
        BY <3>3, <3>6 DEF CopyFacts
      <4>2. StoredChargeOK(s, id)
        BY <1>1, <2>3 DEF ChargeInv, StoredChargesOK
      <4>3. l # Null /\ charges[s][l].status = "succeeded"
        BY <2>3, DistinguishedValues, BoundsAssumption
           DEF LiveCharges, ChargeIds, Serials
      <4>4. charges[s][l].status = "failed"
        BY <2>3, <3>4, <4>1, <4>2, <4>3 DEF StoredChargeOK
      <4>5. QED
        BY <4>3, <4>4
    <3>7. CASE rq[c].op = "capture"
      BY <2>3, <3>1, <3>2, <3>3, <3>4, <3>7 DEF CopyChargeOK
    <3>8. QED
      BY <3>5, <3>6, <3>7
  <2> HIDE DEF Pending
  <2>4. QED
    BY <2>1, <2>2, <2>3
<1>2. IInv /\ ChargeInv => AtMostOneLiveCharge
  BY <1>1 DEF AtMostOneLiveCharge
<1>3. QED
  BY <1>2, ChargeInvariance, PTL

\* An expanded latest_charge is always found, is the intent's own, and is not
\* behind the intent it is shown in.
THEOREM ExpansionsKeepUp == Spec => []ExpansionIsNotBehind
<1>1. IInv /\ ChargeInv => ExpansionIsNotBehind
  BY DEF ChargeInv, ReadsOK, ReadOK, ExpansionIsNotBehind, Backs
<1>2. QED
  BY <1>1, ChargeInvariance, PTL
=============================================================================
