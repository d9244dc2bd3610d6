------------------- MODULE PaymentIntentRefinement_proofs -------------------
(***************************************************************************)
(* The stored PaymentIntents behave like atomic objects, whatever requests *)
(* interleave: PaymentIntentServer implements IntentLifecycle.  Every      *)
(* store of an intent is one accepted request applied to the value it      *)
(* replaces, and every other step of a handler is a stutter.               *)
(***************************************************************************)
EXTENDS PaymentIntentCharges_proofs

-----------------------------------------------------------------------------
(* The lifecycle functions are the same in both specifications             *)

LEMMA SameSets ==
  /\ Lifecycle!Serials = Serials
  /\ Lifecycle!IntentIds = IntentIds
  /\ Lifecycle!ChargeIds = ChargeIds
BY DEF Lifecycle!Serials, Serials, Lifecycle!IntentIds, IntentIds,
       Lifecycle!ChargeIds, ChargeIds

LEMMA SameAttach ==
  \A intent, p : Lifecycle!attachPaymentMethod(intent, p) =
                   attachPaymentMethod(intent, p)
BY DEF Lifecycle!attachPaymentMethod, attachPaymentMethod,
       Lifecycle!Supplies, Supplies

LEMMA SameConfirm ==
  \A intent, p : Lifecycle!applyConfirm(intent, p) = applyConfirm(intent, p)
BY SameAttach
   DEF Lifecycle!applyConfirm, applyConfirm, Lifecycle!settlePaymentIntent,
       settlePaymentIntent, Lifecycle!Given, Given,
       Lifecycle!outcomeForPaymentMethod, outcomeForPaymentMethod

LEMMA SameCopy ==
  \A intent, p : Lifecycle!copyPaymentIntentParams(intent, p) =
                   copyPaymentIntentParams(intent, p)
BY DEF Lifecycle!copyPaymentIntentParams, copyPaymentIntentParams,
       Lifecycle!Given, Given

LEMMA SameNew ==
  /\ Lifecycle!BaseIntent = BaseIntent
  /\ Lifecycle!AdoptedIntent = AdoptedIntent
  /\ \A p : Lifecycle!newPaymentIntent(p) = newPaymentIntent(p)
<1>1. Lifecycle!BaseIntent = BaseIntent
  BY DEF Lifecycle!BaseIntent, BaseIntent, Lifecycle!FixtureIntent, FixtureIntent,
         Lifecycle!resetPaymentIntentLifecycleFields,
         resetPaymentIntentLifecycleFields
<1>2. Lifecycle!AdoptedIntent = AdoptedIntent
  BY <1>1 DEF Lifecycle!AdoptedIntent, AdoptedIntent
<1>3. ASSUME NEW p
      PROVE  Lifecycle!newPaymentIntent(p) = newPaymentIntent(p)
  <2> DEFINE att == attachPaymentMethod(copyPaymentIntentParams(BaseIntent, p), p)
             new == Lifecycle!attachPaymentMethod(
                      Lifecycle!copyPaymentIntentParams(Lifecycle!BaseIntent, p), p)
  <2>1. new = att /\ Lifecycle!applyConfirm(new, p) = applyConfirm(att, p)
    BY <1>1, SameAttach, SameConfirm, SameCopy
  <2>2. /\ newPaymentIntent(p) =
             IF p.confirm THEN applyConfirm(att, p)
             ELSE IF att.payment_method # ""
                    THEN [att EXCEPT !.status = "requires_confirmation"]
                    ELSE [att EXCEPT !.status = "requires_payment_method"]
        /\ Lifecycle!newPaymentIntent(p) =
             IF p.confirm THEN Lifecycle!applyConfirm(new, p)
             ELSE IF new.payment_method # ""
                    THEN [new EXCEPT !.status = "requires_confirmation"]
                    ELSE [new EXCEPT !.status = "requires_payment_method"]
    BY DEF newPaymentIntent, Lifecycle!newPaymentIntent
  <2> HIDE DEF att, new
  <2>3. CASE p.confirm
    BY <2>1, <2>2, <2>3
  <2>4. CASE ~p.confirm
    BY <2>1, <2>2, <2>4
  <2>5. QED
    BY <2>3, <2>4
<1>4. QED
  BY <1>1, <1>2, <1>3

LEMMA SameApply ==
  ASSUME NEW op, NEW intent, NEW p
  PROVE  Lifecycle!Apply(op, intent, p) = Apply(op, intent, p)
<1>1. Lifecycle!applyUpdate(intent, p) = applyUpdate(intent, p)
  <2> DEFINE att == attachPaymentMethod(copyPaymentIntentParams(intent, p), p)
             new == Lifecycle!attachPaymentMethod(
                      Lifecycle!copyPaymentIntentParams(intent, p), p)
  <2>1. new = att
    BY SameAttach, SameCopy
  <2>2. /\ applyUpdate(intent, p) =
             IF att.status = "requires_payment_method" /\ att.payment_method # ""
               THEN [att EXCEPT !.status = "requires_confirmation"] ELSE att
        /\ Lifecycle!applyUpdate(intent, p) =
             IF new.status = "requires_payment_method" /\ new.payment_method # ""
               THEN [new EXCEPT !.status = "requires_confirmation"] ELSE new
    BY DEF applyUpdate, Lifecycle!applyUpdate
  <2> HIDE DEF att, new
  <2>3. QED
    BY <2>1, <2>2
<1>2. /\ Lifecycle!applyCancel(intent) = applyCancel(intent)
      /\ Lifecycle!applyCapture(intent, p) = applyCapture(intent, p)
  BY DEF Lifecycle!applyCapture, applyCapture, Lifecycle!applyCancel, applyCancel,
         Lifecycle!Given, Given
<1>3. Lifecycle!applyConfirm(intent, p) = applyConfirm(intent, p)
  BY SameConfirm
<1>4. QED
  BY <1>1, <1>2, <1>3 DEF Lifecycle!Apply, Apply

LEMMA SameAccepts ==
  /\ \A op, intent, p : Lifecycle!Accepts(op, intent, p) <=> Accepts(op, intent, p)
  /\ \A intent : Lifecycle!orAdopted(intent) = orAdopted(intent)
  /\ \A intent : Lifecycle!NeedsCharge(intent) <=> NeedsCharge(intent)
BY SameNew
   DEF Lifecycle!Accepts, Accepts, Lifecycle!mayConfirm, mayConfirm,
       Lifecycle!mayCapture, mayCapture, Lifecycle!mayCancel, mayCancel,
       Lifecycle!confirmHasPaymentMethod, confirmHasPaymentMethod,
       Lifecycle!Supplies, Supplies, Lifecycle!orAdopted, orAdopted,
       Lifecycle!NeedsCharge, NeedsCharge

-----------------------------------------------------------------------------
(* What a handler stores is the outcome of one accepted request            *)

\* What the request c serves makes of the intent it found.
Outcome(c) == IF rq[c].op = "create" THEN newPaymentIntent(params(c))
              ELSE Apply(rq[c].op, Loaded(c), params(c))

\* The pure functions leave latest_charge to recordPaymentIntentTransition.
LEMMA OutcomeKeepsCharge ==
  ASSUME IInv, NEW c \in Clients, pc[c] \in Building
  PROVE  /\ Outcome(c) \in Intents
         /\ Outcome(c).latest_charge = Loaded(c).latest_charge
         /\ SameButCharge(pi[c], Outcome(c))
         /\ rq[c].op # "create" => Accepted(c)
<1>1. ServingFacts(c) /\ CopyFacts(c)
  BY Parts, CopyOutcome
<1>2. Loaded(c) \in Intents /\ params(c) \in ParamSpace
  BY <1>1 DEF CopyFacts, ServingFacts
<1>3. SameButCharge(pi[c], Outcome(c)) /\ (rq[c].op # "create" => Accepted(c))
  BY Parts DEF WriteOK, Outcome
<1>4. Outcome(c) \in Intents
  BY <1>2, newPaymentIntentTyped, ApplyTyped DEF Outcome
<1>5. CASE rq[c].op = "create"
  BY <1>1, <1>2, <1>3, <1>4, <1>5, NewOutcome DEF Outcome, CopyFacts
<1>6. CASE rq[c].op # "create"
  <2>1. /\ applyConfirm(Loaded(c), params(c)).latest_charge
             = Loaded(c).latest_charge
        /\ applyUpdate(Loaded(c), params(c)).latest_charge
             = Loaded(c).latest_charge
    BY <1>2, ConfirmOutcome, UpdateOutcome
  <2>2. /\ applyCapture(Loaded(c), params(c)).latest_charge
             = Loaded(c).latest_charge
        /\ applyCancel(Loaded(c)).latest_charge = Loaded(c).latest_charge
    BY <1>2 DEF applyCapture, applyCancel, Intents
  <2>3. Outcome(c).latest_charge = Loaded(c).latest_charge
    BY <1>6, <2>1, <2>2 DEF Outcome, Apply
  <2>4. QED
    BY <1>3, <1>4, <2>3
<1>7. QED
  BY <1>5, <1>6

\* The charge a create or a confirm has put is named by no stored intent.
LEMMA MintedIsUnnamed ==
  ASSUME IInv, ChargeInv, NEW c \in Clients, pc[c] = "store", Recorded(c),
         rq[c].op # "capture"
  PROVE  pi[c].latest_charge \in ChargeIds \ Lifecycle!Named(session(c))
<1>1. pc[c] \in Building /\ ServingFacts(c) /\ CopyFacts(c)
  BY Parts, CopyOutcome DEF Building, Recording, Locked
<1> DEFINE k == pi[c].latest_charge
<1>2. /\ k \in ChargeIds /\ k # Loaded(c).latest_charge
      /\ charges[session(c)][k] = chargeForPI(pi[c], target[c])
  BY <1>1 DEF ChargeInv, CopyChargesOK, CopyChargeOK
<1>3. charges[session(c)][k].payment_intent = target[c]
  BY <1>1, <1>2, ChargeFields DEF CopyFacts, ServingFacts
<1>4. ASSUME NEW id \in IntentIds, Stored(session(c), id),
             intents[session(c)][id].latest_charge = k
      PROVE  FALSE
  <2>1. StoredChargeOK(session(c), id)
    BY <1>1, <1>4 DEF ChargeInv, StoredChargesOK, ServingFacts
  <2>2. k # Null
    BY <1>2, DistinguishedValues, BoundsAssumption DEF ChargeIds, Serials
  <2>3. id = target[c]
    BY <1>3, <1>4, <2>1, <2>2 DEF StoredChargeOK
  <2>4. Loaded(c) = intents[session(c)][id]
    BY <1>1, <1>4, <2>3 DEF CopyFacts, Base, Stored
  <2>5. QED
    BY <1>2, <1>4, <2>4
<1> HIDE DEF k
<1>5. k \notin Lifecycle!Named(session(c))
  BY <1>4, SameSets DEF Lifecycle!Named, Stored
<1>6. QED
  BY <1>2, <1>5 DEF k

\* A handler stores the outcome of its request, naming a new charge exactly
\* if the transition produced one.
LEMMA StoresOutcome ==
  ASSUME IInv, ChargeInv, NEW c \in Clients, pc[c] = "store"
  PROVE  pi[c] \in Lifecycle!Charged(session(c), rq[c].op, Outcome(c))
<1>1. pc[c] \in Building /\ ServingFacts(c) /\ CopyFacts(c) /\ pi[c] \in Intents
  BY Parts, CopyOutcome DEF Building, Recording, Locked, CopyFacts
<1>2. /\ Outcome(c) \in Intents
      /\ Outcome(c).latest_charge = Loaded(c).latest_charge
      /\ SameButCharge(pi[c], Outcome(c))
  BY <1>1, OutcomeKeepsCharge
<1>3. /\ NeedsCharge(pi[c]) <=> NeedsCharge(Outcome(c))
      /\ pi[c] = [Outcome(c) EXCEPT !.latest_charge = pi[c].latest_charge]
      /\ pi[c].latest_charge = Outcome(c).latest_charge => pi[c] = Outcome(c)
  BY <1>1, <1>2, SameFields
<1>4. CopyChargeOK(c)
  BY DEF ChargeInv, CopyChargesOK
<1>5. Lifecycle!NeedsCharge(Outcome(c)) <=> NeedsCharge(Outcome(c))
  BY SameAccepts
<1>6. CASE rq[c].op \in {"create", "confirm"} /\ NeedsCharge(Outcome(c))
  <2>1. Recorded(c)
    BY <1>3, <1>6 DEF Recorded
  <2>2. pi[c].latest_charge \in ChargeIds \ Lifecycle!Named(session(c))
    BY <1>6, <2>1, MintedIsUnnamed
  <2>3. QED
    BY <1>3, <1>5, <1>6, <2>2, SameSets DEF Lifecycle!Charged
<1>7. CASE ~(rq[c].op \in {"create", "confirm"} /\ NeedsCharge(Outcome(c)))
  <2>1. Recorded(c) => rq[c].op = "capture"
    BY <1>1, <1>3, <1>7 DEF Recorded, CopyFacts, NeedsCharge
  <2>2. pi[c].latest_charge = Loaded(c).latest_charge
    BY <1>1, <1>4, <2>1 DEF CopyChargeOK
  <2>3. pi[c] = Outcome(c)
    BY <1>2, <1>3, <2>2
  <2>4. QED
    BY <1>5, <1>7, <2>3 DEF Lifecycle!Charged
<1>8. QED
  BY <1>6, <1>7

-----------------------------------------------------------------------------
(* The refinement                                                          *)

LEMMA LifecycleInit == Init => Lifecycle!Init
BY SameSets DEF Init, Lifecycle!Init

\* Storing an intent is a step of IntentLifecycle.
LEMMA StoreRefines ==
  ASSUME IInv, ChargeInv, NEW c \in Clients, StoreIntent(c)
  PROVE  Lifecycle!Next
<1>1. pc[c] = "store" /\ pc[c] \in Building /\ pc[c] # "idle"
  BY DEF StoreIntent, Building, Recording, Locked
<1>2. ServingFacts(c) /\ CopyFacts(c) /\ rq[c] \in Workload
  BY <1>1, Parts, CopyOutcome DEF ChargeInv, IssuedOK
<1>3. pi[c] \in Lifecycle!Charged(session(c), rq[c].op, Outcome(c))
  BY <1>1, StoresOutcome
<1>4. intents' = [intents EXCEPT ![session(c)][target[c]] = pi[c]]
  BY DEF StoreIntent
<1>5. Lifecycle!Put(session(c), target[c], rq[c].op, Outcome(c))
  BY <1>3, <1>4 DEF Lifecycle!Put
<1>6. CASE rq[c].op = "create"
  <2>1. target[c] \in Lifecycle!Serials
    BY <1>2, <1>6, SameSets DEF ServingFacts, RequestOK, ChargeIds
  <2>2. intents[session(c)][target[c]] = NoIntent
    BY <1>2, <1>6 DEF CopyFacts, Base
  <2>3. Outcome(c) = Lifecycle!newPaymentIntent(rq[c].params)
    BY <1>6, SameNew DEF Outcome, params
  <2>4. Lifecycle!Create(rq[c].session, rq[c])
    BY <1>5, <1>6, <2>1, <2>2, <2>3 DEF Lifecycle!Create, session
  <2>5. QED
    BY <1>2, <2>4 DEF Lifecycle!Next
<1>7. CASE rq[c].op # "create"
  <2>1. rq[c].op \in {"confirm", "capture", "cancel", "update"}
    BY <1>2, <1>7 DEF CopyFacts
  <2>2. target[c] \in Lifecycle!IntentIds
    BY <1>2, SameSets DEF ServingFacts
  <2> DEFINE current == Lifecycle!orAdopted(intents[rq[c].session][target[c]])
  <2>3. current = Loaded(c)
    BY SameAccepts DEF Loaded, session
  <2>4. Lifecycle!Accepts(rq[c].op, current, rq[c].params)
    BY <1>1, <1>7, <2>3, OutcomeKeepsCharge, SameAccepts DEF Accepted, params
  <2>5. Outcome(c) = Lifecycle!Apply(rq[c].op, current, rq[c].params)
    BY <1>7, <2>3, SameApply DEF Outcome, params
  <2>6. Lifecycle!Act(rq[c].session, target[c], rq[c])
    BY <1>5, <2>1, <2>4, <2>5 DEF Lifecycle!Act, session
  <2>7. QED
    BY <1>2, <2>2, <2>6 DEF Lifecycle!Next
<1>8. QED
  BY <1>6, <1>7

LEMMA LifecycleStep ==
  ASSUME IInv, ChargeInv, [Next]_vars
  PROVE  [Lifecycle!Next]_intents
BY IntentsChange, StoreRefines

\* Whatever requests interleave, the stored intents behave like atomic
\* objects on which the accepted requests act one at a time.
THEOREM IntentsAreAtomic == Spec => LifecycleSpec
<1>1. Init => Lifecycle!Init
  BY LifecycleInit
<1>2. IInv /\ ChargeInv /\ [Next]_vars => [Lifecycle!Next]_intents
  BY LifecycleStep
<1>3. QED
  BY <1>1, <1>2, ChargeInvariance, PTL DEF Spec, LifecycleSpec, Lifecycle!Spec
=============================================================================
