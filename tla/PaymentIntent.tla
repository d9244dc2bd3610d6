--------------------------- MODULE PaymentIntent ---------------------------
(***************************************************************************)
(* The PaymentIntent and Charge objects of server/paymentintents.go and    *)
(* the pure functions that move a PaymentIntent through its lifecycle.     *)
(* Nothing here reads the store or takes a lock: PaymentIntentServer says  *)
(* when these functions run and what happens between them.                 *)
(*                                                                         *)
(* A JSON object is the record of the fields the lifecycle reads or        *)
(* writes.  Error and action payloads (last_payment_error, next_action)    *)
(* are reduced to whether they are non-null.                               *)
(*                                                                         *)
(* A definition whose name starts with Slip is a plausible mistake in the  *)
(* definition that follows it; it is used only to show that a property     *)
(* would notice the mistake.                                               *)
(***************************************************************************)
EXTENDS Integers, Sequences

CONSTANTS
  Null,           \* JSON null, an absent request parameter, "no owner"
  NoIntent,       \* getPaymentIntent found nothing
  NoCharge,       \* getCharge found nothing
  ForeignIds,     \* PaymentIntent ids the application knows from elsewhere
  MaxRequests,    \* bound: requests issued in a behaviour
  FixtureAmount   \* amount of the bundled payment_intent fixture

\* randomID never repeats an id.  A request mints at most one PaymentIntent
\* and at most one Charge, so the id it mints is the request's serial number.
Serials   == 1 .. MaxRequests
IntentIds == ForeignIds \cup Serials
ChargeIds == Serials

Statuses ==
  {"requires_payment_method", "requires_confirmation", "requires_action",
   "requires_capture", "processing", "succeeded", "canceled"}

CaptureMethods == {"automatic", "manual"}

\* One id per outcome of magicPaymentMethods, the id minted for inline
\* payment_method_data, and "" which getString also returns for null.
PaymentMethods ==
  {"", "pm_card_visa", "pm_card_authenticationRequired",
   "pm_card_chargeDeclined", "pm_minted"}

Intents ==
  [status             : Statuses,
   capture_method     : CaptureMethods,
   payment_method     : PaymentMethods,
   amount             : Int,
   amount_capturable  : Int,
   amount_received    : Int,
   next_action        : BOOLEAN,
   last_payment_error : BOOLEAN,
   latest_charge      : ChargeIds \cup {Null}]

Charges ==
  [payment_intent  : IntentIds,
   amount          : Int,
   status          : {"succeeded", "failed"},
   captured        : BOOLEAN,
   amount_captured : Int]

\* The request parameters the lifecycle looks at.  A parameter that is not
\* in the request is Null; payment_method may be given as the empty string.
ParamSpace ==
  [confirm             : BOOLEAN,
   payment_method      : PaymentMethods \cup {Null},
   payment_method_data : BOOLEAN,
   capture_method      : CaptureMethods \cup {Null},
   amount              : Int \cup {Null},
   amount_to_capture   : Int \cup {Null}]

ASSUME DistinguishedValues ==
  /\ NoIntent \notin Intents
  /\ NoCharge \notin Charges
  /\ Null \notin Int \cup PaymentMethods \cup CaptureMethods
  /\ ForeignIds \cap Serials = {}
ASSUME BoundsAssumption ==
  /\ MaxRequests \in Nat
  /\ FixtureAmount \in Int

-----------------------------------------------------------------------------
(* Payment methods                                                         *)

\* getString(params, "payment_method") != "".
Supplies(params) == params.payment_method \notin {Null, ""}

confirmHasPaymentMethod(payment_method, params) ==
  \/ Supplies(params)
  \/ payment_method # ""
  \/ params.payment_method_data

attachPaymentMethod(pi, params) ==
  IF Supplies(params)
    THEN [pi EXCEPT !.payment_method = params.payment_method]
  ELSE IF params.payment_method_data /\ pi.payment_method = ""
    THEN [pi EXCEPT !.payment_method = "pm_minted"]
  ELSE pi

outcomeForPaymentMethod(payment_method) ==
  CASE payment_method = "pm_card_authenticationRequired" -> "requires_action"
    [] payment_method = "pm_card_chargeDeclined"         -> "decline"
    [] OTHER                                             -> "succeed"

Given(param, default) == IF param = Null THEN default ELSE param

copyPaymentIntentParams(pi, params) ==
  [pi EXCEPT !.amount         = Given(params.amount, @),
             !.capture_method = Given(params.capture_method, @),
             !.payment_method = Given(params.payment_method, @)]

-----------------------------------------------------------------------------
(* New and adopted objects                                                 *)

\* generateResourceBase: the bundled fixture, whose lifecycle fields carry
\* sample values.
FixtureIntent ==
  [status |-> "requires_payment_method", capture_method |-> "automatic",
   payment_method |-> "", amount |-> FixtureAmount,
   amount_capturable |-> 0, amount_received |-> 0,
   next_action |-> TRUE, last_payment_error |-> TRUE,
   latest_charge |-> Null]

\* Leaves the fixture's sample action and error in the new object.
SlipResetLifecycleFields(pi) ==
  [pi EXCEPT !.latest_charge = Null,
             !.amount_received = 0, !.amount_capturable = 0]

resetPaymentIntentLifecycleFields(pi) ==
  [pi EXCEPT !.next_action = FALSE, !.last_payment_error = FALSE,
             !.latest_charge = Null,
             !.amount_received = 0, !.amount_capturable = 0]

BaseIntent == resetPaymentIntentLifecycleFields(FixtureIntent)

AdoptedIntent == [BaseIntent EXCEPT !.status = "requires_confirmation"]

-----------------------------------------------------------------------------
(* Lifecycle transitions                                                   *)

settlePaymentIntent(pi, params) ==
  LET settled == [pi EXCEPT !.next_action = FALSE,
                            !.last_payment_error = FALSE]
  IN  IF Given(params.capture_method, pi.capture_method) = "manual"
        THEN [settled EXCEPT !.status = "requires_capture",
                             !.amount_capturable = pi.amount]
        ELSE [settled EXCEPT !.status = "succeeded",
                             !.amount_received = pi.amount]

applyConfirm(intent, params) ==
  LET pi      == attachPaymentMethod(intent, params)
      outcome == outcomeForPaymentMethod(pi.payment_method)
  IN  CASE outcome = "requires_action" ->
             [pi EXCEPT !.status = "requires_action",
                        !.last_payment_error = FALSE,
                        !.next_action = TRUE]
        [] outcome = "decline" ->
             [pi EXCEPT !.status = "requires_payment_method",
                        !.next_action = FALSE,
                        !.last_payment_error = TRUE]
        [] OTHER -> settlePaymentIntent(pi, params)

applyCapture(pi, params) ==
  [pi EXCEPT !.status = "succeeded",
             !.next_action = FALSE,
             !.amount_capturable = 0,
             !.amount_received = Given(params.amount_to_capture, pi.amount)]

\* Forgets to release the authorized amount.
SlipApplyCancel(pi) == [pi EXCEPT !.status = "canceled", !.next_action = FALSE]

applyCancel(pi) ==
  [pi EXCEPT !.status = "canceled",
             !.next_action = FALSE,
             !.amount_capturable = 0]

\* Authorizes the new amount of an intent that waits for its capture.
SlipApplyUpdate(intent, params) ==
  LET pi == attachPaymentMethod(copyPaymentIntentParams(intent, params), params)
  IN  CASE pi.status = "requires_capture" -> [pi EXCEPT !.amount_capturable = pi.amount]
        [] pi.status = "requires_payment_method" /\ pi.payment_method # "" ->
             [pi EXCEPT !.status = "requires_confirmation"]
        [] OTHER -> pi

applyUpdate(intent, params) ==
  LET pi == attachPaymentMethod(copyPaymentIntentParams(intent, params), params)
  IN  IF pi.status = "requires_payment_method" /\ pi.payment_method # ""
        THEN [pi EXCEPT !.status = "requires_confirmation"]
        ELSE pi

newPaymentIntent(params) ==
  LET pi == attachPaymentMethod(copyPaymentIntentParams(BaseIntent, params),
                                params)
  IN  IF params.confirm THEN applyConfirm(pi, params)
      ELSE IF pi.payment_method # ""
             THEN [pi EXCEPT !.status = "requires_confirmation"]
             ELSE [pi EXCEPT !.status = "requires_payment_method"]

-----------------------------------------------------------------------------
(* Which requests a PaymentIntent accepts                                  *)

mayConfirm(pi, params) ==
  /\ pi.status \in {"requires_confirmation", "requires_action",
                    "requires_payment_method"}
  /\ confirmHasPaymentMethod(pi.payment_method, params)

\* Compares with the amount that is there to be charged, not with the one held.
SlipMayCapture(pi, params) ==
  /\ pi.status = "requires_capture"
  /\ params.amount_to_capture # Null => params.amount_to_capture =< pi.amount

\* Takes any amount of an authorized intent.
SlipMayOvercapture(pi, params) == pi.status = "requires_capture"

mayCapture(pi, params) ==
  /\ pi.status = "requires_capture"
  /\ params.amount_to_capture # Null =>
       params.amount_to_capture =< pi.amount_capturable

SlipMayCancel(pi) == pi.status # "canceled"

mayCancel(pi) == pi.status \notin {"succeeded", "canceled"}

Accepts(op, pi, params) ==
  CASE op = "confirm" -> mayConfirm(pi, params)
    [] op = "capture" -> mayCapture(pi, params)
    [] op = "cancel"  -> mayCancel(pi)
    [] OTHER          -> TRUE

Apply(op, pi, params) ==
  CASE op = "confirm" -> applyConfirm(pi, params)
    [] op = "capture" -> applyCapture(pi, params)
    [] op = "cancel"  -> applyCancel(pi)
    [] OTHER          -> applyUpdate(pi, params)

\* Adopts an intent that was seeded, for nothing was recorded for it yet.
SlipOrAdopted(intent) ==
  IF intent = NoIntent \/ intent.latest_charge = Null THEN AdoptedIntent ELSE intent

\* What a request acts on: the stored intent, or an adopted one.
orAdopted(intent) == IF intent = NoIntent THEN AdoptedIntent ELSE intent

-----------------------------------------------------------------------------
(* Charges and events of a transition                                      *)

\* A decline is the only way requires_payment_method carries an error.
NeedsCharge(pi) ==
  \/ pi.status \in {"succeeded", "requires_capture"}
  \/ pi.status = "requires_payment_method" /\ pi.last_payment_error

\* Takes every settlement for a capture.
SlipChargeEventType(pi, wasAuthorized) ==
  CASE pi.status = "requires_payment_method" -> "charge.failed"
    [] pi.status = "succeeded"               -> "charge.captured"
    [] OTHER                                 -> "charge.succeeded"

chargeEventType(pi, wasAuthorized) ==
  CASE pi.status = "requires_payment_method"         -> "charge.failed"
    [] pi.status = "succeeded" /\ wasAuthorized      -> "charge.captured"
    [] OTHER                                         -> "charge.succeeded"

\* Cancels silently.
SlipIntentEventType(pi) ==
  CASE pi.status = "succeeded"        -> "payment_intent.succeeded"
    [] pi.status = "requires_capture" ->
         "payment_intent.amount_capturable_updated"
    [] pi.status = "requires_action"  -> "payment_intent.requires_action"
    [] pi.status = "requires_payment_method" /\ pi.last_payment_error ->
         "payment_intent.payment_failed"
    [] OTHER -> Null

\* Null: the transition enqueues no event for the intent itself.
intentEventType(pi) ==
  CASE pi.status = "succeeded"        -> "payment_intent.succeeded"
    [] pi.status = "requires_capture" ->
         "payment_intent.amount_capturable_updated"
    [] pi.status = "requires_action"  -> "payment_intent.requires_action"
    [] pi.status = "processing"       -> "payment_intent.processing"
    [] pi.status = "canceled"         -> "payment_intent.canceled"
    [] pi.status = "requires_payment_method" /\ pi.last_payment_error ->
         "payment_intent.payment_failed"
    [] OTHER -> Null

\* Reuses only a charge that is already captured.
SlipReusable(charge) == charge # NoCharge /\ charge.captured

\* ensureChargeForPI reuses the charge it looked up unless it belongs to a
\* failed attempt.
reusable(charge) == charge # NoCharge /\ charge.status # "failed"

\* Books the full amount of a partial capture.
SlipAmountCaptured(pi, id) ==
  [payment_intent |-> id, amount |-> pi.amount,
   status |-> IF pi.status = "requires_payment_method"
                THEN "failed" ELSE "succeeded",
   captured |-> pi.status = "succeeded", amount_captured |-> pi.amount]

\* Leaves the charge of a captured intent uncaptured.
SlipUncaptured(pi, id) ==
  [payment_intent |-> id, amount |-> pi.amount,
   status |-> IF pi.status = "requires_payment_method"
                THEN "failed" ELSE "succeeded",
   captured |-> FALSE, amount_captured |-> 0]

\* The fields ensureChargeForPI overwrites, on a new or a reused charge.
chargeForPI(pi, id) ==
  LET captured == pi.status = "succeeded"
  IN  [payment_intent  |-> id,
       amount          |-> pi.amount,
       status          |-> IF pi.status = "requires_payment_method"
                             THEN "failed" ELSE "succeeded",
       captured        |-> captured,
       amount_captured |-> IF captured THEN pi.amount_received ELSE 0]
=============================================================================
