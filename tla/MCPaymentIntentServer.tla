----------------------- MODULE MCPaymentIntentServer -----------------------
(* Small instances of PaymentIntentServer for TLC: the requests the        *)
(* clients may issue in each run.                                          *)
EXTENDS PaymentIntentInvariants, TLC

CONSTANTS a, b, c, s1, f1

MCClients    == {a, b}
ThreeClients == {a, b, c}
MCSessions   == {s1}
MCForeignIds == {f1}
ClientSymmetry == Permutations(MCClients)

NoParams ==
  [confirm |-> FALSE, payment_method |-> Null, payment_method_data |-> FALSE,
   capture_method |-> Null, amount |-> Null, amount_to_capture |-> Null]

\* A request of session s1 with the given parameters on top of none, carrying
\* the opt-in header.
Req(op, given) ==
  [op |-> op, session |-> s1, opt_in |-> TRUE, expand |-> FALSE,
   params |-> given @@ NoParams]
Plain(r)     == [r EXCEPT !.opt_in = FALSE]
Expanding(r) == [r EXCEPT !.expand = TRUE]

Visa    == "payment_method" :> "pm_card_visa"
Auth3DS == "payment_method" :> "pm_card_authenticationRequired"
Decline == "payment_method" :> "pm_card_chargeDeclined"
Manual  == "capture_method" :> "manual"
Confirm == "confirm" :> TRUE

\* Every kind of request.
MixedWorkload ==
  {Req("create", Visa @@ Manual @@ Confirm), Req("create", Confirm),
   Plain(Req("create", NoParams)),
   Req("confirm", Visa), Req("confirm", Decline),
   Expanding(Req("capture", "amount_to_capture" :> 700)),
   Req("capture", "amount_to_capture" :> 2000), Req("capture", NoParams),
   Req("cancel", NoParams),
   Req("update", Visa @@ ("amount" :> 5000)), Req("unsimulated", NoParams),
   Plain(Req("other", NoParams)),
   Expanding(Plain(Req("retrieve", NoParams))),
   Plain(Req("list_charges", NoParams)),
   Expanding(Plain(Req("retrieve_charge", NoParams)))}

\* Retries, declines, authentication and the captures racing them.
LifecycleWorkload ==
  {Req("create", Visa @@ Manual),
   Req("confirm", NoParams), Req("confirm", Decline), Req("confirm", Auth3DS),
   Req("confirm", Visa), Req("confirm", Visa @@ Manual),
   Req("capture", "amount_to_capture" :> 700),
   Req("capture", "amount_to_capture" :> 2000), Req("cancel", NoParams)}

\* Handlers that leave the critical section on each of its ways out.
ContentionWorkload ==
  {Req("confirm", Visa @@ Manual), Req("capture", NoParams),
   Req("update", "amount" :> 500), Req("unsimulated", NoParams),
   Plain(Expanding(Req("retrieve", NoParams)))}

\* An amount changed between authorization and capture.
OvercaptureWorkload ==
  {Req("create", Visa @@ Manual @@ Confirm), Req("update", "amount" :> 5000),
   Req("capture", NoParams)}
=============================================================================
