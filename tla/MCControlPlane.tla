--------------------------- MODULE MCControlPlane ---------------------------
(* Small instances of ControlPlane for TLC.                                 *)
EXTENDS ControlPlaneInvariants, TLC

CONSTANTS a, b, t1, s1, f1

MCClients    == {a, b}
OneClient    == {a}
MCTesters    == {t1}
MCSessions   == {s1}
MCForeignIds == {f1}
NoForeignIds == {}
ClientSymmetry == Permutations(MCClients)

NoParams ==
  [confirm |-> FALSE, payment_method |-> Null, payment_method_data |-> FALSE,
   capture_method |-> Null, amount |-> Null, amount_to_capture |-> Null]
Req(op, given) ==
  [op |-> op, session |-> s1, opt_in |-> FALSE, expand |-> FALSE,
   params |-> given @@ NoParams]
OptingIn(r) == [r EXCEPT !.opt_in = TRUE]

Visa    == "payment_method" :> "pm_card_visa"
Manual  == "capture_method" :> "manual"
Confirm == "confirm" :> TRUE

\* mergeMap of the overrides onto the fixture.
Seeded(overrides) ==
  [session |-> s1, id |-> f1, intent |-> overrides @@ FixtureIntent]

\* Everything at once, on one client.
ControlWorkload ==
  {OptingIn(Req("create", Visa @@ Manual @@ Confirm)),
   Req("create", Visa), Req("confirm", Visa), Req("capture", NoParams)}
ControlSeeds ==
  {Seeded("status" :> "requires_action"), Seeded("status" :> "succeeded")}

\* An intent of a create is confirmed for a later capture, an adopted one is
\* charged at once; either may be canceled.
SettleWorkload ==
  {OptingIn(Req("create", Visa @@ Manual)), OptingIn(Req("confirm", Visa)),
   Req("capture", NoParams), Req("cancel", NoParams)}

NoSeeds == {}
=============================================================================
