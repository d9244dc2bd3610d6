-------------------------- MODULE IntentLifecycle --------------------------
(***************************************************************************)
(* What the stateful layer promises about the PaymentIntents of a session: *)
(* each is an atomic object.  A create brings it into being, and every     *)
(* later change is one accepted request applied to its current value (or,  *)
(* for an id the session has never seen, to an adopted one).  There are no *)
(* goroutines, locks, copies or partial steps here.                        *)
(***************************************************************************)
EXTENDS PaymentIntent

CONSTANTS Sessions, Workload
VARIABLE intents

Init == intents = [s \in Sessions |-> [id \in IntentIds |-> NoIntent]]

\* The charges the intents of a session name.
Named(s) == {intents[s][id].latest_charge :
               id \in {i \in IntentIds : intents[s][i] # NoIntent}}

\* A transition that produces a charge names a charge no intent named before;
\* a capture keeps the charge of the authorization.
Charged(s, op, intent) ==
  IF op \in {"create", "confirm"} /\ NeedsCharge(intent)
    THEN {[intent EXCEPT !.latest_charge = k] : k \in ChargeIds \ Named(s)}
    ELSE {intent}

Put(s, id, op, intent) ==
  \E stored \in Charged(s, op, intent) :
    intents' = [intents EXCEPT ![s][id] = stored]

Create(s, r) ==
  /\ r.op = "create"
  /\ \E id \in Serials : /\ intents[s][id] = NoIntent
                         /\ Put(s, id, r.op, newPaymentIntent(r.params))

Act(s, id, r) ==
  LET current == orAdopted(intents[s][id])
  IN  /\ r.op \in {"confirm", "capture", "cancel", "update"}
      /\ Accepts(r.op, current, r.params)
      /\ Put(s, id, r.op, Apply(r.op, current, r.params))

Next == \E r \in Workload :
          \/ Create(r.session, r)
          \/ \E id \in IntentIds : Act(r.session, id, r)

Spec == Init /\ [][Next]_intents
=============================================================================
