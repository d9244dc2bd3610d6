-------------------------- MODULE RequestPipeline --------------------------
(***************************************************************************)
(* A request on its way through server/server.go's HandleRequest: the      *)
(* control plane first, then the checks in their order, the route, and the *)
(* choice between the stateful layer and the generator, for the session    *)
(* the request belongs to.                                                 *)
(*                                                                         *)
(* What a PaymentIntent goes through is PaymentIntentServer's, so a        *)
(* simulated request is one step here, which stores the intent, perhaps a  *)
(* Charge, or, refused by the state machine, nothing.                      *)
(***************************************************************************)
EXTENDS Router

CONSTANTS
  Clients,         \* connections, each with one request at a time
  Requests,        \* client -> requests: what arrives, and what it asks for
  DefaultSession,
  None,            \* an absent header, flag or id
  Minted,          \* ids the server may mint for an intent
  ChargeOf         \* intent id -> the id of its Charge

VARIABLES
  handlers,        \* client -> its request, and how far it is
  enabled,         \* the sessions that opted in
  stored           \* session -> ids of its PaymentIntents and Charges

Idle == [stage |-> "idle"]

\* A mistaken form of the next definition: the colon of a Basic key stays.
SlipApiKeyFromAuth(auth) ==
  IF auth = None \/ ~auth.readable \/ auth.scheme \notin {"Bearer", "Basic"}
  THEN None ELSE auth.key

\* An Authorization header holds a scheme and a secret, the secret of a Basic
\* one encoded.  A key is a record: its three parts, and whether a colon, the
\* end of a Basic user name, follows.
apiKeyFromAuth(auth) ==
  IF auth = None \/ ~auth.readable \/ auth.scheme \notin {"Bearer", "Basic"}
  THEN None
  ELSE IF auth.scheme = "Basic" THEN [auth.key EXCEPT !.colon = FALSE]
  ELSE auth.key

validateAuth(auth) ==
  /\ auth # None /\ auth.readable /\ auth.scheme \in {"Bearer", "Basic"}
  /\ auth.key.kind \in {"sk", "rk"} /\ auth.key.mode = "test"
  /\ (auth.key.rest # "" \/ auth.key.colon)

\* The session of a request: the one its header names, else its API key.
sessionID(r) ==
  IF r.session # None THEN r.session
  ELSE IF apiKeyFromAuth(r.auth) # None THEN apiKeyFromAuth(r.auth)
  ELSE DefaultSession

isControlRequest(path) ==
  Len(path) >= 3 /\ path[1] = "v1" /\ path[2] = "_mock"

\* net/http redirects a path in which a slash is still doubled.
Redirected(path) == \E i \in 1..(Len(path) - 1) : path[i] = ""

\* What HandleRequest refuses before anything is simulated or generated.
Refused(r, routing) ==
  \/ ~validateAuth(r.auth)
  \/ r.version = "another"
  \/ routing.outcome \in {"malformed", "none"}
  \/ r.data = "unparsable"
  \/ r.verb \notin {"GET", "DELETE"} /\ r.contentType # routing.route.mediaType
  \/ r.data \in {"uncoercible", "invalid"}

\* What a POST to a PaymentIntent's path means.
paymentIntentActionForRequest(path, id) ==
  LET last == path[Len(path)]
  IN IF last = id THEN "update"
     ELSE IF last \in {"confirm", "capture", "cancel"} THEN last ELSE "unsimulated"

\* The list of an intent's Charges, which is served before the route counts.
ListsCharges(r, objects) ==
  /\ r.verb = "GET" /\ r.intent # None /\ ChargeOf[r.intent] \in objects
  /\ Len(r.path) >= 2
  /\ SubSeq(r.path, Len(r.path) - 1, Len(r.path)) = <<"v1", "charges">>

\* What the stateful layer does for a routed request whose session holds the
\* objects: at most one operation, on an id.
StatefulOps(r, route, ids, objects) ==
  LET reads  == r.verb = "GET" /\ ids.own /\ ids.primary \in objects
      action == paymentIntentActionForRequest(r.path, ids.primary)
      ops(condition, name, id) == {op \in {[op |-> name, id |-> id]} : condition}
  IN IF ListsCharges(r, objects) THEN ops(TRUE, "list_charges", r.intent)
     ELSE CASE route.resource = "charge" ->
                 ops(reads, "retrieve_charge", ids.primary)
            [] route.resource = "payment_intent" ->
                 ops(reads, "retrieve", ids.primary)
                 \cup ops(r.verb = "POST" /\ ParamPositions(route.pattern) = <<>>,
                          "create", None)
                 \cup ops(r.verb = "POST" /\ ids.own /\ action # "unsimulated",
                          action, ids.primary)
            [] OTHER -> {}

-----------------------------------------------------------------------------
PipelineInit ==
  /\ handlers = [c \in Clients |-> Idle]
  /\ enabled = {}
  /\ stored = [s \in {} |-> {}]

objectsOf(s) == IF s \in DOMAIN stored THEN stored[s] ELSE {}

\* The session's objects become ids; sessions are made when first written to.
Store(s, ids) ==
  stored' = [t \in DOMAIN stored \cup {s} |-> IF t = s THEN ids ELSE stored[t]]

Answer(c, by, op, id) ==
  handlers' = [handlers EXCEPT
    ![c] = [stage |-> "answered", by |-> by, op |-> op, id |-> id]]

\* An answer that does not come from the session's objects.
OtherAnswer(c, by) ==
  LET asks == handlers[c].request.asks IN Answer(c, by, asks.op, asks.id)

\* A client sends its next request.
Receive(c) ==
  /\ handlers[c].stage = "idle"
  /\ \E r \in Requests[c] :
       handlers' = [handlers EXCEPT
         ![c] = [stage |-> "received",
                 request |-> [r EXCEPT !.path = DoubleSlashFix(r.path)]]]
  /\ UNCHANGED <<enabled, stored>>

Redirect(c) ==
  /\ handlers[c].stage = "received" /\ Redirected(handlers[c].request.path)
  /\ OtherAnswer(c, "refused")
  /\ UNCHANGED <<enabled, stored>>

\* The control plane: neither authenticated nor routed.  Listing, draining and
\* emitting leave enabled and stored alone; emitting asks for a stored intent.
handleControlRequest(c) ==
  LET r        == handlers[c].request
      s        == sessionID(r)
      tail     == SubSeq(r.path, 3, Len(r.path))
      endpoint == <<r.verb, tail>>
      readable == r.data # "unparsable"
      reset    == endpoint = <<"POST", <<"reset">>>>
      config   == endpoint = <<"POST", <<"config">>>> /\ readable
      seed     == endpoint = <<"POST", <<"payment_intents">>>> /\ readable
      reads    == \/ endpoint \in {<<"GET", <<"payment_intents">>>>, <<"GET", <<"events">>>>}
                  \/ /\ r.verb = "POST" /\ Len(tail) = 3
                     /\ tail[1] = "payment_intents" /\ tail[3] = "emit"
                     /\ tail[2] \in objectsOf(s) \cap DOMAIN ChargeOf
  IN /\ handlers[c].stage = "received" /\ ~Redirected(r.path)
     /\ isControlRequest(r.path)
     /\ \/ /\ reset
           /\ Answer(c, "control", "reset", None)
           /\ enabled' = enabled \ {s}
           /\ stored' = [t \in DOMAIN stored \ {s} |-> stored[t]]
        \/ /\ config
           /\ IF r.flag = FALSE
              THEN /\ Answer(c, "control", "config off", None)
                   /\ enabled' = enabled \ {s}
              ELSE /\ Answer(c, "control", "config on", None)
                   /\ enabled' = enabled \cup {s}
           /\ UNCHANGED stored
        \/ /\ seed
           /\ Answer(c, "control", "seed", r.intent)
           /\ Store(s, objectsOf(s) \cup {r.intent})
           /\ enabled' = enabled \cup {s}
        \/ /\ reads
           /\ OtherAnswer(c, "control")
           /\ UNCHANGED <<enabled, stored>>
        \/ /\ ~(reset \/ config \/ seed \/ reads)
           /\ OtherAnswer(c, "refused")
           /\ UNCHANGED <<enabled, stored>>

\* HandleRequest up to the stateful layer: nothing shared is written.
HandleRequest(c) ==
  LET r == handlers[c].request IN
  /\ handlers[c].stage = "received"
  /\ ~Redirected(r.path) /\ ~isControlRequest(r.path)
  /\ \E routing \in routeRequest(r.verb, r.path) :
       IF Refused(r, routing)
       THEN OtherAnswer(c, "refused")
       ELSE handlers' = [handlers EXCEPT
              ![c] = [stage |-> "routed", request |-> r,
                      route |-> routing.route, ids |-> routing.ids]]
  /\ UNCHANGED <<enabled, stored>>

\* X-Stripe-Mock-Stateful switches the layer of the request's session on.
OptIn(c) ==
  /\ handlers[c].stage = "routed" /\ handlers[c].request.stateful
  /\ enabled' = enabled \cup {sessionID(handlers[c].request)}
  /\ handlers' = [handlers EXCEPT ![c].stage = "opted in"]
  /\ UNCHANGED stored

\* The stateful layer serves the request or leaves it to the generator.
maybeHandleStatefulRequest(c) ==
  LET h   == handlers[c]
      s   == sessionID(h.request)
      ops == IF s \in enabled
             THEN StatefulOps(h.request, h.route, h.ids, objectsOf(s)) ELSE {}
  IN /\ \/ h.stage = "opted in"
        \/ h.stage = "routed" /\ ~h.request.stateful
     /\ UNCHANGED enabled
     /\ \/ /\ ops = {}
           /\ OtherAnswer(c, "generator")
           /\ UNCHANGED stored
        \/ \E op \in ops :
             /\ Answer(c, "stateful", op.op, op.id)
             /\ \/ UNCHANGED stored
                \/ /\ op.op \in {"create", "update", "confirm", "capture", "cancel"}
                   /\ \E id \in IF op.op = "create" THEN Minted ELSE {op.id} :
                      \E charges \in SUBSET {ChargeOf[id]} :
                        Store(s, objectsOf(s) \cup {id} \cup charges)

\* The client has its answer.
Done(c) ==
  /\ handlers[c].stage = "answered"
  /\ handlers' = [handlers EXCEPT ![c] = Idle]
  /\ UNCHANGED <<enabled, stored>>

PipelineNext ==
  \E c \in Clients :
    \/ Receive(c) \/ Done(c) \/ Redirect(c) \/ handleControlRequest(c) \/ HandleRequest(c)
    \/ OptIn(c) \/ maybeHandleStatefulRequest(c)
=============================================================================
