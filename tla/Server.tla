------------------------------- MODULE Server -------------------------------
(***************************************************************************)
(* The process: it comes up as Startup says, serves the requests of its    *)
(* clients as RequestPipeline says from the moment its first listener is   *)
(* open, and when it ends, killed or because its second listener could not *)
(* be opened, requests in progress and everything stored are gone.         *)
(***************************************************************************)
EXTENDS Startup, RequestPipeline

CONSTANTS
  Workers, SessionOf,   \* the test workers, and the session of each
  Ids,
  ClientSettings        \* a bound: the command lines, values of PORT and sets of
                        \* socket files with which requests are sent

pipelineVars == <<handlers, enabled, stored>>
vars         == <<startVars, pipelineVars>>

Init == StartInit /\ PipelineInit

\* A step of main; newStatefulStore starts from nothing.
Main ==
  /\ StartNext
  /\ IF Serving' THEN UNCHANGED pipelineVars
     ELSE /\ handlers' = [c \in Clients |-> Idle]
          /\ enabled' = {} /\ stored' = [s \in {} |-> {}]

Request ==
  /\ Serving /\ <<options, env, files>> \in ClientSettings
  /\ PipelineNext
  /\ UNCHANGED startVars

Next == Main \/ Request

Spec == Init /\ [][Next]_vars

-----------------------------------------------------------------------------
(* The workers: each has a session of its own and sends what tells it apart *)

\* The fields of a request, and what is known of one apart from the answer.
ASSUME RequestsAssumption ==
  \A c \in Clients : \A r \in Requests[c] :
    /\ DOMAIN r = {"verb", "path", "auth", "session", "stateful", "version",
                   "contentType", "data", "intent", "flag", "asks"}
    /\ r.asks.worker \in Workers /\ r.asks # None
    /\ \A by \in {"refused", "control", "generator", "stateful"} :
         [by |-> by, op |-> r.asks.op, id |-> r.asks.id] # None

\* The ids the server mints for intents and Charges.
ASSUME IdsAssumption ==
  \A id \in Minted : {id, ChargeOf[id]} \subseteq Ids

ASSUME SessionsAssumption ==
  /\ \A w \in Workers : SessionOf[w] # None
  /\ \A v, w \in Workers : SessionOf[v] = SessionOf[w] => v = w

\* A client's requests as HandleRequest sees them.
Received(c) == {[r EXCEPT !.path = DoubleSlashFix(r.path)] : r \in Requests[c]}

\* A request names its worker's session in the header, or sends the worker's key:
\* as it is, or as the user name of a Basic header, perhaps with a colon after it.
SentBy(r, w) ==
  LET key == SessionOf[w] IN
  IF r.session # None THEN r.session = key
  ELSE /\ key \in [kind : STRING, mode : STRING, rest : STRING, colon : {FALSE}]
       /\ r.auth # None /\ r.auth.readable
       /\ \/ r.auth.scheme = "Bearer" /\ r.auth.key = key
          \/ r.auth.scheme = "Basic" /\ r.auth.key \in {key, [key EXCEPT !.colon = TRUE]}

\* The control plane takes what it is sent; elsewhere a key has to be in order.
ASSUME KeysAssumption ==
  \A c \in Clients : \A r \in Received(c) :
    isControlRequest(r.path) \/ validateAuth(r.auth) => SentBy(r, r.asks.worker)

-----------------------------------------------------------------------------
\* The workers' view of the server's state.
Answered(c) == handlers[c].stage = "answered"
Busy(c)     == handlers[c].stage # "idle" /\ ~Answered(c)

optedIn == {w \in Workers : SessionOf[w] \in enabled}
holding == [w \in Workers |-> objectsOf(SessionOf[w])]
asking  == [c \in Clients |-> IF Busy(c) THEN handlers[c].request.asks ELSE None]
told    == [c \in Clients |->
              IF Answered(c)
              THEN [by |-> handlers[c].by, op |-> handlers[c].op, id |-> handlers[c].id]
              ELSE None]

Promise == INSTANCE WorkerIsolation WITH
  Asks <- {r.asks : r \in UNION {Requests[c] : c \in Clients}}, NoAnswer <- None,
  on <- optedIn, held <- holding, asked <- asking, answered <- told

\* Every worker finds its own stateful layer and no other, however it sends
\* its key, whatever requests of other workers come between, whatever order
\* the routes are in and however often the process was restarted; a request is
\* simulated as what it asks for, and a refused one changes nothing.
WorkersAreIsolated == Promise!IsolationSpec

\* What a control request asks for is its method and endpoint, and its payload.
ControlUnderstood(r) ==
  LET a        == r.asks
      tail     == SubSeq(r.path, 3, Len(r.path))
      readable == r.data # "unparsable"
      posts(endpoint) == r.verb = "POST" /\ tail = endpoint
      gets(endpoint)  == r.verb = "GET" /\ tail = endpoint
      is(op, condition) == a.valid /\ a.op = op <=> condition
  IN /\ is("reset", posts(<<"reset">>))
     /\ is("config on", posts(<<"config">>) /\ readable /\ r.flag # FALSE)
     /\ is("config off", posts(<<"config">>) /\ readable /\ r.flag = FALSE)
     /\ is("seed", posts(<<"payment_intents">>) /\ readable)
     /\ is("list", gets(<<"payment_intents">>))
     /\ is("drain", gets(<<"events">>))
     /\ is("emit", /\ r.verb = "POST" /\ Len(tail) = 3
                   /\ tail[1] = "payment_intents" /\ tail[3] = "emit")
     /\ a.valid => a.op \in Promise!ControlOps
     /\ a.valid /\ a.op \in {"reset", "config on", "config off"} => a.id = None
     /\ a.valid /\ a.op = "seed" => a.id = r.intent
     /\ a.valid /\ a.op = "emit" =>
          a.needs = tail[2] /\ a.needs \in DOMAIN ChargeOf

\* What a routed request asks for is what its route, its method, its ids and
\* the end of its path say.
RouteUnderstood(r, route, ids) ==
  LET a     == r.asks
      lists == /\ r.verb = "GET" /\ r.intent # None /\ Len(r.path) >= 2
               /\ SubSeq(r.path, Len(r.path) - 1, Len(r.path)) = <<"v1", "charges">>
      on(resource, verb) == route.resource = resource /\ r.verb = verb
      actions == Promise!Transitions \ {"create"}
  IN /\ a.op = "list_charges" <=> lists
     /\ a.op = "retrieve_charge" <=> on("charge", "GET") /\ ids.own
     /\ a.op = "retrieve" <=> on("payment_intent", "GET") /\ ids.own
     /\ a.op = "create" <=> /\ on("payment_intent", "POST")
                            /\ ParamPositions(route.pattern) = <<>>
     /\ \A action \in actions :
          a.op = action <=> /\ on("payment_intent", "POST") /\ ids.own
                            /\ paymentIntentActionForRequest(r.path, ids.primary) = action
     /\ a.op \in Promise!Reads \cup Promise!Transitions \cup {"other"}
     /\ lists => a.id = r.intent /\ a.needs = ChargeOf[r.intent]
     /\ a.op \in {"retrieve", "retrieve_charge"} => a.id = ids.primary /\ a.needs = a.id
     /\ a.op = "create" => a.id = None
     /\ a.op \in actions => /\ a.id = ids.primary /\ a.charge = ChargeOf[a.id]
                            /\ {a.id, a.charge} \subseteq Ids

\* A request is taken for what it asks for, whichever of the routes it may be
\* given, and refused if and only if it is not in order.
Understood(r) ==
  IF Redirected(r.path) THEN ~r.asks.valid
  ELSE IF isControlRequest(r.path) THEN ControlUnderstood(r)
  ELSE \A routing \in routeRequest(r.verb, r.path) :
         /\ Refused(r, routing) <=> ~r.asks.valid
         /\ r.asks.valid => /\ r.asks.stateful <=> r.stateful
                            /\ RouteUnderstood(r, routing.route, routing.ids)

\* The redirect, the control plane, the checks and the router tell the requests
\* apart as the tests that send them do, before any session is looked at.
RequestsAreUnderstood ==
  \A c \in Clients : handlers[c].stage = "received" => Understood(handlers[c].request)

\* Of the routes a path matches, the one with a literal segment where another
\* has a parameter is taken, as initializeRouter's sort is to ensure:
\* /v1/charges/search is no retrieve of the Charge "search".
LiteralSegmentWins ==
  \A c \in Clients : handlers[c].stage \in {"routed", "opted in"} =>
    LET h == handlers[c] IN
    \A other \in MatchingRoutes(h.request.verb, h.request.path) :
      \A i \in DOMAIN h.route.pattern :
        ~other.pattern[i].param => ~h.route.pattern[i].param
=============================================================================
