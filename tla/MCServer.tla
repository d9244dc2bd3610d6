------------------------------ MODULE MCServer ------------------------------
(* Small instances of Server for TLC: the command lines, the operations of  *)
(* the specification and the requests of three test workers.                *)
EXTENDS Server, TLC

CONSTANTS c1, c2, bearer, basic, header, p1, p2, httpSocket, httpsSocket, headerSession

MCClients == {c1, c2}
MCSockets == {httpSocket, httpsSocket}
MCEnvPorts == {Null, p1, NotANumber}
NoEnvPort  == {Null}

-----------------------------------------------------------------------------
\* Command lines: every combination of options, one value each, the HTTPS ones
\* with a choice of the same address as the HTTP one.
NoOptions ==
  [http |-> FALSE, httpAddr |-> Null, httpPort |-> Null, httpUnixSocket |-> Null,
   https |-> FALSE, httpsAddr |-> Null, httpsPort |-> Null,
   httpsUnixSocket |-> Null, port |-> Null, unixSocket |-> Null]

AllInvocations ==
  [http : BOOLEAN, httpAddr : {Null, p1, httpsPortDefault}, httpPort : {Null, FreePort},
   httpUnixSocket : {Null, httpSocket},
   https : BOOLEAN, httpsAddr : {Null, FreePort, p2}, httpsPort : {Null, p1},
   httpsUnixSocket : {Null, httpSocket, httpsSocket}, port : {Null, p2},
   unixSocket : {Null, httpSocket}]

\* Requests meet a process that stays up, and one that ends when its second
\* listener cannot be opened.
MCClientSettings == {<<NoOptions, Null, {}>>, <<NoOptions, p1, {}>>}

\* What main_test.go lists as valid sets of options, on addresses of their own.
TestedInvocations ==
  {[NoOptions EXCEPT !.http = TRUE], [NoOptions EXCEPT !.https = TRUE],
   [NoOptions EXCEPT !.https = TRUE, !.port = p1],
   [NoOptions EXCEPT !.httpPort = p1, !.httpsPort = p2],
   [NoOptions EXCEPT !.httpUnixSocket = httpSocket, !.httpsUnixSocket = httpsSocket]}

-----------------------------------------------------------------------------
\* Operations of the bundled specification, among them one of each kind of
\* pair of paths that matches the same request.
Route(verb, pattern, resource) ==
  [verb |-> verb, pattern |-> pattern, resource |-> resource,
   mediaType |-> "form"]

v1        == Lit("v1")
Intent    == <<v1, Lit("payment_intents"), Param("intent")>>

MCRoutes ==
  {Route("GET", <<v1, Lit("charges")>>, "list"),
   Route("GET", <<v1, Lit("charges"), Lit("search")>>, "search"),
   Route("GET", <<v1, Lit("charges"), Param("charge")>>, "charge"),
   Route("GET", <<v1, Lit("credit_notes"), Lit("preview"), Lit("lines")>>, "list"),
   Route("GET", <<v1, Lit("credit_notes"), Param("credit_note"), Lit("lines")>>, "list"),
   Route("GET", <<v1, Lit("payment_intents"), Lit("search")>>, "search"),
   Route("GET", Intent, "payment_intent"),
   Route("POST", <<v1, Lit("payment_intents")>>, "payment_intent"),
   Route("POST", Intent, "payment_intent"),
   Route("POST", Append(Intent, Lit("confirm")), "payment_intent"),
   Route("POST", Append(Intent, Lit("capture")), "payment_intent"),
   Route("POST", Append(Intent, Lit("verify_microdeposits")), "payment_intent"),
   Route("POST", Append(Intent, Lit("increment_authorization")), "payment_intent")}

MCPlain     == {"pi1", "ch1", "search", "preview", "confirm", "capture",
                "lines", "charges", "payment_intents"}
MCUnescaped == "%zz" :> Malformed
MCMinted    == {"pi1"}
MCChargeOf  == "pi1" :> "ch1"
MCIds       == {"pi1", "ch1"}

-----------------------------------------------------------------------------
\* The workers: two with keys of their own, and one that shares the first
\* one's key but names its session.
MCWorkers   == {bearer, basic, header}
Key(rest)   == [kind |-> "sk", mode |-> "test", rest |-> rest, colon |-> FALSE]
MCSessionOf == bearer :> Key("1") @@ basic :> Key("2") @@ header :> headerSession

Auth(scheme, key) == [scheme |-> scheme, readable |-> TRUE, key |-> key]
Colon(key)        == [key EXCEPT !.colon = TRUE]

\* A request of a worker in one of the forms of its key, what it asks for with
\* it, and whether it is in order.
Asked(w, op, id, valid) ==
  [worker |-> w, op |-> op, id |-> id, charge |-> IF id = "pi1" THEN "ch1" ELSE None,
   needs |-> IF op = "list_charges" THEN MCChargeOf[id] ELSE id,
   valid |-> valid, stateful |-> FALSE]

From(w, auth, verb, path, op, id) ==
  [verb |-> verb, path |-> path, auth |-> auth,
   session |-> IF w = header THEN headerSession ELSE None,
   stateful |-> FALSE, version |-> None, contentType |-> "form", data |-> "valid",
   intent |-> None, flag |-> None, asks |-> Asked(w, op, id, TRUE)]

OptingIn(r)      == [r EXCEPT !.stateful = TRUE, !.asks.stateful = TRUE]
About(r, intent) == [r EXCEPT !.intent = intent]
Wrong(r)         == [r EXCEPT !.asks.valid = FALSE]

Good(w, auth) ==
  LET pi(verb, tail, op, id) ==
        From(w, auth, verb, <<"v1", "payment_intents">> \o tail, op, id)
      control(endpoint, op) == From(w, auth, "POST", <<"v1", "_mock", endpoint>>, op, None)
  IN {pi("POST", <<>>, "create", None),
      OptingIn(pi("POST", <<"pi1", "confirm">>, "confirm", "pi1")),
      pi("POST", <<"", "pi1">>, "update", "pi1"),
      pi("POST", <<"pi1", "verify_microdeposits">>, "other", "pi1"),
      pi("POST", <<"pi1", "increment_authorization">>, "other", "pi1"),
      pi("GET", <<"pi1">>, "retrieve", "pi1"),
      pi("GET", <<"search">>, "other", None),
      From(w, auth, "GET", <<"v1", "charges", "ch1">>, "retrieve_charge", "ch1"),
      From(w, auth, "GET", <<"v1", "charges", "search">>, "other", None),
      About(From(w, auth, "GET", <<"v1", "charges">>, "list_charges", "pi1"), "pi1"),
      From(w, auth, "GET", <<"v1", "credit_notes", "preview", "lines">>, "other", None),
      control("reset", "reset"), control("config", "config on"),
      [control("config", "config off") EXCEPT !.flag = FALSE],
      [control("payment_intents", "list") EXCEPT !.verb = "GET"],
      [control("events", "drain") EXCEPT !.verb = "GET"],
      From(w, auth, "POST", <<"v1", "_mock", "payment_intents", "pi1", "emit">>,
           "emit", "pi1"),
      [control("payment_intents", "seed") EXCEPT !.intent = "pi1", !.asks.id = "pi1"]}

\* One defect for every reason to refuse a request.
Bad(w, auth) ==
  LET confirm == OptingIn(From(w, auth, "POST",
                   <<"v1", "payment_intents", "pi1", "confirm">>, "confirm", "pi1"))
  IN {Wrong([confirm EXCEPT !.auth = None]),
      Wrong([confirm EXCEPT !.auth.scheme = "Token"]),
      Wrong([confirm EXCEPT !.auth.readable = FALSE]),
      Wrong([confirm EXCEPT !.auth.key.mode = "live"]),
      Wrong([confirm EXCEPT !.auth.key.rest = "", !.auth.key.colon = FALSE]),
      Wrong([confirm EXCEPT !.version = "another"]),
      Wrong([confirm EXCEPT !.path = <<"v1", "payment_intents", "%zz", "confirm">>]),
      Wrong([confirm EXCEPT !.path = <<"v1", "payment_intents", "pi1", "refuse">>]),
      Wrong([confirm EXCEPT !.path = <<"v1", "", "", "payment_intents">>]),
      Wrong([confirm EXCEPT !.verb = "PUT"]),
      Wrong([confirm EXCEPT !.contentType = "json"]),
      Wrong([confirm EXCEPT !.data = "unparsable"]),
      Wrong([confirm EXCEPT !.data = "uncoercible"]),
      Wrong([confirm EXCEPT !.data = "invalid"]),
      Wrong([confirm EXCEPT !.path = <<"v1", "_mock", "config">>, !.data = "unparsable"]),
      Wrong([confirm EXCEPT !.path = <<"v1", "_mock", "unknown">>])}

\* One client of the first worker sends every kind of request, the other what
\* the other workers, and the first one beside itself, do meanwhile.
Only(ops, requests) == {r \in requests : r.asks.op \in ops}

MCRequests ==
  LET one == Auth("Bearer", Key("1")) IN
  c1 :> (Good(bearer, one) \cup Bad(bearer, one)
         \cup Only({"retrieve"}, Good(bearer, Auth("Basic", Colon(Key("1")))))) @@
  c2 :> (Only({"confirm", "retrieve", "reset"}, Good(header, Auth("Basic", Key("1"))))
         \cup Only({"seed", "retrieve"}, Good(basic, Auth("Basic", Colon(Key("2")))))
         \cup Only({"config off", "retrieve"}, Good(bearer, one)))
=============================================================================
