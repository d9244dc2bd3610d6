-------------------------- MODULE WorkerIsolation --------------------------
(***************************************************************************)
(* What the server promises to parallel test workers (README.md, "State is *)
(* partitioned per session", and server/stateful.go): every worker has a   *)
(* stateful layer of its own, off until it asks for it; what a request     *)
(* means, and whether it is simulated, depends on the worker it comes from *)
(* and on what that worker did before, never on another worker; a request  *)
(* that is refused changes nothing.                                        *)
(*                                                                         *)
(* Sessions, headers, paths and routes do not occur here: they are how     *)
(* RequestPipeline keeps the promise.                                      *)
(***************************************************************************)
CONSTANTS
  Workers, Clients,
  Asks,            \* what a request may ask for: [worker, op, ...]
  Ids,             \* of PaymentIntents and of Charges
  NoAnswer

VARIABLES
  on,              \* the workers whose stateful layer is on
  held,            \* worker -> ids of the objects its layer holds
  asked,           \* client -> what its request in progress asks for
  answered         \* client -> the answer it was just given

Reads       == {"retrieve", "retrieve_charge", "list_charges"}
Transitions == {"create", "update", "confirm", "capture", "cancel"}

ControlOps  == {"reset", "config on", "config off", "seed", "list", "drain", "emit"}

Simulated(a) ==
  /\ a.worker \in on
  /\ \/ a.op \in Transitions
     \/ a.op \in Reads /\ a.needs \in held[a.worker]

Init ==
  /\ on = {} /\ held = [w \in Workers |-> {}]
  /\ asked = [c \in Clients |-> NoAnswer] /\ answered = asked

Ask(c) ==
  /\ asked[c] = NoAnswer /\ answered[c] = NoAnswer
  /\ \E a \in Asks : asked' = [asked EXCEPT ![c] = a]
  /\ UNCHANGED <<on, held, answered>>

Done(c) ==
  /\ answered[c] # NoAnswer
  /\ answered' = [answered EXCEPT ![c] = NoAnswer]
  /\ UNCHANGED <<on, held, asked>>

\* A request that is in order may switch its worker's layer on first.
OptIn(c) ==
  /\ asked[c].valid /\ asked[c].stateful
  /\ on' = on \cup {asked[c].worker}
  /\ UNCHANGED <<held, asked, answered>>

Answer(c, by) ==
  /\ asked' = [asked EXCEPT ![c] = NoAnswer]
  /\ answered' = [answered EXCEPT
       ![c] = [by |-> by, op |-> asked[c].op, id |-> asked[c].id]]

\* Exactly the requests that are not in order are refused, and those to emit an
\* event of an object the layer does not hold.
Refuse(c) ==
  /\ \/ ~asked[c].valid
     \/ asked[c].op = "emit" /\ asked[c].needs \notin held[asked[c].worker]
  /\ Answer(c, "refused")
  /\ UNCHANGED <<on, held>>

Generate(c) ==
  /\ asked[c].valid /\ ~Simulated(asked[c]) /\ asked[c].op \notin ControlOps
  /\ Answer(c, "generator")
  /\ UNCHANGED <<on, held>>

Simulate(c) ==
  LET a == asked[c] IN
  /\ a.valid /\ Simulated(a)
  /\ Answer(c, "stateful")
  /\ IF a.op \in Reads THEN held' = held
     ELSE \E new \in SUBSET Ids :
            /\ a.op # "create" => new \subseteq {a.id, a.charge}
            /\ held' = [held EXCEPT ![a.worker] = @ \cup new]
  /\ UNCHANGED on

Control(c) ==
  LET a == asked[c] IN
  /\ a.valid
  /\ Answer(c, "control")
  /\ \/ /\ a.op = "reset"
        /\ on' = on \ {a.worker} /\ held' = [held EXCEPT ![a.worker] = {}]
     \/ /\ a.op = "config on" /\ on' = on \cup {a.worker} /\ UNCHANGED held
     \/ /\ a.op = "config off" /\ on' = on \ {a.worker} /\ UNCHANGED held
     \/ /\ a.op = "seed"
        /\ on' = on \cup {a.worker}
        /\ held' = [held EXCEPT ![a.worker] = @ \cup {a.id}]
     \/ /\ \/ a.op \in {"list", "drain"}
           \/ a.op = "emit" /\ a.needs \in held[a.worker]
        /\ UNCHANGED <<on, held>>

\* The layers live in the memory of the process.
Restart ==
  /\ on' = {} /\ held' = [w \in Workers |-> {}]
  /\ asked' = [c \in Clients |-> NoAnswer] /\ answered' = asked'

Next ==
  \/ Restart
  \/ \E c \in Clients :
       \/ Ask(c) \/ Done(c)
       \/ asked[c] # NoAnswer /\ (\/ OptIn(c) \/ Refuse(c) \/ Generate(c)
                                  \/ Simulate(c) \/ Control(c))

IsolationSpec == Init /\ [][Next]_<<on, held, asked, answered>>
=============================================================================
