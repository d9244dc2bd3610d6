--------------------------- MODULE FixtureSharing ---------------------------
(***************************************************************************)
(* The one mutable thing sessions share besides the store: the fixtures.   *)
(* generateInternal (server/generator.go) builds a new map for an object   *)
(* whose schema lists properties, but hands out the fixture's own map for  *)
(* a free-form object such as a PaymentIntent's metadata.  mergeMap        *)
(* (server/stateful.go) then writes a seed's nested overrides into it, and *)
(* the readers of that map hold no lock the writer takes.                  *)
(*                                                                         *)
(* An object is reduced to its metadata: Shared stands for a reference to  *)
(* the fixture's map, a set of keys for a map of its own.  The metadata a  *)
(* session sends has one key, named after the session.                     *)
(***************************************************************************)
EXTENDS Integers

CONSTANTS Null, Shared, Clients, Sessions, ForeignIds, MaxRequests

ASSUME SharingAssumption ==
  /\ Null # Shared
  /\ \A keys \in SUBSET Sessions : keys \notin {Null, Shared}
  /\ Null \notin Clients
  /\ ForeignIds \cap (1 .. MaxRequests) = {}
  /\ MaxRequests \in Nat

IntentIds == ForeignIds \cup 1 .. MaxRequests
Metadata  == {Null, Shared} \cup SUBSET Sessions
Ops == {"seed", "create", "update", "confirm", "retrieve", "generic", "reset"}
Locking == {"update", "confirm"}
PCs == {"idle", "generate", "merge", "merging", "lock", "load", "record",
        "put", "respond", "reset"}

VARIABLES
  fixture,  \* keys in the metadata map of the payment_intent fixture
  intents,  \* intents[s][id]: metadata of the stored intent, or Null
  up,       \* the process has not died of concurrent map access
  lock,     \* owner of statefulActionMu
  issued,   \* requests issued so far
  pc,       \* pc[c]: next step of the handler serving c
  rq,       \* rq[c]: its request
  md,       \* md[c]: metadata of the object it works on
  \* History, for the properties only.
  seen,     \* seen[s]: keys in the responses and events of s since its reset
  wrote,    \* wrote[s]: keys s has sent since its reset
  nested    \* some seed has overridden metadata

vars == <<fixture, intents, up, lock, issued, pc, rq, md, seen, wrote, nested>>

Requests == [op : Ops, session : Sessions, id : IntentIds, metadata : BOOLEAN]

SharingTypeOK ==
  /\ fixture \subseteq Sessions
  /\ intents \in [Sessions -> [IntentIds -> Metadata]]
  /\ up \in BOOLEAN
  /\ lock \in Clients \cup {Null}
  /\ issued \in 0 .. MaxRequests
  /\ pc \in [Clients -> PCs]
  /\ rq \in [Clients -> Requests \cup {Null}]
  /\ md \in [Clients -> Metadata]
  /\ seen \in [Sessions -> SUBSET Sessions]
  /\ wrote \in [Sessions -> SUBSET Sessions]
  /\ nested \in BOOLEAN

Init ==
  /\ fixture = {}
  /\ intents = [s \in Sessions |-> [id \in IntentIds |-> Null]]
  /\ up = TRUE
  /\ lock = Null
  /\ issued = 0
  /\ pc = [c \in Clients |-> "idle"]
  /\ rq = [c \in Clients |-> Null]
  /\ md = [c \in Clients |-> Null]
  /\ seen = [s \in Sessions |-> {}]
  /\ wrote = [s \in Sessions |-> {}]
  /\ nested = FALSE

session(c) == rq[c].session
stored(c)  == intents[session(c)][rq[c].id]
Goto(c, l) == pc' = [pc EXCEPT ![c] = l]

\* Goroutines that are writing to the fixture's map.
Writers(c) == {d \in Clients \ {c} : pc[d] = "merging"}

\* What c may read of a map: its keys, with or without those being written.
Views(c, m) ==
  IF m = Shared
    THEN {fixture \cup {session(d) : d \in W} : W \in SUBSET Writers(c)}
    ELSE {m}

\* The Go runtime may find out that c uses a map another goroutine is writing
\* to, and then ends the process.
Dies(c, m) ==
  /\ m = Shared
  /\ Writers(c) # {}
  /\ up' = FALSE
  /\ UNCHANGED <<fixture, intents, lock, issued, pc, rq, md, seen, wrote, nested>>

-----------------------------------------------------------------------------
(* Requests                                                                *)

Known(s) == ForeignIds \cup {id \in IntentIds : intents[s][id] # Null}

Issue(c) ==
  /\ pc[c] = "idle"
  /\ issued < MaxRequests
  /\ issued' = issued + 1
  /\ \E r \in Requests :
       /\ IF r.op \in {"create", "generic"} THEN r.id = issued + 1
                                            ELSE r.id \in Known(r.session)
       /\ r.metadata => r.op \in {"seed", "create", "update"}
       /\ rq' = [rq EXCEPT ![c] = r]
       /\ Goto(c, CASE r.op \in Locking    -> "lock"
                    [] r.op = "retrieve"   -> "load"
                    [] r.op = "reset"      -> "reset"
                    [] OTHER               -> "generate")
       /\ wrote' = [wrote EXCEPT ![r.session] =
                      IF r.metadata THEN @ \cup {r.session} ELSE @]
       /\ nested' = (nested \/ (r.op = "seed" /\ r.metadata))
  /\ UNCHANGED <<fixture, intents, up, lock, md, seen>>

\* copyPaymentIntentParams replaces metadata as a whole.
copyMetadata(c, m) == IF rq[c].metadata THEN {session(c)} ELSE m

\* Generate: the base object, and the walk over it that replaces its ids.
Generate(c) ==
  /\ pc[c] = "generate"
  /\ md' = [md EXCEPT ![c] = IF rq[c].op = "create" THEN copyMetadata(c, Shared)
                                                    ELSE Shared]
  /\ Goto(c, CASE rq[c].op = "create" -> "record"
               [] rq[c].op = "seed"   -> IF rq[c].metadata THEN "merge" ELSE "put"
               [] OTHER               -> "respond")
  /\ UNCHANGED <<fixture, intents, up, lock, issued, rq, seen, wrote, nested>>

\* mergeMap: dst["metadata"] is the fixture's map, which it writes in place.
BeginMerge(c) ==
  /\ pc[c] = "merge"
  /\ Goto(c, "merging")
  /\ UNCHANGED <<fixture, intents, up, lock, issued, rq, md, seen, wrote, nested>>

EndMerge(c) ==
  /\ pc[c] = "merging"
  /\ fixture' = fixture \cup {session(c)}
  /\ Goto(c, "put")
  /\ UNCHANGED <<intents, up, lock, issued, rq, md, seen, wrote, nested>>

AcquireLock(c) ==
  /\ pc[c] = "lock"
  /\ lock = Null
  /\ lock' = c
  /\ Goto(c, "load")
  /\ UNCHANGED <<fixture, intents, up, issued, rq, md, seen, wrote, nested>>

\* What getResource deep-copies, or the base of an adopted intent; a retrieve
\* that finds nothing reads no map here.
Loads(c) ==
  IF stored(c) # Null THEN stored(c)
  ELSE IF rq[c].op = "retrieve" THEN {} ELSE Shared

\* Not found: a retrieve goes to the generator, an action adopts the id.
Load(c) ==
  /\ pc[c] = "load"
  /\ \E keys \in Views(c, Loads(c)) :
       md' = [md EXCEPT ![c] = IF stored(c) = Null THEN copyMetadata(c, Shared)
                                                   ELSE copyMetadata(c, keys)]
  /\ Goto(c, CASE rq[c].op = "confirm" -> "record"
               [] rq[c].op = "update"  -> "put"
               [] OTHER -> IF stored(c) = Null THEN "generate" ELSE "respond")
  /\ UNCHANGED <<fixture, intents, up, lock, issued, rq, seen, wrote, nested>>

\* buildEvent deep-copies the object into the session's queue.
Record(c) ==
  /\ pc[c] = "record"
  /\ \E keys \in Views(c, md[c]) :
       seen' = [seen EXCEPT ![session(c)] = @ \cup keys]
  /\ Goto(c, "put")
  /\ UNCHANGED <<fixture, intents, up, lock, issued, rq, md, wrote, nested>>

\* Stores the object in every session.
SlipPut(c) ==
  /\ pc[c] = "put"
  /\ intents' = [s \in Sessions |-> [intents[s] EXCEPT ![rq[c].id] = md[c]]]
  /\ Goto(c, "respond")
  /\ UNCHANGED <<fixture, up, lock, issued, rq, md, seen, wrote, nested>>

Put(c) ==
  /\ pc[c] = "put"
  /\ intents' = [intents EXCEPT ![session(c)][rq[c].id] = md[c]]
  /\ Goto(c, "respond")
  /\ UNCHANGED <<fixture, up, lock, issued, rq, md, seen, wrote, nested>>

\* writeResponse encodes the object; the deferred unlock follows.
Respond(c) ==
  /\ pc[c] = "respond"
  /\ \E keys \in Views(c, md[c]) :
       seen' = [seen EXCEPT ![session(c)] = @ \cup keys]
  /\ lock' = IF lock = c THEN Null ELSE lock
  /\ Goto(c, "idle")
  /\ rq' = [rq EXCEPT ![c] = Null]
  /\ md' = [md EXCEPT ![c] = Null]
  /\ UNCHANGED <<fixture, intents, up, issued, wrote, nested>>

\* Only with no other request of the session in progress: what a reset does
\* to those is ControlPlane's subject.
Reset(c) ==
  LET s == session(c)
  IN  /\ pc[c] = "reset"
      /\ \A d \in Clients \ {c} : pc[d] \notin {"idle", "reset"} => session(d) # s
      /\ intents' = [intents EXCEPT ![s] = [id \in IntentIds |-> Null]]
      /\ seen'  = [seen EXCEPT ![s] = {}]
      /\ wrote' = [wrote EXCEPT ![s] = {}]
      /\ Goto(c, "idle")
      /\ rq' = [rq EXCEPT ![c] = Null]
      /\ UNCHANGED <<fixture, up, lock, issued, md, nested>>

\* The uses of a map during which another goroutine may be writing to it.
Race(c) ==
  \/ pc[c] = "generate" /\ Dies(c, Shared)
  \/ pc[c] = "merge"    /\ Dies(c, Shared)
  \/ pc[c] = "load"     /\ Dies(c, Loads(c))
  \/ pc[c] \in {"record", "respond"} /\ Dies(c, md[c])

Done == /\ ~up \/ (issued = MaxRequests /\ \A c \in Clients : pc[c] = "idle")
        /\ UNCHANGED vars

Next ==
  \/ /\ up
     /\ \E c \in Clients :
          \/ Issue(c) \/ Generate(c) \/ BeginMerge(c) \/ EndMerge(c)
          \/ AcquireLock(c) \/ Load(c) \/ Record(c) \/ Put(c) \/ Respond(c)
          \/ Reset(c) \/ Race(c)
  \/ Done

Spec == Init /\ [][Next]_vars

-----------------------------------------------------------------------------
(* Properties                                                              *)

OnlyOwn == \A s \in Sessions : seen[s] \subseteq wrote[s]

\* As long as no seed overrides a nested object, sharing the fixture does no
\* harm: a session is shown only what it sent since its reset, and the process
\* does not die, whatever creates, adoptions, updates and flat seeds do.
FlatSeedsIsolate == ~nested => up /\ OnlyOwn

\* What a handler's request satisfies at each program counter.
RequestOK(c) ==
  pc[c] # "idle" =>
    /\ rq[c] \in Requests
    /\ rq[c].metadata => rq[c].op \in {"seed", "create", "update"}
    /\ rq[c].op = "seed" /\ rq[c].metadata => nested
    /\ pc[c] = "reset" => rq[c].op = "reset"
    /\ pc[c] \in {"merge", "merging"} => nested
    /\ pc[c] # "reset" /\ rq[c].metadata => session(c) \in wrote[session(c)]

\* What a map holds was sent by session s, unless it is the fixture's.
Own(m, s) == m \notin {Null, Shared} => m \subseteq wrote[s]

\* The inductive invariant behind FlatSeedsIsolate: until a seed is nested the
\* fixture's map stays empty, and every map of keys, stored or in the hands of
\* a handler, belongs to one session alone.
SharingInv ==
  /\ SharingTypeOK
  /\ \A c \in Clients :
       /\ RequestOK(c)
       /\ pc[c] \in {"idle", "reset"} => md[c] = Null
       /\ pc[c] \in {"merge", "merging", "record", "put", "respond"} => md[c] # Null
  /\ ~nested =>
       /\ up
       /\ fixture = {}
       /\ OnlyOwn
       /\ \A s \in Sessions, id \in IntentIds : Own(intents[s][id], s)
       /\ \A c \in Clients : pc[c] # "idle" => Own(md[c], session(c))

\* "State is partitioned per session so parallel test workers don't collide"
\* (README): a session is shown no metadata but its own, and none it sent
\* before its reset.
SessionsArePartitioned == OnlyOwn
=============================================================================
