------------------------ MODULE FixtureSharing_proofs ------------------------
(***************************************************************************)
(* FixtureSharing's isolation theorem, for every set of clients, sessions  *)
(* and ids and every number of requests.                                   *)
(***************************************************************************)
EXTENDS FixtureSharing, TLAPS

\* The parts of SharingInv: what holds of each handler, ...
HandlerInv(c) ==
  /\ RequestOK(c)
  /\ pc[c] \in {"idle", "reset"} => md[c] = Null
  /\ pc[c] \in {"merge", "merging", "record", "put", "respond"} => md[c] # Null

\* ... and what holds until a seed is nested.
FlatInv ==
  /\ up
  /\ fixture = {}
  /\ OnlyOwn
  /\ \A s \in Sessions, id \in IntentIds : Own(intents[s][id], s)
  /\ \A c \in Clients : pc[c] # "idle" => Own(md[c], session(c))

LEMMA SharingInvParts ==
  SharingInv <=> /\ SharingTypeOK
                 /\ \A c \in Clients : HandlerInv(c)
                 /\ ~nested => FlatInv
BY DEF SharingInv, HandlerInv, FlatInv

\* A step of one handler leaves the variables of the others alone.
OthersKeep(c) ==
  \A d \in Clients \ {c} : pc'[d] = pc[d] /\ rq'[d] = rq[d] /\ md'[d] = md[d]

\* Short of a reset, what was sent and whether a seed was nested only grow.
Grows ==
  /\ nested => nested'
  /\ \A s \in Sessions : wrote[s] \subseteq wrote'[s]

LEMMA OthersStay ==
  ASSUME NEW c \in Clients, OthersKeep(c), Grows,
         \A d \in Clients : HandlerInv(d), HandlerInv(c)'
  PROVE  \A d \in Clients : HandlerInv(d)'
<1> SUFFICES ASSUME NEW d \in Clients, d # c
             PROVE  HandlerInv(d)'
  OBVIOUS
<1>1. HandlerInv(d) /\ pc'[d] = pc[d] /\ rq'[d] = rq[d] /\ md'[d] = md[d]
  BY DEF OthersKeep
<1>2. pc[d] # "idle" => session(d) \in Sessions /\ session(d)' = session(d)
  BY <1>1 DEF HandlerInv, RequestOK, Requests, session
<1>3. RequestOK(d)'
  BY <1>1, <1>2 DEF HandlerInv, RequestOK, Grows
<1>4. QED
  BY <1>1, <1>3 DEF HandlerInv

\* Of the maps handlers work on, only those of c can have changed.
LEMMA OthersOwn ==
  ASSUME NEW c \in Clients, OthersKeep(c), Grows, FlatInv,
         \A d \in Clients : HandlerInv(d),
         pc'[c] # "idle" => Own(md[c], session(c))'
  PROVE  \A d \in Clients : (pc[d] # "idle" => Own(md[d], session(d)))'
<1> SUFFICES ASSUME NEW d \in Clients, d # c, pc'[d] # "idle"
             PROVE  Own(md[d], session(d))'
  OBVIOUS
<1>1. pc[d] # "idle" /\ rq'[d] = rq[d] /\ md'[d] = md[d]
  BY DEF OthersKeep
<1>2. session(d) \in Sessions /\ session(d)' = session(d)
  BY <1>1 DEF HandlerInv, RequestOK, Requests, session
<1>3. Own(md[d], session(d))
  BY <1>1 DEF FlatInv
<1>4. QED
  BY <1>1, <1>2, <1>3 DEF Own, Grows

-----------------------------------------------------------------------------
(* What a handler reads                                                    *)

LEMMA KeysAreMaps ==
  ASSUME NEW keys \in SUBSET Sessions
  PROVE  keys \in Metadata /\ keys # Null /\ keys # Shared
BY SharingAssumption DEF Metadata

\* A client that serves a request has one of the declared form.
LEMMA Serving ==
  ASSUME NEW c \in Clients, HandlerInv(c), pc[c] # "idle"
  PROVE  /\ rq[c] \in Requests
         /\ session(c) \in Sessions
         /\ rq[c].id \in IntentIds
         /\ rq[c].op \in Ops
         /\ rq[c].metadata \in BOOLEAN
BY DEF HandlerInv, RequestOK, Requests, session

\* A reader sees keys of sessions, and only those of its own map or, while no
\* seed is nested, none of the fixture's.
LEMMA ViewsAreKeys ==
  ASSUME SharingTypeOK, \A d \in Clients : HandlerInv(d),
         NEW c \in Clients, NEW m \in Metadata, m # Null,
         NEW keys \in Views(c, m)
  PROVE  /\ keys \in SUBSET Sessions
         /\ m # Shared => keys = m
         /\ m = Shared /\ ~nested /\ fixture = {} => keys = {}
<1>1. CASE m # Shared
  BY <1>1 DEF Views, Metadata
<1>2. CASE m = Shared
  <2>1. PICK W \in SUBSET Writers(c) : keys = fixture \cup {session(d) : d \in W}
    BY <1>2 DEF Views
  <2>2. \A d \in W : d \in Clients /\ pc[d] = "merging" /\ session(d) \in Sessions
    BY <2>1, Serving DEF Writers
  <2>3. ~nested => W = {}
    BY <2>2 DEF HandlerInv, RequestOK
  <2>4. fixture \subseteq Sessions
    BY DEF SharingTypeOK
  <2>5. QED
    BY <1>2, <2>1, <2>2, <2>3, <2>4
<1>3. QED
  BY <1>1, <1>2

\* What copyMetadata leaves in an object is a map, and the sender's own if the
\* one it replaces is.
LEMMA CopyIsOwn ==
  ASSUME NEW c \in Clients, HandlerInv(c), pc[c] \notin {"idle", "reset"},
         NEW m \in Metadata, m # Null
  PROVE  /\ copyMetadata(c, m) \in Metadata
         /\ copyMetadata(c, m) # Null
         /\ Own(m, session(c)) => Own(copyMetadata(c, m), session(c))
<1>1. session(c) \in Sessions /\ (rq[c].metadata => session(c) \in wrote[session(c)])
  BY Serving DEF HandlerInv, RequestOK
<1>2. {session(c)} \in Metadata /\ {session(c)} # Null
  BY <1>1, KeysAreMaps
<1>3. QED
  BY <1>1, <1>2 DEF copyMetadata, Own

-----------------------------------------------------------------------------
(* The steps                                                               *)

LEMMA IssueKeeps ==
  ASSUME SharingInv, NEW c \in Clients, Issue(c)
  PROVE  SharingInv'
<1> USE SharingInvParts
<1>1. PICK r \in Requests :
        /\ r.metadata => r.op \in {"seed", "create", "update"}
        /\ rq' = [rq EXCEPT ![c] = r]
        /\ pc' = [pc EXCEPT ![c] = CASE r.op \in Locking    -> "lock"
                                     [] r.op = "retrieve"   -> "load"
                                     [] r.op = "reset"      -> "reset"
                                     [] OTHER               -> "generate"]
        /\ wrote' = [wrote EXCEPT ![r.session] =
                       IF r.metadata THEN @ \cup {r.session} ELSE @]
        /\ nested' = (nested \/ (r.op = "seed" /\ r.metadata))
  BY DEF Issue, Goto
<1>2. /\ pc[c] = "idle" /\ issued < MaxRequests /\ issued' = issued + 1
      /\ UNCHANGED <<fixture, intents, up, lock, md, seen>>
  BY DEF Issue
<1>3. r.op \in Ops /\ r.session \in Sessions /\ r.metadata \in BOOLEAN
  BY DEF Requests
<1> DEFINE label == CASE r.op \in Locking    -> "lock"
                      [] r.op = "retrieve"   -> "load"
                      [] r.op = "reset"      -> "reset"
                      [] OTHER               -> "generate"
<1>4. /\ label \in {"lock", "load", "reset", "generate"}
      /\ label = "reset" => r.op = "reset"
      /\ pc' = [pc EXCEPT ![c] = label]
  BY <1>1
<1> HIDE DEF label
<1>5. SharingTypeOK'
  <2>1. /\ wrote' \in [Sessions -> SUBSET Sessions]
        /\ nested' \in BOOLEAN
    BY <1>1, <1>3 DEF SharingTypeOK
  <2>2. issued' \in 0 .. MaxRequests
    BY <1>2, SharingAssumption DEF SharingTypeOK
  <2>3. pc' \in [Clients -> PCs] /\ rq' \in [Clients -> Requests \cup {Null}]
    BY <1>1, <1>4 DEF SharingTypeOK, PCs
  <2>4. QED
    BY <1>2, <2>1, <2>2, <2>3 DEF SharingTypeOK
<1>6. OthersKeep(c) /\ Grows
  <2>1. OthersKeep(c)
    BY <1>1, <1>2, <1>4 DEF OthersKeep, SharingTypeOK
  <2>2. Grows
    BY <1>1, <1>3 DEF Grows, SharingTypeOK
  <2>3. QED BY <2>1, <2>2
<1>7. /\ pc'[c] = label /\ rq'[c] = r /\ md'[c] = Null
      /\ r.metadata => r.session \in wrote'[r.session]
  BY <1>1, <1>2, <1>3, <1>4 DEF SharingTypeOK, HandlerInv
<1>8. HandlerInv(c)'
  <2>1. RequestOK(c)'
    BY <1>1, <1>3, <1>4, <1>7 DEF RequestOK, session
  <2>2. QED BY <1>4, <1>7, <2>1 DEF HandlerInv
<1>9. \A d \in Clients : HandlerInv(d)'
  BY <1>6, <1>8, OthersStay
<1>10. ~nested' => FlatInv'
  <2> SUFFICES ASSUME ~nested' PROVE FlatInv'
    OBVIOUS
  <2>1. ~nested /\ FlatInv
    BY <1>6 DEF Grows
  <2>2. (pc'[c] # "idle" => Own(md[c], session(c))')
    BY <1>7 DEF Own
  <2>3. \A d \in Clients : (pc[d] # "idle" => Own(md[d], session(d)))'
    BY <1>6, <2>1, <2>2, OthersOwn
  <2>4. OnlyOwn'
    BY <1>2, <1>6, <2>1 DEF FlatInv, OnlyOwn, Grows
  <2>5. \A s \in Sessions, id \in IntentIds : Own(intents[s][id], s)'
    BY <1>2, <1>6, <2>1 DEF FlatInv, Own, Grows
  <2>6. QED
    BY <1>2, <2>1, <2>3, <2>4, <2>5 DEF FlatInv
<1>11. QED
  BY <1>5, <1>9, <1>10 DEF SharingInv, HandlerInv, FlatInv
\* What there is to show of a step of c that sends nothing.
LEMMA StepKeeps ==
  ASSUME SharingInv, NEW c \in Clients, OthersKeep(c),
         UNCHANGED <<wrote, nested>>, SharingTypeOK', HandlerInv(c)',
         ~nested =>
           /\ up'
           /\ fixture' = {}
           /\ \A s \in Sessions : seen'[s] \subseteq wrote[s]
           /\ \A s \in Sessions, id \in IntentIds : Own(intents'[s][id], s)
           /\ pc'[c] # "idle" => Own(md[c], session(c))'
  PROVE  SharingInv'
<1>1. Grows
  BY DEF Grows
<1>2. \A d \in Clients : HandlerInv(d)'
  BY <1>1, SharingInvParts, OthersStay
<1>3. ~nested' => FlatInv'
  <2> SUFFICES ASSUME ~nested PROVE FlatInv'
    OBVIOUS
  <2>1. \A d \in Clients : (pc[d] # "idle" => Own(md[d], session(d)))'
    BY <1>1, SharingInvParts, OthersOwn
  <2>2. \A s \in Sessions, id \in IntentIds : Own(intents[s][id], s)'
    BY DEF Own
  <2>3. QED
    BY <2>1, <2>2 DEF FlatInv, OnlyOwn
<1>4. QED
  BY <1>2, <1>3 DEF SharingInv, HandlerInv, FlatInv

\* What the invariant says of the state a step of c starts in.
LEMMA Before ==
  ASSUME SharingInv, NEW c \in Clients, pc[c] # "idle"
  PROVE  /\ SharingTypeOK
         /\ \A d \in Clients : HandlerInv(d)
         /\ HandlerInv(c)
         /\ rq[c] \in Requests
         /\ session(c) \in Sessions
         /\ rq[c].id \in IntentIds
         /\ rq[c].op \in Ops
         /\ rq[c].metadata \in BOOLEAN
         /\ md[c] \in Metadata
         /\ stored(c) \in Metadata
         /\ ~nested =>
              /\ up
              /\ fixture = {}
              /\ \A s \in Sessions : seen[s] \subseteq wrote[s]
              /\ \A s \in Sessions, id \in IntentIds : Own(intents[s][id], s)
              /\ Own(md[c], session(c))
              /\ Own(stored(c), session(c))
<1>1. SharingTypeOK /\ (\A d \in Clients : HandlerInv(d)) /\ (~nested => FlatInv)
  BY SharingInvParts
<1>2. /\ rq[c] \in Requests
      /\ session(c) \in Sessions
      /\ rq[c].id \in IntentIds
      /\ rq[c].op \in Ops
      /\ rq[c].metadata \in BOOLEAN
  BY <1>1, Serving
<1>3. md[c] \in Metadata /\ stored(c) \in Metadata
  BY <1>1, <1>2 DEF SharingTypeOK, stored
<1>4. QED
  BY <1>1, <1>2, <1>3 DEF FlatInv, OnlyOwn, stored

LEMMA GenerateKeeps ==
  ASSUME SharingInv, NEW c \in Clients, Generate(c)
  PROVE  SharingInv'
<1>1. pc[c] = "generate"
  BY DEF Generate
<1> DEFINE m == IF rq[c].op = "create" THEN copyMetadata(c, Shared) ELSE Shared
           label == CASE rq[c].op = "create" -> "record"
                      [] rq[c].op = "seed"   -> IF rq[c].metadata THEN "merge" ELSE "put"
                      [] OTHER               -> "respond"
<1>2. /\ m \in Metadata /\ m # Null /\ Own(m, session(c))
      /\ label \in {"record", "merge", "put", "respond"}
      /\ label = "merge" => nested
  <2>1. Shared \in Metadata /\ Shared # Null /\ Own(Shared, session(c))
    BY SharingAssumption DEF Metadata, Own
  <2>2. m \in Metadata /\ m # Null /\ Own(m, session(c))
    BY <1>1, <2>1, Before, CopyIsOwn
  <2>3. QED
    BY <1>1, <2>2, Before DEF HandlerInv, RequestOK
<1>3. /\ md' = [md EXCEPT ![c] = m] /\ pc' = [pc EXCEPT ![c] = label]
      /\ UNCHANGED <<fixture, intents, up, lock, issued, rq, seen, wrote, nested>>
  BY DEF Generate, Goto
<1> HIDE DEF m, label
<1>4. SharingTypeOK'
  BY <1>1, <1>2, <1>3, Before DEF SharingTypeOK, PCs
<1>5. OthersKeep(c) /\ pc'[c] = label /\ md'[c] = m /\ rq'[c] = rq[c]
  BY <1>1, <1>3, Before DEF OthersKeep, SharingTypeOK
<1>6. HandlerInv(c)'
  BY <1>1, <1>2, <1>3, <1>5, Before DEF HandlerInv, RequestOK, session
<1>7. Own(md[c], session(c))'
  BY <1>2, <1>3, <1>5 DEF Own, session
<1>8. QED
  BY <1>1, <1>3, <1>4, <1>5, <1>6, <1>7, Before, StepKeeps

LEMMA BeginMergeKeeps ==
  ASSUME SharingInv, NEW c \in Clients, BeginMerge(c)
  PROVE  SharingInv'
<1>1. /\ pc[c] = "merge" /\ pc' = [pc EXCEPT ![c] = "merging"]
      /\ UNCHANGED <<fixture, intents, up, lock, issued, rq, md, seen, wrote, nested>>
  BY DEF BeginMerge, Goto
<1>2. nested
  BY <1>1, Before DEF HandlerInv, RequestOK
<1>3. SharingTypeOK'
  BY <1>1, Before DEF SharingTypeOK, PCs
<1>4. OthersKeep(c) /\ pc'[c] = "merging"
  BY <1>1, Before DEF OthersKeep, SharingTypeOK
<1>5. HandlerInv(c)'
  BY <1>1, <1>4, Before DEF HandlerInv, RequestOK, session
<1>6. QED
  BY <1>1, <1>2, <1>3, <1>4, <1>5, StepKeeps

LEMMA EndMergeKeeps ==
  ASSUME SharingInv, NEW c \in Clients, EndMerge(c)
  PROVE  SharingInv'
<1>1. /\ pc[c] = "merging" /\ pc' = [pc EXCEPT ![c] = "put"]
      /\ fixture' = fixture \cup {session(c)}
      /\ UNCHANGED <<intents, up, lock, issued, rq, md, seen, wrote, nested>>
  BY DEF EndMerge, Goto
<1>2. nested
  BY <1>1, Before DEF HandlerInv, RequestOK
<1>3. SharingTypeOK'
  BY <1>1, Before DEF SharingTypeOK, PCs
<1>4. OthersKeep(c) /\ pc'[c] = "put"
  BY <1>1, Before DEF OthersKeep, SharingTypeOK
<1>5. HandlerInv(c)'
  BY <1>1, <1>4, Before DEF HandlerInv, RequestOK, session
<1>6. QED
  BY <1>1, <1>2, <1>3, <1>4, <1>5, StepKeeps

LEMMA AcquireLockKeeps ==
  ASSUME SharingInv, NEW c \in Clients, AcquireLock(c)
  PROVE  SharingInv'
<1>1. /\ pc[c] = "lock" /\ pc' = [pc EXCEPT ![c] = "load"]
      /\ lock' = c
      /\ UNCHANGED <<fixture, intents, up, issued, rq, md, seen, wrote, nested>>
  BY DEF AcquireLock, Goto
<1>2. SharingTypeOK'
  BY <1>1, Before DEF SharingTypeOK, PCs
<1>3. OthersKeep(c) /\ pc'[c] = "load"
  BY <1>1, Before DEF OthersKeep, SharingTypeOK
<1>4. HandlerInv(c)'
  BY <1>1, <1>3, Before DEF HandlerInv, RequestOK, session
<1>5. ~nested => Own(md[c], session(c))'
  BY <1>1, Before DEF Own, session
<1>6. QED
  BY <1>1, <1>2, <1>3, <1>4, <1>5, Before, StepKeeps

LEMMA LoadKeeps ==
  ASSUME SharingInv, NEW c \in Clients, Load(c)
  PROVE  SharingInv'
<1>1. pc[c] = "load"
  BY DEF Load
<1>2. PICK keys \in Views(c, Loads(c)) :
        md' = [md EXCEPT ![c] = IF stored(c) = Null THEN copyMetadata(c, Shared)
                                                    ELSE copyMetadata(c, keys)]
  BY DEF Load
<1>3. Shared \in Metadata /\ Shared # Null /\ Own(Shared, session(c))
  BY SharingAssumption DEF Metadata, Own
<1>4. stored(c) # Null =>
        keys \in Metadata /\ keys # Null /\ (~nested => Own(keys, session(c)))
  <2> SUFFICES ASSUME stored(c) # Null
               PROVE  keys \in Metadata /\ keys # Null /\ (~nested => Own(keys, session(c)))
    OBVIOUS
  <2>1. keys \in Views(c, stored(c))
    BY DEF Loads
  <2>2. /\ keys \in SUBSET Sessions
        /\ stored(c) # Shared => keys = stored(c)
        /\ stored(c) = Shared /\ ~nested /\ fixture = {} => keys = {}
    BY <1>1, <2>1, Before, ViewsAreKeys
  <2>3. keys \in Metadata /\ keys # Null
    BY <2>2, KeysAreMaps
  <2>4. ~nested => Own(keys, session(c))
    BY <1>1, <2>2, Before DEF Own
  <2>5. QED BY <2>3, <2>4
<1> DEFINE m == IF stored(c) = Null THEN copyMetadata(c, Shared) ELSE copyMetadata(c, keys)
           label == CASE rq[c].op = "confirm" -> "record"
                      [] rq[c].op = "update"  -> "put"
                      [] OTHER -> IF stored(c) = Null THEN "generate" ELSE "respond"
<1>5. m \in Metadata /\ m # Null /\ (~nested => Own(m, session(c)))
  BY <1>1, <1>3, <1>4, Before, CopyIsOwn
<1>6. label \in {"record", "put", "generate", "respond"}
  OBVIOUS
<1>7. /\ md' = [md EXCEPT ![c] = m] /\ pc' = [pc EXCEPT ![c] = label]
      /\ UNCHANGED <<fixture, intents, up, lock, issued, rq, seen, wrote, nested>>
  BY <1>2 DEF Load, Goto
<1> HIDE DEF m, label
<1>8. SharingTypeOK'
  BY <1>1, <1>5, <1>6, <1>7, Before DEF SharingTypeOK, PCs
<1>9. OthersKeep(c) /\ pc'[c] = label /\ md'[c] = m /\ rq'[c] = rq[c]
  BY <1>1, <1>7, Before DEF OthersKeep, SharingTypeOK
<1>10. HandlerInv(c)'
  BY <1>1, <1>5, <1>6, <1>7, <1>9, Before DEF HandlerInv, RequestOK, session
<1>11. ~nested => Own(md[c], session(c))'
  BY <1>5, <1>7, <1>9 DEF Own, session
<1>12. QED
  BY <1>1, <1>7, <1>8, <1>9, <1>10, <1>11, Before, StepKeeps

\* Showing keys to a session, as a response or an event does.
LEMMA Showing ==
  ASSUME SharingInv, NEW c \in Clients, pc[c] \in {"record", "respond"},
         NEW keys \in Views(c, md[c]),
         seen' = [seen EXCEPT ![session(c)] = @ \cup keys]
  PROVE  /\ seen' \in [Sessions -> SUBSET Sessions]
         /\ ~nested => \A s \in Sessions : seen'[s] \subseteq wrote[s]
<1>1. md[c] \in Metadata /\ md[c] # Null
  BY Before DEF HandlerInv
<1>2. /\ keys \in SUBSET Sessions
      /\ md[c] # Shared => keys = md[c]
      /\ md[c] = Shared /\ ~nested /\ fixture = {} => keys = {}
  BY <1>1, Before, ViewsAreKeys
<1>3. ~nested => keys \subseteq wrote[session(c)]
  BY <1>1, <1>2, Before DEF Own
<1>4. QED
  BY <1>2, <1>3, Before DEF SharingTypeOK

LEMMA RecordKeeps ==
  ASSUME SharingInv, NEW c \in Clients, Record(c)
  PROVE  SharingInv'
<1>1. /\ pc[c] = "record" /\ pc' = [pc EXCEPT ![c] = "put"]
      /\ UNCHANGED <<fixture, intents, up, lock, issued, rq, md, wrote, nested>>
  BY DEF Record, Goto
<1>2. /\ seen' \in [Sessions -> SUBSET Sessions]
      /\ ~nested => \A s \in Sessions : seen'[s] \subseteq wrote[s]
  BY <1>1, Showing DEF Record
<1>3. SharingTypeOK'
  BY <1>1, <1>2, Before DEF SharingTypeOK, PCs
<1>4. OthersKeep(c) /\ pc'[c] = "put"
  BY <1>1, Before DEF OthersKeep, SharingTypeOK
<1>5. HandlerInv(c)'
  BY <1>1, <1>4, Before DEF HandlerInv, RequestOK, session
<1>6. ~nested => Own(md[c], session(c))'
  BY <1>1, Before DEF Own, session
<1>7. QED
  BY <1>1, <1>2, <1>3, <1>4, <1>5, <1>6, Before, StepKeeps

LEMMA PutKeeps ==
  ASSUME SharingInv, NEW c \in Clients, Put(c)
  PROVE  SharingInv'
<1>1. /\ pc[c] = "put" /\ pc' = [pc EXCEPT ![c] = "respond"]
      /\ intents' = [intents EXCEPT ![session(c)][rq[c].id] = md[c]]
      /\ UNCHANGED <<fixture, up, lock, issued, rq, md, seen, wrote, nested>>
  BY DEF Put, Goto
<1>2. intents' \in [Sessions -> [IntentIds -> Metadata]]
  BY <1>1, Before DEF SharingTypeOK
<1>3. SharingTypeOK'
  BY <1>1, <1>2, Before DEF SharingTypeOK, PCs
<1>4. OthersKeep(c) /\ pc'[c] = "respond"
  BY <1>1, Before DEF OthersKeep, SharingTypeOK
<1>5. HandlerInv(c)'
  BY <1>1, <1>4, Before DEF HandlerInv, RequestOK, session
<1>6. ~nested => Own(md[c], session(c))'
  BY <1>1, Before DEF Own, session
<1>7. \A s \in Sessions, id \in IntentIds :
        intents'[s][id] = IF s = session(c) /\ id = rq[c].id THEN md[c]
                                                             ELSE intents[s][id]
  BY <1>1, Before DEF SharingTypeOK
<1>8. ~nested => \A s \in Sessions, id \in IntentIds : Own(intents'[s][id], s)
  BY <1>1, <1>7, Before
<1>9. QED
  BY <1>1, <1>3, <1>4, <1>5, <1>6, <1>8, Before, StepKeeps

LEMMA RespondKeeps ==
  ASSUME SharingInv, NEW c \in Clients, Respond(c)
  PROVE  SharingInv'
<1>1. /\ pc[c] = "respond" /\ pc' = [pc EXCEPT ![c] = "idle"]
      /\ lock' = IF lock = c THEN Null ELSE lock
      /\ rq' = [rq EXCEPT ![c] = Null]
      /\ md' = [md EXCEPT ![c] = Null]
      /\ UNCHANGED <<fixture, intents, up, issued, wrote, nested>>
  BY DEF Respond, Goto
<1>2. /\ seen' \in [Sessions -> SUBSET Sessions]
      /\ ~nested => \A s \in Sessions : seen'[s] \subseteq wrote[s]
  BY <1>1, Showing DEF Respond
<1>3. SharingTypeOK'
  BY <1>1, <1>2, Before DEF SharingTypeOK, PCs, Metadata
<1>4. OthersKeep(c) /\ pc'[c] = "idle" /\ md'[c] = Null
  BY <1>1, Before DEF OthersKeep, SharingTypeOK
<1>5. HandlerInv(c)'
  BY <1>4 DEF HandlerInv, RequestOK
<1>6. QED
  BY <1>1, <1>2, <1>3, <1>4, <1>5, Before, StepKeeps

\* The session loses all it has stored, been shown and sent, and no request
\* that may hold a map of its own is in progress.
LEMMA ResetKeeps ==
  ASSUME SharingInv, NEW c \in Clients, Reset(c)
  PROVE  SharingInv'
<1>1. pc[c] = "reset"
  BY DEF Reset
<1>2. PICK s \in Sessions : s = session(c)
  BY <1>1, Before
<1>3. /\ \A d \in Clients \ {c} : pc[d] \notin {"idle", "reset"} => session(d) # s
      /\ intents' = [intents EXCEPT ![s] = [id \in IntentIds |-> Null]]
      /\ seen'  = [seen EXCEPT ![s] = {}]
      /\ wrote' = [wrote EXCEPT ![s] = {}]
      /\ pc' = [pc EXCEPT ![c] = "idle"]
      /\ rq' = [rq EXCEPT ![c] = Null]
      /\ UNCHANGED <<fixture, up, lock, issued, md, nested>>
  BY <1>2 DEF Reset, Goto
<1>4. SharingTypeOK'
  <2>1. intents' \in [Sessions -> [IntentIds -> Metadata]]
    BY <1>1, <1>3, Before DEF SharingTypeOK, Metadata
  <2>2. seen' \in [Sessions -> SUBSET Sessions] /\ wrote' \in [Sessions -> SUBSET Sessions]
    BY <1>1, <1>3, Before DEF SharingTypeOK
  <2>3. QED
    BY <1>1, <1>3, <2>1, <2>2, Before DEF SharingTypeOK, PCs
<1>5. OthersKeep(c) /\ pc'[c] = "idle"
  BY <1>1, <1>3, Before DEF OthersKeep, SharingTypeOK
<1>6. /\ \A r \in Sessions \ {s} : /\ wrote'[r] = wrote[r] /\ seen'[r] = seen[r]
                                   /\ intents'[r] = intents[r]
      /\ seen'[s] = {} /\ \A id \in IntentIds : intents'[s][id] = Null
  BY <1>1, <1>3, Before DEF SharingTypeOK
<1>7. ASSUME NEW d \in Clients, d # c, pc[d] # "idle"
      PROVE  /\ session(d) \in Sessions /\ session(d)' = session(d)
             /\ pc[d] # "reset" => session(d) # s
  BY <1>1, <1>3, <1>5, <1>7, Before, Serving DEF OthersKeep, session
<1>8. ASSUME NEW d \in Clients
      PROVE  HandlerInv(d)'
  <2>1. CASE d = c
    BY <1>1, <1>3, <1>5, <2>1, Before DEF HandlerInv, RequestOK
  <2>2. CASE d # c
    <3>1. pc'[d] = pc[d] /\ rq'[d] = rq[d] /\ md'[d] = md[d] /\ HandlerInv(d)
      BY <1>1, <1>5, <2>2, Before DEF OthersKeep
    <3>2. RequestOK(d)'
      BY <1>3, <1>6, <1>7, <2>2, <3>1 DEF HandlerInv, RequestOK
    <3>3. QED
      BY <3>1, <3>2 DEF HandlerInv
  <2>3. QED BY <2>1, <2>2
<1>9. ~nested' => FlatInv'
  <2> SUFFICES ASSUME ~nested PROVE FlatInv'
    BY <1>3
  <2>1. up' /\ fixture' = {}
    BY <1>1, <1>3, Before
  <2>2. OnlyOwn'
    BY <1>1, <1>6, Before DEF OnlyOwn
  <2>3. \A r \in Sessions, id \in IntentIds : Own(intents[r][id], r)'
    BY <1>1, <1>6, Before DEF Own
  <2>4. ASSUME NEW d \in Clients, pc'[d] # "idle"
        PROVE  Own(md[d], session(d))'
    <3>1. d # c /\ pc'[d] = pc[d] /\ rq'[d] = rq[d] /\ md'[d] = md[d]
      BY <1>5, <2>4 DEF OthersKeep
    <3>2. Own(md[d], session(d)) /\ HandlerInv(d)
      BY <1>1, <2>4, <3>1, Before
    <3>3. CASE pc[d] = "reset"
      BY <3>1, <3>2, <3>3 DEF HandlerInv, Own
    <3>4. CASE pc[d] # "reset"
      BY <1>6, <1>7, <2>4, <3>1, <3>2, <3>4 DEF Own
    <3>5. QED BY <3>3, <3>4
  <2>5. QED
    BY <2>1, <2>2, <2>3, <2>4 DEF FlatInv
<1>10. QED
  BY <1>4, <1>8, <1>9 DEF SharingInv, HandlerInv, FlatInv

\* The process can die only while a seed is being merged into the fixture.
LEMMA RaceKeeps ==
  ASSUME SharingInv, NEW c \in Clients, Race(c)
  PROVE  SharingInv'
<1>1. /\ Writers(c) # {} /\ up' = FALSE
      /\ UNCHANGED <<fixture, intents, lock, issued, pc, rq, md, seen, wrote, nested>>
  BY DEF Race, Dies
<1>2. nested
  <2>1. PICK d \in Clients : pc[d] = "merging"
    BY <1>1 DEF Writers
  <2>2. QED
    BY <2>1, Before DEF HandlerInv, RequestOK
<1>3. QED
  BY <1>1, <1>2 DEF SharingInv, SharingTypeOK, RequestOK, session

LEMMA SharingInit ==
  ASSUME Init
  PROVE  SharingInv
<1>1. SharingTypeOK
  <2>1. Null \in Metadata /\ "idle" \in PCs /\ 0 \in 0 .. MaxRequests
    BY SharingAssumption DEF Metadata, PCs
  <2>2. intents \in [Sessions -> [IntentIds -> Metadata]]
    BY <2>1 DEF Init
  <2>3. QED
    BY <2>1, <2>2 DEF Init, SharingTypeOK
<1>2. QED
  BY <1>1 DEF Init, SharingInv, RequestOK, OnlyOwn, Own

LEMMA SharingStep ==
  ASSUME SharingInv, [Next]_vars
  PROVE  SharingInv'
<1>1. CASE UNCHANGED vars
  BY <1>1 DEF vars, SharingInv, SharingTypeOK, RequestOK, OnlyOwn, Own, session
<1>2. ASSUME NEW c \in Clients,
             \/ Issue(c) \/ Generate(c) \/ BeginMerge(c) \/ EndMerge(c)
             \/ AcquireLock(c) \/ Load(c) \/ Record(c) \/ Put(c) \/ Respond(c)
             \/ Reset(c) \/ Race(c)
      PROVE  SharingInv'
  BY <1>2, IssueKeeps, GenerateKeeps, BeginMergeKeeps, EndMergeKeeps,
     AcquireLockKeeps, LoadKeeps, RecordKeeps, PutKeeps, RespondKeeps,
     ResetKeeps, RaceKeeps
<1>3. QED
  BY <1>1, <1>2 DEF Next, Done

\* In every state the handlers' requests and maps are what their program
\* counters promise, and until a seed is nested every map of keys belongs to
\* one session.
THEOREM SharingInvariance == Spec => []SharingInv
BY SharingInit, SharingStep, PTL DEF Spec

\* The variables of the sharing model keep their types.
THEOREM SharingTyped == Spec => []SharingTypeOK
<1>1. SharingInv => SharingTypeOK
  BY DEF SharingInv
<1>2. QED
  BY <1>1, SharingInvariance, PTL

\* generateInternal may hand out the fixture's own map to any number of
\* sessions: as long as no seed overrides a nested object, no session is shown
\* what another one sent and the process does not die of concurrent map access.
THEOREM FlatSeeds == Spec => []FlatSeedsIsolate
<1>1. SharingInv => FlatSeedsIsolate
  BY DEF SharingInv, FlatSeedsIsolate
<1>2. QED
  BY <1>1, SharingInvariance, PTL
=============================================================================
