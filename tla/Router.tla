------------------------------- MODULE Router -------------------------------
(***************************************************************************)
(* The routing table of server/server.go: which operation of the           *)
(* specification a method and a path stand for, and which ids the path     *)
(* carries.                                                                *)
(*                                                                         *)
(* A path is a sequence of segments, an empty one where a slash is         *)
(* doubled.  A pattern is a sequence of literal and parameter segments.    *)
(* The routes are collected from a map, in an order of Go's choosing, and  *)
(* sorted by their number of parameters only, so all that is known of a    *)
(* route is that no route with fewer parameters comes after it: routing    *)
(* takes any of the matching routes with the fewest parameters.            *)
(***************************************************************************)
EXTENDS Naturals, Sequences, FiniteSets

CONSTANTS
  Routes,          \* the operations: [verb, pattern, resource]
  Plain,           \* segments a parameter matches and unescaping leaves alone
  Unescaped,       \* of the other segments a parameter matches, what they
                   \* unescape to, Malformed when they cannot be unescaped
  Malformed

\* Compiled patterns have one segment after the other.
ASSUME PatternsAssumption ==
  \A r \in Routes : r.pattern \in Seq([param : BOOLEAN, name : STRING])

\* A pattern's parameters.
ParamsOf(pattern) == {i \in DOMAIN pattern : pattern[i].param}

\* Some path could match both patterns.
Overlapping(p, q) ==
  /\ Len(p) = Len(q)
  /\ \A i \in DOMAIN p : p[i].param \/ q[i].param \/ p[i].name = q[i].name

\* Of two operations some path could be meant for, one is the special case of
\* the other: it has parameters only where the other one has.  (All of the
\* bundled specification are: /v1/charges/search and /v1/charges/{charge}.)
ASSUME OverlapsAssumption ==
  \A r, other \in Routes :
    r.verb = other.verb /\ Overlapping(r.pattern, other.pattern) =>
      \/ ParamsOf(r.pattern) \subseteq ParamsOf(other.pattern)
      \/ ParamsOf(other.pattern) \subseteq ParamsOf(r.pattern)

Lit(s)   == [param |-> FALSE, name |-> s]
Param(s) == [param |-> TRUE, name |-> s]

\* The path after doubled slashes became single ones, scanned once from the
\* left: of a run of empty segments every second one stays.
DoubleSlashFix(path) ==
  LET emptiesTo(i) == CHOOSE n \in 0..i :
                        /\ \A j \in (i - n + 1)..i : path[j] = ""
                        /\ n = i \/ path[i - n] # ""
      kept == SelectSeq([i \in DOMAIN path |-> i],
                        LAMBDA i : i = Len(path) \/ emptiesTo(i) % 2 = 0)
  IN [k \in DOMAIN kept |-> path[kept[k]]]

\* The positions of a pattern's parameters, in order of appearance.
ParamPositions(pattern) ==
  SelectSeq([i \in DOMAIN pattern |-> i], LAMBDA i : pattern[i].param)

\* Suffixes after which the last id of a path is the object's own.
PrimaryIDActions ==
  {"accept", "approve", "attach", "capture", "cancel", "close", "confirm",
   "decline", "detach", "finalize", "mark_uncollectible", "pay", "preview",
   "refund", "reject", "release", "send", "submit", "verify",
   "verify_microdeposits", "void"}

\* A mistaken form: only a parameter at the end makes an id the object's own.
SlipHasPrimaryID(pattern) == pattern[Len(pattern)].param

hasPrimaryID(pattern) ==
  LET last == pattern[Len(pattern)] IN last.param \/ last.name \in PrimaryIDActions

\* The regular expression compilePath makes of a pattern matches the path.
Matches(pattern, path) ==
  /\ Len(path) = Len(pattern)
  /\ \A i \in DOMAIN pattern :
       IF pattern[i].param THEN path[i] \in Plain \cup DOMAIN Unescaped
                           ELSE path[i] = pattern[i].name

MatchingRoutes(verb, path) ==
  {r \in Routes : r.verb = verb /\ Matches(r.pattern, path)}

\* A mistaken form: a table that is not sorted.
SlipFirstRoutes(verb, path) == MatchingRoutes(verb, path)

\* The matching routes that may come first in the sorted table.
FirstRoutes(verb, path) ==
  LET params(r) == Cardinality(ParamsOf(r.pattern))
      matching  == MatchingRoutes(verb, path)
  IN {r \in matching : \A other \in matching : params(r) <= params(other)}

Unescape(segment) == IF segment \in Plain THEN segment ELSE Unescaped[segment]

\* The ids of a path that matches the pattern: its own, and those before it.
PathIDs(pattern, path) ==
  LET ids == [k \in DOMAIN ParamPositions(pattern) |->
                Unescape(path[ParamPositions(pattern)[k]])]
      own == hasPrimaryID(pattern) /\ ids # <<>>
  IN [own       |-> own,
      primary   |-> IF own THEN ids[Len(ids)] ELSE "",
      secondary |-> IF own THEN SubSeq(ids, 1, Len(ids) - 1) ELSE ids]

\* What routeRequest may return for a path: a route with its ids, a failure
\* to unescape an id, or no route.
routeRequest(verb, path) ==
  LET routed(r) ==
        LET ids == PathIDs(r.pattern, path)
        IN IF Malformed \in {ids.primary} \cup
                            {ids.secondary[k] : k \in DOMAIN ids.secondary}
           THEN [outcome |-> "malformed"]
           ELSE [outcome |-> "route", route |-> r, ids |-> ids]
      first == FirstRoutes(verb, path)
  IN IF first = {} THEN {[outcome |-> "none"]} ELSE {routed(r) : r \in first}
=============================================================================
