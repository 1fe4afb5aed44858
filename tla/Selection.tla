----------------------------- MODULE Selection -----------------------------
(***************************************************************************)
(* The filters of /v1/hosts and /v1/usage: from the pairs of a query over  *)
(* the map of its parameters and the filter that they build up, one by one *)
(* and in the order of a HashMap, which is none, to the hosts selected     *)
(* (src/src/api/routes/mod.rs, src/src/app/filters.rs and                  *)
(* src/src/storage/sqlite/queries.rs).                                     *)
(*                                                                         *)
(* A key is the sequence of its parts between dots.  How long a host has   *)
(* been without users is module Usage's; here it is a number.  What is     *)
(* absent is an empty set.                                                 *)
(***************************************************************************)
EXTENDS Integers, Sequences, FiniteSets, FiniteSetsExt

CONSTANTS
  Hosts,        \* records of hosts with their latest status and usage
  Pairs,        \* the <<key, value>> that clients send
  MaxPairs,     \* how many they send in a query
  MaxDuration   \* validation::MAX_DURATION, in the unit of the least duration

Routes == {"hosts", "usage"}

\* REGISTRY: the fields that keys write into.
Registry ==
  {[key |-> <<"group">>, field |-> "group", usage |-> FALSE],
   [key |-> <<"icmp", "status">>, field |-> "icmp", usage |-> FALSE],
   [key |-> <<"metadata", "*">>, field |-> "metadata", usage |-> FALSE],
   [key |-> <<"usage", "status">>, field |-> "status", usage |-> TRUE],
   [key |-> <<"usage", "inactive_console_for">>, field |-> "console", usage |-> TRUE],
   [key |-> <<"usage", "no_users_for">>, field |-> "users", usage |-> TRUE]}

\* What the parsers of the values take; durations are numbers (validate_duration).
Values(field) ==
  CASE field = "icmp" -> {"up", "down", "unknown"}
    [] field = "status" -> {"ok", "error"}
    [] field \in {"console", "users"} -> 1 .. MaxDuration
    [] OTHER -> STRING

Fields == {e.field : e \in Registry}

ASSUME SelectionAssumption ==
  /\ \A h \in Hosts : \A u, v \in h.usage : u = v /\ u.covered \in Nat
  /\ \A p \in Pairs : p = <<p[1], p[2]>> /\ p[1] \in Seq(STRING)
  /\ MaxPairs \in Nat /\ MaxDuration \in Nat

VARIABLES
  route, asked,  \* the request
  phase,         \* where its handler is
  rest,          \* pairs that parse_unique_query has still to take
  params,        \* the pairs in the map that have still to be applied
  names,         \* the keys that have been seen
  filter,        \* HostFilterBuilder: per field, what has been asked for
  shown          \* ids of the hosts in the answer

queryVars == <<route, asked, phase, rest, params, names, filter, shown>>

-----------------------------------------------------------------------------
(* The query.                                                              *)

Empty == [f \in Fields |-> {}]

QueryInit ==
  /\ route \in Routes /\ asked \in UNION {[1 .. n -> Pairs] : n \in 0 .. MaxPairs}
  /\ phase = "pairs" /\ rest = asked
  /\ params = {} /\ names = {} /\ filter = Empty /\ shown = {}

\* Variant: a map takes the pairs, and later ones replace earlier ones.
NeverSeen(key) == TRUE

\* parse_unique_query
FirstSeen(key) == key \notin names

TakePair ==
  /\ phase = "pairs" /\ rest # <<>> /\ FirstSeen(Head(rest)[1])
  /\ names' = names \cup {Head(rest)[1]}
  /\ params' = {p \in params : p[1] # Head(rest)[1]} \cup {Head(rest)}
  /\ rest' = Tail(rest)
  /\ UNCHANGED <<route, asked, phase, filter, shown>>

RefuseDuplicate ==
  /\ phase = "pairs" /\ rest # <<>> /\ ~FirstSeen(Head(rest)[1])
  /\ phase' = "refused"
  /\ UNCHANGED <<route, asked, rest, params, names, filter, shown>>

AllPairs ==
  /\ phase = "pairs" /\ rest = <<>>
  /\ phase' = "apply"
  /\ UNCHANGED <<route, asked, rest, params, names, filter, shown>>

-----------------------------------------------------------------------------
(* The filter.                                                             *)

\* split_filter_key
WellFormed(key) == Len(key) \in 1 .. 2 /\ (Len(key) = 2 => "" \notin {key[1], key[2]})

\* lookup: the entry of the key or of its namespace, as a set.
Lookup(key) ==
  {e \in Registry : \/ e.key = key
                    \/ Len(key) = 2 /\ e.key = <<key[1], "*">>}

\* parse_host_filter takes every entry, parse_usage_filter those of usage.
Entries(key) == {e \in Lookup(key) : WellFormed(key) /\ (route = "usage" => e.usage)}

\* What a parameter asks for: a metadata field is named by the key.
Asked(e, p) == IF e.field = "metadata" THEN <<p[1][2], p[2]>> ELSE p[2]

\* The next parameter of the map, whichever it is.
Apply(p) ==
  /\ phase = "apply"
  /\ \E e \in Entries(p[1]) :
       /\ p[2] \in Values(e.field)
       /\ filter' = [filter EXCEPT
            ![e.field] = IF e.field = "metadata" THEN @ \cup {Asked(e, p)} ELSE {Asked(e, p)}]
  /\ params' = params \ {p}
  /\ UNCHANGED <<route, asked, phase, rest, names, shown>>

Refuse(p) ==
  /\ phase = "apply"
  /\ ~\E e \in Entries(p[1]) : p[2] \in Values(e.field)
  /\ phase' = "refused"
  /\ UNCHANGED <<route, asked, rest, params, names, filter, shown>>

-----------------------------------------------------------------------------
(* The selection.                                                          *)

\* Variant: the shorter duration is the window that has to be covered.
Shorter(durations) == Min(durations)

Window(durations) == Max(durations)

\* matches_usage_filter: if a duration is given, the collector has to be on, its last
\* observation current, and the time covered by observations.
MatchesUsage(u) ==
  LET durations == filter["console"] \cup filter["users"]
  IN  /\ filter["status"] \subseteq {u.status}
      /\ durations # {} => u.current /\ Window(durations) <= u.covered
      /\ \A d \in filter["console"] : d <= u.console
      /\ \A d \in filter["users"] : d <= u.users

FiltersUsage == \E f \in {"status", "console", "users"} : filter[f] # {}

\* matches_host_filter; metadata are the fields whose values are scalars.
MatchesHost(h) ==
  /\ filter["icmp"] \subseteq {h.icmp}
  /\ filter["group"] \subseteq h.groups
  /\ filter["metadata"] \subseteq h.metadata
  /\ FiltersUsage => \E u \in h.usage : MatchesUsage(u)

\* sorted_records selects among all hosts, usage_report among those with a usage.
Select ==
  /\ phase = "apply" /\ params = {}
  /\ shown' = {h.id : h \in
       {h \in Hosts : IF route = "hosts" THEN MatchesHost(h)
                      ELSE \E u \in h.usage : MatchesUsage(u)}}
  /\ phase' = "done"
  /\ UNCHANGED <<route, asked, rest, params, names, filter>>

Done == phase \in {"refused", "done"} /\ UNCHANGED queryVars

QueryNext ==
  \/ TakePair \/ RefuseDuplicate \/ AllPairs
  \/ \E p \in params : Apply(p) \/ Refuse(p)
  \/ Select
  \/ Done

QuerySpec == QueryInit /\ [][QueryNext]_queryVars

-----------------------------------------------------------------------------
(* Properties.                                                             *)

\* What a parameter says of a host by itself (README, "Usage filters").
Says(p, h) ==
  \E e \in Lookup(p[1]) :
    CASE e.field = "group" -> p[2] \in h.groups
      [] e.field = "icmp" -> p[2] = h.icmp
      [] e.field = "metadata" -> <<p[1][2], p[2]>> \in h.metadata
      [] e.field = "status" -> \E u \in h.usage : u.status = p[2]
      [] e.field = "console" ->
           \E u \in h.usage : u.current /\ p[2] <= u.covered /\ p[2] <= u.console
      [] e.field = "users" ->
           \E u \in h.usage : u.current /\ p[2] <= u.covered /\ p[2] <= u.users

\* A query that should be answered: no key comes twice, and each parameter is understood.
Proper ==
  /\ \A i, j \in DOMAIN asked : asked[i][1] = asked[j][1] => i = j
  /\ \A i \in DOMAIN asked :
       \E e \in Entries(asked[i][1]) : asked[i][2] \in Values(e.field)

\* "Host filters are strict" (README): a query is refused only if it is not proper, and an
\* answer has the hosts of which every parameter holds, none being dropped, in whatever
\* order the map was walked.  /v1/usage is /v1/hosts without the hosts that have no usage.
AnswerFitsTheQuery ==
  /\ phase = "refused" => ~Proper
  /\ phase = "done" =>
       /\ Proper
       /\ shown = {h.id : h \in
            {h \in Hosts : /\ route = "usage" => h.usage # {}
                           /\ \A i \in DOMAIN asked : Says(asked[i], h)}}

=============================================================================
