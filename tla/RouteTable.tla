----------------------------- MODULE RouteTable -----------------------------
(***************************************************************************)
(* What a lookup engine promises: a table of routes, and a forwarding      *)
(* decision for every address that is the longest match of the table as it *)
(* stands.  Tbm is shown to implement this specification; its own state    *)
(* (bitmaps, the expanded initial table, the auxiliary trie) is invisible  *)
(* here.                                                                   *)
(***************************************************************************)
EXTENDS Prefixes

VARIABLES
  routes,   \* the routes the caller has inserted and not deleted
  fib       \* the answer to a lookup, for every address

vars == <<routes, fib>>

TypeOK ==
  /\ IsTable(routes)
  /\ fib \in [Address -> NHI \cup {NULL}]

Decide(table) == [a \in Address |-> LongestMatch(table, a)]

Init ==
  /\ routes = EmptyTable
  /\ fib = Decide(EmptyTable)

\* Adds the route p or replaces its next hop.
Insert(p, nhi) ==
  /\ routes' = Put(routes, p, nhi)
  /\ fib' = Decide(routes')

Delete(p) ==
  /\ p \in DOMAIN routes
  /\ routes' = Remove(routes, p)
  /\ fib' = Decide(routes')

\* Drops the whole table.
Clear ==
  /\ routes' = EmptyTable
  /\ fib' = Decide(routes')

Next ==
  \/ \E p \in Prefix, nhi \in NHI : Insert(p, nhi)
  \/ \E p \in Prefix : Delete(p)
  \/ Clear

Spec == Init /\ [][Next]_vars

=============================================================================
