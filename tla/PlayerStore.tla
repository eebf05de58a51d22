----------------------------- MODULE PlayerStore -----------------------------
(***************************************************************************)
(* What Dbsrv promises to the login protocol: the tables of a player are   *)
(* registers.  After a save that was acknowledged a load answers what was  *)
(* saved; after one that failed, what was saved or what was there before.  *)
(* The promise is weaker for a table whose cached copy missed a save, and  *)
(* for all tables when writes are delayed: a load may then bring back any  *)
(* version that it could have answered before.                             *)
(***************************************************************************)
EXTENDS Naturals, Sequences

CONSTANTS Uids, Tables

VARIABLES
  may,     \* the versions of a table that a load may answer
  stale,   \* the tables of a uid of which an old copy is left somewhere
  saves,   \* saves so far: the version that the last one wrote
  answer   \* the last request, its results and what it loaded

vars == <<may, stale, saves, answer>>

Init ==
  /\ may = [u \in Uids |-> [t \in Tables |-> {0}]]
  /\ stale \in [Uids -> SUBSET Tables]
  /\ saves = 0
  /\ answer = [type |-> "none"]

\* Nothing new can be loaded of u than these versions of each table, and
\* nothing new at all of the others, whose copies are lost when the cache is.
Within(u, versions) ==
  /\ \A t \in Tables : may'[u][t] # {} /\ may'[u][t] \subseteq versions[t]
  /\ \A v \in Uids \ {u} : /\ \A t \in Tables : may'[v][t] # {} /\ may'[v][t] \subseteq may[v][t]
                           /\ stale'[v] = stale[v]

Load(u, data) ==
  /\ \A t \in DOMAIN data : data[t] \in may[u][t]
  /\ answer' = [type |-> "GET", uid |-> u, results |-> <<1>>, data |-> data]
  /\ Within(u, may[u]) /\ stale'[u] \subseteq stale[u]
  /\ UNCHANGED saves

LoadFails(u) ==
  /\ answer' = [type |-> "GET", uid |-> u, results |-> <<0>>, data |-> <<>>]
  /\ UNCHANGED <<may, stale, saves>>

\* A save of all tables; the last of its answers counts.
Save(u, results) ==
  /\ saves' = saves + 1
  /\ answer' = [type |-> "SET", uid |-> u, results |-> results, data |-> <<>>]
  /\ Within(u, [t \in Tables |-> may[u][t] \cup {saves'}])
  /\ results[Len(results)] = 1 =>
       \A t \in Tables \ stale'[u] : may'[u][t] = {saves'}

\* The cache forgets.
Forget(u) ==
  /\ Within(u, may[u]) /\ stale'[u] \subseteq stale[u]
  /\ UNCHANGED <<saves, answer>>

Next == \E u \in Uids :
  \/ answer'.type = "GET" /\ answer'.results = <<1>> /\ Load(u, answer'.data)
  \/ LoadFails(u)
  \/ \E results \in {<<1>>, <<0>>, <<0, 0>>, <<0, 1>>} : Save(u, results)
  \/ Forget(u)

Spec == Init /\ [][Next]_vars
=============================================================================
