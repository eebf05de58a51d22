---------------------------- MODULE SessionLease ----------------------------
(***************************************************************************)
(* What the login protocol promises about one player: the center owns a    *)
(* lease per uid, a player is online only on the game server that has the  *)
(* lease, and the lease moves only while the player is offline, so that    *)
(* the data one server saved are what the next one loads.  A game server   *)
(* that reports an exit that did not happen makes the promise void.        *)
(***************************************************************************)
CONSTANTS Uids, Games, None

VARIABLES
  owner,    \* the game server that has the lease of a uid, or None
  online,   \* the game servers on which a uid is online
  void      \* the uids for which nothing is promised any more

vars == <<owner, online, void>>

Init ==
  /\ owner = [u \in Uids |-> None]
  /\ online = [u \in Uids |-> {}]
  /\ void = [u \in Uids |-> FALSE]

\* The first server that asks for a uid gets it.
Grant(u, g) ==
  /\ owner[u] = None
  /\ owner' = [owner EXCEPT ![u] = g]
  /\ UNCHANGED <<online, void>>

\* The owner gives the lease back, to the server that waits for it or to none.
Yield(u, next) ==
  /\ owner[u] # None
  /\ online[u] = {}
  /\ owner' = [owner EXCEPT ![u] = next]
  /\ UNCHANGED <<online, void>>

Login(u) ==
  /\ owner[u] # None
  /\ online[u] = {}
  /\ online' = [online EXCEPT ![u] = {owner[u]}]
  /\ UNCHANGED <<owner, void>>

Logout(u) ==
  /\ online[u] # {}
  /\ online' = [online EXCEPT ![u] = {}]
  /\ UNCHANGED <<owner, void>>

\* An exit is reported for a player that is not online there.
Forfeit(u) ==
  /\ void' = [void EXCEPT ![u] = TRUE]
  /\ UNCHANGED <<owner, online>>

\* What may happen to a uid once its promise is void.
Anything(u) ==
  /\ void[u]
  /\ \A v \in Uids \ {u} : owner'[v] = owner[v] /\ online'[v] = online[v]
  /\ owner'[u] \in Games \cup {None} /\ online'[u] \subseteq Games
  /\ UNCHANGED void

Next == \E u \in Uids :
  \/ \E g \in Games : Grant(u, g) \/ Yield(u, g)
  \/ Yield(u, None)
  \/ Login(u)
  \/ Logout(u)
  \/ Forfeit(u)
  \/ Anything(u)

Spec == Init /\ [][Next]_vars
=============================================================================
