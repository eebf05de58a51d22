--------------------------- MODULE ClientSessions ---------------------------
(***************************************************************************)
(* What Login takes for granted of a gate server: a client socket logs one *)
(* uid in, may then enter game servers one after the other, and when it is *)
(* closed the last of them, and only that one, is told that the player     *)
(* left.  Nothing else makes a gate POST an ENTER or an EXIT.              *)
(***************************************************************************)
CONSTANTS Socks, Uids, Games, None

VARIABLES
  suid, ssrvid,  \* uid and game server of the session of a socket, or None
  sent           \* the POST of the last step to a game server, or None

vars == <<suid, ssrvid, sent>>

Post(type, u, g) == [type |-> type, uid |-> u, to |-> g]

Init ==
  /\ suid = [s \in Socks |-> None]
  /\ ssrvid = [s \in Socks |-> None]
  /\ sent = None

MSG_LOGIN(s, u) ==
  /\ suid[s] = None
  /\ suid' = [suid EXCEPT ![s] = u]
  /\ sent' = None
  /\ UNCHANGED ssrvid

MSG_ENTER(s, g) ==
  /\ suid[s] # None
  /\ ssrvid' = [ssrvid EXCEPT ![s] = g]
  /\ sent' = Post("ENTER", suid[s], g)
  /\ UNCHANGED suid

player_disconnect(s) ==
  /\ suid[s] # None
  /\ suid' = [suid EXCEPT ![s] = None]
  /\ ssrvid' = [ssrvid EXCEPT ![s] = None]
  /\ sent' = IF ssrvid[s] = None THEN None ELSE Post("EXIT", suid[s], ssrvid[s])

Other == sent' = None /\ UNCHANGED <<suid, ssrvid>>

Next ==
  \/ Other
  \/ \E s \in Socks : \/ \E u \in Uids : MSG_LOGIN(s, u)
                      \/ \E g \in Games : MSG_ENTER(s, g)
                      \/ player_disconnect(s)

Spec == Init /\ [][Next]_vars
=============================================================================
