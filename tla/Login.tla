-------------------------------- MODULE Login --------------------------------
(***************************************************************************)
(* The login protocol of the distributed server: client sockets on gate    *)
(* servers, game servers that hold the online players, and the global      *)
(* server, whose Center Login keeps one record per online uid and whose    *)
(* Dbsrv loads and saves the player data.                                  *)
(*                                                                         *)
(* Every process is a single-threaded event loop, so one handler is one    *)
(* action.  A process POSTs to another over one TCP connection, a FIFO     *)
(* channel.  Centersrv and Dbsrv live in the same global process, so a     *)
(* game server has one channel to both of them.                            *)
(***************************************************************************)
EXTENDS Integers, Sequences, FiniteSets

CONSTANTS
  Uids,       \* player ids
  Games,      \* srvids of the game servers
  Gates,      \* srvids of the gate servers
  Socks,      \* client sockets
  GateOf,     \* the gate that accepted a client socket
  None,       \* Lua's nil
  MaxEnter,   \* bound: MSG_ENTER messages the clients send
  MaxFaulty,  \* bound: the same, in a behaviour with failures or losses
  MaxFail,    \* bound: failures (a load, a save, a player's initialisation)
  MaxDrop,    \* bound: losses of a connection between a game and the global
  MaxVer      \* bound: version the data of a player may reach

ASSUME LoginAssumption ==
  /\ None \notin Uids \cup Games \cup Gates
  /\ GateOf \in [Socks -> Gates]
  /\ MaxEnter \in Nat /\ MaxFaulty \in Nat /\ MaxFail \in Nat /\ MaxDrop \in Nat /\ MaxVer \in Nat
  /\ IsFiniteSet(Uids)

VARIABLES
  \* gate servers: the player record of a socket, and the channels to games
  suid, ssrvid,    \* uid and srvid of the player of a socket
  inq,             \* inq[gate][g]: POSTs of a gate to a game
  \* game servers (gamesrv/login/main.lua)
  tmp,             \* tmp_player_manager[uid]: the gate that holds the lock
  player,          \* player_manager[uid].srvid: the gate of an online player
  data,            \* player_manager[uid].playerdata, as a version
  gonline,         \* onlinenum of a game
  \* global server (centersrv/login/main.lua, gamesrv/gamesrv.lua, Dbsrv)
  holder, instead, \* srvid and instead_srvid of player_manager[uid]
  conline,         \* onlinenum of the center
  game_manager,    \* the games that are registered
  db,              \* the versions of a player's data that a load may answer
  \* connections between the games and the global server
  conn,            \* games whose connection to the global server is up
  mapped,          \* games in the global server's srvid2sockfd
  up, down,        \* POSTs of a game to the global server, and back
  \* history and bounds
  stray,           \* an EXIT was POSTed for a player that was not online
  enters, fails, drops  \* what happened so far of what is bounded

sessVars   == <<suid, ssrvid, inq>>
gameVars   == <<tmp, player, data, gonline>>
globalVars == <<holder, instead, conline, game_manager, db>>
linkVars   == <<conn, mapped>>
bounds     == <<enters, fails, drops>>
vars == <<suid, ssrvid, inq, tmp, player, data, gonline, holder, instead, conline,
          game_manager, db, conn, mapped, up, down, stray, enters, fails, drops>>

\* A POST: the remote function, the uid, and for a database request or reply
\* the version of the player data it carries and its result.
Msg(t, u)       == [type |-> t, uid |-> u, ver |-> 0, result |-> 1]
DbMsg(t, u, v, r) == [type |-> t, uid |-> u, ver |-> v, result |-> r]
Messages(types, uids) == [type : types, uid : uids, ver : Nat, result : {0, 1}]

Init ==
  /\ suid = [s \in Socks |-> None]
  /\ ssrvid = [s \in Socks |-> None]
  /\ inq = [gate \in Gates |-> [g \in Games |-> <<>>]]
  /\ tmp = [g \in Games |-> [u \in Uids |-> None]]
  /\ player = [g \in Games |-> [u \in Uids |-> None]]
  /\ data = [g \in Games |-> [u \in Uids |-> 0]]
  /\ gonline = [g \in Games |-> 0]
  /\ holder = [u \in Uids |-> None]
  /\ instead = [u \in Uids |-> None]
  /\ conline = 0
  /\ game_manager = Games
  /\ db = [u \in Uids |-> {0}]
  /\ conn = Games
  /\ mapped = Games
  /\ up = [g \in Games |-> <<>>]
  /\ down = [g \in Games |-> <<>>]
  /\ stray = [u \in Uids |-> FALSE]
  /\ enters = 0 /\ fails = 0 /\ drops = 0

-----------------------------------------------------------------------------
(* POST: the message is queued on the connection of the srvid, or dropped  *)
(* when the srvid has no connection.                                       *)

PostUp(chan, g, m)   == IF g \in conn THEN [chan EXCEPT ![g] = Append(@, m)] ELSE chan
PostDown(chan, g, m) == IF g \in mapped THEN [chan EXCEPT ![g] = Append(@, m)] ELSE chan

Receive(chan, g) == [chan EXCEPT ![g] = Tail(@)]

\* The next message on a channel is a call of this function.
Calls(queue, type) == queue # <<>> /\ Head(queue).type = type

-----------------------------------------------------------------------------
(* Gate servers (gatesrv/login/login.lua, gatesrv/clientsrv/clientsrv.lua) *)

\* Two sockets may log the same uid in: MSG_LOGIN does not look for one.
MSG_LOGIN(s, u) ==
  /\ suid[s] = None
  /\ suid' = [suid EXCEPT ![s] = u]
  /\ UNCHANGED <<ssrvid, inq, gameVars, globalVars, linkVars, up, down, stray, bounds>>

\* The bounds on entries.
MayEnter == enters < MaxEnter /\ (enters < MaxFaulty \/ fails + drops = 0)

\* Mutant: a socket that has not logged in may enter.
MSG_ENTER_any(s, g) ==
  /\ MayEnter /\ enters' = enters + 1
  /\ ssrvid' = [ssrvid EXCEPT ![s] = g]
  /\ inq' = [inq EXCEPT ![GateOf[s]][g] = Append(@, Msg("ENTER", suid[s]))]
  /\ UNCHANGED <<suid, fails, drops, gameVars, globalVars, linkVars, up, down, stray>>

\* A client enters, or changes to, the game server it names.
MSG_ENTER(s, g) ==
  /\ suid[s] # None
  /\ MayEnter /\ enters' = enters + 1
  /\ ssrvid' = [ssrvid EXCEPT ![s] = g]
  /\ inq' = [inq EXCEPT ![GateOf[s]][g] = Append(@, Msg("ENTER", suid[s]))]
  /\ UNCHANGED <<suid, fails, drops, gameVars, globalVars, linkVars, up, down, stray>>

\* Clientsrv.ev_close with Login.player_disconnect.
player_disconnect(s) ==
  /\ suid[s] # None
  /\ suid' = [suid EXCEPT ![s] = None]
  /\ ssrvid' = [ssrvid EXCEPT ![s] = None]
  /\ inq' = IF ssrvid[s] = None THEN inq
            ELSE [inq EXCEPT ![GateOf[s]][ssrvid[s]] = Append(@, Msg("EXIT", suid[s]))]
  /\ UNCHANGED <<gameVars, globalVars, linkVars, up, down, stray, bounds>>

-----------------------------------------------------------------------------
(* Game servers (gamesrv/login/main.lua) *)

ReceiveGate(gate, g) == inq' = [inq EXCEPT ![gate][g] = Tail(@)]

PLAYER_ENTER(g, gate) ==
  /\ Calls(inq[gate][g], "ENTER")
  /\ LET u == Head(inq[gate][g]).uid IN
     /\ tmp' = [tmp EXCEPT ![g][u] = gate]
     /\ up' = PostUp(up, g, Msg("ENTER", u))
  /\ ReceiveGate(gate, g)
  /\ UNCHANGED <<suid, ssrvid, player, data, gonline, globalVars, linkVars, down, stray, bounds>>

SaveRequest(g, u) == DbMsg("SET", u, data[g][u], 1)

\* Mutant: the center is told before the data are saved.
ExitBeforeSave(g, u) == PostUp(PostUp(up, g, Msg("EXIT", u)), g, SaveRequest(g, u))

\* The data are POSTed to Dbsrv, and the player stays in player_manager until
\* the reply.
player_logout(g, u) == PostUp(up, g, SaveRequest(g, u))

\* The gate is not compared with the player's, and the lock of a player that
\* is still loading is kept.
PLAYER_EXIT(g, gate) ==
  /\ Calls(inq[gate][g], "EXIT")
  /\ LET u == Head(inq[gate][g]).uid IN
     \/ /\ player[g][u] = None
        /\ up' = PostUp(up, g, Msg("EXIT", u))
        /\ stray' = [stray EXCEPT ![u] = TRUE]
     \/ /\ player[g][u] # None
        /\ up' = player_logout(g, u)
        /\ UNCHANGED stray
  /\ ReceiveGate(gate, g)
  /\ UNCHANGED <<suid, ssrvid, gameVars, globalVars, linkVars, down, bounds>>

PLAYER_PASS(g) ==
  /\ Calls(down[g], "PASS")
  /\ LET u == Head(down[g]).uid IN
     up' = IF player[g][u] # None THEN up ELSE PostUp(up, g, Msg("GET", u))
  /\ down' = Receive(down, g)
  /\ UNCHANGED <<sessVars, gameVars, globalVars, linkVars, stray, bounds>>

\* Mutant: the player is locked out but not logged out.
InsteadIgnored(g) ==
  /\ Calls(down[g], "INSTEAD")
  /\ tmp' = [tmp EXCEPT ![g][Head(down[g]).uid] = None]
  /\ down' = Receive(down, g)
  /\ UNCHANGED <<sessVars, player, data, gonline, globalVars, linkVars, up, stray, bounds>>

PLAYER_INSTEAD(g) ==
  /\ Calls(down[g], "INSTEAD")
  /\ LET u == Head(down[g]).uid IN
     /\ tmp' = [tmp EXCEPT ![g][u] = None]
     /\ up' = IF player[g][u] = None THEN up ELSE player_logout(g, u)
  /\ down' = Receive(down, g)
  /\ UNCHANGED <<sessVars, player, data, gonline, globalVars, linkVars, stray, bounds>>

\* Mutant: the reply is not matched with a player that is online.
SaveIgnoredUnmatched(g, u, result) == result = 0

\* The reply to a save changes nothing for a player that is not online, and
\* nothing when the save failed: that player stays online.
SaveIgnored(g, u, result) == player[g][u] = None \/ result = 0

msg_db_srv_set_playerdata(g) ==
  /\ Calls(down[g], "SET_REPLY")
  /\ LET u == Head(down[g]).uid IN
     \/ /\ SaveIgnored(g, u, Head(down[g]).result)
        /\ UNCHANGED <<player, data, gonline, up>>
     \/ /\ ~SaveIgnored(g, u, Head(down[g]).result)
        /\ player' = [player EXCEPT ![g][u] = None]
        /\ data' = [data EXCEPT ![g][u] = 0]
        /\ gonline' = [gonline EXCEPT ![g] = @ - 1]
        /\ up' = PostUp(up, g, Msg("EXIT", u))
  /\ down' = Receive(down, g)
  /\ UNCHANGED <<sessVars, tmp, globalVars, linkVars, stray, bounds>>

\* Something fails that may fail, within the bound.
Fail == enters <= MaxFaulty /\ fails < MaxFail /\ fails' = fails + 1

\* Mutant: the callback returns without telling the center.
LoadRefusedSilently(g, u) == UNCHANGED <<tmp, player, data, gonline, up, fails>>

\* The callback of a load gives up: the lock is gone, or the load failed.
LoadRefused(g, u) ==
  /\ up' = PostUp(up, g, Msg("EXIT", u))
  /\ UNCHANGED <<tmp, player, data, gonline, fails>>

\* The uid is online already: only its gate changes.
LoadOnline(g, u) ==
  /\ player' = [player EXCEPT ![g][u] = tmp[g][u]]
  /\ UNCHANGED <<tmp, data, gonline, up, fails>>

\* A session is made; player_login may fail and log the player out at once.
LoadSession(g, u, ver) ==
  /\ player' = [player EXCEPT ![g][u] = tmp[g][u]]
  /\ data' = [data EXCEPT ![g][u] = ver]
  /\ tmp' = [tmp EXCEPT ![g][u] = None]
  /\ gonline' = [gonline EXCEPT ![g] = @ + 1]
  /\ \/ UNCHANGED <<up, fails>>
     \/ /\ Fail
        /\ up' = PostUp(up, g, DbMsg("SET", u, ver, 1))

msg_db_srv_get_playerdata(g) ==
  /\ Calls(down[g], "GET_REPLY")
  /\ LET m == Head(down[g])
         u == m.uid IN
     \/ /\ tmp[g][u] = None
        /\ LoadRefused(g, u)
     \/ /\ tmp[g][u] # None /\ player[g][u] # None
        /\ LoadOnline(g, u)
     \/ /\ tmp[g][u] # None /\ player[g][u] = None /\ m.result = 0
        /\ LoadRefused(g, u)
     \/ /\ tmp[g][u] # None /\ player[g][u] = None /\ m.result = 1
        /\ LoadSession(g, u, m.ver)
  /\ down' = Receive(down, g)
  /\ UNCHANGED <<sessVars, globalVars, linkVars, stray, enters, drops>>

\* The game's own modules change the data of an online player.
Play(g, u) ==
  /\ player[g][u] # None
  /\ data[g][u] < MaxVer
  /\ data' = [data EXCEPT ![g][u] = @ + 1]
  /\ UNCHANGED <<sessVars, tmp, player, gonline, globalVars, linkVars, up, down, stray, bounds>>

-----------------------------------------------------------------------------
(* Center Login (globalsrv/centersrv/login/main.lua) *)

\* Mutant: the record goes to the new game server at once.
HandOverAtOnce(g, u) ==
  /\ holder' = [holder EXCEPT ![u] = g]
  /\ down' = PostDown(PostDown(down, holder[u], Msg("INSTEAD", u)), g, Msg("PASS", u))
  /\ UNCHANGED <<instead, conline>>

\* The game server that has the player is asked to give it up; the one that
\* asked last gets it.
Takeover(g, u) ==
  /\ instead' = [instead EXCEPT ![u] = g]
  /\ down' = PostDown(down, holder[u], Msg("INSTEAD", u))
  /\ UNCHANGED <<holder, conline>>

CenterEnter(g) ==
  /\ Calls(up[g], "ENTER")
  /\ LET u == Head(up[g]).uid IN
     \/ /\ g \notin game_manager
        /\ UNCHANGED <<holder, instead, conline, down>>
     \/ /\ g \in game_manager /\ holder[u] = None
        /\ holder' = [holder EXCEPT ![u] = g]
        /\ conline' = conline + 1
        /\ down' = PostDown(down, g, Msg("PASS", u))
        /\ UNCHANGED instead
     \/ /\ g \in game_manager /\ holder[u] # None
        /\ Takeover(g, u)
  /\ up' = Receive(up, g)
  /\ UNCHANGED <<sessVars, gameVars, game_manager, db, linkVars, stray, bounds>>

\* The record is deleted before the game that waits for it is looked up: when
\* that game is gone the handler raises an error and nobody gets the record.
CenterExit(g) ==
  /\ Calls(up[g], "EXIT")
  /\ LET u == Head(up[g]).uid
         next == instead[u] IN
     \/ /\ g \notin game_manager \/ holder[u] # g
        /\ UNCHANGED <<holder, instead, conline, down>>
     \/ /\ g \in game_manager /\ holder[u] = g
        /\ instead' = [instead EXCEPT ![u] = None]
        /\ \/ /\ next \notin game_manager
              /\ holder' = [holder EXCEPT ![u] = None]
              /\ conline' = conline - 1
              /\ UNCHANGED down
           \/ /\ next \in game_manager
              /\ holder' = [holder EXCEPT ![u] = next]
              /\ down' = PostDown(down, next, Msg("PASS", u))
              /\ UNCHANGED conline
  /\ up' = Receive(up, g)
  /\ UNCHANGED <<sessVars, gameVars, game_manager, db, linkVars, stray, bounds>>

-----------------------------------------------------------------------------
(* Dbsrv as the login protocol sees it.  After a save that worked, only    *)
(* what it saved can be loaded.  When one of its writes failed, Redis and  *)
(* MySQL may disagree, and a load may answer what either of them has.      *)

LoadFailed(u) == DbMsg("GET_REPLY", u, 0, 0)

\* That a GET is answered is an assumption here: Dbsrv has the requests that raise an
\* error and stay, among them, in the configuration of the repository, every GET
\* of a stored player whose hash expired.
DbGET(g) ==
  /\ Calls(up[g], "GET")
  /\ LET u == Head(up[g]).uid IN
     \/ /\ \E v \in db[u] : down' = PostDown(down, g, DbMsg("GET_REPLY", u, v, 1))
        /\ UNCHANGED fails
     \/ /\ Fail
        /\ down' = PostDown(down, g, LoadFailed(u))
  /\ up' = Receive(up, g)
  /\ UNCHANGED <<sessVars, gameVars, globalVars, linkVars, stray, enters, drops>>

SetReply(u, r) == DbMsg("SET_REPLY", u, 0, r)

\* With delay_write off.  A save whose cache write failed writes to MySQL
\* twice, and a failure of the first write is answered before the second one is
\* tried, so that there may be two answers.
DbSET(g) ==
  /\ Calls(up[g], "SET")
  /\ LET m == Head(up[g])
         u == m.uid
         once(r) == PostDown(down, g, SetReply(u, r))
         twice(r) == PostDown(once(0), g, SetReply(u, r)) IN
     \/ /\ db' = [db EXCEPT ![u] = {m.ver}]
        /\ down' = once(1)
        /\ UNCHANGED fails
     \/ /\ Fail
        /\ db' = [db EXCEPT ![u] = @ \cup {m.ver}]
        /\ \E r \in {0, 1} : down' = once(r) \/ down' = twice(r)
  /\ up' = Receive(up, g)
  /\ UNCHANGED <<sessVars, gameVars, holder, instead, conline, game_manager, linkVars,
                 stray, enters, drops>>

-----------------------------------------------------------------------------
(* The connection of a game to the global server.  Both ends see a loss as *)
(* one event, and what is in flight is lost.                               *)

\* Gamesrv.ev_close compares a game with itself, so the first game that the
\* iteration yields is removed, whichever connection was closed.
LinkDown(g) ==
  /\ g \in conn
  /\ enters <= MaxFaulty /\ drops < MaxDrop /\ drops' = drops + 1
  /\ conn' = conn \ {g}
  /\ mapped' = mapped \ {g}
  /\ up' = [up EXCEPT ![g] = <<>>]
  /\ down' = [down EXCEPT ![g] = <<>>]
  /\ \/ game_manager = {} /\ UNCHANGED game_manager
     \/ \E h \in game_manager : game_manager' = game_manager \ {h}
  /\ UNCHANGED <<sessVars, gameVars, holder, instead, conline, db, stray, enters, fails>>

\* Globalclient.ev_connect_suc after check_connections reconnected.
LinkUp(g) ==
  /\ g \notin conn
  /\ conn' = conn \cup {g}
  /\ up' = [up EXCEPT ![g] = <<Msg("REGIST_SRVID", None), Msg("REGIST", None)>>]
  /\ UNCHANGED <<sessVars, gameVars, globalVars, mapped, down, stray, bounds>>

\* Postproto.dispatch of the special message REGIST.
RegistSrvid(g) ==
  /\ Calls(up[g], "REGIST_SRVID")
  /\ mapped' = mapped \cup {g}
  /\ up' = Receive(up, g)
  /\ UNCHANGED <<sessVars, gameVars, globalVars, conn, down, stray, bounds>>

\* Gamesrv.REGIST: a game that is still in game_manager is left as it is.
REGIST(g) ==
  /\ Calls(up[g], "REGIST")
  /\ game_manager' = game_manager \cup {g}
  /\ up' = Receive(up, g)
  /\ UNCHANGED <<sessVars, gameVars, holder, instead, conline, db, linkVars, down, stray, bounds>>

-----------------------------------------------------------------------------
GateStep == \E s \in Socks :
  \/ \E u \in Uids : MSG_LOGIN(s, u)
  \/ \E g \in Games : MSG_ENTER(s, g)
  \/ player_disconnect(s)

GameStep(g) ==
  \/ \E gate \in Gates : PLAYER_ENTER(g, gate) \/ PLAYER_EXIT(g, gate)
  \/ PLAYER_PASS(g)
  \/ PLAYER_INSTEAD(g)
  \/ msg_db_srv_set_playerdata(g)
  \/ msg_db_srv_get_playerdata(g)

GlobalStep(g) ==
  \/ CenterEnter(g)
  \/ CenterExit(g)
  \/ DbGET(g)
  \/ DbSET(g)
  \/ RegistSrvid(g)
  \/ REGIST(g)

Next ==
  \/ GateStep
  \/ \E g \in Games :
       \/ GameStep(g)
       \/ GlobalStep(g)
       \/ LinkDown(g)
       \/ LinkUp(g)
       \/ \E u \in Uids : Play(g, u)

Spec == Init /\ [][Next]_vars

(* Fairness: an event loop handles what its sockets deliver, connections   *)
(* are retried, and a client that was told DISCONNECT or went away is not  *)
(* obliged to do anything.                                                 *)
FromGate(g, gate) == PLAYER_ENTER(g, gate) \/ PLAYER_EXIT(g, gate)
FromGlobal(g) ==
  \/ PLAYER_PASS(g)
  \/ PLAYER_INSTEAD(g)
  \/ msg_db_srv_set_playerdata(g)
  \/ msg_db_srv_get_playerdata(g)

FairSpec ==
  /\ Spec
  /\ \A g \in Games :
       /\ WF_vars(FromGlobal(g))
       /\ WF_vars(GlobalStep(g))
       /\ WF_vars(LinkUp(g))
       /\ \A gate \in Gates : WF_vars(FromGate(g, gate))

-----------------------------------------------------------------------------
(* Properties *)

GateMessages == Messages({"ENTER", "EXIT"}, Uids)
UpMessages   == Messages({"ENTER", "EXIT", "GET", "SET"}, Uids)
                  \cup Messages({"REGIST_SRVID", "REGIST"}, {None})
DownMessages == Messages({"PASS", "INSTEAD", "GET_REPLY", "SET_REPLY"}, Uids)

\* Every table holds what its comment says, and a POST carries a known uid.
TypeOK ==
  /\ suid \in [Socks -> Uids \cup {None}]
  /\ ssrvid \in [Socks -> Games \cup {None}]
  /\ inq \in [Gates -> [Games -> Seq(GateMessages)]]
  /\ tmp \in [Games -> [Uids -> Gates \cup {None}]]
  /\ player \in [Games -> [Uids -> Gates \cup {None}]]
  /\ data \in [Games -> [Uids -> Nat]]
  /\ gonline \in [Games -> Int]
  /\ holder \in [Uids -> Games \cup {None}]
  /\ instead \in [Uids -> Games \cup {None}]
  /\ conline \in Int
  /\ game_manager \subseteq Games
  /\ db \in [Uids -> SUBSET Nat]
  /\ conn \subseteq Games
  /\ mapped \subseteq Games
  /\ up \in [Games -> Seq(UpMessages)]
  /\ down \in [Games -> Seq(DownMessages)]
  /\ stray \in [Uids -> BOOLEAN]
  /\ enters \in Nat /\ fails \in Nat /\ drops \in Nat

Online(u) == {g \in Games : player[g][u] # None}

\* onlinenum of every game is the number of players in its player_manager, and
\* onlinenum of the center the number of its records, through takeovers,
\* repeated saves, failed loads and lost connections.
CountsAgree ==
  /\ \A g \in Games : gonline[g] = Cardinality({u \in Uids : player[g][u] # None})
  /\ conline = Cardinality({u \in Uids : holder[u] # None})

\* A uid is in the player_manager of at most one game server, the one the
\* center's record names.  This is what PLAYER_PASS is for: a game brings a
\* player online only after the center has taken it from the game that had it.
Exclusive == \A u \in Uids : Online(u) \subseteq {holder[u]}

\* Exclusive, for every uid for which no game server POSTed PLAYER_EXIT while
\* the player was not online (the `not player` branch of the game's
\* PLAYER_EXIT), whatever else happens: takeovers that cross, failed loads and
\* saves, repeated answers, and lost connections.
ExclusiveUnlessStray ==
  \A u \in Uids : ~stray[u] => Online(u) \subseteq {holder[u]}

\* The same promise in its bare form: two game servers never hold one player.
OneServer == \A u \in Uids : \A g, h \in Online(u) : g = h

(* Why ExclusiveUnlessStray holds.  The center's PLAYER_PASS starts a tenure *)
(* of a game server; from then on the tenure is in exactly one place, the   *)
(* message PASS, GET, GET_REPLY or EXIT, or the session in player_manager,  *)
(* unless a connection loses it.                                            *)
Token(m, u) == m.uid = u /\ m.type \in {"PASS", "GET", "GET_REPLY", "EXIT"}
Carries(queue, u) == \E i \in 1..Len(queue) : Token(queue[i], u)
AtMostOne(queue, u) ==
  \A i, j \in 1..Len(queue) : Token(queue[i], u) /\ Token(queue[j], u) => i = j

Tenure(u) ==
  \A g \in Games :
    /\ AtMostOne(up[g], u)
    /\ AtMostOne(down[g], u)
    /\ ~(Carries(up[g], u) /\ Carries(down[g], u))
    /\ player[g][u] # None => ~Carries(up[g], u) /\ ~Carries(down[g], u)
    /\ Carries(up[g], u) \/ Carries(down[g], u) \/ player[g][u] # None
         => holder[u] = g

\* A tenure is in one place, and only the game server that the center's record
\* names has one: the inductive form of ExclusiveUnlessStray.
TenureUnique == \A u \in Uids : ~stray[u] => Tenure(u)

\* The protocol implements the lease of SessionLease: the center's record is
\* the lease, and it moves only while no game server holds the player.
Lease == INSTANCE SessionLease WITH
  owner <- holder, online <- [u \in Uids |-> Online(u)], void <- stray

LeaseKept == Lease!Spec

\* A save never puts older data over newer data: what a game server loaded
\* stays the newest stored version until that server saves, because its saves
\* reach Dbsrv before the PLAYER_EXIT that lets another server load.  This is
\* not promised after a failed write of Dbsrv, nor for a stray uid.
SavesNeverRegress ==
  [][\A u \in Uids : stray'[u] \/ fails' > 0 \/
       \A old \in db[u], new \in db'[u] : new >= old]_vars

\* The reply to a save finds the session that was saved: a player in
\* player_manager has never been loaded after the save whose reply is on its
\* way was sent, so a late or repeated reply cannot throw out a new session.
NoReplyForLaterSession ==
  \A u \in Uids, g \in Games : stray[u] \/
    \A i, j \in 1..Len(down[g]) :
      /\ down[g][i].uid = u /\ down[g][j].uid = u
      /\ down[g][i].type \in {"PASS", "GET_REPLY"}
      /\ down[g][j].type = "SET_REPLY"
      => j < i

\* A takeover ends: the server that is asked to give a player up (PLAYER_INSTEAD)
\* answers with PLAYER_EXIT, and the center passes the player on.
TakeoverEnds ==
  \A u \in Uids : [](instead[u] # None => <>(instead[u] = None))

\* A record of the center is not left without a player: the server it names
\* brings the player online or gives the record back.
RecordIsBacked ==
  \A u \in Uids, g \in Games :
    (holder[u] = g) ~> (player[g][u] # None \/ holder[u] # g)
=============================================================================
