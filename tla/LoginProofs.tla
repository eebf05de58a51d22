----------------------------- MODULE LoginProofs -----------------------------
(* Theorems about Login, for every set of players, servers and sockets and  *)
(* every value of the bounds.                                               *)
EXTENDS Login, FiniteSetTheorems, TLAPS

\* What the constructors of messages build.
LEMMA MessageTypes ==
  ASSUME NEW u \in Uids, NEW v \in Nat, NEW r \in {0, 1}
  PROVE  /\ Msg("ENTER", u) \in GateMessages /\ Msg("EXIT", u) \in GateMessages
         /\ Msg("ENTER", u) \in UpMessages /\ Msg("EXIT", u) \in UpMessages
         /\ Msg("GET", u) \in UpMessages /\ DbMsg("SET", u, v, r) \in UpMessages
         /\ Msg("PASS", u) \in DownMessages /\ Msg("INSTEAD", u) \in DownMessages
         /\ DbMsg("GET_REPLY", u, v, r) \in DownMessages
         /\ DbMsg("SET_REPLY", u, v, r) \in DownMessages
  BY DEF Msg, DbMsg, GateMessages, UpMessages, DownMessages, Messages

LEMMA RegistTypes ==
  Msg("REGIST_SRVID", None) \in UpMessages /\ Msg("REGIST", None) \in UpMessages
  BY DEF Msg, UpMessages, Messages

\* A received message carries the uid of a player, except a REGIST.
LEMMA MessageFields ==
  /\ \A m \in GateMessages : m.uid \in Uids
  /\ \A m \in DownMessages : m.uid \in Uids /\ m.ver \in Nat /\ m.result \in {0, 1}
  /\ \A m \in UpMessages : m.type \in {"ENTER", "EXIT", "GET", "SET"}
        => m.uid \in Uids /\ m.ver \in Nat
  BY DEF GateMessages, UpMessages, DownMessages, Messages

UpChannels   == [Games -> Seq(UpMessages)]
DownChannels == [Games -> Seq(DownMessages)]

\* POST and receive keep the channels well formed.
LEMMA UpTypes ==
  ASSUME NEW chan \in UpChannels, NEW g \in Games
  PROVE  /\ \A m \in UpMessages : PostUp(chan, g, m) \in UpChannels
         /\ chan[g] # <<>> => Receive(chan, g) \in UpChannels /\ Head(chan[g]) \in UpMessages
  BY DEF PostUp, Receive, UpChannels

LEMMA DownTypes ==
  ASSUME NEW chan \in DownChannels, NEW g \in Games
  PROVE  /\ \A m \in DownMessages : PostDown(chan, g, m) \in DownChannels
         /\ chan[g] # <<>> => Receive(chan, g) \in DownChannels /\ Head(chan[g]) \in DownMessages
  BY DEF PostDown, Receive, DownChannels

\* The type invariant of the login protocol: every handler leaves the tables
\* of gates, games and center, and the messages in flight, well formed.
THEOREM TypeCorrect == Spec => []TypeOK
<1>1. Init => TypeOK
  BY LoginAssumption DEF Init, TypeOK
<1>2. TypeOK /\ [Next]_vars => TypeOK'
  <2> SUFFICES ASSUME TypeOK, [Next]_vars PROVE TypeOK'
    OBVIOUS
  <2> USE LoginAssumption DEF Calls, Fail, bounds, sessVars, gameVars, globalVars, linkVars
  <2>0. /\ up \in UpChannels /\ down \in DownChannels
        /\ \A g \in Games, u \in Uids : data[g][u] \in Nat
        /\ \A u \in Uids : db[u] \subseteq Nat /\ holder[u] \in Games \cup {None}
        /\ game_manager \subseteq Games
    BY DEF TypeOK, UpChannels, DownChannels
  <2>00. /\ tmp \in [Games -> [Uids -> Gates \cup {None}]]
         /\ player \in [Games -> [Uids -> Gates \cup {None}]]
         /\ data \in [Games -> [Uids -> Nat]] /\ gonline \in [Games -> Int]
         /\ holder \in [Uids -> Games \cup {None}] /\ instead \in [Uids -> Games \cup {None}]
         /\ conline \in Int /\ db \in [Uids -> SUBSET Nat] /\ fails \in Nat
         /\ stray \in [Uids -> BOOLEAN]
         /\ inq \in [Gates -> [Games -> Seq(GateMessages)]]
    BY DEF TypeOK
  <2>1. ASSUME NEW s \in Socks, NEW u \in Uids, MSG_LOGIN(s, u) PROVE TypeOK'
    BY <2>1, MessageTypes, UpTypes, DownTypes DEF MSG_LOGIN, TypeOK, UpChannels, DownChannels
  <2>2. ASSUME NEW s \in Socks, NEW g \in Games, MSG_ENTER(s, g) PROVE TypeOK'
    <3>1. suid[s] \in Uids /\ GateOf[s] \in Gates
      BY <2>2 DEF MSG_ENTER, TypeOK
    <3>2. Msg("ENTER", suid[s]) \in GateMessages
      BY <3>1, MessageTypes
    <3>3. inq' \in [Gates -> [Games -> Seq(GateMessages)]]
      <4>1. inq' = [inq EXCEPT ![GateOf[s]][g] = Append(@, Msg("ENTER", suid[s]))]
        BY <2>2 DEF MSG_ENTER
      <4>2. Append(inq[GateOf[s]][g], Msg("ENTER", suid[s])) \in Seq(GateMessages)
        BY <2>00, <3>1, <3>2
      <4>3. QED
        BY <2>00, <3>1, <4>1, <4>2
    <3>4. ssrvid' \in [Socks -> Games \cup {None}] /\ enters' \in Nat
      BY <2>2 DEF MSG_ENTER, TypeOK
    <3>5. QED
      BY <2>2, <3>3, <3>4 DEF MSG_ENTER, TypeOK
  <2>3. ASSUME NEW s \in Socks, player_disconnect(s) PROVE TypeOK'
    <3>1. suid[s] \in Uids /\ ssrvid[s] \in Games \cup {None} /\ GateOf[s] \in Gates
      BY <2>3 DEF player_disconnect, TypeOK
    <3>2. Msg("EXIT", suid[s]) \in GateMessages
      BY <3>1, MessageTypes
    <3>3. inq' \in [Gates -> [Games -> Seq(GateMessages)]]
      <4>1. CASE ssrvid[s] = None
        BY <2>00, <2>3, <4>1 DEF player_disconnect
      <4>2. CASE ssrvid[s] # None
        <5>1. inq' = [inq EXCEPT ![GateOf[s]][ssrvid[s]] = Append(@, Msg("EXIT", suid[s]))]
          BY <2>3, <4>2 DEF player_disconnect
        <5>2. Append(inq[GateOf[s]][ssrvid[s]], Msg("EXIT", suid[s])) \in Seq(GateMessages)
          BY <2>00, <3>1, <3>2, <4>2
        <5>3. QED
          BY <2>00, <3>1, <4>2, <5>1, <5>2
      <4>3. QED
        BY <4>1, <4>2
    <3>4. /\ suid' \in [Socks -> Uids \cup {None}]
          /\ ssrvid' \in [Socks -> Games \cup {None}]
      BY <2>3 DEF player_disconnect, TypeOK
    <3>5. QED
      BY <2>3, <3>3, <3>4 DEF player_disconnect, TypeOK
  <2>4. ASSUME NEW g \in Games, NEW gate \in Gates, PLAYER_ENTER(g, gate) PROVE TypeOK'
    <3> DEFINE m == Head(inq[gate][g])
    <3>1. m \in GateMessages /\ m.uid \in Uids
      BY <2>0, <2>4, MessageFields DEF PLAYER_ENTER, TypeOK
    <3>2. up' \in UpChannels
      BY <2>0, <2>4, <3>1, UpTypes, MessageTypes DEF PLAYER_ENTER, ReceiveGate
    <3>3. down' \in DownChannels
      BY <2>0, <2>4, <3>1, DownTypes, MessageTypes DEF PLAYER_ENTER, ReceiveGate
    <3>4. QED
      BY <2>4, <3>1, <3>2, <3>3 DEF PLAYER_ENTER, ReceiveGate, TypeOK, UpChannels, DownChannels
  <2>5. ASSUME NEW g \in Games, NEW gate \in Gates, PLAYER_EXIT(g, gate) PROVE TypeOK'
    <3> DEFINE m == Head(inq[gate][g])
    <3>1. m \in GateMessages /\ m.uid \in Uids
      BY <2>0, <2>5, MessageFields DEF PLAYER_EXIT, player_logout, TypeOK
    <3>2. up' \in UpChannels
      <4>1. Msg("EXIT", m.uid) \in UpMessages /\ SaveRequest(g, m.uid) \in UpMessages
        BY <2>0, <3>1, MessageTypes DEF SaveRequest
      <4>2. up' = PostUp(up, g, Msg("EXIT", m.uid)) \/ up' = PostUp(up, g, SaveRequest(g, m.uid))
        BY <2>5 DEF PLAYER_EXIT, player_logout
      <4>3. QED
        BY <2>0, <4>1, <4>2, UpTypes
    <3>3. down' \in DownChannels
      BY <2>0, <2>5, <3>1, DownTypes, MessageTypes DEF PLAYER_EXIT, player_logout, ReceiveGate, SaveRequest
    <3>4. /\ stray' \in [Uids -> BOOLEAN]
          /\ inq' \in [Gates -> [Games -> Seq(GateMessages)]]
      <4>1. stray' \in [Uids -> BOOLEAN]
        BY <2>0, <2>00, <2>5, <3>1 DEF PLAYER_EXIT, player_logout, ReceiveGate, SaveRequest
      <4>2. inq' \in [Gates -> [Games -> Seq(GateMessages)]]
        BY <2>0, <2>00, <2>5, <3>1 DEF PLAYER_EXIT, player_logout, ReceiveGate, SaveRequest
      <4>3. QED
        BY <4>1, <4>2
    <3>5. QED
      BY <2>5, <3>2, <3>3, <3>4 DEF PLAYER_EXIT, player_logout, TypeOK, UpChannels, DownChannels
  <2>6. ASSUME NEW g \in Games, PLAYER_PASS(g) PROVE TypeOK'
    <3> DEFINE m == Head(down[g])
    <3>1. m \in DownMessages /\ m.uid \in Uids /\ m.ver \in Nat
      BY <2>0, <2>6, DownTypes, MessageFields DEF PLAYER_PASS
    <3>2. up' \in UpChannels
      BY <2>0, <2>6, <3>1, UpTypes, MessageTypes DEF PLAYER_PASS
    <3>3. down' \in DownChannels
      BY <2>0, <2>6, <3>1, DownTypes, MessageTypes DEF PLAYER_PASS
    <3>4. QED
      BY <2>6, <3>1, <3>2, <3>3 DEF PLAYER_PASS, TypeOK, UpChannels, DownChannels
  <2>7. ASSUME NEW g \in Games, PLAYER_INSTEAD(g) PROVE TypeOK'
    <3> DEFINE m == Head(down[g])
    <3>1. m \in DownMessages /\ m.uid \in Uids /\ m.ver \in Nat
      BY <2>0, <2>7, DownTypes, MessageFields DEF PLAYER_INSTEAD, player_logout
    <3>2. up' \in UpChannels
      BY <2>0, <2>7, <3>1, UpTypes, MessageTypes DEF PLAYER_INSTEAD, player_logout, SaveRequest
    <3>3. down' \in DownChannels
      BY <2>0, <2>7, <3>1, DownTypes, MessageTypes DEF PLAYER_INSTEAD, player_logout, SaveRequest
    <3>4. QED
      BY <2>7, <3>1, <3>2, <3>3 DEF PLAYER_INSTEAD, player_logout, SaveRequest, TypeOK, UpChannels, DownChannels
  <2>8. ASSUME NEW g \in Games, msg_db_srv_set_playerdata(g) PROVE TypeOK'
    <3> DEFINE m == Head(down[g])
    <3>1. m \in DownMessages /\ m.uid \in Uids /\ m.ver \in Nat
      BY <2>0, <2>8, DownTypes, MessageFields DEF msg_db_srv_set_playerdata, SaveIgnored
    <3>2. up' \in UpChannels
      BY <2>0, <2>8, <3>1, UpTypes, MessageTypes DEF msg_db_srv_set_playerdata, SaveIgnored
    <3>3. down' \in DownChannels
      BY <2>0, <2>8, <3>1, DownTypes, MessageTypes DEF msg_db_srv_set_playerdata, SaveIgnored
    <3>4. /\ player' \in [Games -> [Uids -> Gates \cup {None}]]
          /\ data' \in [Games -> [Uids -> Nat]]
          /\ gonline' \in [Games -> Int]
      <4>1. player' \in [Games -> [Uids -> Gates \cup {None}]]
        <5>1. player' = player \/ player' = [player EXCEPT ![g][m.uid] = None]
          BY <2>8 DEF msg_db_srv_set_playerdata, SaveIgnored
        <5>2. CASE player' = player
          BY <2>00, <5>2
        <5>3. CASE player' = [player EXCEPT ![g][m.uid] = None]
          BY <2>00, <3>1, <5>3
        <5>4. QED
          BY <5>1, <5>2, <5>3
      <4>2. data' \in [Games -> [Uids -> Nat]]
        <5>1. data' = data \/ data' = [data EXCEPT ![g][m.uid] = 0]
          BY <2>8 DEF msg_db_srv_set_playerdata, SaveIgnored
        <5>2. CASE data' = data
          BY <2>00, <5>2
        <5>3. CASE data' = [data EXCEPT ![g][m.uid] = 0]
          BY <2>00, <3>1, <5>3
        <5>4. QED
          BY <5>1, <5>2, <5>3
      <4>3. gonline' \in [Games -> Int]
        BY <2>0, <2>00, <2>8, <3>1 DEF msg_db_srv_set_playerdata, SaveIgnored
      <4>4. QED
        BY <4>1, <4>2, <4>3
    <3>5. QED
      BY <2>8, <3>2, <3>3, <3>4 DEF msg_db_srv_set_playerdata, SaveIgnored, TypeOK, UpChannels, DownChannels
  <2>9. ASSUME NEW g \in Games, msg_db_srv_get_playerdata(g) PROVE TypeOK'
    <3> DEFINE m == Head(down[g])
    <3>1. m \in DownMessages /\ m.uid \in Uids /\ m.ver \in Nat
      BY <2>0, <2>9, DownTypes, MessageFields DEF msg_db_srv_get_playerdata
    <3>2. up' \in UpChannels
      <4>1. Msg("EXIT", m.uid) \in UpMessages /\ DbMsg("SET", m.uid, m.ver, 1) \in UpMessages
        BY <3>1, MessageTypes
      <4>2. \/ up' = up
            \/ up' = PostUp(up, g, Msg("EXIT", m.uid))
            \/ up' = PostUp(up, g, DbMsg("SET", m.uid, m.ver, 1))
        BY <2>9 DEF msg_db_srv_get_playerdata, LoadRefused, LoadOnline, LoadSession
      <4>3. QED
        BY <2>0, <4>1, <4>2, UpTypes
    <3>3. down' \in DownChannels
      BY <2>0, <2>9, <3>1, DownTypes, MessageTypes DEF msg_db_srv_get_playerdata, LoadRefused, LoadOnline, LoadSession
    <3>4. /\ tmp' \in [Games -> [Uids -> Gates \cup {None}]]
          /\ player' \in [Games -> [Uids -> Gates \cup {None}]]
          /\ data' \in [Games -> [Uids -> Nat]]
          /\ gonline' \in [Games -> Int]
          /\ fails' \in Nat
      <4>1. tmp' \in [Games -> [Uids -> Gates \cup {None}]]
        <5>1. tmp' = tmp \/ tmp' = [tmp EXCEPT ![g][m.uid] = None]
          BY <2>9 DEF msg_db_srv_get_playerdata, LoadRefused, LoadOnline, LoadSession
        <5>2. CASE tmp' = tmp
          BY <2>00, <5>2
        <5>3. CASE tmp' = [tmp EXCEPT ![g][m.uid] = None]
          BY <2>00, <3>1, <5>3
        <5>4. QED
          BY <5>1, <5>2, <5>3
      <4>2. player' \in [Games -> [Uids -> Gates \cup {None}]]
        <5>1. player' = player \/ player' = [player EXCEPT ![g][m.uid] = tmp[g][m.uid]]
          BY <2>9 DEF msg_db_srv_get_playerdata, LoadRefused, LoadOnline, LoadSession
        <5>2. CASE player' = player
          BY <2>00, <5>2
        <5>3. CASE player' = [player EXCEPT ![g][m.uid] = tmp[g][m.uid]]
          BY <2>00, <3>1, <5>3
        <5>4. QED
          BY <5>1, <5>2, <5>3
      <4>3. data' \in [Games -> [Uids -> Nat]]
        <5>1. data' = data \/ data' = [data EXCEPT ![g][m.uid] = m.ver]
          BY <2>9 DEF msg_db_srv_get_playerdata, LoadRefused, LoadOnline, LoadSession
        <5>2. CASE data' = data
          BY <2>00, <5>2
        <5>3. CASE data' = [data EXCEPT ![g][m.uid] = m.ver]
          BY <2>00, <3>1, <5>3
        <5>4. QED
          BY <5>1, <5>2, <5>3
      <4>4. gonline' \in [Games -> Int]
        BY <2>0, <2>00, <2>9, <3>1 DEF msg_db_srv_get_playerdata, LoadRefused, LoadOnline, LoadSession
      <4>5. fails' \in Nat
        BY <2>0, <2>00, <2>9, <3>1 DEF msg_db_srv_get_playerdata, LoadRefused, LoadOnline, LoadSession
      <4>6. QED
        BY <4>1, <4>2, <4>3, <4>4, <4>5
    <3>5. QED
      BY <2>9, <3>2, <3>3, <3>4 DEF msg_db_srv_get_playerdata, TypeOK, UpChannels, DownChannels
  <2>10. ASSUME NEW g \in Games, NEW u \in Uids, Play(g, u) PROVE TypeOK'
    BY <2>10, MessageTypes, UpTypes, DownTypes DEF Play, TypeOK, UpChannels, DownChannels
  <2>11. ASSUME NEW g \in Games, CenterEnter(g) PROVE TypeOK'
    <3> DEFINE m == Head(up[g])
    <3>1. m \in UpMessages /\ m.uid \in Uids /\ m.ver \in Nat
      BY <2>0, <2>11, UpTypes, MessageFields DEF CenterEnter, Takeover
    <3>2. up' \in UpChannels
      BY <2>0, <2>11, <3>1, UpTypes, MessageTypes DEF CenterEnter, Takeover
    <3>3. down' \in DownChannels
      <4>1. \A t \in {"PASS", "INSTEAD"} : Msg(t, m.uid) \in DownMessages
        BY <3>1, MessageTypes
      <4>2. holder[m.uid] # None => holder[m.uid] \in Games
        BY <2>00, <3>1
      <4>3. \/ down' = down
            \/ down' = PostDown(down, g, Msg("PASS", m.uid))
            \/ /\ holder[m.uid] # None
               /\ down' = PostDown(down, holder[m.uid], Msg("INSTEAD", m.uid))
        BY <2>11 DEF CenterEnter, Takeover
      <4>4. QED
        BY <2>0, <4>1, <4>2, <4>3, DownTypes
    <3>4. /\ holder' \in [Uids -> Games \cup {None}]
          /\ instead' \in [Uids -> Games \cup {None}]
          /\ conline' \in Int
      <4>1. holder' \in [Uids -> Games \cup {None}]
        BY <2>0, <2>00, <2>11, <3>1 DEF CenterEnter, Takeover
      <4>2. instead' \in [Uids -> Games \cup {None}]
        BY <2>0, <2>00, <2>11, <3>1 DEF CenterEnter, Takeover
      <4>3. conline' \in Int
        BY <2>0, <2>00, <2>11, <3>1 DEF CenterEnter, Takeover
      <4>4. QED
        BY <4>1, <4>2, <4>3
    <3>5. QED
      BY <2>11, <3>2, <3>3, <3>4 DEF CenterEnter, Takeover, TypeOK, UpChannels, DownChannels
  <2>12. ASSUME NEW g \in Games, CenterExit(g) PROVE TypeOK'
    <3> DEFINE m == Head(up[g])
    <3>1. m \in UpMessages /\ m.uid \in Uids /\ m.ver \in Nat
      BY <2>0, <2>12, UpTypes, MessageFields DEF CenterExit
    <3>2. up' \in UpChannels
      BY <2>0, <2>12, <3>1, UpTypes, MessageTypes DEF CenterExit
    <3>3. down' \in DownChannels
      <4>1. Msg("PASS", m.uid) \in DownMessages
        BY <3>1, MessageTypes
      <4>2. \/ down' = down
            \/ \E n \in game_manager : down' = PostDown(down, n, Msg("PASS", m.uid))
        BY <2>12 DEF CenterExit
      <4>3. QED
        BY <2>0, <4>1, <4>2, DownTypes
    <3>4. /\ holder' \in [Uids -> Games \cup {None}]
          /\ instead' \in [Uids -> Games \cup {None}]
          /\ conline' \in Int
      <4>1. holder' \in [Uids -> Games \cup {None}]
        BY <2>0, <2>00, <2>12, <3>1 DEF CenterExit
      <4>2. instead' \in [Uids -> Games \cup {None}]
        BY <2>0, <2>00, <2>12, <3>1 DEF CenterExit
      <4>3. conline' \in Int
        BY <2>0, <2>00, <2>12, <3>1 DEF CenterExit
      <4>4. QED
        BY <4>1, <4>2, <4>3
    <3>5. QED
      BY <2>12, <3>2, <3>3, <3>4 DEF CenterExit, TypeOK, UpChannels, DownChannels
  <2>13. ASSUME NEW g \in Games, DbGET(g) PROVE TypeOK'
    <3> DEFINE m == Head(up[g])
    <3>1. m \in UpMessages /\ m.uid \in Uids /\ m.ver \in Nat
      BY <2>0, <2>13, UpTypes, MessageFields DEF DbGET, LoadFailed
    <3>2. up' \in UpChannels
      BY <2>0, <2>13, <3>1, UpTypes, MessageTypes DEF DbGET, LoadFailed
    <3>3. down' \in DownChannels
      <4>1. PICK v \in Nat, r \in {0, 1} :
              down' = PostDown(down, g, DbMsg("GET_REPLY", m.uid, v, r))
        BY <2>00, <2>13, <3>1 DEF DbGET, LoadFailed
      <4>2. DbMsg("GET_REPLY", m.uid, v, r) \in DownMessages
        BY <3>1, MessageTypes
      <4>3. QED
        BY <2>0, <4>1, <4>2, DownTypes
    <3>4. QED
      BY <2>13, <3>1, <3>2, <3>3 DEF DbGET, LoadFailed, TypeOK, UpChannels, DownChannels
  <2>14. ASSUME NEW g \in Games, DbSET(g) PROVE TypeOK'
    <3> DEFINE m == Head(up[g])
    <3>1. m \in UpMessages /\ m.uid \in Uids /\ m.ver \in Nat
      BY <2>0, <2>14, UpTypes, MessageFields DEF DbSET
    <3>2. up' \in UpChannels
      BY <2>0, <2>14, <3>1, UpTypes, MessageTypes DEF DbSET, SetReply
    <3>3. down' \in DownChannels
      <4> DEFINE once(r) == PostDown(down, g, SetReply(m.uid, r))
      <4>1. \A r \in {0, 1} : SetReply(m.uid, r) \in DownMessages
        BY <3>1, MessageTypes DEF SetReply
      <4>2. \A r \in {0, 1} : once(r) \in DownChannels
        BY <2>0, <4>1, DownTypes
      <4>3. once(0) \in DownChannels
        BY <4>2
      <4>4. \A r \in {0, 1} : PostDown(once(0), g, SetReply(m.uid, r)) \in DownChannels
        <5> HIDE DEF once
        <5> QED
          BY <4>1, <4>3, DownTypes
      <4>5. \E r \in {0, 1} : down' = once(r) \/ down' = PostDown(once(0), g, SetReply(m.uid, r))
        BY <2>14 DEF DbSET
      <4>6. QED
        BY <4>2, <4>4, <4>5
    <3>4. /\ db' \in [Uids -> SUBSET Nat]
          /\ fails' \in Nat
      <4>1. db' \in [Uids -> SUBSET Nat]
        <5>1. \/ db' = [db EXCEPT ![m.uid] = {m.ver}]
              \/ db' = [db EXCEPT ![m.uid] = @ \cup {m.ver}]
          BY <2>14 DEF DbSET
        <5>2. {m.ver} \in SUBSET Nat /\ db[m.uid] \cup {m.ver} \in SUBSET Nat
          BY <2>00, <3>1
        <5>3. CASE db' = [db EXCEPT ![m.uid] = {m.ver}]
          BY <2>00, <5>2, <5>3
        <5>4. CASE db' = [db EXCEPT ![m.uid] = @ \cup {m.ver}]
          BY <2>00, <5>2, <5>4
        <5>5. QED
          BY <5>1, <5>3, <5>4
      <4>2. fails' \in Nat
        BY <2>0, <2>00, <2>14, <3>1 DEF DbSET, SetReply
      <4>3. QED
        BY <4>1, <4>2
    <3>5. QED
      BY <2>14, <3>2, <3>3, <3>4 DEF DbSET, TypeOK, UpChannels, DownChannels
  <2>15. ASSUME NEW g \in Games, LinkDown(g) PROVE TypeOK'
    BY <2>15, MessageTypes, UpTypes, DownTypes DEF LinkDown, TypeOK, UpChannels, DownChannels
  <2>16. ASSUME NEW g \in Games, LinkUp(g) PROVE TypeOK'
    <3>1. up' \in UpChannels
      <4>1. <<Msg("REGIST_SRVID", None), Msg("REGIST", None)>> \in Seq(UpMessages)
        BY RegistTypes
      <4>2. QED
        BY <2>0, <2>16, <4>1 DEF LinkUp, UpChannels
    <3>2. QED
      BY <2>16, <3>1 DEF LinkUp, TypeOK, UpChannels
  <2>17. ASSUME NEW g \in Games, RegistSrvid(g) PROVE TypeOK'
    BY <2>17, MessageTypes, UpTypes, DownTypes DEF RegistSrvid, TypeOK, UpChannels, DownChannels
  <2>18. ASSUME NEW g \in Games, REGIST(g) PROVE TypeOK'
    BY <2>18, MessageTypes, UpTypes, DownTypes DEF REGIST, TypeOK, UpChannels, DownChannels
  <2>19. CASE UNCHANGED vars
    BY <2>19 DEF vars, TypeOK
  <2>20. QED
    BY <2>1, <2>2, <2>3, <2>4, <2>5, <2>6, <2>7, <2>8, <2>9, <2>10, <2>11, <2>12, <2>13, <2>14, <2>15, <2>16, <2>17, <2>18, <2>19
    DEF Next, GateStep, GameStep, GlobalStep
<1>3. QED
  BY <1>1, <1>2, PTL DEF Spec

-----------------------------------------------------------------------------
(* A tenure is in one place *)

LEMMA AppendToken ==
  ASSUME NEW S, NEW q \in Seq(S), NEW m \in S, NEW u
  PROVE  /\ Carries(Append(q, m), u) => Carries(q, u) \/ Token(m, u)
         /\ AtMostOne(q, u) /\ ~(Carries(q, u) /\ Token(m, u)) => AtMostOne(Append(q, m), u)
<1>1. /\ Len(Append(q, m)) = Len(q) + 1 /\ Len(q) \in Nat
      /\ Append(q, m)[Len(q) + 1] = m
      /\ \A i \in 1..Len(q) : Append(q, m)[i] = q[i]
  OBVIOUS
<1>2. \A i \in 1..Len(Append(q, m)) : i \in 1..Len(q) \/ i = Len(q) + 1
  BY <1>1
<1>3. QED
  BY <1>1, <1>2 DEF Carries, AtMostOne

LEMMA TailToken ==
  ASSUME NEW S, NEW q \in Seq(S), q # <<>>, NEW u
  PROVE  /\ Carries(Tail(q), u) => Carries(q, u)
         /\ AtMostOne(q, u) => AtMostOne(Tail(q), u)
         /\ Token(Head(q), u) => Carries(q, u)
         /\ AtMostOne(q, u) /\ Token(Head(q), u) => ~Carries(Tail(q), u)
<1>1. /\ Len(q) \in Nat /\ Len(q) > 0 /\ Len(Tail(q)) = Len(q) - 1 /\ Head(q) = q[1]
      /\ \A i \in 1..Len(Tail(q)) : Tail(q)[i] = q[i + 1]
  OBVIOUS
<1>2. \A i \in 1..Len(Tail(q)) : i + 1 \in 1..Len(q) /\ i + 1 # 1
  BY <1>1
<1>3. 1 \in 1..Len(q)
  BY <1>1
<1>4. \A i, j \in 1..Len(Tail(q)) : i + 1 = j + 1 => i = j
  BY <1>1
<1>5. QED
  BY <1>1, <1>2, <1>3, <1>4 DEF Carries, AtMostOne

\* What POST and receive do to the tenures that the channels carry.
LEMMA PostUpToken ==
  ASSUME NEW chan \in UpChannels, NEW g \in Games, NEW h \in Games,
         NEW m \in UpMessages, NEW u
  PROVE  /\ Carries(PostUp(chan, g, m)[h], u) => Carries(chan[h], u) \/ (h = g /\ Token(m, u))
         /\ AtMostOne(chan[h], u) /\ ~(h = g /\ Carries(chan[h], u) /\ Token(m, u))
              => AtMostOne(PostUp(chan, g, m)[h], u)
<1>1. PostUp(chan, g, m)[h] = chan[h] \/ (h = g /\ PostUp(chan, g, m)[h] = Append(chan[h], m))
  BY DEF PostUp, UpChannels
<1>2. chan[h] \in Seq(UpMessages)
  BY DEF UpChannels
<1>3. QED
  BY <1>1, <1>2, AppendToken

LEMMA PostDownToken ==
  ASSUME NEW chan \in DownChannels, NEW g \in Games, NEW h \in Games,
         NEW m \in DownMessages, NEW u
  PROVE  /\ Carries(PostDown(chan, g, m)[h], u) => Carries(chan[h], u) \/ (h = g /\ Token(m, u))
         /\ AtMostOne(chan[h], u) /\ ~(h = g /\ Carries(chan[h], u) /\ Token(m, u))
              => AtMostOne(PostDown(chan, g, m)[h], u)
<1>1. PostDown(chan, g, m)[h] = chan[h] \/ (h = g /\ PostDown(chan, g, m)[h] = Append(chan[h], m))
  BY DEF PostDown, DownChannels
<1>2. chan[h] \in Seq(DownMessages)
  BY DEF DownChannels
<1>3. QED
  BY <1>1, <1>2, AppendToken

LEMMA ReceiveToken ==
  ASSUME NEW S, NEW chan \in [Games -> Seq(S)], NEW g \in Games, NEW h \in Games,
         chan[g] # <<>>, NEW u
  PROVE  /\ Carries(Receive(chan, g)[h], u) => Carries(chan[h], u)
         /\ AtMostOne(chan[h], u) => AtMostOne(Receive(chan, g)[h], u)
         /\ Token(Head(chan[g]), u) => Carries(chan[g], u)
         /\ AtMostOne(chan[g], u) /\ Token(Head(chan[g]), u) => ~Carries(Receive(chan, g)[g], u)
<1>1. Receive(chan, g)[g] = Tail(chan[g]) /\ (h # g => Receive(chan, g)[h] = chan[h])
  BY DEF Receive
<1>2. QED
  BY <1>1, TailToken

\* Tenure(u) in the state after a step, with the primes on the variables.
TenureAfter(u) ==
  \A g \in Games :
    /\ AtMostOne(up'[g], u)
    /\ AtMostOne(down'[g], u)
    /\ ~(Carries(up'[g], u) /\ Carries(down'[g], u))
    /\ player'[g][u] # None => ~Carries(up'[g], u) /\ ~Carries(down'[g], u)
    /\ Carries(up'[g], u) \/ Carries(down'[g], u) \/ player'[g][u] # None
         => holder'[u] = g

LEMMA TenurePrime ==
  ASSUME NEW u, TenureAfter(u) PROVE Tenure(u)'
  BY DEF TenureAfter, Tenure, Carries, AtMostOne, Token

\* A step that brings no tenure of u anywhere keeps Tenure(u).
NothingNew(u) ==
  /\ \A h \in Games :
       /\ Carries(up'[h], u) => Carries(up[h], u)
       /\ Carries(down'[h], u) => Carries(down[h], u)
       /\ AtMostOne(up[h], u) => AtMostOne(up'[h], u)
       /\ AtMostOne(down[h], u) => AtMostOne(down'[h], u)
       /\ player'[h][u] # None => player[h][u] # None
  /\ holder'[u] = holder[u]

LEMMA NothingNewKeeps ==
  ASSUME NEW u, Tenure(u), NothingNew(u)
  PROVE  TenureAfter(u)
  BY DEF Tenure, TenureAfter, NothingNew

\* What a POST and a receive of this step do to the tenures in flight.
LEMMA PostedUp ==
  ASSUME up \in UpChannels, NEW g \in Games, NEW m \in UpMessages, NEW u, up' = PostUp(up, g, m)
  PROVE  \A h \in Games :
           /\ Carries(up'[h], u) => Carries(up[h], u) \/ (h = g /\ Token(m, u))
           /\ AtMostOne(up[h], u) /\ ~(h = g /\ Carries(up[h], u) /\ Token(m, u))
                => AtMostOne(up'[h], u)
  BY PostUpToken

LEMMA PostedDown ==
  ASSUME down \in DownChannels, NEW g \in Games, NEW m \in DownMessages, NEW u,
         down' = PostDown(down, g, m)
  PROVE  \A h \in Games :
           /\ Carries(down'[h], u) => Carries(down[h], u) \/ (h = g /\ Token(m, u))
           /\ AtMostOne(down[h], u) /\ ~(h = g /\ Carries(down[h], u) /\ Token(m, u))
                => AtMostOne(down'[h], u)
  BY PostDownToken

LEMMA ReceivedUp ==
  ASSUME up \in UpChannels, NEW g \in Games, NEW u, up[g] # <<>>, up' = Receive(up, g)
  PROVE  /\ Head(up[g]) \in UpMessages
         /\ \A h \in Games : /\ Carries(up'[h], u) => Carries(up[h], u)
                             /\ AtMostOne(up[h], u) => AtMostOne(up'[h], u)
         /\ Token(Head(up[g]), u) => Carries(up[g], u)
         /\ AtMostOne(up[g], u) /\ Token(Head(up[g]), u) => ~Carries(up'[g], u)
<1>1. up \in [Games -> Seq(UpMessages)]
  BY DEF UpChannels
<1>2. Head(up[g]) \in UpMessages
  BY <1>1
<1>3. QED
  BY <1>1, <1>2, ReceiveToken

LEMMA ReceivedDown ==
  ASSUME down \in DownChannels, NEW g \in Games, NEW u, down[g] # <<>>, down' = Receive(down, g)
  PROVE  /\ Head(down[g]) \in DownMessages
         /\ Head(down[g]).uid \in Uids /\ Head(down[g]).ver \in Nat
         /\ \A h \in Games : /\ Carries(down'[h], u) => Carries(down[h], u)
                             /\ AtMostOne(down[h], u) => AtMostOne(down'[h], u)
         /\ Token(Head(down[g]), u) => Carries(down[g], u)
         /\ AtMostOne(down[g], u) /\ Token(Head(down[g]), u) => ~Carries(down'[g], u)
<1>1. down \in [Games -> Seq(DownMessages)]
  BY DEF DownChannels
<1>2. Head(down[g]) \in DownMessages
  BY <1>1
<1>3. QED
  BY <1>1, <1>2, ReceiveToken, MessageFields

\* One step of the protocol keeps the tenure of a player in one place.
LEMMA TenureStep ==
  ASSUME TypeOK, [Next]_vars, NEW u \in Uids, ~stray[u], ~stray'[u], Tenure(u)
  PROVE  TenureAfter(u)
<1>0. up \in UpChannels /\ down \in DownChannels
  BY DEF TypeOK, UpChannels, DownChannels
\* Gates and Play leave tenures alone.
<1>1. ASSUME up' = up, down' = down, player' = player, holder' = holder PROVE TenureAfter(u)
  BY <1>1 DEF Tenure, TenureAfter
<1>2. ASSUME NEW s \in Socks, NEW v \in Uids, MSG_LOGIN(s, v) PROVE TenureAfter(u)
  BY <1>1, <1>2 DEF MSG_LOGIN, gameVars, globalVars
<1>3. ASSUME NEW s \in Socks, NEW g \in Games, MSG_ENTER(s, g) PROVE TenureAfter(u)
  BY <1>1, <1>3 DEF MSG_ENTER, gameVars, globalVars
<1>4. ASSUME NEW s \in Socks, player_disconnect(s) PROVE TenureAfter(u)
  BY <1>1, <1>4 DEF player_disconnect, gameVars, globalVars
<1>5. ASSUME NEW g \in Games, NEW v \in Uids, Play(g, v) PROVE TenureAfter(u)
  BY <1>1, <1>5 DEF Play, globalVars
<1>6. ASSUME NEW g \in Games, NEW gate \in Gates, PLAYER_ENTER(g, gate) PROVE TenureAfter(u)
  <2>1. PICK w \in Uids :
          up' = PostUp(up, g, Msg("ENTER", w)) /\ UNCHANGED <<down, player, holder>>
    BY <1>6, MessageFields DEF PLAYER_ENTER, Calls, globalVars, TypeOK
  <2>2. Msg("ENTER", w) \in UpMessages /\ ~Token(Msg("ENTER", w), u)
    BY MessageTypes DEF Msg, Token
  <2>3. NothingNew(u)
    BY <1>0, <2>1, <2>2, PostedUp DEF NothingNew
  <2>4. QED
    BY <2>3, NothingNewKeeps
\* PLAYER_EXIT sends EXIT only for a player it makes stray, another one than u.
<1>7. ASSUME NEW g \in Games, NEW gate \in Gates, PLAYER_EXIT(g, gate) PROVE TenureAfter(u)
  <2>1. PICK w \in Uids :
          /\ UNCHANGED <<down, player, holder>>
          /\ \/ /\ up' = PostUp(up, g, Msg("EXIT", w))
                /\ stray' = [stray EXCEPT ![w] = TRUE]
             \/ up' = PostUp(up, g, SaveRequest(g, w))
    BY <1>7, MessageFields DEF PLAYER_EXIT, player_logout, Calls, gameVars, globalVars, TypeOK
  <2>2. CASE up' = PostUp(up, g, Msg("EXIT", w)) /\ stray' = [stray EXCEPT ![w] = TRUE]
    <3>1. w # u
      BY <2>2 DEF TypeOK
    <3>2. Msg("EXIT", w) \in UpMessages /\ ~Token(Msg("EXIT", w), u)
      BY <3>1, MessageTypes DEF Msg, Token
    <3>3. NothingNew(u)
      BY <1>0, <2>1, <2>2, <3>2, PostedUp DEF NothingNew
    <3>4. QED
      BY <3>3, NothingNewKeeps
  <2>3. CASE up' = PostUp(up, g, SaveRequest(g, w))
    <3>1. data[g][w] \in Nat
      BY DEF TypeOK
    <3>2. SaveRequest(g, w) \in UpMessages /\ ~Token(SaveRequest(g, w), u)
      BY <3>1, MessageTypes DEF SaveRequest, DbMsg, Token
    <3>3. NothingNew(u)
      BY <1>0, <2>1, <2>3, <3>2, PostedUp DEF NothingNew
    <3>4. QED
      BY <3>3, NothingNewKeeps
  <2>4. QED
    BY <2>1, <2>2, <2>3
\* The game server receives: PASS becomes GET, GET_REPLY a session or EXIT, a
\* saved session EXIT.
<1>8. ASSUME NEW g \in Games, PLAYER_PASS(g) PROVE TenureAfter(u)
  <2>1. down[g] # <<>> /\ down' = Receive(down, g) /\ UNCHANGED <<player, holder>>
    BY <1>8 DEF PLAYER_PASS, Calls, gameVars, globalVars
  <2>2. PICK w \in Uids :
          /\ w = u => Token(Head(down[g]), u)
          /\ up' = up \/ up' = PostUp(up, g, Msg("GET", w))
    BY <1>0, <1>8, <2>1, ReceivedDown DEF PLAYER_PASS, Calls, Token
  <2>3. Msg("GET", w) \in UpMessages /\ (Token(Msg("GET", w), u) => w = u)
    BY MessageTypes DEF Msg, Token
  <2>4. \A h \in Games :
          /\ Carries(up'[h], u) => Carries(up[h], u) \/ (h = g /\ w = u)
          /\ AtMostOne(up[h], u) /\ ~(Carries(up[h], u) /\ h = g /\ w = u) => AtMostOne(up'[h], u)
    BY <1>0, <2>2, <2>3, PostedUp
  <2>5. QED
    BY <1>0, <2>1, <2>2, <2>4, ReceivedDown DEF Tenure, TenureAfter
<1>9. ASSUME NEW g \in Games, PLAYER_INSTEAD(g) PROVE TenureAfter(u)
  <2>1. down[g] # <<>> /\ down' = Receive(down, g) /\ UNCHANGED <<player, holder>>
    BY <1>9 DEF PLAYER_INSTEAD, player_logout, Calls, globalVars
  <2>2. PICK w \in Uids : up' = up \/ up' = PostUp(up, g, SaveRequest(g, w))
    BY <1>0, <1>9, <2>1, ReceivedDown DEF PLAYER_INSTEAD, player_logout
  <2>3. data[g][w] \in Nat
    BY DEF TypeOK
  <2>4. SaveRequest(g, w) \in UpMessages /\ ~Token(SaveRequest(g, w), u)
    BY <2>3, MessageTypes DEF SaveRequest, DbMsg, Token
  <2>5. \A h \in Games : /\ Carries(up'[h], u) => Carries(up[h], u)
                         /\ AtMostOne(up[h], u) => AtMostOne(up'[h], u)
    BY <1>0, <2>2, <2>4, PostedUp
  <2>6. NothingNew(u)
    BY <1>0, <2>1, <2>5, ReceivedDown DEF NothingNew
  <2>7. QED
    BY <2>6, NothingNewKeeps
<1>10. ASSUME NEW g \in Games, msg_db_srv_set_playerdata(g) PROVE TenureAfter(u)
  <2>1. down[g] # <<>> /\ down' = Receive(down, g) /\ UNCHANGED holder
    BY <1>10 DEF msg_db_srv_set_playerdata, SaveIgnored, Calls, globalVars
  <2>2. PICK w \in Uids :
          \/ UNCHANGED <<player, up>>
          \/ /\ player[g][w] # None
             /\ player' = [player EXCEPT ![g][w] = None]
             /\ up' = PostUp(up, g, Msg("EXIT", w))
    BY <1>0, <1>10, <2>1, ReceivedDown DEF msg_db_srv_set_playerdata, SaveIgnored
  <2>3. CASE UNCHANGED <<player, up>>
    <3>1. NothingNew(u)
      BY <1>0, <2>1, <2>3, ReceivedDown DEF NothingNew
    <3>2. QED
      BY <3>1, NothingNewKeeps
  <2>4. CASE /\ player[g][w] # None
             /\ player' = [player EXCEPT ![g][w] = None]
             /\ up' = PostUp(up, g, Msg("EXIT", w))
    <3>1. Msg("EXIT", w) \in UpMessages /\ (Token(Msg("EXIT", w), u) => w = u)
      BY MessageTypes DEF Msg, Token
    <3>2. \A h \in Games :
            /\ Carries(up'[h], u) => Carries(up[h], u) \/ (h = g /\ w = u)
            /\ AtMostOne(up[h], u) /\ ~(Carries(up[h], u) /\ h = g /\ w = u) => AtMostOne(up'[h], u)
      BY <1>0, <2>4, <3>1, PostedUp
    <3>3. /\ \A h \in Games : player'[h][u] # None => player[h][u] # None
          /\ w = u => player'[g][u] = None
      BY <2>4 DEF TypeOK
    <3>4. QED
      BY <1>0, <2>1, <2>4, <3>2, <3>3, ReceivedDown DEF Tenure, TenureAfter
  <2>5. QED
    BY <2>2, <2>3, <2>4
<1>11. ASSUME NEW g \in Games, msg_db_srv_get_playerdata(g) PROVE TenureAfter(u)
  <2>1. down[g] # <<>> /\ down' = Receive(down, g) /\ UNCHANGED holder
    BY <1>11 DEF msg_db_srv_get_playerdata, Calls, globalVars
  <2>2. PICK w \in Uids, ver \in Nat :
          /\ w = u => Token(Head(down[g]), u)
          /\ \/ up' = PostUp(up, g, Msg("EXIT", w)) /\ UNCHANGED player
             \/ /\ player' = [player EXCEPT ![g][w] = tmp[g][w]]
                /\ up' = up \/ up' = PostUp(up, g, DbMsg("SET", w, ver, 1))
    BY <1>0, <1>11, <2>1, ReceivedDown
    DEF msg_db_srv_get_playerdata, LoadRefused, LoadOnline, LoadSession, Calls, Token
  <2>3. CASE up' = PostUp(up, g, Msg("EXIT", w)) /\ UNCHANGED player
    <3>1. Msg("EXIT", w) \in UpMessages /\ (Token(Msg("EXIT", w), u) => w = u)
      BY MessageTypes DEF Msg, Token
    <3>2. \A h \in Games :
            /\ Carries(up'[h], u) => Carries(up[h], u) \/ (h = g /\ w = u)
            /\ AtMostOne(up[h], u) /\ ~(Carries(up[h], u) /\ h = g /\ w = u) => AtMostOne(up'[h], u)
      BY <1>0, <2>3, <3>1, PostedUp
    <3>3. QED
      BY <1>0, <2>1, <2>2, <2>3, <3>2, ReceivedDown DEF Tenure, TenureAfter
  <2>4. CASE /\ player' = [player EXCEPT ![g][w] = tmp[g][w]]
             /\ up' = up \/ up' = PostUp(up, g, DbMsg("SET", w, ver, 1))
    <3>1. DbMsg("SET", w, ver, 1) \in UpMessages /\ ~Token(DbMsg("SET", w, ver, 1), u)
      BY MessageTypes DEF DbMsg, Token
    <3>2. \A h \in Games : /\ Carries(up'[h], u) => Carries(up[h], u)
                           /\ AtMostOne(up[h], u) => AtMostOne(up'[h], u)
      BY <1>0, <2>4, <3>1, PostedUp
    <3>3. \A h \in Games : player'[h][u] # None => player[h][u] # None \/ (h = g /\ w = u)
      BY <2>4 DEF TypeOK
    <3>4. QED
      BY <1>0, <2>1, <2>2, <3>2, <3>3, ReceivedDown DEF Tenure, TenureAfter
  <2>5. QED
    BY <2>2, <2>3, <2>4
\* The global server receives: EXIT may become PASS, GET becomes GET_REPLY.
<1>12. ASSUME NEW g \in Games, CenterEnter(g) PROVE TenureAfter(u)
  <2>1. up[g] # <<>> /\ up' = Receive(up, g) /\ UNCHANGED player
    BY <1>12 DEF CenterEnter, Takeover, Calls, gameVars
  <2>2. Head(up[g]).uid \in Uids
    BY <1>0, <1>12, <2>1, ReceivedUp, MessageFields DEF CenterEnter, Takeover, Calls
  <2>3. PICK w \in Uids :
          \/ UNCHANGED <<holder, down>>
          \/ /\ holder[w] = None
             /\ holder' = [holder EXCEPT ![w] = g]
             /\ down' = PostDown(down, g, Msg("PASS", w))
          \/ /\ holder[w] # None
             /\ down' = PostDown(down, holder[w], Msg("INSTEAD", w))
             /\ UNCHANGED holder
    BY <1>12, <2>2 DEF CenterEnter, Takeover
  <2>4. CASE UNCHANGED <<holder, down>>
    <3>1. NothingNew(u)
      BY <1>0, <2>1, <2>4, ReceivedUp DEF NothingNew
    <3>2. QED
      BY <3>1, NothingNewKeeps
  <2>5. CASE /\ holder[w] = None
             /\ holder' = [holder EXCEPT ![w] = g]
             /\ down' = PostDown(down, g, Msg("PASS", w))
    <3>1. Msg("PASS", w) \in DownMessages /\ (Token(Msg("PASS", w), u) => w = u)
      BY MessageTypes DEF Msg, Token
    <3>2. \A h \in Games :
            /\ Carries(down'[h], u) => Carries(down[h], u) \/ (h = g /\ w = u)
            /\ AtMostOne(down[h], u) /\ ~(Carries(down[h], u) /\ h = g /\ w = u)
                 => AtMostOne(down'[h], u)
      BY <1>0, <2>5, <3>1, PostedDown
    <3>3. (w = u => holder[u] = None /\ holder'[u] = g) /\ (w # u => holder'[u] = holder[u])
      BY <2>5 DEF TypeOK
    <3>4. \A h \in Games : h # None
      BY LoginAssumption
    <3>5. QED
      BY <1>0, <2>1, <3>2, <3>3, <3>4, ReceivedUp DEF Tenure, TenureAfter
  <2>6. CASE /\ holder[w] # None
             /\ down' = PostDown(down, holder[w], Msg("INSTEAD", w))
             /\ UNCHANGED holder
    <3>1. holder[w] \in Games
      BY <2>6 DEF TypeOK
    <3>2. Msg("INSTEAD", w) \in DownMessages /\ ~Token(Msg("INSTEAD", w), u)
      BY MessageTypes DEF Msg, Token
    <3>3. \A h \in Games : /\ Carries(down'[h], u) => Carries(down[h], u)
                           /\ AtMostOne(down[h], u) => AtMostOne(down'[h], u)
      BY <1>0, <2>6, <3>1, <3>2, PostedDown
    <3>4. NothingNew(u)
      BY <1>0, <2>1, <2>6, <3>3, ReceivedUp DEF NothingNew
    <3>5. QED
      BY <3>4, NothingNewKeeps
  <2>7. QED
    BY <2>3, <2>4, <2>5, <2>6
<1>13. ASSUME NEW g \in Games, CenterExit(g) PROVE TenureAfter(u)
  <2>1. up[g] # <<>> /\ up' = Receive(up, g) /\ UNCHANGED player
    BY <1>13 DEF CenterExit, Calls, gameVars
  <2>2. Head(up[g]).uid \in Uids /\ (Head(up[g]).uid = u => Token(Head(up[g]), u))
    BY <1>0, <1>13, <2>1, ReceivedUp, MessageFields DEF CenterExit, Calls, Token
  <2>3. PICK w \in Uids :
          /\ w = u => Token(Head(up[g]), u)
          /\ \/ UNCHANGED <<holder, down>>
             \/ holder' = [holder EXCEPT ![w] = None] /\ UNCHANGED down
             \/ \E n \in game_manager : /\ holder' = [holder EXCEPT ![w] = n]
                                        /\ down' = PostDown(down, n, Msg("PASS", w))
    BY <1>13, <2>2 DEF CenterExit
  <2>4. CASE UNCHANGED <<holder, down>>
    <3>1. NothingNew(u)
      BY <1>0, <2>1, <2>4, ReceivedUp DEF NothingNew
    <3>2. QED
      BY <3>1, NothingNewKeeps
  <2>5. CASE holder' = [holder EXCEPT ![w] = None] /\ UNCHANGED down
    <3>1. w # u => holder'[u] = holder[u]
      BY <2>5 DEF TypeOK
    <3>2. QED
      BY <1>0, <2>1, <2>3, <2>5, <3>1, ReceivedUp DEF Tenure, TenureAfter
  <2>6. ASSUME NEW n \in game_manager,
               holder' = [holder EXCEPT ![w] = n],
               down' = PostDown(down, n, Msg("PASS", w))
        PROVE  TenureAfter(u)
    <3>1. n \in Games
      BY DEF TypeOK
    <3>2. Msg("PASS", w) \in DownMessages /\ (Token(Msg("PASS", w), u) => w = u)
      BY MessageTypes DEF Msg, Token
    <3>3. \A h \in Games :
            /\ Carries(down'[h], u) => Carries(down[h], u) \/ (h = n /\ w = u)
            /\ AtMostOne(down[h], u) /\ ~(Carries(down[h], u) /\ h = n /\ w = u)
                 => AtMostOne(down'[h], u)
      BY <1>0, <2>6, <3>1, <3>2, PostedDown
    <3>4. (w = u => holder'[u] = n) /\ (w # u => holder'[u] = holder[u])
      BY <2>6 DEF TypeOK
    <3>5. QED
      BY <1>0, <2>1, <2>3, <3>1, <3>3, <3>4, ReceivedUp DEF Tenure, TenureAfter
  <2>7. QED
    BY <2>3, <2>4, <2>5, <2>6
<1>14. ASSUME NEW g \in Games, DbGET(g) PROVE TenureAfter(u)
  <2>1. up[g] # <<>> /\ up' = Receive(up, g) /\ UNCHANGED <<player, holder>>
    BY <1>14 DEF DbGET, LoadFailed, Calls, gameVars, globalVars
  <2>2. Head(up[g]).uid \in Uids /\ (Head(up[g]).uid = u => Token(Head(up[g]), u))
    BY <1>0, <1>14, <2>1, ReceivedUp, MessageFields DEF DbGET, LoadFailed, Calls, Token
  <2>3. PICK w \in Uids, v \in Nat, r \in {0, 1} :
          /\ w = u => Token(Head(up[g]), u)
          /\ down' = PostDown(down, g, DbMsg("GET_REPLY", w, v, r))
    BY <1>14, <2>2 DEF DbGET, LoadFailed, TypeOK
  <2>4. /\ DbMsg("GET_REPLY", w, v, r) \in DownMessages
        /\ Token(DbMsg("GET_REPLY", w, v, r), u) => w = u
    BY MessageTypes DEF DbMsg, Token
  <2>5. \A h \in Games :
          /\ Carries(down'[h], u) => Carries(down[h], u) \/ (h = g /\ w = u)
          /\ AtMostOne(down[h], u) /\ ~(Carries(down[h], u) /\ h = g /\ w = u)
               => AtMostOne(down'[h], u)
    BY <1>0, <2>3, <2>4, PostedDown
  <2>6. QED
    BY <1>0, <2>1, <2>3, <2>5, ReceivedUp DEF Tenure, TenureAfter
<1>15. ASSUME NEW g \in Games, DbSET(g) PROVE TenureAfter(u)
  <2>1. up[g] # <<>> /\ up' = Receive(up, g) /\ UNCHANGED <<player, holder>>
    BY <1>15 DEF DbSET, Calls, gameVars
  <2>2. Head(up[g]).uid \in Uids
    BY <1>0, <1>15, <2>1, ReceivedUp, MessageFields DEF DbSET, Calls
  <2>3. PICK w \in Uids, r \in {0, 1} :
          \/ down' = PostDown(down, g, SetReply(w, r))
          \/ down' = PostDown(PostDown(down, g, SetReply(w, 0)), g, SetReply(w, r))
    BY <1>15, <2>2 DEF DbSET
  <2> DEFINE once(x) == PostDown(down, g, SetReply(w, x))
  <2>4. \A x \in {0, 1} : SetReply(w, x) \in DownMessages /\ ~Token(SetReply(w, x), u)
    BY MessageTypes DEF SetReply, DbMsg, Token
  <2>5. once(0) \in DownChannels
    BY <1>0, <2>4, DownTypes
  <2>6. \A x \in {0, 1} : \A h \in Games :
          /\ Carries(once(x)[h], u) => Carries(down[h], u)
          /\ AtMostOne(down[h], u) => AtMostOne(once(x)[h], u)
    BY <1>0, <2>4, PostDownToken
  <2>7. \A h \in Games :
          /\ Carries(PostDown(once(0), g, SetReply(w, r))[h], u) => Carries(once(0)[h], u)
          /\ AtMostOne(once(0)[h], u) => AtMostOne(PostDown(once(0), g, SetReply(w, r))[h], u)
    BY <2>4, <2>5, PostDownToken
  <2>8. \A h \in Games : /\ Carries(down'[h], u) => Carries(down[h], u)
                         /\ AtMostOne(down[h], u) => AtMostOne(down'[h], u)
    BY <2>3, <2>6, <2>7
  <2>9. NothingNew(u)
    BY <1>0, <2>1, <2>8, ReceivedUp DEF NothingNew
  <2>10. QED
    BY <2>9, NothingNewKeeps
\* Connections: a loss empties the channels, a registration carries no tenure.
<1>16. ASSUME NEW g \in Games, LinkDown(g) PROVE TenureAfter(u)
  <2>1. \A h \in Games : (up'[h] = up[h] \/ up'[h] = <<>>) /\ (down'[h] = down[h] \/ down'[h] = <<>>)
    BY <1>0, <1>16 DEF LinkDown, UpChannels, DownChannels
  <2>2. ~Carries(<<>>, u) /\ AtMostOne(<<>>, u)
    BY DEF Carries, AtMostOne
  <2>3. UNCHANGED <<player, holder>>
    BY <1>16 DEF LinkDown, gameVars
  <2>4. NothingNew(u)
    BY <2>1, <2>2, <2>3 DEF NothingNew
  <2>5. QED
    BY <2>4, NothingNewKeeps
<1>17. ASSUME NEW g \in Games, LinkUp(g) PROVE TenureAfter(u)
  <2> DEFINE q == <<Msg("REGIST_SRVID", None), Msg("REGIST", None)>>
  <2>1. \A i \in 1..Len(q) : ~Token(q[i], u)
    BY DEF Msg, Token
  <2>2. ~Carries(q, u) /\ AtMostOne(q, u)
    BY <2>1 DEF Carries, AtMostOne
  <2>3. \A h \in Games : up'[h] = up[h] \/ up'[h] = q
    BY <1>0, <1>17 DEF LinkUp, UpChannels
  <2>4. UNCHANGED <<player, holder, down>>
    BY <1>17 DEF LinkUp, gameVars, globalVars
  <2>5. NothingNew(u)
    <3> HIDE DEF q
    <3>1. QED
      BY <2>2, <2>3, <2>4 DEF NothingNew
  <2>6. QED
    BY <2>5, NothingNewKeeps
<1>18. ASSUME NEW g \in Games, RegistSrvid(g) \/ REGIST(g) PROVE TenureAfter(u)
  <2>1. up[g] # <<>> /\ up' = Receive(up, g) /\ UNCHANGED <<player, holder, down>>
    BY <1>18 DEF RegistSrvid, REGIST, Calls, gameVars, globalVars
  <2>2. NothingNew(u)
    BY <1>0, <2>1, ReceivedUp DEF NothingNew
  <2>3. QED
    BY <2>2, NothingNewKeeps
<1>19. CASE UNCHANGED vars
  BY <1>1, <1>19 DEF vars
<1>20. QED
  BY <1>2, <1>3, <1>4, <1>5, <1>6, <1>7, <1>8, <1>9, <1>10, <1>11, <1>12, <1>13, <1>14,
     <1>15, <1>16, <1>17, <1>18, <1>19
  DEF Next, GateStep, GameStep, GlobalStep

\* A uid for which a stray PLAYER_EXIT was sent is never cleared again.
LEMMA StrayStays ==
  ASSUME TypeOK, [Next]_vars, NEW u \in Uids, stray[u]
  PROVE  stray'[u]
<1>1. CASE \E g \in Games, gate \in Gates : PLAYER_EXIT(g, gate)
  BY <1>1 DEF PLAYER_EXIT, TypeOK
<1>2. CASE GateStep \/ UNCHANGED vars
  BY <1>2 DEF GateStep, MSG_LOGIN, MSG_ENTER, player_disconnect, vars
<1>3. CASE \E g \in Games :
             \/ \E gate \in Gates : PLAYER_ENTER(g, gate)
             \/ PLAYER_PASS(g) \/ PLAYER_INSTEAD(g) \/ msg_db_srv_set_playerdata(g)
             \/ msg_db_srv_get_playerdata(g) \/ \E v \in Uids : Play(g, v)
  BY <1>3 DEF PLAYER_ENTER, PLAYER_PASS, PLAYER_INSTEAD, msg_db_srv_set_playerdata,
              msg_db_srv_get_playerdata, Play
<1>4. CASE \E g \in Games : GlobalStep(g) \/ LinkDown(g) \/ LinkUp(g)
  BY <1>4 DEF GlobalStep, CenterEnter, CenterExit, DbGET, DbSET, RegistSrvid, REGIST,
              LinkDown, LinkUp
<1>5. QED
  BY <1>1, <1>2, <1>3, <1>4 DEF Next, GameStep

\* The tenure of a player is in one place, the server that the center's record
\* names: PASS, GET, GET_REPLY, the session, or EXIT.
THEOREM TenureIsUnique == Spec => []TenureUnique
<1>1. Init => TenureUnique
  BY DEF Init, TenureUnique, Tenure, Carries, AtMostOne
<1>2. TypeOK /\ TenureUnique /\ [Next]_vars => TenureUnique'
  <2> SUFFICES ASSUME TypeOK, TenureUnique, [Next]_vars, NEW u \in Uids, ~stray'[u]
               PROVE  Tenure(u)'
    BY DEF TenureUnique
  <2>1. ~stray[u]
    BY StrayStays
  <2>2. QED
    BY <2>1, TenureStep, TenurePrime DEF TenureUnique
<1>3. QED
  BY <1>1, <1>2, TypeCorrect, PTL DEF Spec

\* Exclusion of the login protocol: unless a game server reported the exit of
\* a player that was not online there, a player is online on no server but the
\* one that the center's record names.
THEOREM OnlyHolderOnline == Spec => []ExclusiveUnlessStray
<1>1. TenureUnique => ExclusiveUnlessStray
  BY DEF TenureUnique, Tenure, ExclusiveUnlessStray, Online
<1>2. QED
  BY <1>1, TenureIsUnique, PTL

-----------------------------------------------------------------------------
(* The counters of players *)

\* The players of a game and the records of the center, of these tables.
Players(tab) == {u \in Uids : tab[u] # None}

\* A table that gets, loses or keeps the entry of a uid.
LEMMA Entry ==
  ASSUME NEW tab, NEW after, NEW w \in Uids, \A u \in Uids \ {w} : after[u] = tab[u]
  PROVE  /\ Cardinality(Players(tab)) \in Nat
         /\ tab[w] = None /\ after[w] # None => Cardinality(Players(after)) = Cardinality(Players(tab)) + 1
         /\ tab[w] # None /\ after[w] = None => Cardinality(Players(after)) = Cardinality(Players(tab)) - 1
         /\ tab[w] # None /\ after[w] # None => Cardinality(Players(after)) = Cardinality(Players(tab))
<1> DEFINE S == Players(tab)  T == Players(after)
<1>1. IsFiniteSet(S) /\ Cardinality(S) \in Nat
  <2>1. IsFiniteSet(Uids) /\ S \in SUBSET Uids
    BY LoginAssumption DEF Players
  <2>2. IsFiniteSet(S)
    BY <2>1, FS_Subset, Zenon
  <2> QED
    BY <2>2, FS_CardinalityType
<1>2. CASE tab[w] = None /\ after[w] # None
  <2>1. T = S \cup {w} /\ w \notin S
    BY <1>2 DEF Players
  <2> HIDE DEF S, T
  <2>2. Cardinality(S \cup {w}) = Cardinality(S) + 1
    BY <1>1, <2>1, FS_AddElement
  <2>3. Cardinality(T) = Cardinality(S) + 1
    BY <2>1, <2>2
  <2> QED
    BY <1>1, <1>2, <2>3 DEF S, T
<1>3. CASE tab[w] # None /\ after[w] = None
  <2>1. T = S \ {w} /\ w \in S
    BY <1>3 DEF Players
  <2> HIDE DEF S, T
  <2>2. Cardinality(S \ {w}) = Cardinality(S) - 1
    BY <1>1, <2>1, FS_RemoveElement
  <2>3. Cardinality(T) = Cardinality(S) - 1
    BY <2>1, <2>2
  <2> QED
    BY <1>1, <1>3, <2>3 DEF S, T
<1>4. CASE tab[w] # None /\ after[w] # None
  <2>1. T = S
    BY <1>4 DEF Players
  <2> QED
    BY <1>1, <1>4, <2>1
<1>5. CASE tab[w] = None /\ after[w] = None
  BY <1>1, <1>5
<1> QED
  BY <1>2, <1>3, <1>4, <1>5

\* onlinenum of the games, and of the center.
GamesCounted  == \A g \in Games : gonline[g] = Cardinality(Players(player[g]))
CenterCounted == conline = Cardinality(Players(holder))

\* A game counts a session when it is made and when the save that ends it was
\* answered, and not when the player only changes its gate.
LEMMA GamesCountStep ==
  ASSUME TypeOK, GamesCounted, [Next]_vars
  PROVE  GamesCounted'
<1>0. /\ player \in [Games -> [Uids -> Gates \cup {None}]]
      /\ tmp \in [Games -> [Uids -> Gates \cup {None}]]
      /\ gonline \in [Games -> Int] /\ down \in DownChannels
  BY DEF TypeOK, DownChannels
<1>1. ASSUME player' = player, gonline' = gonline PROVE GamesCounted'
  BY <1>1 DEF GamesCounted, Players
<1>2. ASSUME NEW g \in Games, NEW w \in Uids, NEW to, NEW d \in {-1, 0, 1},
             player' = [player EXCEPT ![g][w] = to], gonline' = [gonline EXCEPT ![g] = @ + d],
             \/ d = 1 /\ player[g][w] = None /\ to # None
             \/ d = -1 /\ player[g][w] # None /\ to = None
             \/ d = 0 /\ player[g][w] # None /\ to # None
      PROVE  GamesCounted'
  <2>1. /\ \A h \in Games \ {g} : player'[h] = player[h] /\ gonline'[h] = gonline[h]
        /\ gonline'[g] = gonline[g] + d /\ player'[g][w] = to
        /\ \A u \in Uids \ {w} : player'[g][u] = player[g][u]
    BY <1>0, <1>2
  <2>2. gonline[g] = Cardinality(Players(player[g]))
    BY DEF GamesCounted
  <2> DEFINE tab == player[g]  after == player'[g]
  <2>3. \A u \in Uids \ {w} : after[u] = tab[u]
    BY <2>1
  <2>4. gonline'[g] = Cardinality(Players(after))
    <3>1. after[w] = to
      BY <2>1
    <3>2. gonline'[g] = Cardinality(Players(tab)) + d
      BY <2>1, <2>2
    <3> HIDE DEF tab, after
    <3>3. /\ Cardinality(Players(tab)) \in Nat
          /\ tab[w] = None /\ after[w] # None => Cardinality(Players(after)) = Cardinality(Players(tab)) + 1
          /\ tab[w] # None /\ after[w] = None => Cardinality(Players(after)) = Cardinality(Players(tab)) - 1
          /\ tab[w] # None /\ after[w] # None => Cardinality(Players(after)) = Cardinality(Players(tab))
      BY <2>3, Entry, Zenon
    <3>4. \/ d = 1 /\ tab[w] = None /\ to # None
          \/ d = -1 /\ tab[w] # None /\ to = None
          \/ d = 0 /\ tab[w] # None /\ to # None
      BY <1>2 DEF tab
    <3> QED
      BY <3>1, <3>2, <3>3, <3>4
  <2>5. \A h \in Games : gonline'[h] = Cardinality(Players(player'[h]))
    BY <2>1, <2>4 DEF GamesCounted
  <2> QED
    BY <2>5 DEF GamesCounted, Players
<1>3. ASSUME NEW g \in Games, msg_db_srv_set_playerdata(g) PROVE GamesCounted'
  <2> DEFINE w == Head(down[g]).uid
  <2>1. w \in Uids
    BY <1>0, <1>3, ReceivedDown DEF msg_db_srv_set_playerdata, Calls
  <2>2. CASE SaveIgnored(g, w, Head(down[g]).result) /\ UNCHANGED <<player, data, gonline, up>>
    BY <1>1, <2>2
  <2>3. CASE /\ ~SaveIgnored(g, w, Head(down[g]).result)
             /\ player' = [player EXCEPT ![g][w] = None]
             /\ gonline' = [gonline EXCEPT ![g] = @ - 1]
    <3>1. player[g][w] # None
      BY <2>3 DEF SaveIgnored
    <3>2. gonline' = [gonline EXCEPT ![g] = @ + (-1)] /\ -1 \in {-1, 0, 1}
      BY <1>0, <2>3
    <3> HIDE DEF w
    <3> QED
      BY <1>2, <2>1, <2>3, <3>1, <3>2
  <2> QED
    BY <1>3, <2>2, <2>3 DEF msg_db_srv_set_playerdata
<1>4. ASSUME NEW g \in Games, msg_db_srv_get_playerdata(g) PROVE GamesCounted'
  <2> DEFINE m == Head(down[g])  w == m.uid
  <2>1. w \in Uids
    BY <1>0, <1>4, ReceivedDown DEF msg_db_srv_get_playerdata, Calls
  <2>2. CASE LoadRefused(g, w)
    BY <1>1, <2>2 DEF LoadRefused
  <2>3. CASE tmp[g][w] # None /\ player[g][w] # None /\ LoadOnline(g, w)
    <3>1. player' = [player EXCEPT ![g][w] = tmp[g][w]] /\ gonline' = gonline
      BY <2>3 DEF LoadOnline
    <3>2. gonline' = [gonline EXCEPT ![g] = @ + 0] /\ 0 \in {-1, 0, 1}
      BY <1>0, <3>1
    <3> HIDE DEF w
    <3> QED
      BY <1>2, <2>1, <2>3, <3>1, <3>2
  <2>4. CASE tmp[g][w] # None /\ player[g][w] = None /\ LoadSession(g, w, m.ver)
    <3>1. player' = [player EXCEPT ![g][w] = tmp[g][w]] /\ gonline' = [gonline EXCEPT ![g] = @ + 1]
      BY <2>4 DEF LoadSession
    <3> HIDE DEF w
    <3> QED
      BY <1>2, <2>1, <2>4, <3>1
  <2> QED
    BY <1>4, <2>2, <2>3, <2>4 DEF msg_db_srv_get_playerdata
<1>5. CASE GateStep \/ UNCHANGED vars
  <2>1. player' = player /\ gonline' = gonline
    BY <1>5 DEF GateStep, MSG_LOGIN, MSG_ENTER, player_disconnect, vars, gameVars
  <2> QED
    BY <1>1, <2>1
<1>6. CASE \E g \in Games :
             \/ \E gate \in Gates : PLAYER_ENTER(g, gate) \/ PLAYER_EXIT(g, gate)
             \/ PLAYER_PASS(g) \/ PLAYER_INSTEAD(g) \/ \E v \in Uids : Play(g, v)
  <2>1. player' = player /\ gonline' = gonline
    BY <1>6 DEF PLAYER_ENTER, PLAYER_EXIT, PLAYER_PASS, PLAYER_INSTEAD, Play, gameVars
  <2> QED
    BY <1>1, <2>1
<1>7. CASE \E g \in Games : GlobalStep(g) \/ LinkDown(g) \/ LinkUp(g)
  <2>1. player' = player /\ gonline' = gonline
    BY <1>7 DEF GlobalStep, CenterEnter, CenterExit, DbGET, DbSET, RegistSrvid, REGIST,
                LinkDown, LinkUp, gameVars
  <2> QED
    BY <1>1, <2>1
<1> QED
  BY <1>3, <1>4, <1>5, <1>6, <1>7 DEF Next, GameStep

\* The center counts a record when it is made and when it is deleted, and not when
\* it is handed on.
LEMMA CenterCountStep ==
  ASSUME TypeOK, CenterCounted, [Next]_vars
  PROVE  CenterCounted'
<1>0. /\ holder \in [Uids -> Games \cup {None}] /\ conline \in Int
      /\ up \in UpChannels /\ None \notin Games /\ game_manager \subseteq Games
  BY LoginAssumption DEF TypeOK, UpChannels
<1>1. ASSUME holder' = holder, conline' = conline PROVE CenterCounted'
  BY <1>1 DEF CenterCounted, Players
<1>2. ASSUME NEW w \in Uids, NEW to, NEW d \in {-1, 0, 1},
             holder' = [holder EXCEPT ![w] = to], conline' = conline + d,
             \/ d = 1 /\ holder[w] = None /\ to # None
             \/ d = -1 /\ holder[w] # None /\ to = None
             \/ d = 0 /\ holder[w] # None /\ to # None
      PROVE  CenterCounted'
  <2> DEFINE after == holder'
  <2>1. after[w] = to /\ \A u \in Uids \ {w} : after[u] = holder[u]
    BY <1>0, <1>2
  <2>2. conline' = Cardinality(Players(holder)) + d
    BY <1>2 DEF CenterCounted
  <2>3. conline' = Cardinality(Players(after))
    <3> HIDE DEF after
    <3>1. /\ Cardinality(Players(holder)) \in Nat
          /\ holder[w] = None /\ after[w] # None => Cardinality(Players(after)) = Cardinality(Players(holder)) + 1
          /\ holder[w] # None /\ after[w] = None => Cardinality(Players(after)) = Cardinality(Players(holder)) - 1
          /\ holder[w] # None /\ after[w] # None => Cardinality(Players(after)) = Cardinality(Players(holder))
      BY <2>1, Entry, Zenon
    <3> QED
      BY <1>2, <2>1, <2>2, <3>1
  <2> QED
    BY <2>3 DEF CenterCounted, Players
<1>3. ASSUME NEW g \in Games, CenterEnter(g) PROVE CenterCounted'
  <2> DEFINE w == Head(up[g]).uid
  <2>1. w \in Uids
    <3>1. Head(up[g]) \in UpMessages /\ Head(up[g]).type = "ENTER"
      BY <1>0, <1>3 DEF CenterEnter, Calls, UpChannels
    <3> QED
      BY <3>1, MessageFields
  <2>2. CASE UNCHANGED <<holder, conline>>
    BY <1>1, <2>2
  <2>3. CASE holder[w] = None /\ holder' = [holder EXCEPT ![w] = g] /\ conline' = conline + 1
    <3> HIDE DEF w
    <3>1. g # None /\ 1 \in {-1, 0, 1}
      BY <1>0
    <3> QED
      BY <1>2, <2>1, <2>3, <3>1
  <2> QED
    BY <1>3, <2>2, <2>3 DEF CenterEnter, Takeover
<1>4. ASSUME NEW g \in Games, CenterExit(g) PROVE CenterCounted'
  <2> DEFINE w == Head(up[g]).uid  next == instead[w]
  <2>1. w \in Uids
    <3>1. Head(up[g]) \in UpMessages /\ Head(up[g]).type = "EXIT"
      BY <1>0, <1>4 DEF CenterExit, Calls, UpChannels
    <3> QED
      BY <3>1, MessageFields
  <2>2. CASE UNCHANGED <<holder, conline>>
    BY <1>1, <2>2
  <2>3. CASE holder[w] = g /\ holder' = [holder EXCEPT ![w] = None] /\ conline' = conline - 1
    <3> HIDE DEF w
    <3>1. g # None /\ -1 \in {-1, 0, 1} /\ conline' = conline + (-1)
      BY <1>0, <2>3
    <3> QED
      BY <1>2, <2>1, <2>3, <3>1
  <2>4. CASE holder[w] = g /\ next \in game_manager /\ holder' = [holder EXCEPT ![w] = next] /\ conline' = conline
    <3> HIDE DEF w, next
    <3>1. g # None /\ next # None /\ 0 \in {-1, 0, 1} /\ conline' = conline + 0
      BY <1>0, <2>4
    <3> QED
      BY <1>2, <2>1, <2>4, <3>1
  <2> QED
    BY <1>4, <2>2, <2>3, <2>4 DEF CenterExit
<1>5. CASE GateStep \/ UNCHANGED vars
  <2>1. holder' = holder /\ conline' = conline
    BY <1>5 DEF GateStep, MSG_LOGIN, MSG_ENTER, player_disconnect, vars, globalVars
  <2> QED
    BY <1>1, <2>1
<1>6. CASE \E g \in Games : GameStep(g) \/ \E v \in Uids : Play(g, v)
  <2>1. holder' = holder /\ conline' = conline
    BY <1>6 DEF GameStep, PLAYER_ENTER, PLAYER_EXIT, PLAYER_PASS, PLAYER_INSTEAD, Play,
                msg_db_srv_set_playerdata, msg_db_srv_get_playerdata, globalVars
  <2> QED
    BY <1>1, <2>1
<1>7. CASE \E g \in Games : DbGET(g) \/ DbSET(g) \/ RegistSrvid(g) \/ REGIST(g) \/ LinkDown(g) \/ LinkUp(g)
  <2>1. holder' = holder /\ conline' = conline
    BY <1>7 DEF DbGET, DbSET, RegistSrvid, REGIST, LinkDown, LinkUp, globalVars
  <2> QED
    BY <1>1, <2>1
<1> QED
  BY <1>3, <1>4, <1>5, <1>6, <1>7 DEF Next, GlobalStep

\* onlinenum of every game and of the center is the number of players that are
\* there, through takeovers, repeated saves, failed loads and lost connections.
THEOREM CountersRight == Spec => []CountsAgree
<1>1. Init => GamesCounted /\ CenterCounted
  <2> SUFFICES ASSUME Init PROVE GamesCounted /\ CenterCounted
    OBVIOUS
  <2>1. Cardinality({}) = 0
    BY FS_EmptySet
  <2>2. Players(holder) = {} /\ \A g \in Games : Players(player[g]) = {}
    BY DEF Init, Players
  <2> QED
    BY <2>1, <2>2 DEF Init, GamesCounted, CenterCounted
<1>2. TypeOK /\ GamesCounted /\ CenterCounted /\ [Next]_vars => (GamesCounted /\ CenterCounted)'
  BY GamesCountStep, CenterCountStep
<1>3. GamesCounted /\ CenterCounted => CountsAgree
  BY DEF GamesCounted, CenterCounted, CountsAgree, Players
<1> QED
  BY <1>1, <1>2, <1>3, TypeCorrect, PTL DEF Spec

-----------------------------------------------------------------------------
(* Saves, their replies, and the loads that follow them *)

IsSave(m, u)   == m.type = "SET" /\ m.uid = u
IsReply(m, u)  == m.type = "SET_REPLY" /\ m.uid = u
IsLoaded(m, u) == m.type = "GET_REPLY" /\ m.uid = u

\* A save on its way has its session, or what ended the session is behind it.
Backed(q, on, u) ==
  \A i \in 1..Len(q) : IsSave(q[i], u) => on \/ \E j \in 1..Len(q) : i < j /\ Token(q[j], u)
AllBacked == \A u \in Uids, g \in Games : Backed(up[g], player[g][u] # None, u)

\* A server without a connection has nothing on its way.
Offline == \A g \in Games : g \notin conn => up[g] = <<>>

\* The replies to saves are in front of what begins the next session.
RepliesFirst(q, u) ==
  \A i, j \in 1..Len(q) :
    /\ q[i].uid = u /\ q[i].type \in {"PASS", "GET_REPLY"}
    /\ IsReply(q[j], u)
    => j < i

\* The saves in a queue are in order and none is older than d; none is newer
\* than v; a load answers d.
Ordered(q, d, u) ==
  \A i \in 1..Len(q) : IsSave(q[i], u) =>
    d <= q[i].ver /\ \A j \in i..Len(q) : IsSave(q[j], u) => q[i].ver <= q[j].ver
UpTo(q, v, u)    == \A i \in 1..Len(q) : IsSave(q[i], u) => q[i].ver <= v
Answers(q, d, u) == \A i \in 1..Len(q) : IsLoaded(q[i], u) => q[i].ver = d

\* What is stored is not newer than what is on its way to be saved, than what
\* the session has, and is what a load answers.
Newest(u) ==
  \E d \in Nat :
    /\ db[u] = {d}
    /\ \A g \in Games :
         /\ Ordered(up[g], d, u) /\ Answers(down[g], d, u)
         /\ player[g][u] # None => d <= data[g][u] /\ UpTo(up[g], data[g][u], u)

\* What an append and a receive do to a queue of requests.
LEMMA AppendSaves ==
  ASSUME NEW q \in Seq(UpMessages), NEW m \in UpMessages, NEW u, NEW d \in Nat, NEW v \in Nat,
         NEW on \in BOOLEAN, NEW after \in BOOLEAN
  PROVE  /\ Backed(q, on, u) /\ (IsSave(m, u) => after) /\ (on => after \/ Token(m, u))
              => Backed(Append(q, m), after, u)
         /\ Ordered(q, d, u) /\ (IsSave(m, u) => d <= m.ver /\ UpTo(q, m.ver, u))
              => Ordered(Append(q, m), d, u)
         /\ UpTo(q, v, u) /\ (IsSave(m, u) => m.ver <= v) => UpTo(Append(q, m), v, u)
<1> DEFINE r == Append(q, m)  n == Len(q)
<1>1. /\ n \in Nat /\ Len(r) = n + 1 /\ r[n + 1] = m
      /\ \A i \in 1..n : r[i] = q[i]
  OBVIOUS
<1>2. /\ \A i \in 1..Len(r) : i \in 1..n \/ i = n + 1
      /\ \A i \in 1..n : i \in 1..Len(r) /\ i < n + 1
      /\ n + 1 \in 1..Len(r)
      /\ \A i \in 1..n : \A j \in i..Len(r) : j \in i..n \/ j = n + 1
      /\ \A j \in (n + 1)..Len(r) : j = n + 1
  BY <1>1
<1>3. ASSUME Backed(q, on, u), IsSave(m, u) => after, on => after \/ Token(m, u)
      PROVE  Backed(r, after, u)
  <2> HIDE DEF r, n
  <2> SUFFICES ASSUME NEW i \in 1..Len(r), IsSave(r[i], u), ~after
               PROVE  \E j \in 1..Len(r) : i < j /\ Token(r[j], u)
    BY DEF Backed
  <2>1. i \in 1..n
    BY <1>1, <1>2, <1>3
  <2>2. CASE on
    BY <1>1, <1>2, <1>3, <2>1, <2>2
  <2>3. CASE ~on
    <3>1. PICK j \in 1..n : i < j /\ Token(q[j], u)
      BY <1>1, <1>3, <2>1, <2>3 DEF Backed, n
    <3> QED
      BY <1>1, <1>2, <3>1
  <2> QED
    BY <2>2, <2>3
<1>4. ASSUME Ordered(q, d, u), IsSave(m, u) => d <= m.ver /\ UpTo(q, m.ver, u)
      PROVE  Ordered(r, d, u)
  <2> HIDE DEF r
  <2> SUFFICES ASSUME NEW i \in 1..Len(r), IsSave(r[i], u)
               PROVE  d <= r[i].ver /\ \A j \in i..Len(r) : IsSave(r[j], u) => r[i].ver <= r[j].ver
    BY DEF Ordered
  <2>1. CASE i \in 1..n
    <3>1. r[i] = q[i] /\ IsSave(q[i], u)
      BY <1>1, <2>1
    <3>2. d <= q[i].ver /\ \A j \in i..n : IsSave(q[j], u) => q[i].ver <= q[j].ver
      BY <1>4, <2>1, <3>1 DEF Ordered
    <3>3. IsSave(m, u) => q[i].ver <= m.ver
      BY <1>4, <2>1, <3>1 DEF UpTo
    <3>4. \A j \in i..n : j \in 1..n
      BY <1>1, <2>1
    <3> HIDE DEF n
    <3> QED
      BY <1>1, <1>2, <2>1, <3>1, <3>2, <3>3, <3>4
  <2>2. CASE i = n + 1
    <3>1. m.ver \in Nat
      BY <1>1, <2>2, MessageFields DEF IsSave
    <3> QED
      BY <1>1, <1>2, <1>4, <2>2, <3>1
  <2> QED
    BY <1>2, <2>1, <2>2
<1>5. ASSUME UpTo(q, v, u), IsSave(m, u) => m.ver <= v PROVE UpTo(r, v, u)
  BY <1>1, <1>2, <1>5 DEF UpTo
<1> QED
  BY <1>3, <1>4, <1>5

LEMMA TailSaves ==
  ASSUME NEW q \in Seq(UpMessages), q # <<>>, NEW u, NEW d \in Nat, NEW v \in Nat, NEW on \in BOOLEAN
  PROVE  /\ Backed(q, on, u) => Backed(Tail(q), on, u)
         /\ Ordered(q, d, u) => Ordered(Tail(q), d, u)
         /\ UpTo(q, v, u) => UpTo(Tail(q), v, u)
         /\ Ordered(q, d, u) /\ IsSave(Head(q), u) =>
              d <= Head(q).ver /\ Ordered(Tail(q), Head(q).ver, u)
         /\ UpTo(q, v, u) /\ IsSave(Head(q), u) => Head(q).ver <= v
         /\ Backed(q, on, u) /\ IsSave(Head(q), u) => on \/ Carries(Tail(q), u)
<1> DEFINE r == Tail(q)  n == Len(q)
<1>1. /\ n \in Nat /\ n > 0 /\ Len(r) = n - 1 /\ Head(q) = q[1]
      /\ \A i \in 1..Len(r) : r[i] = q[i + 1]
  OBVIOUS
<1>2. /\ \A i \in 1..Len(r) : i + 1 \in 1..n /\ i + 1 \in 1..n
      /\ \A j \in 1..n : 1 < j => j - 1 \in 1..Len(r) /\ r[j - 1] = q[j]
      /\ \A i \in 1..Len(r) : \A j \in 1..n : i + 1 < j => 1 < j /\ i < j - 1
      /\ \A i \in 1..Len(r) : \A j \in i..Len(r) : j + 1 \in (i + 1)..n /\ j \in 1..Len(r)
      /\ 1 \in 1..n
  BY <1>1
<1> HIDE DEF r, n
<1>3. ASSUME Backed(q, on, u) PROVE Backed(r, on, u)
  <2> SUFFICES ASSUME NEW i \in 1..Len(r), IsSave(r[i], u), ~on
               PROVE  \E j \in 1..Len(r) : i < j /\ Token(r[j], u)
    BY DEF Backed
  <2>1. i + 1 \in 1..n /\ IsSave(q[i + 1], u)
    BY <1>1, <1>2
  <2>2. PICK j \in 1..n : i + 1 < j /\ Token(q[j], u)
    BY <1>3, <2>1 DEF Backed, n
  <2> QED
    BY <1>2, <2>2
<1>4. ASSUME Ordered(q, d, u), NEW e, \A i \in 1..Len(r) : IsSave(r[i], u) => e <= r[i].ver
      PROVE  Ordered(r, e, u)
  <2> SUFFICES ASSUME NEW i \in 1..Len(r), IsSave(r[i], u), NEW j \in i..Len(r), IsSave(r[j], u)
               PROVE  r[i].ver <= r[j].ver
    BY <1>4 DEF Ordered
  <2>1. i + 1 \in 1..n /\ r[i] = q[i + 1] /\ j + 1 \in (i + 1)..n /\ r[j] = q[j + 1]
    BY <1>1, <1>2
  <2> QED
    BY <1>4, <2>1 DEF Ordered, n
<1>5. ASSUME Ordered(q, d, u) PROVE Ordered(r, d, u)
  <2>1. \A i \in 1..Len(r) : IsSave(r[i], u) => d <= r[i].ver
    BY <1>1, <1>2, <1>5 DEF Ordered, n
  <2> QED
    BY <1>4, <1>5, <2>1
<1>6. ASSUME Ordered(q, d, u), IsSave(q[1], u) PROVE d <= q[1].ver /\ Ordered(r, q[1].ver, u)
  <2>1. d <= q[1].ver /\ \A j \in 1..n : IsSave(q[j], u) => q[1].ver <= q[j].ver
    BY <1>2, <1>6 DEF Ordered, n
  <2>2. \A i \in 1..Len(r) : IsSave(r[i], u) => q[1].ver <= r[i].ver
    BY <1>1, <1>2, <2>1
  <2> QED
    BY <1>4, <1>6, <2>1, <2>2
<1>7. ASSUME UpTo(q, v, u) PROVE UpTo(r, v, u) /\ (IsSave(q[1], u) => q[1].ver <= v)
  BY <1>1, <1>2, <1>7 DEF UpTo, n
<1>8. ASSUME Backed(q, on, u), IsSave(q[1], u), ~on PROVE Carries(r, u)
  <2>1. PICK j \in 1..n : 1 < j /\ Token(q[j], u)
    BY <1>2, <1>8 DEF Backed, n
  <2> QED
    BY <1>2, <2>1 DEF Carries
<1> QED
  BY <1>1, <1>3, <1>5, <1>6, <1>7, <1>8 DEF r

\* A queue without saves, and one without a session and a token.
LEMMA NoSaves ==
  ASSUME NEW q, NEW u, NEW d, NEW v, NEW on
  PROVE  /\ (\A i \in 1..Len(q) : ~IsSave(q[i], u))
              => Backed(q, on, u) /\ Ordered(q, d, u) /\ UpTo(q, v, u)
         /\ Backed(q, on, u) /\ ~on /\ ~Carries(q, u)
              => \A i \in 1..Len(q) : ~IsSave(q[i], u)
  BY DEF Backed, Ordered, UpTo, Carries

\* What an append and a receive do to a queue of replies.
LEMMA AppendReplies ==
  ASSUME NEW q \in Seq(DownMessages), NEW m \in DownMessages, NEW u, NEW d
  PROVE  /\ RepliesFirst(q, u) /\ ~(IsReply(m, u) /\ Carries(q, u))
              => RepliesFirst(Append(q, m), u)
         /\ Answers(q, d, u) /\ (IsLoaded(m, u) => m.ver = d) => Answers(Append(q, m), d, u)
<1> DEFINE r == Append(q, m)  n == Len(q)
<1>1. /\ n \in Nat /\ Len(r) = n + 1 /\ r[n + 1] = m
      /\ \A i \in 1..n : r[i] = q[i]
  OBVIOUS
<1>2. /\ \A i \in 1..Len(r) : i \in 1..n \/ i = n + 1
      /\ \A i \in 1..n : i < n + 1
  BY <1>1
<1>3. ASSUME RepliesFirst(q, u), ~(IsReply(m, u) /\ Carries(q, u)) PROVE RepliesFirst(r, u)
  <2> HIDE DEF r
  <2> SUFFICES ASSUME NEW i \in 1..Len(r), NEW j \in 1..Len(r),
                      r[i].uid = u, r[i].type \in {"PASS", "GET_REPLY"}, IsReply(r[j], u)
               PROVE  j < i
    BY DEF RepliesFirst
  <2>1. CASE i \in 1..n /\ j \in 1..n
    BY <1>1, <1>3, <2>1 DEF RepliesFirst
  <2>2. CASE i \in 1..n /\ j = n + 1
    <3>1. Token(q[i], u)
      BY <1>1, <2>2 DEF Token
    <3> QED
      BY <1>1, <1>3, <2>2, <3>1 DEF Carries
  <2>3. CASE i = n + 1 /\ j \in 1..n
    BY <1>2, <2>3
  <2>4. CASE i = n + 1 /\ j = n + 1
    BY <2>4 DEF IsReply
  <2> QED
    BY <1>2, <2>1, <2>2, <2>3, <2>4
<1>4. ASSUME Answers(q, d, u), IsLoaded(m, u) => m.ver = d PROVE Answers(r, d, u)
  BY <1>1, <1>2, <1>4 DEF Answers
<1> QED
  BY <1>3, <1>4

LEMMA TailReplies ==
  ASSUME NEW q \in Seq(DownMessages), q # <<>>, NEW u, NEW d
  PROVE  /\ RepliesFirst(q, u) => RepliesFirst(Tail(q), u)
         /\ Answers(q, d, u) => Answers(Tail(q), d, u)
         /\ Answers(q, d, u) /\ IsLoaded(Head(q), u) => Head(q).ver = d
<1>1. /\ Len(q) \in Nat /\ Len(q) > 0 /\ Len(Tail(q)) = Len(q) - 1 /\ Head(q) = q[1]
      /\ \A i \in 1..Len(Tail(q)) : Tail(q)[i] = q[i + 1]
  OBVIOUS
<1>2. \A i \in 1..Len(Tail(q)) : i + 1 \in 1..Len(q)
  BY <1>1
<1>3. \A i, j \in 1..Len(Tail(q)) : j + 1 < i + 1 => j < i
  BY <1>1
<1>4. 1 \in 1..Len(q)
  BY <1>1
<1>5. ASSUME RepliesFirst(q, u) PROVE RepliesFirst(Tail(q), u)
  BY <1>1, <1>2, <1>3, <1>5 DEF RepliesFirst
<1>6. ASSUME Answers(q, d, u)
      PROVE  Answers(Tail(q), d, u) /\ (IsLoaded(Head(q), u) => Head(q).ver = d)
  BY <1>1, <1>2, <1>4, <1>6 DEF Answers
<1> QED
  BY <1>5, <1>6

\* Without a token nothing begins a session.
LEMMA NoToken ==
  ASSUME NEW q, NEW u, NEW d, ~Carries(q, u)
  PROVE  RepliesFirst(q, u) /\ Answers(q, d, u)
  BY DEF Carries, Token, RepliesFirst, Answers, IsLoaded

\* What a step does to the requests of a game.
Sent(h, u) ==
  \/ up'[h] = up[h]
  \/ up[h] # <<>> /\ up'[h] = Tail(up[h])
  \/ \A i \in 1..Len(up'[h]) : ~IsSave(up'[h][i], u)
  \/ \E m \in UpMessages :
       /\ up'[h] = Append(up[h], m)
       /\ IsSave(m, u) => player'[h][u] # None /\ m.ver = data'[h][u]

\* What a step does to the session of a player: it goes on, it ends with an
\* EXIT, or it begins with the data of a load.
Played(h, u) ==
  /\ player[h][u] # None /\ player'[h][u] # None => data[h][u] <= data'[h][u]
  /\ player[h][u] # None /\ player'[h][u] = None =>
       \/ up'[h] = <<>>
       \/ \E m \in UpMessages : Token(m, u) /\ up'[h] = Append(up[h], m)
  /\ player[h][u] = None /\ player'[h][u] # None =>
       /\ down[h] # <<>> /\ IsLoaded(Head(down[h]), u)
       /\ data'[h][u] = Head(down[h]).ver

LEMMA SessionStep ==
  ASSUME TypeOK, Offline, [Next]_vars, NEW u \in Uids
  PROVE  \A h \in Games : Sent(h, u) /\ Played(h, u)
<1>0. /\ up \in UpChannels /\ down \in DownChannels
      /\ player \in [Games -> [Uids -> Gates \cup {None}]] /\ data \in [Games -> [Uids -> Nat]]
      /\ \A h \in Games : data[h][u] \in Nat
  BY DEF TypeOK, UpChannels, DownChannels
<1> USE DEF gameVars, globalVars, sessVars
\* Nothing is sent, one message is taken, or one is sent, and the sessions stay.
<1>1. ASSUME up' = up, player' = player, data' = data
      PROVE  \A h \in Games : Sent(h, u) /\ Played(h, u)
  BY <1>0, <1>1 DEF Sent, Played
<1>2. ASSUME NEW g \in Games, up[g] # <<>>, up' = Receive(up, g), player' = player, data' = data
      PROVE  \A h \in Games : Sent(h, u) /\ Played(h, u)
  <2>1. up'[g] = Tail(up[g]) /\ \A h \in Games \ {g} : up'[h] = up[h]
    BY <1>0, <1>2 DEF Receive, UpChannels
  <2>2. \A h \in Games : Sent(h, u)
    BY <1>2, <2>1 DEF Sent
  <2>3. \A h \in Games : Played(h, u)
    BY <1>0, <1>2 DEF Played
  <2> QED
    BY <2>2, <2>3
<1>3. ASSUME NEW g \in Games, NEW m \in UpMessages, up' = PostUp(up, g, m),
             player' = player, data' = data,
             IsSave(m, u) => player[g][u] # None /\ m.ver = data[g][u]
      PROVE  \A h \in Games : Sent(h, u) /\ Played(h, u)
  <2>1. \A h \in Games : up'[h] = up[h] \/ (h = g /\ up'[h] = Append(up[h], m))
    BY <1>0, <1>3 DEF PostUp, UpChannels
  <2> QED
    BY <1>0, <1>3, <2>1 DEF Sent, Played
<1>4. CASE GateStep \/ UNCHANGED vars
  BY <1>1, <1>4 DEF GateStep, MSG_LOGIN, MSG_ENTER, player_disconnect, vars
<1>5. ASSUME NEW g \in Games, NEW gate \in Gates, PLAYER_ENTER(g, gate)
      PROVE  \A h \in Games : Sent(h, u) /\ Played(h, u)
  <2>1. PICK w \in Uids : up' = PostUp(up, g, Msg("ENTER", w)) /\ UNCHANGED <<player, data>>
    BY <1>5, MessageFields DEF PLAYER_ENTER, Calls, TypeOK
  <2>2. Msg("ENTER", w) \in UpMessages /\ ~IsSave(Msg("ENTER", w), u)
    BY MessageTypes DEF Msg, IsSave
  <2> QED
    BY <1>3, <2>1, <2>2
<1>6. ASSUME NEW g \in Games, NEW gate \in Gates, PLAYER_EXIT(g, gate)
      PROVE  \A h \in Games : Sent(h, u) /\ Played(h, u)
  <2>1. PICK w \in Uids :
          /\ UNCHANGED <<player, data>>
          /\ \/ up' = PostUp(up, g, Msg("EXIT", w))
             \/ player[g][w] # None /\ up' = PostUp(up, g, SaveRequest(g, w))
    BY <1>6, MessageFields DEF PLAYER_EXIT, player_logout, Calls, TypeOK
  <2>2. CASE up' = PostUp(up, g, Msg("EXIT", w))
    <3>1. Msg("EXIT", w) \in UpMessages /\ ~IsSave(Msg("EXIT", w), u)
      BY MessageTypes DEF Msg, IsSave
    <3> QED
      BY <1>3, <2>1, <2>2, <3>1
  <2>3. CASE player[g][w] # None /\ up' = PostUp(up, g, SaveRequest(g, w))
    <3>1. data[g][w] \in Nat
      BY DEF TypeOK
    <3>2. /\ SaveRequest(g, w) \in UpMessages
          /\ IsSave(SaveRequest(g, w), u) => player[g][u] # None /\ SaveRequest(g, w).ver = data[g][u]
      BY <2>3, <3>1, MessageTypes DEF SaveRequest, DbMsg, IsSave
    <3> QED
      BY <1>3, <2>1, <2>3, <3>2
  <2> QED
    BY <2>1, <2>2, <2>3
<1>7. ASSUME NEW g \in Games, PLAYER_PASS(g)
      PROVE  \A h \in Games : Sent(h, u) /\ Played(h, u)
  <2>1. PICK w \in Uids : /\ UNCHANGED <<player, data>>
                          /\ up' = up \/ up' = PostUp(up, g, Msg("GET", w))
    BY <1>0, <1>7, ReceivedDown DEF PLAYER_PASS, Calls
  <2>2. Msg("GET", w) \in UpMessages /\ ~IsSave(Msg("GET", w), u)
    BY MessageTypes DEF Msg, IsSave
  <2> QED
    BY <1>1, <1>3, <2>1, <2>2
<1>8. ASSUME NEW g \in Games, PLAYER_INSTEAD(g)
      PROVE  \A h \in Games : Sent(h, u) /\ Played(h, u)
  <2>1. PICK w \in Uids :
          /\ UNCHANGED <<player, data>>
          /\ up' = up \/ (player[g][w] # None /\ up' = PostUp(up, g, SaveRequest(g, w)))
    BY <1>0, <1>8, ReceivedDown DEF PLAYER_INSTEAD, player_logout, Calls
  <2>2. data[g][w] \in Nat
    BY DEF TypeOK
  <2>3. /\ SaveRequest(g, w) \in UpMessages
        /\ player[g][w] # None /\ IsSave(SaveRequest(g, w), u)
             => player[g][u] # None /\ SaveRequest(g, w).ver = data[g][u]
    BY <2>2, MessageTypes DEF SaveRequest, DbMsg, IsSave
  <2> QED
    BY <1>1, <1>3, <2>1, <2>3
\* The session ends: what is POSTed, if the server has a connection, is EXIT.
<1>9. ASSUME NEW g \in Games, msg_db_srv_set_playerdata(g)
      PROVE  \A h \in Games : Sent(h, u) /\ Played(h, u)
  <2>1. PICK w \in Uids :
          \/ UNCHANGED <<player, data, up>>
          \/ /\ player' = [player EXCEPT ![g][w] = None] /\ data' = [data EXCEPT ![g][w] = 0]
             /\ up' = PostUp(up, g, Msg("EXIT", w))
    BY <1>0, <1>9, ReceivedDown DEF msg_db_srv_set_playerdata, Calls
  <2>2. CASE /\ player' = [player EXCEPT ![g][w] = None] /\ data' = [data EXCEPT ![g][w] = 0]
             /\ up' = PostUp(up, g, Msg("EXIT", w))
    <3>1. Msg("EXIT", w) \in UpMessages /\ Token(Msg("EXIT", w), w) /\ ~IsSave(Msg("EXIT", w), u)
      BY MessageTypes DEF Msg, IsSave, Token
    <3>2. \A h \in Games : \/ h # g /\ up'[h] = up[h]
                           \/ h = g /\ up'[h] = up[h] /\ up[h] = <<>>
                           \/ h = g /\ up'[h] = Append(up[h], Msg("EXIT", w))
      BY <1>0, <2>2 DEF PostUp, UpChannels, Offline
    <3>3. /\ \A h \in Games : w # u \/ h # g => player'[h][u] = player[h][u] /\ data'[h][u] = data[h][u]
          /\ w = u => player'[g][u] = None
      BY <1>0, <2>2
    <3>4. \A h \in Games : Sent(h, u)
      BY <3>1, <3>2 DEF Sent
    <3>5. \A h \in Games : Played(h, u)
      BY <1>0, <3>1, <3>2, <3>3 DEF Played
    <3> QED
      BY <3>4, <3>5
  <2> QED
    BY <1>1, <2>1, <2>2
\* A session begins, or moves to another gate, or the load is refused.
<1>10. ASSUME NEW g \in Games, msg_db_srv_get_playerdata(g)
       PROVE  \A h \in Games : Sent(h, u) /\ Played(h, u)
  <2> DEFINE m == Head(down[g])  w == m.uid
  <2>1. w \in Uids /\ m.ver \in Nat /\ m.type = "GET_REPLY" /\ down[g] # <<>>
    BY <1>0, <1>10, ReceivedDown DEF msg_db_srv_get_playerdata, Calls
  <2>2. CASE LoadRefused(g, w)
    <3>1. Msg("EXIT", w) \in UpMessages /\ ~IsSave(Msg("EXIT", w), u)
      BY <2>1, MessageTypes DEF Msg, IsSave
    <3> HIDE DEF w
    <3> QED
      BY <1>3, <2>2, <3>1 DEF LoadRefused
  <2>3. CASE tmp[g][w] # None /\ player[g][w] # None /\ LoadOnline(g, w)
    <3>1. /\ up' = up /\ \A h \in Games : data'[h][u] = data[h][u]
          /\ \A h \in Games : (player'[h][u] = None) = (player[h][u] = None)
      BY <1>0, <2>1, <2>3 DEF LoadOnline
    <3> QED
      BY <1>0, <3>1 DEF Sent, Played
  <2>4. CASE tmp[g][w] # None /\ player[g][w] = None /\ LoadSession(g, w, m.ver)
    <3>1. player' = [player EXCEPT ![g][w] = tmp[g][w]] /\ data' = [data EXCEPT ![g][w] = m.ver]
      BY <2>4 DEF LoadSession
    <3>2. /\ \A h \in Games : w # u \/ h # g => player'[h][u] = player[h][u] /\ data'[h][u] = data[h][u]
          /\ w = u => player'[g][u] # None /\ data'[g][u] = m.ver
      <4> HIDE DEF m, w
      <4> QED
        BY <1>0, <2>1, <2>4, <3>1
    <3>3. w = u => IsLoaded(m, u)
      BY <2>1 DEF IsLoaded
    <3>4. DbMsg("SET", w, m.ver, 1) \in UpMessages /\ DbMsg("SET", w, m.ver, 1).ver = m.ver
      BY <2>1, MessageTypes DEF DbMsg
    <3>5. IsSave(DbMsg("SET", w, m.ver, 1), u) => w = u
      BY DEF DbMsg, IsSave
    <3>6. \A h \in Games : up'[h] = up[h] \/ (h = g /\ up'[h] = Append(up[h], DbMsg("SET", w, m.ver, 1)))
      BY <1>0, <2>4 DEF LoadSession, PostUp, UpChannels
    <3>7. \A h \in Games : Sent(h, u)
      <4> HIDE DEF m, w
      <4> QED
        BY <3>2, <3>4, <3>5, <3>6 DEF Sent
    <3>8. \A h \in Games : Played(h, u)
      <4>1. \A h \in Games : w = u /\ h = g => Played(h, u)
        BY <2>1, <2>4, <3>2, <3>3 DEF Played
      <4>2. \A h \in Games : w # u \/ h # g => Played(h, u)
        <5> HIDE DEF m, w
        <5> QED
          BY <1>0, <3>2 DEF Played
      <4> QED
        BY <4>1, <4>2
    <3> QED
      BY <3>7, <3>8
  <2> QED
    BY <1>10, <2>2, <2>3, <2>4 DEF msg_db_srv_get_playerdata
<1>11. ASSUME NEW g \in Games, NEW w \in Uids, Play(g, w)
       PROVE  \A h \in Games : Sent(h, u) /\ Played(h, u)
  <2>1. up' = up /\ player' = player /\ data' = [data EXCEPT ![g][w] = @ + 1]
    BY <1>11 DEF Play
  <2>2. \A h \in Games : data[h][u] <= data'[h][u]
    BY <1>0, <2>1
  <2> QED
    BY <2>1, <2>2 DEF Sent, Played
<1>12. ASSUME NEW g \in Games, GlobalStep(g)
       PROVE  \A h \in Games : Sent(h, u) /\ Played(h, u)
  <2>1. up[g] # <<>> /\ up' = Receive(up, g) /\ player' = player /\ data' = data
    BY <1>12 DEF GlobalStep, CenterEnter, CenterExit, DbGET, DbSET, RegistSrvid, REGIST, Calls
  <2> QED
    BY <1>2, <2>1
<1>13. ASSUME NEW g \in Games, LinkDown(g) \/ LinkUp(g)
       PROVE  \A h \in Games : Sent(h, u) /\ Played(h, u)
  <2> DEFINE q == <<Msg("REGIST_SRVID", None), Msg("REGIST", None)>>
  <2>1. /\ \A i \in 1..Len(q) : ~IsSave(q[i], u)
        /\ \A i \in 1..Len(<<>>) : ~IsSave(<<>>[i], u)
    BY DEF Msg, IsSave
  <2>2. \A h \in Games : up'[h] = up[h] \/ up'[h] = <<>> \/ up'[h] = q
    BY <1>0, <1>13 DEF LinkDown, LinkUp, UpChannels
  <2>3. player' = player /\ data' = data
    BY <1>13 DEF LinkDown, LinkUp
  <2> HIDE DEF q
  <2> QED
    BY <1>0, <2>1, <2>2, <2>3 DEF Sent, Played
<1> QED
  BY <1>4, <1>5, <1>6, <1>7, <1>8, <1>9, <1>10, <1>11, <1>12, <1>13 DEF Next, GameStep

\* A reply to a save of u is POSTed when the save is handled, and a load that
\* did not fail answers what is stored.
Fresh(m, h, u) ==
  /\ IsReply(m, u) => up[h] # <<>> /\ IsSave(Head(up[h]), u)
  /\ IsLoaded(m, u) => fails' > 0 \/ m.ver \in db[u]

\* What a step does to the messages for a game.
Answered(h, u) ==
  \/ down'[h] = down[h]
  \/ down[h] # <<>> /\ down'[h] = Tail(down[h])
  \/ down'[h] = <<>>
  \/ \E m \in DownMessages : Fresh(m, h, u) /\ down'[h] = Append(down[h], m)
  \/ \E m, n \in DownMessages :
       /\ Fresh(m, h, u) /\ Fresh(n, h, u) /\ ~Token(m, u)
       /\ down'[h] = Append(Append(down[h], m), n)

\* What a step does to the stored data: only the handler of a save changes it.
Stored(u) ==
  \/ db'[u] = db[u]
  \/ fails' > 0
  \/ \E g \in Games :
       /\ up[g] # <<>> /\ IsSave(Head(up[g]), u)
       /\ up' = Receive(up, g) /\ player' = player /\ data' = data
       /\ db'[u] = {Head(up[g]).ver}

LEMMA AnswerStep ==
  ASSUME TypeOK, [Next]_vars, NEW u \in Uids
  PROVE  (\A h \in Games : Answered(h, u)) /\ Stored(u)
<1>0. /\ up \in UpChannels /\ down \in DownChannels /\ fails \in Nat
      /\ db \in [Uids -> SUBSET Nat] /\ holder \in [Uids -> Games \cup {None}]
  BY DEF TypeOK, UpChannels, DownChannels
<1> USE DEF gameVars, globalVars, sessVars
<1> DEFINE Goal == (\A h \in Games : Answered(h, u)) /\ Stored(u)
<1>1. ASSUME down' = down, db' = db PROVE Goal
  BY <1>1 DEF Answered, Stored
<1>2. ASSUME NEW g \in Games, down[g] # <<>>, down' = Receive(down, g), db' = db PROVE Goal
  <2>1. \A h \in Games : down'[h] = down[h] \/ (down[h] # <<>> /\ down'[h] = Tail(down[h]))
    BY <1>0, <1>2 DEF Receive, DownChannels
  <2> QED
    BY <1>2, <2>1 DEF Answered, Stored
<1>3. ASSUME NEW g \in Games, NEW m \in DownMessages, Fresh(m, g, u),
             down' = PostDown(down, g, m), db' = db
      PROVE  Goal
  <2>1. \A h \in Games : down'[h] = down[h] \/ (h = g /\ down'[h] = Append(down[h], m))
    BY <1>0, <1>3 DEF PostDown, DownChannels
  <2> QED
    BY <1>3, <2>1 DEF Answered, Stored
<1>4. ASSUME GateStep \/ UNCHANGED vars PROVE Goal
  <2>1. down' = down /\ db' = db
    BY <1>4 DEF GateStep, MSG_LOGIN, MSG_ENTER, player_disconnect, vars
  <2> QED
    BY <1>1, <2>1
<1>5. ASSUME NEW g \in Games,
             \/ \E gate \in Gates : PLAYER_ENTER(g, gate) \/ PLAYER_EXIT(g, gate)
             \/ \E w \in Uids : Play(g, w)
             \/ RegistSrvid(g) \/ REGIST(g) \/ LinkUp(g)
      PROVE  Goal
  <2>1. down' = down /\ db' = db
    BY <1>5 DEF PLAYER_ENTER, PLAYER_EXIT, Play, RegistSrvid, REGIST, LinkUp
  <2> QED
    BY <1>1, <2>1
<1>6. ASSUME NEW g \in Games, \/ PLAYER_PASS(g) \/ PLAYER_INSTEAD(g)
                              \/ msg_db_srv_set_playerdata(g) \/ msg_db_srv_get_playerdata(g)
      PROVE  Goal
  <2>1. down[g] # <<>> /\ down' = Receive(down, g) /\ db' = db
    BY <1>6 DEF PLAYER_PASS, PLAYER_INSTEAD, msg_db_srv_set_playerdata,
                msg_db_srv_get_playerdata, Calls
  <2> QED
    BY <1>2, <2>1
<1>7. ASSUME NEW w \in Uids, NEW t \in {"PASS", "INSTEAD"}, NEW g \in Games
      PROVE  Msg(t, w) \in DownMessages /\ Fresh(Msg(t, w), g, u)
  BY MessageTypes DEF Msg, Fresh, IsReply, IsLoaded
<1>8. ASSUME NEW g \in Games, CenterEnter(g) PROVE Goal
  <2>1. Head(up[g]).uid \in Uids
    <3>1. Head(up[g]) \in UpMessages /\ Head(up[g]).type = "ENTER"
      BY <1>0, <1>8 DEF CenterEnter, Calls, UpChannels
    <3> QED
      BY <3>1, MessageFields
  <2>2. PICK w \in Uids : /\ db' = db
                          /\ \/ down' = down
                             \/ down' = PostDown(down, g, Msg("PASS", w))
                             \/ holder[w] # None /\ down' = PostDown(down, holder[w], Msg("INSTEAD", w))
    BY <1>8, <2>1 DEF CenterEnter, Takeover
  <2>3. holder[w] # None => holder[w] \in Games
    BY <1>0
  <2> HIDE DEF Goal
  <2> QED
    BY <1>1, <1>3, <1>7, <2>2, <2>3
<1>9. ASSUME NEW g \in Games, CenterExit(g) PROVE Goal
  <2>1. Head(up[g]).uid \in Uids
    <3>1. Head(up[g]) \in UpMessages /\ Head(up[g]).type = "EXIT"
      BY <1>0, <1>9 DEF CenterExit, Calls, UpChannels
    <3> QED
      BY <3>1, MessageFields
  <2>2. game_manager \subseteq Games
    BY DEF TypeOK
  <2>3. PICK w \in Uids : /\ db' = db
                          /\ \/ down' = down
                             \/ \E n \in Games : down' = PostDown(down, n, Msg("PASS", w))
    BY <1>9, <2>1, <2>2 DEF CenterExit
  <2> HIDE DEF Goal
  <2> QED
    BY <1>1, <1>3, <1>7, <2>3
<1>10. ASSUME NEW g \in Games, DbGET(g) PROVE Goal
  <2> DEFINE w == Head(up[g]).uid
  <2>1. w \in Uids
    <3>1. Head(up[g]) \in UpMessages /\ Head(up[g]).type = "GET"
      BY <1>0, <1>10 DEF DbGET, Calls, UpChannels
    <3> QED
      BY <3>1, MessageFields
  <2>2. PICK v \in Nat, r \in {0, 1} :
          /\ db' = db /\ (v \in db[w] \/ fails' > 0)
          /\ down' = PostDown(down, g, DbMsg("GET_REPLY", w, v, r))
    BY <1>0, <1>10, <2>1 DEF DbGET, LoadFailed, Fail
  <2> DEFINE m == DbMsg("GET_REPLY", w, v, r)
  <2>3. m \in DownMessages /\ m.uid = w /\ m.ver = v /\ m.type = "GET_REPLY"
    BY <2>1, MessageTypes DEF DbMsg
  <2> HIDE DEF m, w
  <2>4. Fresh(m, g, u)
    BY <2>2, <2>3 DEF Fresh, IsReply, IsLoaded
  <2>5. down' = PostDown(down, g, m)
    BY <2>2 DEF m
  <2> HIDE DEF Goal
  <2> QED
    BY <1>3, <2>2, <2>3, <2>4, <2>5
<1>11. ASSUME NEW g \in Games, DbSET(g) PROVE Goal
  <2> DEFINE w == Head(up[g]).uid  v == Head(up[g]).ver
             once(r) == PostDown(down, g, SetReply(w, r))
  <2>1. w \in Uids /\ v \in Nat /\ up[g] # <<>> /\ Head(up[g]).type = "SET"
    <3>1. Head(up[g]) \in UpMessages /\ Head(up[g]).type = "SET" /\ up[g] # <<>>
      BY <1>0, <1>11 DEF DbSET, Calls, UpChannels
    <3> QED
      BY <3>1, MessageFields
  <2>2. \A r \in {0, 1} : /\ SetReply(w, r) \in DownMessages
                          /\ SetReply(w, r).type = "SET_REPLY" /\ SetReply(w, r).uid = w
    BY <2>1, MessageTypes DEF SetReply, DbMsg
  <2>3. \A r \in {0, 1} : Fresh(SetReply(w, r), g, u) /\ ~Token(SetReply(w, r), u)
    BY <2>1, <2>2 DEF Fresh, IsReply, IsLoaded, IsSave, Token
  <2>4. PICK r \in {0, 1} : down' = once(r) \/ down' = PostDown(once(0), g, SetReply(w, r))
    BY <1>11 DEF DbSET
  <2>5. \A h \in Games : Answered(h, u)
    <3> HIDE DEF w
    <3>1. CASE down' = once(r)
      <4>1. \A h \in Games : down'[h] = down[h] \/ (h = g /\ down'[h] = Append(down[h], SetReply(w, r)))
        BY <1>0, <3>1 DEF PostDown, DownChannels
      <4> QED
        BY <2>2, <2>3, <4>1 DEF Answered
    <3>2. CASE down' = PostDown(once(0), g, SetReply(w, r))
      <4>1. \A h \in Games : \/ down'[h] = down[h]
                             \/ h = g /\ down'[h] = Append(Append(down[h], SetReply(w, 0)), SetReply(w, r))
        BY <1>0, <3>2 DEF PostDown, DownChannels
      <4> QED
        BY <2>2, <2>3, <4>1 DEF Answered
    <3> QED
      BY <2>4, <3>1, <3>2
  <2>6. Stored(u)
    <3>1. /\ up' = Receive(up, g) /\ player' = player /\ data' = data
          /\ fails' > 0 \/ db' = [db EXCEPT ![w] = {v}]
      BY <1>0, <1>11 DEF DbSET, Fail
    <3>2. w = u => IsSave(Head(up[g]), u)
      BY <2>1 DEF IsSave
    <3>3. fails' > 0 \/ (w = u /\ db'[u] = {v}) \/ db'[u] = db[u]
      <4> HIDE DEF w, v
      <4> QED
        BY <1>0, <2>1, <3>1
    <3> QED
      BY <2>1, <3>1, <3>2, <3>3 DEF Stored
  <2> QED
    BY <2>5, <2>6
<1>12. ASSUME NEW g \in Games, LinkDown(g) PROVE Goal
  <2>1. db' = db /\ \A h \in Games : down'[h] = down[h] \/ down'[h] = <<>>
    BY <1>0, <1>12 DEF LinkDown, DownChannels
  <2> QED
    BY <2>1 DEF Answered, Stored
<1> HIDE DEF Goal
<1>13. Goal
  BY <1>4, <1>5, <1>6, <1>8, <1>9, <1>10, <1>11, <1>12 DEF Next, GameStep, GlobalStep
<1> QED
  BY <1>13 DEF Goal

\* The invariants in the state after a step, with the primes on the variables.
AllBackedAfter == \A u \in Uids, g \in Games : Backed(up'[g], player'[g][u] # None, u)
NewestAfter(u) ==
  \E d \in Nat :
    /\ db'[u] = {d}
    /\ \A g \in Games :
         /\ Ordered(up'[g], d, u) /\ Answers(down'[g], d, u)
         /\ player'[g][u] # None => d <= data'[g][u] /\ UpTo(up'[g], data'[g][u], u)

LEMMA OfflineStep ==
  ASSUME TypeOK, Offline, [Next]_vars
  PROVE  Offline'
<1>0. up \in UpChannels
  BY DEF TypeOK, UpChannels
<1> USE DEF gameVars, globalVars, sessVars, linkVars
<1>1. ASSUME NEW g \in Games, LinkDown(g) \/ LinkUp(g) PROVE Offline'
  BY <1>0, <1>1 DEF LinkDown, LinkUp, Offline, UpChannels
<1>2. ASSUME conn' = conn, \A g \in Games : g \notin conn => up'[g] = up[g] PROVE Offline'
  BY <1>2 DEF Offline
<1>3. ASSUME NEW g \in Games, NEW m, up' = PostUp(up, g, m), conn' = conn PROVE Offline'
  <2>1. \A h \in Games : h \notin conn => up'[h] = up[h]
    BY <1>0, <1>3 DEF PostUp, UpChannels
  <2> QED
    BY <1>2, <1>3, <2>1
<1>4. ASSUME NEW g \in Games, up[g] # <<>>, up' = Receive(up, g), conn' = conn PROVE Offline'
  <2>1. \A h \in Games : h # g => up'[h] = up[h]
    BY <1>0, <1>4 DEF Receive, UpChannels
  <2>2. g \in conn
    BY <1>4 DEF Offline
  <2> QED
    BY <1>2, <1>4, <2>1, <2>2
<1>5. ASSUME up' = up, conn' = conn PROVE Offline'
  BY <1>2, <1>5
<1>6. ASSUME NEW g \in Games, GameStep(g) PROVE Offline'
  <2>1. conn' = conn /\ (up' = up \/ \E m : up' = PostUp(up, g, m))
    BY <1>6 DEF GameStep, PLAYER_ENTER, PLAYER_EXIT, PLAYER_PASS, PLAYER_INSTEAD, player_logout,
                msg_db_srv_set_playerdata, msg_db_srv_get_playerdata,
                LoadRefused, LoadOnline, LoadSession
  <2> QED
    BY <1>3, <1>5, <2>1
<1>7. ASSUME NEW g \in Games, GlobalStep(g) PROVE Offline'
  <2>1. up[g] # <<>> /\ up' = Receive(up, g) /\ conn' = conn
    BY <1>7 DEF GlobalStep, CenterEnter, CenterExit, DbGET, DbSET, RegistSrvid, REGIST, Calls
  <2> QED
    BY <1>4, <2>1
<1>8. ASSUME \/ GateStep \/ UNCHANGED vars \/ \E g \in Games, w \in Uids : Play(g, w)
      PROVE  Offline'
  <2>1. up' = up /\ conn' = conn
    BY <1>8 DEF GateStep, MSG_LOGIN, MSG_ENTER, player_disconnect, vars, Play
  <2> QED
    BY <1>5, <2>1
<1> QED
  BY <1>1, <1>6, <1>7, <1>8 DEF Next

\* A save keeps its session, or the end of the session, behind it.
LEMMA BackedStep ==
  ASSUME TypeOK, Offline, AllBacked, [Next]_vars
  PROVE  AllBackedAfter
<1> SUFFICES ASSUME NEW u \in Uids, NEW h \in Games
             PROVE  Backed(up'[h], player'[h][u] # None, u)
  BY DEF AllBackedAfter
<1> DEFINE q == up[h]  on == player[h][u] # None
<1>0. q \in Seq(UpMessages) /\ on \in BOOLEAN
  BY DEF TypeOK
<1>1. Sent(h, u) /\ Played(h, u) /\ Backed(q, on, u)
  BY SessionStep DEF AllBacked
<1>2. CASE player'[h][u] # None
  BY <1>2 DEF Backed
<1>3. CASE player'[h][u] = None /\ player[h][u] # None
  <2>1. CASE up'[h] = <<>>
    BY <2>1 DEF Backed
  <2>2. CASE \E m \in UpMessages : Token(m, u) /\ up'[h] = Append(q, m)
    <3>1. PICK m \in UpMessages : Token(m, u) /\ up'[h] = Append(q, m)
      BY <2>2
    <3>2. ~IsSave(m, u)
      BY <3>1 DEF Token, IsSave
    <3>3. Backed(Append(q, m), FALSE, u)
      <4> HIDE DEF q, on
      <4> QED
        BY <1>0, <1>1, <3>1, <3>2, AppendSaves
    <3> QED
      BY <1>3, <3>1, <3>3 DEF Backed
  <2> QED
    BY <1>1, <1>3, <2>1, <2>2 DEF Played
<1>4. CASE player'[h][u] = None /\ player[h][u] = None
  <2>0. Backed(q, FALSE, u)
    BY <1>1, <1>4 DEF Backed
  <2> HIDE DEF q, on
  <2>1. Backed(up'[h], FALSE, u)
    <3>1. CASE up'[h] = q
      BY <2>0, <3>1
    <3>2. CASE q # <<>> /\ up'[h] = Tail(q)
      BY <1>0, <2>0, <3>2, TailSaves
    <3>3. CASE \A i \in 1..Len(up'[h]) : ~IsSave(up'[h][i], u)
      BY <3>3 DEF Backed
    <3>4. ASSUME NEW m \in UpMessages, up'[h] = Append(q, m), ~IsSave(m, u)
          PROVE  Backed(up'[h], FALSE, u)
      BY <1>0, <2>0, <3>4, AppendSaves
    <3> QED
      BY <1>1, <1>4, <3>1, <3>2, <3>3, <3>4 DEF Sent, q
  <2> QED
    BY <1>4, <2>1 DEF Backed
<1> QED
  BY <1>2, <1>3, <1>4

\* While the save of a player is handled, the session it belongs to is there or
\* its end is behind the save: nothing that begins a session is on its way.
LEMMA SaveExcludesLoad ==
  ASSUME TypeOK, AllBacked, NEW u \in Uids, Tenure(u), NEW h \in Games,
         up[h] # <<>>, IsSave(Head(up[h]), u)
  PROVE  ~Carries(down[h], u)
<1> DEFINE q == up[h]  on == player[h][u] # None
<1>1. q \in Seq(UpMessages) /\ on \in BOOLEAN /\ Backed(q, on, u) /\ q # <<>> /\ IsSave(Head(q), u)
  BY DEF TypeOK, AllBacked
<1>2. on \/ Carries(q, u)
  <2> HIDE DEF q, on
  <2>1. on \/ Carries(Tail(q), u)
    BY <1>1, TailSaves
  <2> QED
    BY <1>1, <2>1, TailToken
<1> QED
  BY <1>2 DEF Tenure

LEMMA RepliesStep ==
  ASSUME TypeOK, AllBacked, [Next]_vars, NEW u \in Uids, Tenure(u), NEW h \in Games,
         RepliesFirst(down[h], u)
  PROVE  RepliesFirst(down'[h], u)
<1> DEFINE q == down[h]
<1>0. q \in Seq(DownMessages) /\ RepliesFirst(q, u)
  BY DEF TypeOK
<1>1. Answered(h, u)
  BY AnswerStep
<1>2. ASSUME NEW m, Fresh(m, h, u), IsReply(m, u) PROVE ~Carries(q, u)
  BY <1>2, SaveExcludesLoad DEF Fresh
<1> HIDE DEF q
<1>3. CASE down'[h] = q
  BY <1>0, <1>3
<1>4. CASE q # <<>> /\ down'[h] = Tail(q)
  BY <1>0, <1>4, TailReplies
<1>5. CASE down'[h] = <<>>
  BY <1>5 DEF RepliesFirst
<1>6. ASSUME NEW m \in DownMessages, Fresh(m, h, u)
      PROVE  RepliesFirst(Append(q, m), u)
  BY <1>0, <1>2, <1>6, AppendReplies
<1>7. ASSUME NEW m \in DownMessages, NEW n \in DownMessages, Fresh(m, h, u), Fresh(n, h, u), ~Token(m, u)
      PROVE  RepliesFirst(Append(Append(q, m), n), u)
  <2> DEFINE r == Append(q, m)
  <2>1. r \in Seq(DownMessages) /\ RepliesFirst(r, u)
    BY <1>0, <1>6, <1>7
  <2>2. Carries(r, u) => Carries(q, u)
    BY <1>0, <1>7, AppendToken
  <2> HIDE DEF r
  <2>3. RepliesFirst(Append(r, n), u)
    BY <1>2, <1>7, <2>1, <2>2, AppendReplies
  <2> QED
    BY <2>3 DEF r
<1> QED
  BY <1>1, <1>3, <1>4, <1>5, <1>6, <1>7 DEF Answered, q

\* One step of the protocol, without a failure, keeps what is stored older than
\* everything on its way.
LEMMA NewestStep ==
  ASSUME TypeOK, TypeOK', Offline, AllBacked, [Next]_vars, NEW u \in Uids,
         Tenure(u), TenureAfter(u), Newest(u), ~(fails' > 0)
  PROVE  NewestAfter(u) /\ \A old \in db[u], new \in db'[u] : new >= old
<1>0. PICK d \in Nat :
        /\ db[u] = {d}
        /\ \A h \in Games :
             /\ Ordered(up[h], d, u) /\ Answers(down[h], d, u)
             /\ player[h][u] # None => d <= data[h][u] /\ UpTo(up[h], data[h][u], u)
  BY DEF Newest
<1>1. \A h \in Games : Sent(h, u) /\ Played(h, u) /\ Answered(h, u)
  BY SessionStep, AnswerStep
<1>2. AllBackedAfter
  BY BackedStep
<1>3. /\ \A h \in Games : up[h] \in Seq(UpMessages) /\ down[h] \in Seq(DownMessages)
      /\ \A h \in Games : data[h][u] \in Nat /\ data'[h][u] \in Nat
      /\ \A h \in Games : (player[h][u] # None) \in BOOLEAN
  <2>1. data \in [Games -> [Uids -> Nat]] /\ data' \in [Games -> [Uids -> Nat]]
    BY DEF TypeOK
  <2> QED
    BY <2>1 DEF TypeOK
\* A session that goes on or begins has data not older than what is stored, and
\* than the saves on their way.
<1>4. ASSUME NEW h \in Games, player'[h][u] # None
      PROVE  d <= data'[h][u] /\ UpTo(up[h], data'[h][u], u)
  <2>1. CASE player[h][u] # None
    <3>1. /\ data[h][u] <= data'[h][u] /\ d <= data[h][u] /\ UpTo(up[h], data[h][u], u)
          /\ \A i \in 1..Len(up[h]) : IsSave(up[h][i], u) => up[h][i].ver \in Nat
      <4>1. \A i \in 1..Len(up[h]) : up[h][i] \in UpMessages
        BY <1>3
      <4> QED
        BY <1>0, <1>1, <1>4, <2>1, <4>1, MessageFields DEF Played, IsSave
    <3> QED
      BY <1>3, <3>1 DEF UpTo
  <2>2. CASE player[h][u] = None
    <3>1. down[h] # <<>> /\ IsLoaded(Head(down[h]), u) /\ data'[h][u] = Head(down[h]).ver
      BY <1>1, <1>4, <2>2 DEF Played
    <3>2. data'[h][u] = d
      BY <1>0, <1>3, <3>1, TailReplies
    <3>3. Carries(down[h], u)
      <4>1. Token(Head(down[h]), u)
        BY <3>1 DEF IsLoaded, Token
      <4> QED
        BY <1>3, <3>1, <4>1, TailToken
    <3>4. ~Carries(up[h], u)
      BY <3>3 DEF Tenure
    <3>5. Backed(up[h], player[h][u] # None, u)
      BY DEF AllBacked
    <3>6. \A i \in 1..Len(up[h]) : ~IsSave(up[h][i], u)
      BY <2>2, <3>4, <3>5 DEF Backed, Carries
    <3> QED
      BY <3>2, <3>6 DEF UpTo
  <2> QED
    BY <2>1, <2>2
<1>5. CASE db'[u] = db[u]
  <2> SUFFICES ASSUME NEW h \in Games
               PROVE  /\ Ordered(up'[h], d, u) /\ Answers(down'[h], d, u)
                      /\ player'[h][u] # None => d <= data'[h][u] /\ UpTo(up'[h], data'[h][u], u)
    BY <1>0, <1>5 DEF NewestAfter
  <2> DEFINE q == up[h]  v == data'[h][u]
  <2>0. q \in Seq(UpMessages) /\ v \in Nat /\ Ordered(q, d, u)
    BY <1>0, <1>3
  <2>1. player'[h][u] # None => d <= v /\ UpTo(q, v, u)
    BY <1>4
  <2>2. Ordered(up'[h], d, u) /\ (player'[h][u] # None => UpTo(up'[h], v, u))
    <3> HIDE DEF q, v
    <3>1. CASE up'[h] = q
      BY <2>0, <2>1, <3>1
    <3>2. CASE q # <<>> /\ up'[h] = Tail(q)
      BY <2>0, <2>1, <3>2, TailSaves
    <3>3. CASE \A i \in 1..Len(up'[h]) : ~IsSave(up'[h][i], u)
      BY <3>3 DEF Ordered, UpTo
    <3>4. ASSUME NEW m \in UpMessages, up'[h] = Append(q, m),
                 IsSave(m, u) => player'[h][u] # None /\ m.ver = v
          PROVE  Ordered(up'[h], d, u) /\ (player'[h][u] # None => UpTo(up'[h], v, u))
      <4>1. IsSave(m, u) => d <= m.ver /\ UpTo(q, m.ver, u)
        BY <2>1, <3>4
      <4>2. IsSave(m, u) => m.ver <= v
        BY <2>0, <3>4
      <4>3. Ordered(Append(q, m), d, u)
        BY <2>0, <4>1, AppendSaves
      <4>4. UpTo(q, v, u) => UpTo(Append(q, m), v, u)
        BY <2>0, <4>2, AppendSaves
      <4> QED
        BY <2>1, <3>4, <4>3, <4>4
    <3>5. \/ up'[h] = q
          \/ q # <<>> /\ up'[h] = Tail(q)
          \/ \A i \in 1..Len(up'[h]) : ~IsSave(up'[h][i], u)
          \/ \E m \in UpMessages :
               up'[h] = Append(q, m) /\ (IsSave(m, u) => player'[h][u] # None /\ m.ver = v)
      BY <1>1 DEF Sent, q, v
    <3> QED
      BY <3>1, <3>2, <3>3, <3>4, <3>5
  <2>3. Answers(down'[h], d, u)
    <3> DEFINE r == down[h]
    <3>1. r \in Seq(DownMessages) /\ Answers(r, d, u) /\ Answered(h, u)
      BY <1>0, <1>1, <1>3
    <3>2. \A m : Fresh(m, h, u) /\ IsLoaded(m, u) => m.ver = d
      BY <1>0 DEF Fresh
    <3> HIDE DEF r
    <3>3. ASSUME NEW m \in DownMessages, Fresh(m, h, u) PROVE Answers(Append(r, m), d, u)
      BY <3>1, <3>2, <3>3, AppendReplies
    <3>4. ASSUME NEW m \in DownMessages, NEW n \in DownMessages, Fresh(m, h, u), Fresh(n, h, u)
          PROVE  Answers(Append(Append(r, m), n), d, u)
      <4> DEFINE s == Append(r, m)
      <4>1. s \in Seq(DownMessages) /\ Answers(s, d, u)
        BY <3>1, <3>3, <3>4
      <4> HIDE DEF s
      <4>2. Answers(Append(s, n), d, u)
        BY <3>2, <3>4, <4>1, AppendReplies
      <4> QED
        BY <4>2 DEF s
    <3>5. CASE down'[h] = r
      BY <3>1, <3>5
    <3>6. CASE r # <<>> /\ down'[h] = Tail(r)
      BY <3>1, <3>6, TailReplies
    <3>7. CASE down'[h] = <<>>
      BY <3>7 DEF Answers
    <3> QED
      BY <3>1, <3>3, <3>4, <3>5, <3>6, <3>7 DEF Answered, r
  <2> QED
    BY <2>1, <2>2, <2>3
\* The handler of a save: no other server has a session or a save of this player.
<1>6. ASSUME NEW g \in Games, up[g] # <<>>, IsSave(Head(up[g]), u), up' = Receive(up, g),
             player' = player, data' = data, db'[u] = {Head(up[g]).ver}
      PROVE  NewestAfter(u) /\ \A old \in db[u], new \in db'[u] : new >= old
  <2> DEFINE q == up[g]  v == Head(q).ver  on == player[g][u] # None
  <2>0. /\ q \in Seq(UpMessages) /\ q # <<>> /\ Ordered(q, d, u) /\ IsSave(Head(q), u)
        /\ on \in BOOLEAN /\ Backed(q, on, u)
    BY <1>0, <1>3, <1>6 DEF AllBacked
  <2>1. v \in Nat
    <3>1. Head(q) \in UpMessages
      BY <2>0
    <3> QED
      BY <2>0, <3>1, MessageFields DEF IsSave
  <2>2. d <= v /\ Ordered(Tail(q), v, u) /\ (on \/ Carries(Tail(q), u))
    <3> HIDE DEF q, on
    <3> QED
      BY <2>0, TailSaves
  <2>3. up'[g] = Tail(q) /\ \A h \in Games : h # g => up'[h] = up[h]
    <3>1. up \in UpChannels
      BY DEF TypeOK, UpChannels
    <3> QED
      BY <1>6, <3>1 DEF Receive, UpChannels
  <2>4. player'[g][u] # None \/ Carries(up'[g], u)
    BY <1>6, <2>2, <2>3
  <2>5. holder'[u] = g /\ ~Carries(down'[g], u)
    BY <2>4 DEF TenureAfter
  <2>6. \A h \in Games : h # g => player'[h][u] = None /\ ~Carries(up'[h], u) /\ ~Carries(down'[h], u)
    BY <2>5 DEF TenureAfter
  <2>7. \A h \in Games : Answers(down'[h], v, u)
    BY <2>5, <2>6, NoToken
  <2>8. \A h \in Games : h # g => Ordered(up'[h], v, u)
    <3> SUFFICES ASSUME NEW h \in Games, h # g PROVE Ordered(up'[h], v, u)
      OBVIOUS
    <3>1. Backed(up'[h], player'[h][u] # None, u)
      BY <1>2 DEF AllBackedAfter
    <3>2. \A i \in 1..Len(up'[h]) : ~IsSave(up'[h][i], u)
      BY <2>6, <3>1 DEF Backed, Carries
    <3> QED
      BY <3>2 DEF Ordered
  <2>9. player'[g][u] # None => v <= data'[g][u] /\ UpTo(up'[g], data'[g][u], u)
    <3> SUFFICES ASSUME player'[g][u] # None PROVE v <= data'[g][u] /\ UpTo(up'[g], data'[g][u], u)
      OBVIOUS
    <3> DEFINE e == data'[g][u]
    <3>1. e \in Nat /\ UpTo(q, e, u)
      BY <1>3, <1>4
    <3> HIDE DEF q, e
    <3>2. v <= e /\ UpTo(Tail(q), e, u)
      BY <2>0, <3>1, TailSaves
    <3> QED
      BY <2>3, <3>2 DEF e
  <2>10. Ordered(up'[g], v, u)
    BY <2>2, <2>3
  <2>11. db'[u] = {v}
    BY <1>6
  <2> HIDE DEF q, v, on
  <2>12. \A h \in Games :
           /\ Ordered(up'[h], v, u) /\ Answers(down'[h], v, u)
           /\ player'[h][u] # None => v <= data'[h][u] /\ UpTo(up'[h], data'[h][u], u)
    BY <2>6, <2>7, <2>8, <2>9, <2>10
  <2>13. NewestAfter(u)
    BY <2>1, <2>11, <2>12 DEF NewestAfter
  <2> QED
    BY <1>0, <2>1, <2>2, <2>11, <2>13
<1>7. Stored(u)
  BY AnswerStep
<1>8. CASE db'[u] = db[u] /\ NewestAfter(u)
  BY <1>0, <1>8
<1> QED
  BY <1>5, <1>6, <1>7, <1>8 DEF Stored

\* The inductive invariant of the saves.  What is promised of a uid ends with a
\* stray EXIT for it, and what is promised of its data with a failure.
SaveInv ==
  /\ Offline /\ AllBacked
  /\ \A u \in Uids : ~stray[u] => \A g \in Games : RepliesFirst(down[g], u)
  /\ \A u \in Uids : ~stray[u] /\ ~(fails > 0) => Newest(u)

\* Failures are counted, and the count never goes back.
LEMMA FailuresCounted ==
  ASSUME TypeOK, [Next]_vars, ~(fails' > 0)
  PROVE  ~(fails > 0)
<1>0. fails \in Nat
  BY DEF TypeOK
<1>1. fails' = fails \/ fails' = fails + 1
  <2> USE DEF bounds, Fail
  <2>1. CASE GateStep \/ UNCHANGED vars
    BY <2>1 DEF GateStep, MSG_LOGIN, MSG_ENTER, player_disconnect, vars
  <2>2. CASE \E g \in Games : GameStep(g) \/ \E w \in Uids : Play(g, w)
    BY <2>2 DEF GameStep, PLAYER_ENTER, PLAYER_EXIT, PLAYER_PASS, PLAYER_INSTEAD, Play,
                msg_db_srv_set_playerdata, msg_db_srv_get_playerdata,
                LoadRefused, LoadOnline, LoadSession
  <2>3. CASE \E g \in Games : GlobalStep(g) \/ LinkDown(g) \/ LinkUp(g)
    BY <2>3 DEF GlobalStep, CenterEnter, CenterExit, DbGET, DbSET, RegistSrvid, REGIST, LinkDown, LinkUp
  <2> QED
    BY <2>1, <2>2, <2>3 DEF Next
<1> QED
  BY <1>0, <1>1

LEMMA SaveStep ==
  ASSUME TypeOK, TypeOK', TenureUnique, SaveInv, [Next]_vars
  PROVE  /\ SaveInv'
         /\ \A u \in Uids : stray'[u] \/ fails' > 0 \/ \A old \in db[u], new \in db'[u] : new >= old
<1> USE DEF SaveInv
<1>1. Offline'
  BY OfflineStep
<1>2. AllBacked'
  BY BackedStep DEF AllBackedAfter, AllBacked, Backed, IsSave, Token
<1>3. ASSUME NEW u \in Uids, ~stray'[u]
      PROVE  ~stray[u] /\ Tenure(u) /\ TenureAfter(u)
  <2>1. ~stray[u]
    BY <1>3, StrayStays
  <2>2. Tenure(u)
    BY <2>1 DEF TenureUnique
  <2> QED
    BY <1>3, <2>1, <2>2, TenureStep
<1>4. ASSUME NEW u \in Uids, ~stray'[u], NEW g \in Games
      PROVE  RepliesFirst(down'[g], u)
  BY <1>3, <1>4, RepliesStep
<1>5. ASSUME NEW u \in Uids, ~stray'[u], ~(fails' > 0)
      PROVE  NewestAfter(u) /\ \A old \in db[u], new \in db'[u] : new >= old
  <2>1. Newest(u)
    BY <1>3, <1>5, FailuresCounted
  <2> QED
    BY <1>3, <1>5, <2>1, NewestStep
<1>6. (\A u \in Uids : ~stray[u] => \A g \in Games : RepliesFirst(down[g], u))'
  BY <1>4 DEF RepliesFirst, IsReply
<1>7. (\A u \in Uids : ~stray[u] /\ ~(fails > 0) => Newest(u))'
  <2>1. ASSUME NEW u, NewestAfter(u) PROVE Newest(u)'
    BY <2>1 DEF Newest, NewestAfter, Ordered, UpTo, Answers, IsSave, IsLoaded
  <2> QED
    BY <1>5, <2>1
<1>8. SaveInv'
  BY <1>1, <1>2, <1>6, <1>7
<1> QED
  BY <1>5, <1>8

LEMMA SavesInvariant == Spec => []SaveInv
<1>1. Init => SaveInv
  <2> SUFFICES ASSUME Init PROVE SaveInv
    OBVIOUS
  <2>1. /\ \A g \in Games : up[g] = <<>> /\ down[g] = <<>>
        /\ \A g \in Games, u \in Uids : player[g][u] = None
        /\ \A u \in Uids : db[u] = {0}
    BY DEF Init
  <2>2. Offline /\ AllBacked
    BY <2>1 DEF Offline, AllBacked, Backed
  <2>3. \A u \in Uids, g \in Games : RepliesFirst(down[g], u)
    BY <2>1 DEF RepliesFirst
  <2>4. \A u \in Uids : Newest(u)
    BY <2>1 DEF Newest, Ordered, Answers
  <2> QED
    BY <2>2, <2>3, <2>4 DEF SaveInv
<1>2. TypeOK /\ TypeOK' /\ TenureUnique /\ SaveInv /\ [Next]_vars => SaveInv'
  BY SaveStep
<1> QED
  BY <1>1, <1>2, TypeCorrect, TenureIsUnique, PTL DEF Spec

\* The reply to a save finds the session that was saved: what begins the next
\* session of the player is behind it.
THEOREM RepliesFindTheirSession == Spec => []NoReplyForLaterSession
<1>1. SaveInv => NoReplyForLaterSession
  BY DEF SaveInv, NoReplyForLaterSession, RepliesFirst, IsReply
<1> QED
  BY <1>1, SavesInvariant, PTL

\* Without a failed write a save never puts older data over newer data: across
\* takeovers and lost connections the stored version of a player only grows.
THEOREM SavesOnlyGrow == Spec => SavesNeverRegress
<1>1. TypeOK /\ TypeOK' /\ TenureUnique /\ SaveInv /\ [Next]_vars =>
        [\A u \in Uids : stray'[u] \/ fails' > 0 \/ \A old \in db[u], new \in db'[u] : new >= old]_vars
  BY SaveStep
<1> QED
  BY <1>1, SavesInvariant, TypeCorrect, TenureIsUnique, PTL DEF Spec, SavesNeverRegress

-----------------------------------------------------------------------------
(* The login protocol implements SessionLease: every step of it is a step of *)
(* the lease, or leaves the lease alone.                                     *)

\* The step changes nothing that the lease sees.
LeaseStutters == UNCHANGED <<holder, player, stray>>

LEMMA StutterIsStutter == LeaseStutters => UNCHANGED Lease!vars
  BY DEF LeaseStutters, Lease!vars, Online

\* A void uid may do anything, as long as it does it alone.
LEMMA VoidStep ==
  ASSUME TypeOK, TypeOK', NEW w \in Uids, stray[w], stray' = stray,
         \A v \in Uids \ {w} : /\ holder'[v] = holder[v]
                               /\ \A g \in Games : player'[g][v] = player[g][v]
  PROVE  Lease!Next
<1>1. \A v \in Uids \ {w} : Online(v)' = Online(v)
  BY DEF Online
<1>2. holder'[w] \in Games \cup {None} /\ Online(w)' \subseteq Games
  BY DEF TypeOK, Online
<1>3. Lease!Anything(w)
  BY <1>1, <1>2 DEF Lease!Anything
<1>4. QED
  BY <1>3 DEF Lease!Next

\* A step that brings a player online, or takes it offline, on one server.
LEMMA LoginStep ==
  ASSUME TypeOK, TypeOK', NEW w \in Uids, NEW g \in Games, NEW gate \in Gates,
         player' = [player EXCEPT ![g][w] = gate], UNCHANGED <<holder, stray>>,
         player[g][w] = None, ~stray[w] => holder[w] = g /\ Online(w) = {}
  PROVE  Lease!Next
<1>0. gate # None
  BY LoginAssumption
<1>1. \A v \in Uids \ {w}, h \in Games : player'[h][v] = player[h][v]
  BY DEF TypeOK
<1>2. CASE stray[w]
  BY <1>1, <1>2, VoidStep
<1>3. CASE ~stray[w]
  <2>1. \A v \in Uids \ {w} : Online(v)' = Online(v)
    BY <1>1 DEF Online
  <2>2. Online(w)' = {g}
    BY <1>0, <1>3 DEF Online, TypeOK
  <2>3. [u \in Uids |-> Online(u)]' = [[u \in Uids |-> Online(u)] EXCEPT ![w] = {holder[w]}]
    BY <1>3, <2>1, <2>2
  <2>4. holder[w] # None
    BY <1>3, LoginAssumption
  <2>5. Lease!Login(w)
    BY <1>3, <2>3, <2>4 DEF Lease!Login
  <2>6. QED
    BY <2>5 DEF Lease!Next
<1>4. QED
  BY <1>2, <1>3

LEMMA LogoutStep ==
  ASSUME TypeOK, TypeOK', NEW w \in Uids, NEW g \in Games,
         player' = [player EXCEPT ![g][w] = None], UNCHANGED <<holder, stray>>,
         player[g][w] # None, ~stray[w] => Online(w) \subseteq {g}
  PROVE  Lease!Next
<1>1. \A v \in Uids \ {w}, h \in Games : player'[h][v] = player[h][v]
  BY DEF TypeOK
<1>2. CASE stray[w]
  BY <1>1, <1>2, VoidStep
<1>3. CASE ~stray[w]
  <2>1. \A v \in Uids \ {w} : Online(v)' = Online(v)
    BY <1>1 DEF Online
  <2>2. Online(w)' = {} /\ Online(w) # {}
    BY <1>3 DEF Online, TypeOK
  <2>3. [u \in Uids |-> Online(u)]' = [[u \in Uids |-> Online(u)] EXCEPT ![w] = {}]
    BY <2>1, <2>2
  <2>4. Lease!Logout(w)
    BY <2>2, <2>3 DEF Lease!Logout
  <2>5. QED
    BY <2>4 DEF Lease!Next
<1>4. QED
  BY <1>2, <1>3

\* The center's record moves, or is given back.
LEMMA YieldStep ==
  ASSUME TypeOK, TypeOK', NEW w \in Uids, NEW next \in Games \cup {None},
         holder' = [holder EXCEPT ![w] = next], UNCHANGED <<player, stray>>,
         holder[w] # None, ~stray[w] => Online(w) = {}
  PROVE  Lease!Next
<1>1. \A v \in Uids \ {w} : holder'[v] = holder[v]
  BY DEF TypeOK
<1>2. CASE stray[w]
  BY <1>1, <1>2, VoidStep
<1>3. CASE ~stray[w]
  <2>1. UNCHANGED [u \in Uids |-> Online(u)]
    BY DEF Online
  <2>2. Lease!Yield(w, next)
    BY <1>3, <2>1 DEF Lease!Yield
  <2>3. QED
    BY <2>2 DEF Lease!Next
<1>4. QED
  BY <1>2, <1>3

LEMMA LeaseStep ==
  ASSUME TypeOK, TypeOK', TenureUnique, [Next]_vars
  PROVE  [Lease!Next]_Lease!vars
<1>0. up \in UpChannels /\ down \in DownChannels
  BY DEF TypeOK, UpChannels, DownChannels
<1>1. ASSUME LeaseStutters PROVE UNCHANGED Lease!vars
  BY <1>1, StutterIsStutter
<1>2. CASE GateStep
  BY <1>1, <1>2 DEF GateStep, MSG_LOGIN, MSG_ENTER, player_disconnect, gameVars, globalVars,
                    LeaseStutters
<1>3. CASE \E g \in Games :
             \/ \E gate \in Gates : PLAYER_ENTER(g, gate)
             \/ PLAYER_PASS(g) \/ PLAYER_INSTEAD(g) \/ (\E u \in Uids : Play(g, u))
             \/ DbGET(g) \/ DbSET(g) \/ RegistSrvid(g) \/ REGIST(g) \/ LinkDown(g) \/ LinkUp(g)
  BY <1>1, <1>3
  DEF PLAYER_ENTER, PLAYER_PASS, PLAYER_INSTEAD, Play, DbGET, DbSET, RegistSrvid, REGIST,
      LinkDown, LinkUp, gameVars, globalVars, LeaseStutters
<1>4. ASSUME NEW g \in Games, NEW gate \in Gates, PLAYER_EXIT(g, gate)
      PROVE  [Lease!Next]_Lease!vars
  <2>1. UNCHANGED <<holder, player>>
    BY <1>4 DEF PLAYER_EXIT, gameVars, globalVars
  <2>2. PICK w \in Uids : stray' = [stray EXCEPT ![w] = TRUE] \/ UNCHANGED stray
    <3>1. inq[gate][g] \in Seq(GateMessages) /\ inq[gate][g] # <<>>
      BY <1>4 DEF PLAYER_EXIT, Calls, TypeOK
    <3>2. Head(inq[gate][g]).uid \in Uids
      BY <3>1, MessageFields
    <3>3. QED
      BY <1>4, <3>2 DEF PLAYER_EXIT
  <2>3. CASE stray' = [stray EXCEPT ![w] = TRUE]
    <3>1. UNCHANGED [u \in Uids |-> Online(u)]
      BY <2>1 DEF Online
    <3>2. Lease!Forfeit(w)
      BY <2>1, <2>3, <3>1 DEF Lease!Forfeit
    <3>3. QED
      BY <3>2 DEF Lease!Next
  <2>4. QED
    BY <1>1, <2>1, <2>2, <2>3 DEF LeaseStutters
<1>5. ASSUME NEW g \in Games, msg_db_srv_set_playerdata(g)
      PROVE  [Lease!Next]_Lease!vars
  <2>1. down[g] # <<>> /\ down' = Receive(down, g) /\ UNCHANGED <<holder, stray>>
    BY <1>5 DEF msg_db_srv_set_playerdata, Calls, globalVars
  <2>2. PICK w \in Uids :
          \/ UNCHANGED player
          \/ player[g][w] # None /\ player' = [player EXCEPT ![g][w] = None]
    BY <1>0, <1>5, <2>1, ReceivedDown DEF msg_db_srv_set_playerdata, SaveIgnored
  <2>3. CASE player[g][w] # None /\ player' = [player EXCEPT ![g][w] = None]
    <3>1. ~stray[w] => Online(w) \subseteq {g}
      BY <2>3 DEF TenureUnique, Tenure, Online
    <3>2. QED
      BY <2>1, <2>3, <3>1, LogoutStep
  <2>4. QED
    BY <1>1, <2>1, <2>2, <2>3 DEF LeaseStutters
<1>6. ASSUME NEW g \in Games, msg_db_srv_get_playerdata(g)
      PROVE  [Lease!Next]_Lease!vars
  <2>1. down[g] # <<>> /\ down' = Receive(down, g) /\ UNCHANGED <<holder, stray>>
    BY <1>6 DEF msg_db_srv_get_playerdata, Calls, globalVars
  <2>2. PICK w \in Uids :
          /\ Token(Head(down[g]), w)
          /\ \/ UNCHANGED player
             \/ tmp[g][w] # None /\ player' = [player EXCEPT ![g][w] = tmp[g][w]]
    BY <1>0, <1>6, <2>1, ReceivedDown
    DEF msg_db_srv_get_playerdata, LoadRefused, LoadOnline, LoadSession, Calls, Token
  <2>3. CASE tmp[g][w] # None /\ player' = [player EXCEPT ![g][w] = tmp[g][w]]
    <3>1. tmp[g][w] \in Gates
      BY <2>3 DEF TypeOK
    <3>2. CASE player[g][w] # None
      <4>1. \A u \in Uids, h \in Games : player'[h][u] # None <=> player[h][u] # None
        <5>1. \A u \in Uids, h \in Games :
                player'[h][u] = IF h = g /\ u = w THEN tmp[g][w] ELSE player[h][u]
          <6>1. player \in [Games -> [Uids -> Gates \cup {None}]]
            BY DEF TypeOK
          <6>2. QED
            BY <2>3, <6>1
        <5>2. QED
          BY <2>3, <3>2, <5>1
      <4>2. UNCHANGED [u \in Uids |-> Online(u)]
        BY <4>1 DEF Online
      <4>3. QED
        BY <2>1, <4>2 DEF Lease!vars
    <3>3. CASE player[g][w] = None
      <4>1. Carries(down[g], w)
        BY <1>0, <2>1, <2>2, ReceivedDown
      <4>2. ~stray[w] => holder[w] = g /\ Online(w) = {}
        BY <3>3, <4>1 DEF TenureUnique, Tenure, Online
      <4>3. QED
        BY <2>1, <2>3, <3>1, <3>3, <4>2, LoginStep
    <3>4. QED
      BY <3>2, <3>3
  <2>4. QED
    BY <1>1, <2>1, <2>2, <2>3 DEF LeaseStutters
<1>7. ASSUME NEW g \in Games, CenterEnter(g)
      PROVE  [Lease!Next]_Lease!vars
  <2>1. up[g] # <<>> /\ up' = Receive(up, g) /\ UNCHANGED <<player, stray>>
    BY <1>7 DEF CenterEnter, Calls, gameVars
  <2>2. Head(up[g]).uid \in Uids
    BY <1>0, <1>7, <2>1, ReceivedUp, MessageFields DEF CenterEnter, Calls
  <2>3. PICK w \in Uids :
          \/ UNCHANGED holder
          \/ holder[w] = None /\ holder' = [holder EXCEPT ![w] = g]
    BY <1>7, <2>2 DEF CenterEnter, Takeover
  <2>4. CASE holder[w] = None /\ holder' = [holder EXCEPT ![w] = g]
    <3>1. UNCHANGED [u \in Uids |-> Online(u)]
      BY <2>1 DEF Online
    <3>2. Lease!Grant(w, g)
      BY <2>1, <2>4, <3>1 DEF Lease!Grant
    <3>3. QED
      BY <3>2 DEF Lease!Next
  <2>5. QED
    BY <1>1, <2>1, <2>3, <2>4 DEF LeaseStutters
<1>8. ASSUME NEW g \in Games, CenterExit(g)
      PROVE  [Lease!Next]_Lease!vars
  <2>1. up[g] # <<>> /\ up' = Receive(up, g) /\ UNCHANGED <<player, stray>>
    BY <1>8 DEF CenterExit, Calls, gameVars
  <2>2. Head(up[g]).uid \in Uids /\ Token(Head(up[g]), Head(up[g]).uid)
    BY <1>0, <1>8, <2>1, ReceivedUp, MessageFields DEF CenterExit, Calls, Token
  <2>3. PICK w \in Uids, next \in Games \cup {None} :
          /\ Token(Head(up[g]), w)
          /\ \/ UNCHANGED holder
             \/ holder[w] = g /\ holder' = [holder EXCEPT ![w] = next]
    <3>1. game_manager \subseteq Games
      BY DEF TypeOK
    <3>2. QED
      BY <1>8, <2>2, <3>1 DEF CenterExit
  <2>4. CASE holder[w] = g /\ holder' = [holder EXCEPT ![w] = next]
    <3>1. Carries(up[g], w)
      BY <1>0, <2>1, <2>3, ReceivedUp
    <3>2. ~stray[w] => Online(w) = {}
      BY <3>1 DEF TenureUnique, Tenure, Online
    <3>3. holder[w] # None
      BY <2>4, LoginAssumption
    <3>4. QED
      BY <2>1, <2>4, <3>2, <3>3, YieldStep
  <2>5. QED
    BY <1>1, <2>1, <2>3, <2>4 DEF LeaseStutters
<1>9. CASE UNCHANGED vars
  BY <1>1, <1>9 DEF vars, LeaseStutters
<1>10. QED
  BY <1>2, <1>3, <1>4, <1>5, <1>6, <1>7, <1>8, <1>9 DEF Next, GameStep, GlobalStep

\* The login protocol of the center and the game servers implements the lease:
\* a player is brought online only on the server that the center's record
\* names, and the record moves only while the player is offline everywhere,
\* until some server reports the exit of a player that was not online there.
THEOREM LeaseImplemented == Spec => LeaseKept
<1>1. Init => Lease!Init
  BY DEF Init, Lease!Init, Online
<1>2. TypeOK /\ TypeOK' /\ TenureUnique /\ [Next]_vars => [Lease!Next]_Lease!vars
  BY LeaseStep
<1>3. QED
  BY <1>1, <1>2, TypeCorrect, TenureIsUnique, PTL DEF Spec, LeaseKept, Lease!Spec

-----------------------------------------------------------------------------
(* A takeover moves on *)

\* What TakeoverEnds and RecordIsBacked promise needs more than fairness: as long
\* as a takeover has not ended there must be a message whose handler moves it on.
InFlight(queue, type, u) == \E i \in 1..Len(queue) : queue[i].type = type /\ queue[i].uid = u

\* Between one game (its requests to the global server and the answers to them)
\* and the global server a session of u is on its way.
Loading(reqs, answers, u) ==
  \/ InFlight(answers, "PASS", u) \/ InFlight(reqs, "GET", u)
  \/ InFlight(answers, "GET_REPLY", u)

\* The session is there, on its way, or given back.
Backing(on, reqs, answers, u) ==
  on # None \/ Loading(reqs, answers, u) \/ InFlight(reqs, "EXIT", u)

\* There is something that makes the game give the player up: it is asked to, it
\* enters again and will be asked to, it has saved, it has given up, or what it
\* loads will find no lock.
Yielding(on, lock, reqs, answers, u) ==
  \/ InFlight(answers, "INSTEAD", u) \/ InFlight(reqs, "ENTER", u) \/ InFlight(reqs, "EXIT", u)
  \/ on # None /\ (InFlight(reqs, "SET", u) \/ InFlight(answers, "SET_REPLY", u))
  \/ on = None /\ lock = None /\ Loading(reqs, answers, u)

\* As long as no connection was lost, a record of the center is not left without a
\* player: the server it names has the player, is loading it, or has sent EXIT.
RecordsBacked ==
  drops = 0 => \A u \in Uids, g \in Games :
    holder[u] = g => Backing(player[g][u], up[g], down[g], u)

\* As long as nothing failed and no connection was lost, a takeover does not come
\* to a stop: something is in flight that makes the server of the record give the
\* player up.
TakeoverMoves ==
  drops = 0 /\ fails = 0 => \A u \in Uids :
    instead[u] # None => \E g \in Games :
      holder[u] = g /\ Yielding(player[g][u], tmp[g][u], up[g], down[g], u)

Connected == drops = 0 => conn = Games /\ mapped = Games /\ game_manager = Games

\* Without a failure every save is answered with success.
Acknowledged ==
  fails = 0 => \A g \in Games : \A i \in 1..Len(down[g]) :
    down[g][i].type = "SET_REPLY" => down[g][i].result = 1

Moves(u) ==
  /\ \A g \in Games : holder[u] = g =>
       /\ Backing(player[g][u], up[g], down[g], u)
       /\ instead[u] # None /\ fails = 0 =>
            Yielding(player[g][u], tmp[g][u], up[g], down[g], u)
  /\ instead[u] # None => holder[u] # None

\* Moves(u) in the state after a step, with the primes on the variables.
MovesAfter(u) ==
  /\ \A g \in Games : holder'[u] = g =>
       /\ Backing(player'[g][u], up'[g], down'[g], u)
       /\ instead'[u] # None /\ fails' = 0 =>
            Yielding(player'[g][u], tmp'[g][u], up'[g], down'[g], u)
  /\ instead'[u] # None => holder'[u] # None

LEMMA MovesPrime ==
  ASSUME NEW u, MovesAfter(u) PROVE Moves(u)'
  BY DEF MovesAfter, Moves, Backing, Yielding, Loading, InFlight

LEMMA AppendFlight ==
  ASSUME NEW S, NEW q \in Seq(S), NEW m \in S
  PROVE  /\ InFlight(Append(q, m), m.type, m.uid)
         /\ \A t, u : InFlight(q, t, u) => InFlight(Append(q, m), t, u)
<1>1. /\ Len(Append(q, m)) = Len(q) + 1 /\ Len(q) \in Nat
      /\ Append(q, m)[Len(q) + 1] = m
      /\ \A i \in 1..Len(q) : Append(q, m)[i] = q[i]
  OBVIOUS
<1>2. Len(q) + 1 \in 1..Len(Append(q, m)) /\ \A i \in 1..Len(q) : i \in 1..Len(Append(q, m))
  BY <1>1
<1> QED
  BY <1>1, <1>2 DEF InFlight

LEMMA TailFlight ==
  ASSUME NEW S, NEW q \in Seq(S), q # <<>>, NEW t, NEW u, InFlight(q, t, u)
  PROVE  InFlight(Tail(q), t, u) \/ (Head(q).type = t /\ Head(q).uid = u)
<1>1. /\ Len(q) \in Nat /\ Len(q) > 0 /\ Len(Tail(q)) = Len(q) - 1 /\ Head(q) = q[1]
      /\ \A i \in 1..Len(Tail(q)) : Tail(q)[i] = q[i + 1]
  OBVIOUS
<1>2. PICK i \in 1..Len(q) : q[i].type = t /\ q[i].uid = u
  BY DEF InFlight
<1>3. CASE i = 1
  BY <1>1, <1>2, <1>3
<1>4. CASE i # 1
  <2>1. i - 1 \in 1..Len(Tail(q)) /\ (i - 1) + 1 = i
    BY <1>1, <1>4
  <2>2. Tail(q)[i - 1] = q[i]
    BY <1>1, <2>1
  <2> QED
    BY <1>2, <2>1, <2>2 DEF InFlight
<1> QED
  BY <1>3, <1>4

\* What POST and receive do to what is in flight.
LEMMA PostUpFlight ==
  ASSUME NEW chan \in UpChannels, NEW g \in conn, conn = Games, NEW m \in UpMessages
  PROVE  /\ InFlight(PostUp(chan, g, m)[g], m.type, m.uid)
         /\ \A h \in Games : \A t, u :
              InFlight(chan[h], t, u) => InFlight(PostUp(chan, g, m)[h], t, u)
<1>1. PostUp(chan, g, m)[g] = Append(chan[g], m) /\ \A h \in Games \ {g} : PostUp(chan, g, m)[h] = chan[h]
  BY DEF PostUp, UpChannels
<1>2. chan[g] \in Seq(UpMessages)
  BY DEF UpChannels
<1>3. /\ InFlight(Append(chan[g], m), m.type, m.uid)
      /\ \A t, u : InFlight(chan[g], t, u) => InFlight(Append(chan[g], m), t, u)
  BY <1>2, AppendFlight
<1> QED
  BY <1>1, <1>3

LEMMA PostDownFlight ==
  ASSUME NEW chan \in DownChannels, NEW g \in mapped, mapped = Games, NEW m \in DownMessages
  PROVE  /\ InFlight(PostDown(chan, g, m)[g], m.type, m.uid)
         /\ \A h \in Games : \A t, u :
              InFlight(chan[h], t, u) => InFlight(PostDown(chan, g, m)[h], t, u)
<1>1. PostDown(chan, g, m)[g] = Append(chan[g], m) /\ \A h \in Games \ {g} : PostDown(chan, g, m)[h] = chan[h]
  BY DEF PostDown, DownChannels
<1>2. chan[g] \in Seq(DownMessages)
  BY DEF DownChannels
<1>3. /\ InFlight(Append(chan[g], m), m.type, m.uid)
      /\ \A t, u : InFlight(chan[g], t, u) => InFlight(Append(chan[g], m), t, u)
  BY <1>2, AppendFlight
<1> QED
  BY <1>1, <1>3

LEMMA ReceiveFlight ==
  ASSUME NEW chan \in UpChannels \cup DownChannels, NEW g \in Games, chan[g] # <<>>,
         NEW h \in Games, NEW t, NEW u
  PROVE  InFlight(chan[h], t, u) =>
           \/ InFlight(Receive(chan, g)[h], t, u)
           \/ h = g /\ Head(chan[g]).type = t /\ Head(chan[g]).uid = u
<1> SUFFICES ASSUME InFlight(chan[h], t, u)
             PROVE  \/ InFlight(Receive(chan, g)[h], t, u)
                    \/ h = g /\ Head(chan[g]).type = t /\ Head(chan[g]).uid = u
  OBVIOUS
<1>1. Receive(chan, g)[g] = Tail(chan[g]) /\ (h # g => Receive(chan, g)[h] = chan[h])
  BY DEF Receive, UpChannels, DownChannels
<1>2. CASE h = g
  <2>1. /\ chan[g] \in Seq(UpMessages) \/ chan[g] \in Seq(DownMessages)
        /\ InFlight(chan[g], t, u)
    BY <1>2 DEF UpChannels, DownChannels
  <2>2. InFlight(Tail(chan[g]), t, u) \/ (Head(chan[g]).type = t /\ Head(chan[g]).uid = u)
    BY <2>1, TailFlight
  <2> QED
    BY <1>1, <1>2, <2>2
<1>3. CASE h # g
  BY <1>1, <1>3
<1> QED
  BY <1>2, <1>3

\* What is in flight of u stays, but for what the game g takes or is taken from it.
Flows(u, g, reqs, answers) ==
  /\ \A h \in Games : \A t \in {"GET", "EXIT", "ENTER", "SET"} \ reqs :
       InFlight(up[h], t, u) => InFlight(up'[h], t, u)
  /\ \A h \in Games : \A t \in {"PASS", "GET_REPLY", "INSTEAD", "SET_REPLY"} \ answers :
       InFlight(down[h], t, u) => InFlight(down'[h], t, u)
  /\ \A h \in Games \ {g} : \A t \in {"GET", "EXIT", "ENTER", "SET"} :
       InFlight(up[h], t, u) => InFlight(up'[h], t, u)
  /\ \A h \in Games \ {g} : \A t \in {"PASS", "GET_REPLY", "INSTEAD", "SET_REPLY"} :
       InFlight(down[h], t, u) => InFlight(down'[h], t, u)

\* The state of u at the games but g, and at the center, stays.
Elsewhere(u, g) ==
  /\ holder'[u] = holder[u] /\ instead'[u] = instead[u] /\ (fails' = 0 => fails = 0)
  /\ \A h \in Games \ {g} : player'[h][u] = player[h][u] /\ tmp'[h][u] = tmp[h][u]

\* A step that takes nothing of u.
LEMMA QuietMoves ==
  ASSUME NEW u \in Uids, NEW g, Moves(u), Flows(u, g, {}, {}), Elsewhere(u, g),
         g \in Games => player'[g][u] = player[g][u] /\ tmp'[g][u] = tmp[g][u]
  PROVE  MovesAfter(u)
<1> SUFFICES ASSUME NEW h \in Games, holder'[u] = h
             PROVE  /\ Backing(player'[h][u], up'[h], down'[h], u)
                    /\ instead'[u] # None /\ fails' = 0 =>
                         Yielding(player'[h][u], tmp'[h][u], up'[h], down'[h], u)
  BY DEF MovesAfter, Moves, Elsewhere
<1>1. /\ Backing(player[h][u], up[h], down[h], u) /\ (fails' = 0 => fails = 0)
      /\ instead[u] # None /\ fails = 0 => Yielding(player[h][u], tmp[h][u], up[h], down[h], u)
      /\ instead'[u] = instead[u] /\ player'[h][u] = player[h][u] /\ tmp'[h][u] = tmp[h][u]
  BY DEF Moves, Elsewhere
<1>2. /\ \A t \in {"GET", "EXIT", "ENTER", "SET"} : InFlight(up[h], t, u) => InFlight(up'[h], t, u)
      /\ \A t \in {"PASS", "GET_REPLY", "INSTEAD", "SET_REPLY"} :
           InFlight(down[h], t, u) => InFlight(down'[h], t, u)
  BY DEF Flows
<1> QED
  BY <1>1, <1>2 DEF Backing, Yielding, Loading

\* A step of the game g that takes something of u: only the record of g matters.
LEMMA GameMoves ==
  ASSUME NEW u \in Uids, NEW g \in Games, NEW reqs, NEW answers,
         Moves(u), Flows(u, g, reqs, answers), Elsewhere(u, g),
         holder[u] = g =>
           /\ Backing(player'[g][u], up'[g], down'[g], u)
           /\ instead[u] # None /\ fails' = 0 =>
                Yielding(player'[g][u], tmp'[g][u], up'[g], down'[g], u)
  PROVE  MovesAfter(u)
<1> SUFFICES ASSUME NEW h \in Games, holder'[u] = h, h # g
             PROVE  /\ Backing(player'[h][u], up'[h], down'[h], u)
                    /\ instead'[u] # None /\ fails' = 0 =>
                         Yielding(player'[h][u], tmp'[h][u], up'[h], down'[h], u)
  BY DEF MovesAfter, Moves, Elsewhere
<1>1. /\ Backing(player[h][u], up[h], down[h], u) /\ (fails' = 0 => fails = 0)
      /\ instead[u] # None /\ fails = 0 => Yielding(player[h][u], tmp[h][u], up[h], down[h], u)
      /\ instead'[u] = instead[u] /\ player'[h][u] = player[h][u] /\ tmp'[h][u] = tmp[h][u]
  BY DEF Moves, Elsewhere
<1>2. /\ \A t \in {"GET", "EXIT", "ENTER", "SET"} : InFlight(up[h], t, u) => InFlight(up'[h], t, u)
      /\ \A t \in {"PASS", "GET_REPLY", "INSTEAD", "SET_REPLY"} :
           InFlight(down[h], t, u) => InFlight(down'[h], t, u)
  BY DEF Flows
<1> QED
  BY <1>1, <1>2 DEF Backing, Yielding, Loading

\* The steps of a game.
LEMMA EnterMoves ==
  ASSUME TypeOK, conn = Games, NEW u \in Uids, Moves(u), NEW g \in Games, NEW gate \in Gates,
         PLAYER_ENTER(g, gate)
  PROVE  MovesAfter(u)
<1>0. /\ up \in UpChannels /\ down \in DownChannels /\ tmp \in [Games -> [Uids -> Gates \cup {None}]]
  BY DEF TypeOK, UpChannels, DownChannels
<1>1. PICK w \in Uids : /\ up' = PostUp(up, g, Msg("ENTER", w)) /\ tmp' = [tmp EXCEPT ![g][w] = gate]
                        /\ UNCHANGED <<down, player, holder, instead, fails>>
  <2>1. Head(inq[gate][g]) \in GateMessages
    BY DEF PLAYER_ENTER, Calls, TypeOK
  <2>2. Head(inq[gate][g]).uid \in Uids
    BY <2>1, MessageFields
  <2> QED
    BY <2>2 DEF PLAYER_ENTER, globalVars, bounds
<1>2. Msg("ENTER", w) \in UpMessages /\ Msg("ENTER", w).type = "ENTER" /\ Msg("ENTER", w).uid = w
  BY MessageTypes DEF Msg
<1>3. /\ InFlight(up'[g], "ENTER", w)
      /\ \A h \in Games : \A t, v : InFlight(up[h], t, v) => InFlight(up'[h], t, v)
  BY <1>0, <1>1, <1>2, PostUpFlight
<1>4. Flows(u, g, {}, {}) /\ Elsewhere(u, g) /\ player' = player
  BY <1>0, <1>1, <1>3 DEF Flows, Elsewhere
<1>5. CASE w = u
  <2>1. Yielding(player'[g][u], tmp'[g][u], up'[g], down'[g], u)
    BY <1>3, <1>5 DEF Yielding
  <2>2. holder[u] = g => Backing(player'[g][u], up'[g], down'[g], u)
    <3>1. holder[u] = g => Backing(player[g][u], up[g], down[g], u)
      BY DEF Moves
    <3> QED
      BY <1>1, <1>3, <3>1 DEF Backing, Loading
  <2> QED
    BY <1>4, <2>1, <2>2, GameMoves
<1>6. CASE w # u
  <2>1. tmp'[g][u] = tmp[g][u] /\ player'[g][u] = player[g][u]
    BY <1>0, <1>1, <1>6
  <2> QED
    BY <1>4, <2>1, QuietMoves
<1> QED
  BY <1>5, <1>6

\* A step that only sends to the center.
LEMMA SendMoves ==
  ASSUME TypeOK, conn = Games, NEW u \in Uids, Moves(u), NEW g \in Games, NEW m \in UpMessages,
         up' = PostUp(up, g, m), UNCHANGED <<down, tmp, player, holder, instead, fails>>
  PROVE  MovesAfter(u)
<1>1. up \in UpChannels
  BY DEF TypeOK, UpChannels
<1>2. \A h \in Games : \A t, v : InFlight(up[h], t, v) => InFlight(up'[h], t, v)
  BY <1>1, PostUpFlight
<1>3. Flows(u, g, {}, {}) /\ Elsewhere(u, g)
  BY <1>2 DEF Flows, Elsewhere
<1> QED
  BY <1>3, QuietMoves

LEMMA ExitMoves ==
  ASSUME TypeOK, conn = Games, NEW u \in Uids, Moves(u), NEW g \in Games, NEW gate \in Gates,
         PLAYER_EXIT(g, gate)
  PROVE  MovesAfter(u)
<1>1. PICK w \in Uids : /\ UNCHANGED <<down, tmp, player, holder, instead, fails>>
                        /\ \/ up' = PostUp(up, g, Msg("EXIT", w))
                           \/ up' = PostUp(up, g, SaveRequest(g, w))
  BY MessageFields DEF PLAYER_EXIT, player_logout, Calls, TypeOK, globalVars, gameVars, bounds
<1>2. Msg("EXIT", w) \in UpMessages /\ SaveRequest(g, w) \in UpMessages
  <2>1. data[g][w] \in Nat
    BY DEF TypeOK
  <2> QED
    BY <2>1, MessageTypes DEF SaveRequest
<1> QED
  BY <1>1, <1>2, SendMoves

\* What a game takes from its answers, and the global server from its requests.
LEMMA TakenDown ==
  ASSUME TypeOK, NEW g \in Games, NEW type, Calls(down[g], type)
  PROVE  /\ Receive(down, g) \in DownChannels
         /\ Head(down[g]).uid \in Uids /\ Head(down[g]).type = type
         /\ \A h \in Games : \A t, u : InFlight(down[h], t, u) =>
              InFlight(Receive(down, g)[h], t, u) \/ (h = g /\ t = type /\ Head(down[g]).uid = u)
<1>1. down \in DownChannels /\ down[g] # <<>> /\ Head(down[g]).type = type
  BY DEF TypeOK, Calls, DownChannels
<1>2. Head(down[g]) \in DownMessages /\ Receive(down, g) \in DownChannels
  BY <1>1, DownTypes
<1>3. ASSUME NEW h \in Games, NEW t, NEW u, InFlight(down[h], t, u)
      PROVE  InFlight(Receive(down, g)[h], t, u) \/ (h = g /\ t = type /\ Head(down[g]).uid = u)
  <2>1. \/ InFlight(Receive(down, g)[h], t, u)
        \/ h = g /\ Head(down[g]).type = t /\ Head(down[g]).uid = u
    BY <1>1, <1>3, ReceiveFlight
  <2> QED
    BY <1>1, <2>1
<1> QED
  BY <1>1, <1>2, <1>3, MessageFields

LEMMA TakenUp ==
  ASSUME TypeOK, NEW g \in Games, NEW type, Calls(up[g], type)
  PROVE  /\ Receive(up, g) \in UpChannels /\ Head(up[g]).type = type
         /\ type \in {"ENTER", "EXIT", "GET", "SET"} => Head(up[g]).uid \in Uids /\ Head(up[g]).ver \in Nat
         /\ \A h \in Games : \A t, u : InFlight(up[h], t, u) =>
              InFlight(Receive(up, g)[h], t, u) \/ (h = g /\ t = type /\ Head(up[g]).uid = u)
<1>1. up \in UpChannels /\ up[g] # <<>> /\ Head(up[g]).type = type
  BY DEF TypeOK, Calls, UpChannels
<1>2. Head(up[g]) \in UpMessages /\ Receive(up, g) \in UpChannels
  BY <1>1, UpTypes
<1>3. ASSUME NEW h \in Games, NEW t, NEW u, InFlight(up[h], t, u)
      PROVE  InFlight(Receive(up, g)[h], t, u) \/ (h = g /\ t = type /\ Head(up[g]).uid = u)
  <2>1. \/ InFlight(Receive(up, g)[h], t, u)
        \/ h = g /\ Head(up[g]).type = t /\ Head(up[g]).uid = u
    BY <1>1, <1>3, ReceiveFlight
  <2> QED
    BY <1>1, <2>1
<1> QED
  BY <1>1, <1>2, <1>3, MessageFields

\* Nothing of u that is in flight is lost.
StaysUp(u)   == \A h \in Games : \A t : InFlight(up[h], t, u) => InFlight(up'[h], t, u)
StaysDown(u) == \A h \in Games : \A t : InFlight(down[h], t, u) => InFlight(down'[h], t, u)

LEMMA TakeFlows ==
  ASSUME TypeOK, NEW u \in Uids, NEW g \in Games, NEW type, Calls(down[g], type),
         down' = Receive(down, g), StaysUp(u)
  PROVE  Flows(u, g, {}, {type}) /\ (Head(down[g]).uid # u => Flows(u, g, {}, {}))
<1>1. \A h \in Games : \A t : InFlight(down[h], t, u) =>
        InFlight(down'[h], t, u) \/ (h = g /\ t = type /\ Head(down[g]).uid = u)
  BY TakenDown
<1> QED
  BY <1>1 DEF Flows, StaysUp

LEMMA AskFlows ==
  ASSUME TypeOK, NEW u \in Uids, NEW g \in Games, NEW type, Calls(up[g], type),
         up' = Receive(up, g), StaysDown(u)
  PROVE  Flows(u, g, {type}, {}) /\ (Head(up[g]).uid # u => Flows(u, g, {}, {}))
<1>1. \A h \in Games : \A t : InFlight(up[h], t, u) =>
        InFlight(up'[h], t, u) \/ (h = g /\ t = type /\ Head(up[g]).uid = u)
  BY TakenUp
<1> QED
  BY <1>1 DEF Flows, StaysDown

LEMMA PassMoves ==
  ASSUME TypeOK, conn = Games, NEW u \in Uids, Moves(u), NEW g \in Games, PLAYER_PASS(g)
  PROVE  MovesAfter(u)
<1> DEFINE w == Head(down[g]).uid
<1>0. up \in UpChannels /\ w \in Uids /\ Calls(down[g], "PASS") /\ down' = Receive(down, g)
  BY TakenDown DEF PLAYER_PASS, TypeOK, UpChannels
<1>1. /\ up' = IF player[g][w] # None THEN up ELSE PostUp(up, g, Msg("GET", w))
      /\ UNCHANGED <<player, tmp, holder, instead, fails>>
  BY DEF PLAYER_PASS, gameVars, globalVars, bounds
<1>2. Msg("GET", w) \in UpMessages /\ Msg("GET", w).type = "GET" /\ Msg("GET", w).uid = w
  BY <1>0, MessageTypes DEF Msg
<1> HIDE DEF w
<1>3. /\ player[g][w] = None => InFlight(up'[g], "GET", w)
      /\ StaysUp(u)
  BY <1>0, <1>1, <1>2, PostUpFlight DEF StaysUp
<1>4. Flows(u, g, {}, {"PASS"}) /\ (w # u => Flows(u, g, {}, {}))
  BY <1>0, <1>3, TakeFlows DEF w
<1>5. Elsewhere(u, g) /\ player'[g][u] = player[g][u] /\ tmp'[g][u] = tmp[g][u]
  BY <1>1 DEF Elsewhere
<1>6. CASE w = u
  <2>1. holder[u] = g => /\ Backing(player[g][u], up[g], down[g], u)
                         /\ instead[u] # None /\ fails = 0 =>
                              Yielding(player[g][u], tmp[g][u], up[g], down[g], u)
    BY DEF Moves
  <2>2. player[g][u] # None \/ InFlight(up'[g], "GET", u)
    BY <1>3, <1>6
  <2>3. /\ \A t \in {"GET", "EXIT", "ENTER", "SET"} : InFlight(up[g], t, u) => InFlight(up'[g], t, u)
        /\ \A t \in {"GET_REPLY", "INSTEAD", "SET_REPLY"} :
             InFlight(down[g], t, u) => InFlight(down'[g], t, u)
    BY <1>4 DEF Flows
  <2>4. holder[u] = g => /\ Backing(player'[g][u], up'[g], down'[g], u)
                         /\ instead[u] # None /\ fails' = 0 =>
                              Yielding(player'[g][u], tmp'[g][u], up'[g], down'[g], u)
    BY <1>1, <1>5, <2>1, <2>2, <2>3 DEF Backing, Yielding, Loading
  <2> QED
    BY <1>4, <1>5, <2>4, GameMoves
<1>7. CASE w # u
  BY <1>4, <1>5, <1>7, QuietMoves
<1> QED
  BY <1>6, <1>7

LEMMA InsteadMoves ==
  ASSUME TypeOK, conn = Games, NEW u \in Uids, Moves(u), NEW g \in Games, PLAYER_INSTEAD(g)
  PROVE  MovesAfter(u)
<1> DEFINE w == Head(down[g]).uid
<1>0. /\ up \in UpChannels /\ w \in Uids /\ Calls(down[g], "INSTEAD") /\ down' = Receive(down, g)
      /\ tmp \in [Games -> [Uids -> Gates \cup {None}]] /\ data[g][w] \in Nat
  BY TakenDown DEF PLAYER_INSTEAD, TypeOK, UpChannels
<1>1. /\ up' = IF player[g][w] = None THEN up ELSE PostUp(up, g, SaveRequest(g, w))
      /\ tmp' = [tmp EXCEPT ![g][w] = None]
      /\ UNCHANGED <<player, holder, instead, fails>>
  BY DEF PLAYER_INSTEAD, player_logout, globalVars, bounds
<1>2. SaveRequest(g, w) \in UpMessages /\ SaveRequest(g, w).type = "SET" /\ SaveRequest(g, w).uid = w
  BY <1>0, MessageTypes DEF SaveRequest, DbMsg
<1> HIDE DEF w
<1>3. /\ player[g][w] # None => InFlight(up'[g], "SET", w)
      /\ StaysUp(u)
  BY <1>0, <1>1, <1>2, PostUpFlight DEF StaysUp
<1>4. Flows(u, g, {}, {"INSTEAD"}) /\ (w # u => Flows(u, g, {}, {}))
  BY <1>0, <1>3, TakeFlows DEF w
<1>5. Elsewhere(u, g) /\ player'[g][u] = player[g][u]
  BY <1>0, <1>1 DEF Elsewhere
<1>6. CASE w = u
  <2>1. holder[u] = g => Backing(player[g][u], up[g], down[g], u)
    BY DEF Moves
  <2>2. (player[g][u] # None => InFlight(up'[g], "SET", u)) /\ tmp'[g][u] = None
    BY <1>0, <1>1, <1>3, <1>6
  <2>3. /\ \A t \in {"GET", "EXIT", "ENTER", "SET"} : InFlight(up[g], t, u) => InFlight(up'[g], t, u)
        /\ \A t \in {"PASS", "GET_REPLY", "SET_REPLY"} :
             InFlight(down[g], t, u) => InFlight(down'[g], t, u)
    BY <1>4 DEF Flows
  <2>4. holder[u] = g => /\ Backing(player'[g][u], up'[g], down'[g], u)
                         /\ Yielding(player'[g][u], tmp'[g][u], up'[g], down'[g], u)
    BY <1>5, <2>1, <2>2, <2>3 DEF Backing, Yielding, Loading
  <2> QED
    BY <1>4, <1>5, <2>4, GameMoves
<1>7. CASE w # u
  <2>1. tmp'[g][u] = tmp[g][u]
    BY <1>0, <1>1, <1>7
  <2> QED
    BY <1>4, <1>5, <1>7, <2>1, QuietMoves
<1> QED
  BY <1>6, <1>7

LEMMA SaveMoves ==
  ASSUME TypeOK, conn = Games, Acknowledged, NEW u \in Uids, Moves(u), NEW g \in Games,
         msg_db_srv_set_playerdata(g)
  PROVE  MovesAfter(u)
<1> DEFINE w == Head(down[g]).uid
<1>0. /\ up \in UpChannels /\ w \in Uids /\ Calls(down[g], "SET_REPLY") /\ down' = Receive(down, g)
      /\ player \in [Games -> [Uids -> Gates \cup {None}]]
  BY TakenDown DEF msg_db_srv_set_playerdata, TypeOK, UpChannels
<1>1. /\ \/ /\ player[g][w] = None \/ Head(down[g]).result = 0
            /\ up' = up /\ player' = player
         \/ /\ up' = PostUp(up, g, Msg("EXIT", w))
            /\ player' = [player EXCEPT ![g][w] = None]
      /\ UNCHANGED <<tmp, holder, instead, fails>>
  BY DEF msg_db_srv_set_playerdata, SaveIgnored, globalVars, bounds
<1>2. Msg("EXIT", w) \in UpMessages /\ Msg("EXIT", w).type = "EXIT" /\ Msg("EXIT", w).uid = w
  BY <1>0, MessageTypes DEF Msg
<1>r. fails = 0 => Head(down[g]).result = 1
  <2>1. down[g] # <<>> /\ Head(down[g]).type = "SET_REPLY" /\ down[g] \in Seq(DownMessages)
    BY <1>0 DEF Calls, TypeOK
  <2>2. Head(down[g]) = down[g][1] /\ 1 \in 1..Len(down[g])
    BY <2>1
  <2> QED
    BY <2>1, <2>2 DEF Acknowledged
<1> HIDE DEF w
<1>3. /\ \/ up' = up /\ player' = player /\ (player[g][w] = None \/ fails # 0)
         \/ InFlight(up'[g], "EXIT", w) /\ player' = [player EXCEPT ![g][w] = None]
      /\ StaysUp(u)
  <2>1. CASE up' = PostUp(up, g, Msg("EXIT", w)) /\ player' = [player EXCEPT ![g][w] = None]
    <3>1. InFlight(up'[g], "EXIT", w) /\ StaysUp(u)
      BY <1>0, <1>2, <2>1, PostUpFlight DEF StaysUp
    <3> QED
      BY <2>1, <3>1
  <2>2. CASE (player[g][w] = None \/ Head(down[g]).result = 0) /\ up' = up /\ player' = player
    BY <1>r, <2>2 DEF StaysUp
  <2> QED
    BY <1>1, <2>1, <2>2
<1>4. Flows(u, g, {}, {"SET_REPLY"}) /\ (w # u => Flows(u, g, {}, {}))
  BY <1>0, <1>3, TakeFlows DEF w
<1>5. Elsewhere(u, g) /\ tmp'[g][u] = tmp[g][u]
  BY <1>0, <1>1 DEF Elsewhere
<1>6. CASE w = u
  <2>1. holder[u] = g => /\ Backing(player[g][u], up[g], down[g], u)
                         /\ instead[u] # None /\ fails = 0 =>
                              Yielding(player[g][u], tmp[g][u], up[g], down[g], u)
    BY DEF Moves
  <2>2. \/ player'[g][u] = player[g][u] /\ (player[g][u] = None \/ fails # 0)
        \/ InFlight(up'[g], "EXIT", u)
    BY <1>3, <1>6
  <2>3. /\ \A t \in {"GET", "EXIT", "ENTER", "SET"} : InFlight(up[g], t, u) => InFlight(up'[g], t, u)
        /\ \A t \in {"PASS", "GET_REPLY", "INSTEAD"} :
             InFlight(down[g], t, u) => InFlight(down'[g], t, u)
    BY <1>4 DEF Flows
  <2>4. holder[u] = g => /\ Backing(player'[g][u], up'[g], down'[g], u)
                         /\ instead[u] # None /\ fails' = 0 =>
                              Yielding(player'[g][u], tmp'[g][u], up'[g], down'[g], u)
    BY <1>1, <1>5, <2>1, <2>2, <2>3 DEF Backing, Yielding, Loading
  <2> QED
    BY <1>4, <1>5, <2>4, GameMoves
<1>7. CASE w # u
  <2>1. player'[g][u] = player[g][u]
    BY <1>0, <1>3, <1>7
  <2> QED
    BY <1>4, <1>5, <1>7, <2>1, QuietMoves
<1> QED
  BY <1>6, <1>7

LEMMA LoadMoves ==
  ASSUME TypeOK, conn = Games, NEW u \in Uids, Moves(u), NEW g \in Games,
         msg_db_srv_get_playerdata(g)
  PROVE  MovesAfter(u)
<1> DEFINE w == Head(down[g]).uid
<1>0. /\ up \in UpChannels /\ w \in Uids /\ Calls(down[g], "GET_REPLY") /\ down' = Receive(down, g)
      /\ player \in [Games -> [Uids -> Gates \cup {None}]]
      /\ tmp \in [Games -> [Uids -> Gates \cup {None}]] /\ Head(down[g]) \in DownMessages /\ fails \in Nat
  <2>1. down \in DownChannels /\ down[g] # <<>>
    BY DEF msg_db_srv_get_playerdata, TypeOK, DownChannels, Calls
  <2> QED
    BY <2>1, TakenDown, DownTypes DEF msg_db_srv_get_playerdata, TypeOK, UpChannels
<1>1. Head(down[g]).ver \in Nat
  BY <1>0, MessageFields
<1> DEFINE v == Head(down[g]).ver
<1>2. /\ Msg("EXIT", w) \in UpMessages /\ Msg("EXIT", w).type = "EXIT" /\ Msg("EXIT", w).uid = w
      /\ DbMsg("SET", w, v, 1) \in UpMessages
  BY <1>0, <1>1, MessageTypes DEF Msg
\* The answer is refused, or finds the player online, or makes the session.
<1>3. /\ \/ up' = PostUp(up, g, Msg("EXIT", w)) /\ UNCHANGED <<tmp, player, fails>>
         \/ /\ player[g][w] # None /\ tmp[g][w] # None /\ player' = [player EXCEPT ![g][w] = tmp[g][w]]
            /\ UNCHANGED <<up, tmp, fails>>
         \/ /\ player[g][w] = None /\ tmp[g][w] # None /\ player' = [player EXCEPT ![g][w] = tmp[g][w]]
            /\ tmp' = [tmp EXCEPT ![g][w] = None]
            /\ \/ UNCHANGED <<up, fails>>
               \/ up' = PostUp(up, g, DbMsg("SET", w, v, 1)) /\ fails' = fails + 1
      /\ UNCHANGED <<holder, instead>>
  BY DEF msg_db_srv_get_playerdata, LoadRefused, LoadOnline, LoadSession, Fail, globalVars
<1> HIDE DEF w, v
<1>4. StaysUp(u)
  <2>1. CASE up' = up
    BY <2>1 DEF StaysUp
  <2>2. CASE up' = PostUp(up, g, Msg("EXIT", w))
    BY <1>0, <1>2, <2>2, PostUpFlight DEF StaysUp
  <2>3. CASE up' = PostUp(up, g, DbMsg("SET", w, v, 1))
    BY <1>0, <1>2, <2>3, PostUpFlight DEF StaysUp
  <2> QED
    BY <1>3, <2>1, <2>2, <2>3
<1>5. /\ \/ InFlight(up'[g], "EXIT", w) /\ player' = player /\ tmp' = tmp
         \/ /\ tmp[g][w] # None /\ player' = [player EXCEPT ![g][w] = tmp[g][w]]
            /\ \/ player[g][w] # None /\ tmp' = tmp
               \/ player[g][w] = None /\ tmp' = [tmp EXCEPT ![g][w] = None]
      /\ fails' = 0 => fails = 0
  <2>1. up' = PostUp(up, g, Msg("EXIT", w)) => InFlight(up'[g], "EXIT", w)
    BY <1>0, <1>2, PostUpFlight
  <2> QED
    BY <1>0, <1>3, <2>1
<1>6. Flows(u, g, {}, {"GET_REPLY"}) /\ (w # u => Flows(u, g, {}, {}))
  BY <1>0, <1>4, TakeFlows DEF w
<1>7. Elsewhere(u, g)
  BY <1>0, <1>3, <1>5 DEF Elsewhere
<1>8. CASE w = u
  <2>1. holder[u] = g => /\ Backing(player[g][u], up[g], down[g], u)
                         /\ instead[u] # None /\ fails = 0 =>
                              Yielding(player[g][u], tmp[g][u], up[g], down[g], u)
    BY DEF Moves
  <2>2. \/ InFlight(up'[g], "EXIT", u)
        \/ tmp[g][u] # None /\ player'[g][u] # None
    BY <1>0, <1>5, <1>8
  <2>3. /\ \A t \in {"GET", "EXIT", "ENTER", "SET"} : InFlight(up[g], t, u) => InFlight(up'[g], t, u)
        /\ \A t \in {"PASS", "SET_REPLY", "INSTEAD"} :
             InFlight(down[g], t, u) => InFlight(down'[g], t, u)
    BY <1>6 DEF Flows
  <2>4. holder[u] = g => /\ Backing(player'[g][u], up'[g], down'[g], u)
                         /\ instead[u] # None /\ fails' = 0 =>
                              Yielding(player'[g][u], tmp'[g][u], up'[g], down'[g], u)
    BY <1>5, <2>1, <2>2, <2>3 DEF Backing, Yielding, Loading
  <2> QED
    BY <1>6, <1>7, <2>4, GameMoves
<1>9. CASE w # u
  <2>1. player'[g][u] = player[g][u] /\ tmp'[g][u] = tmp[g][u]
    BY <1>0, <1>5, <1>9
  <2> QED
    BY <1>6, <1>7, <1>9, <2>1, QuietMoves
<1> QED
  BY <1>8, <1>9

\* The steps of the global server.
LEMMA CenterEnterMoves ==
  ASSUME TypeOK, mapped = Games, game_manager = Games, NEW u \in Uids, Moves(u), NEW g \in Games,
         CenterEnter(g)
  PROVE  MovesAfter(u)
<1> DEFINE w == Head(up[g]).uid
<1>0. /\ down \in DownChannels /\ w \in Uids /\ Calls(up[g], "ENTER") /\ up' = Receive(up, g)
      /\ holder \in [Uids -> Games \cup {None}] /\ instead \in [Uids -> Games \cup {None}]
  BY TakenUp DEF CenterEnter, TypeOK, DownChannels
<1>1. UNCHANGED <<player, tmp, fails>>
  BY DEF CenterEnter, gameVars, bounds
<1>2. /\ Msg("PASS", w) \in DownMessages /\ Msg("PASS", w).type = "PASS" /\ Msg("PASS", w).uid = w
      /\ Msg("INSTEAD", w) \in DownMessages /\ Msg("INSTEAD", w).type = "INSTEAD" /\ Msg("INSTEAD", w).uid = w
  BY <1>0, MessageTypes DEF Msg
<1>3. \/ /\ holder[w] = None /\ holder' = [holder EXCEPT ![w] = g] /\ instead' = instead
         /\ down' = PostDown(down, g, Msg("PASS", w))
      \/ /\ holder[w] # None /\ holder' = holder /\ instead' = [instead EXCEPT ![w] = g]
         /\ down' = PostDown(down, holder[w], Msg("INSTEAD", w))
  BY DEF CenterEnter, Takeover
<1> HIDE DEF w
\* The first server of the player, or one that takes it over.
<1>4. \/ /\ holder[w] = None /\ holder' = [holder EXCEPT ![w] = g] /\ instead' = instead
         /\ InFlight(down'[g], "PASS", w) /\ StaysDown(u)
      \/ /\ holder[w] \in Games /\ holder' = holder /\ instead' = [instead EXCEPT ![w] = g]
         /\ InFlight(down'[holder[w]], "INSTEAD", w) /\ StaysDown(u)
  <2>1. CASE /\ holder[w] = None /\ holder' = [holder EXCEPT ![w] = g] /\ instead' = instead
             /\ down' = PostDown(down, g, Msg("PASS", w))
    <3>1. InFlight(down'[g], "PASS", w) /\ StaysDown(u)
      BY <1>0, <1>2, <2>1, PostDownFlight DEF StaysDown
    <3> QED
      BY <2>1, <3>1
  <2>2. CASE /\ holder[w] # None /\ holder' = holder /\ instead' = [instead EXCEPT ![w] = g]
             /\ down' = PostDown(down, holder[w], Msg("INSTEAD", w))
    <3>1. holder[w] \in Games
      BY <1>0, <2>2
    <3>2. InFlight(down'[holder[w]], "INSTEAD", w) /\ StaysDown(u)
      BY <1>0, <1>2, <2>2, <3>1, PostDownFlight DEF StaysDown
    <3> QED
      BY <2>2, <3>1, <3>2
  <2> QED
    BY <1>3, <2>1, <2>2
<1>5. Flows(u, g, {"ENTER"}, {}) /\ (w # u => Flows(u, g, {}, {}))
  BY <1>0, <1>4, AskFlows DEF w
<1>6. CASE w = u
  <2>1. CASE /\ holder[w] = None /\ holder' = [holder EXCEPT ![w] = g] /\ instead' = instead
             /\ InFlight(down'[g], "PASS", w)
    <3>1. holder'[u] = g /\ instead'[u] = None /\ InFlight(down'[g], "PASS", u)
      BY <1>0, <1>6, <2>1 DEF Moves
    <3>2. Backing(player'[g][u], up'[g], down'[g], u)
      BY <3>1 DEF Backing, Loading
    <3> QED
      BY <3>1, <3>2 DEF MovesAfter
  <2>2. CASE /\ holder[w] \in Games /\ holder' = holder
             /\ InFlight(down'[holder[w]], "INSTEAD", w)
    <3> DEFINE h == holder[u]
    <3>1. h \in Games /\ holder'[u] = h /\ InFlight(down'[h], "INSTEAD", u)
      BY <1>6, <2>2
    <3>2. Yielding(player'[h][u], tmp'[h][u], up'[h], down'[h], u)
      BY <3>1 DEF Yielding
    <3>3. Backing(player[h][u], up[h], down[h], u)
      BY <3>1 DEF Moves
    <3>4. /\ \A t \in {"GET", "EXIT"} : InFlight(up[h], t, u) => InFlight(up'[h], t, u)
          /\ \A t \in {"PASS", "GET_REPLY"} : InFlight(down[h], t, u) => InFlight(down'[h], t, u)
      BY <1>5, <3>1 DEF Flows
    <3>5. Backing(player'[h][u], up'[h], down'[h], u)
      BY <1>1, <3>3, <3>4 DEF Backing, Loading
    <3>6. h # None
      BY <3>1, LoginAssumption
    <3> HIDE DEF h
    <3> QED
      BY <3>1, <3>2, <3>5, <3>6 DEF MovesAfter
  <2> QED
    BY <1>4, <2>1, <2>2
<1>7. CASE w # u
  <2>1. Elsewhere(u, g) /\ player'[g][u] = player[g][u] /\ tmp'[g][u] = tmp[g][u]
    BY <1>0, <1>1, <1>4, <1>7 DEF Elsewhere
  <2> QED
    BY <1>5, <1>7, <2>1, QuietMoves
<1> QED
  BY <1>6, <1>7

LEMMA CenterExitMoves ==
  ASSUME TypeOK, mapped = Games, game_manager = Games, NEW u \in Uids, Moves(u), NEW g \in Games,
         CenterExit(g)
  PROVE  MovesAfter(u)
<1> DEFINE w == Head(up[g]).uid
           next == instead[w]
<1>0. /\ down \in DownChannels /\ w \in Uids /\ Calls(up[g], "EXIT") /\ up' = Receive(up, g)
      /\ holder \in [Uids -> Games \cup {None}] /\ instead \in [Uids -> Games \cup {None}]
  BY TakenUp DEF CenterExit, TypeOK, DownChannels
<1>1. UNCHANGED <<player, tmp, fails>>
  BY DEF CenterExit, gameVars, bounds
<1>2. Msg("PASS", w) \in DownMessages /\ Msg("PASS", w).type = "PASS" /\ Msg("PASS", w).uid = w
  BY <1>0, MessageTypes DEF Msg
<1>3. \/ holder[w] # g /\ UNCHANGED <<holder, instead, down>>
      \/ /\ holder[w] = g /\ instead' = [instead EXCEPT ![w] = None]
         /\ \/ holder' = [holder EXCEPT ![w] = None] /\ down' = down
            \/ /\ next \in Games /\ holder' = [holder EXCEPT ![w] = next]
               /\ down' = PostDown(down, next, Msg("PASS", w))
  BY DEF CenterExit
<1> HIDE DEF w, next
\* Nothing, the record is deleted, or it goes to the server that waits.
<1>4. \/ holder[w] # g /\ UNCHANGED <<holder, instead, down>>
      \/ /\ holder[w] = g /\ instead' = [instead EXCEPT ![w] = None]
         /\ holder' = [holder EXCEPT ![w] = None] /\ down' = down
      \/ /\ holder[w] = g /\ instead' = [instead EXCEPT ![w] = None]
         /\ next \in Games /\ holder' = [holder EXCEPT ![w] = next]
         /\ InFlight(down'[next], "PASS", w) /\ StaysDown(u)
  <2>1. CASE next \in Games /\ down' = PostDown(down, next, Msg("PASS", w))
    <3>1. InFlight(down'[next], "PASS", w) /\ StaysDown(u)
      BY <1>0, <1>2, <2>1, PostDownFlight DEF StaysDown
    <3> QED
      BY <1>3, <2>1, <3>1
  <2> QED
    BY <1>3, <2>1
<1>5. StaysDown(u)
  BY <1>4 DEF StaysDown
<1>6. Flows(u, g, {"EXIT"}, {}) /\ (w # u => Flows(u, g, {}, {}))
  BY <1>0, <1>5, AskFlows DEF w
<1>7. CASE w # u
  <2>1. Elsewhere(u, g) /\ player'[g][u] = player[g][u] /\ tmp'[g][u] = tmp[g][u]
    BY <1>0, <1>1, <1>4, <1>7 DEF Elsewhere
  <2> QED
    BY <1>6, <1>7, <2>1, QuietMoves
<1>8. CASE w = u /\ holder[w] # g
  <2>1. Elsewhere(u, g)
    BY <1>1, <1>4, <1>8 DEF Elsewhere
  <2> QED
    BY <1>6, <1>8, <2>1, GameMoves
<1>9. CASE w = u /\ holder[w] = g
  <2>1. instead'[u] = None
    BY <1>0, <1>4, <1>9
  <2>2. CASE holder' = [holder EXCEPT ![w] = None]
    <3>1. holder'[u] = None /\ None \notin Games
      BY <1>0, <1>9, <2>2, LoginAssumption
    <3> QED
      BY <2>1, <3>1 DEF MovesAfter
  <2>3. CASE /\ next \in Games /\ holder' = [holder EXCEPT ![w] = next]
             /\ InFlight(down'[next], "PASS", w)
    <3>1. holder'[u] = next /\ InFlight(down'[next], "PASS", u)
      BY <1>0, <1>9, <2>3
    <3>2. Backing(player'[next][u], up'[next], down'[next], u)
      BY <3>1 DEF Backing, Loading
    <3> QED
      BY <2>1, <3>1, <3>2 DEF MovesAfter
  <2> QED
    BY <1>4, <1>9, <2>2, <2>3
<1> QED
  BY <1>7, <1>8, <1>9

LEMMA GetMoves ==
  ASSUME TypeOK, mapped = Games, NEW u \in Uids, Moves(u), NEW g \in Games, DbGET(g)
  PROVE  MovesAfter(u)
<1> DEFINE w == Head(up[g]).uid
<1>0. /\ down \in DownChannels /\ w \in Uids /\ Calls(up[g], "GET") /\ up' = Receive(up, g)
      /\ db[w] \subseteq Nat /\ fails \in Nat
  BY TakenUp DEF DbGET, TypeOK, DownChannels
<1>1. /\ UNCHANGED <<player, tmp, holder, instead>>
      /\ fails' = 0 => fails = 0
  BY <1>0 DEF DbGET, Fail, gameVars, globalVars
<1>2. PICK v \in Nat, r \in {0, 1} : down' = PostDown(down, g, DbMsg("GET_REPLY", w, v, r))
  BY <1>0 DEF DbGET, LoadFailed
<1>3. /\ DbMsg("GET_REPLY", w, v, r) \in DownMessages
      /\ DbMsg("GET_REPLY", w, v, r).type = "GET_REPLY" /\ DbMsg("GET_REPLY", w, v, r).uid = w
  BY <1>0, MessageTypes DEF DbMsg
<1> HIDE DEF w
<1>4. InFlight(down'[g], "GET_REPLY", w) /\ StaysDown(u)
  BY <1>0, <1>2, <1>3, PostDownFlight DEF StaysDown
<1>5. Flows(u, g, {"GET"}, {}) /\ (w # u => Flows(u, g, {}, {}))
  BY <1>0, <1>4, AskFlows DEF w
<1>6. Elsewhere(u, g) /\ player'[g][u] = player[g][u] /\ tmp'[g][u] = tmp[g][u]
  BY <1>1 DEF Elsewhere
<1>7. CASE w = u
  <2>1. holder[u] = g => /\ Backing(player[g][u], up[g], down[g], u)
                         /\ instead[u] # None /\ fails = 0 =>
                              Yielding(player[g][u], tmp[g][u], up[g], down[g], u)
    BY DEF Moves
  <2>2. InFlight(down'[g], "GET_REPLY", u)
    BY <1>4, <1>7
  <2>3. /\ \A t \in {"EXIT", "ENTER", "SET"} : InFlight(up[g], t, u) => InFlight(up'[g], t, u)
        /\ \A t \in {"PASS", "GET_REPLY", "INSTEAD", "SET_REPLY"} :
             InFlight(down[g], t, u) => InFlight(down'[g], t, u)
    BY <1>5 DEF Flows
  <2>4. holder[u] = g => /\ Backing(player'[g][u], up'[g], down'[g], u)
                         /\ instead[u] # None /\ fails' = 0 =>
                              Yielding(player'[g][u], tmp'[g][u], up'[g], down'[g], u)
    BY <1>1, <1>6, <2>1, <2>2, <2>3 DEF Backing, Yielding, Loading
  <2> QED
    BY <1>5, <1>6, <2>4, GameMoves
<1>8. CASE w # u
  BY <1>5, <1>6, <1>8, QuietMoves
<1> QED
  BY <1>7, <1>8

LEMMA SetMoves ==
  ASSUME TypeOK, mapped = Games, NEW u \in Uids, Moves(u), NEW g \in Games, DbSET(g)
  PROVE  MovesAfter(u)
<1> DEFINE w == Head(up[g]).uid
<1>0. /\ down \in DownChannels /\ w \in Uids /\ Calls(up[g], "SET") /\ up' = Receive(up, g)
      /\ fails \in Nat
  BY TakenUp DEF DbSET, TypeOK, DownChannels
<1>1. /\ UNCHANGED <<player, tmp, holder, instead>>
      /\ fails' = 0 => fails = 0
  BY <1>0 DEF DbSET, Fail, gameVars
<1>2. PICK r \in {0, 1} :
        \/ down' = PostDown(down, g, SetReply(w, r))
        \/ down' = PostDown(PostDown(down, g, SetReply(w, 0)), g, SetReply(w, r))
  BY <1>0 DEF DbSET
<1>3. \A q \in {0, 1} : SetReply(w, q) \in DownMessages /\ SetReply(w, q).type = "SET_REPLY" /\ SetReply(w, q).uid = w
  BY <1>0, MessageTypes DEF SetReply, DbMsg
<1> HIDE DEF w
<1>4. InFlight(down'[g], "SET_REPLY", w) /\ StaysDown(u)
  <2>1. CASE down' = PostDown(down, g, SetReply(w, r))
    BY <1>0, <1>3, <2>1, PostDownFlight DEF StaysDown
  <2>2. CASE down' = PostDown(PostDown(down, g, SetReply(w, 0)), g, SetReply(w, r))
    <3> DEFINE once == PostDown(down, g, SetReply(w, 0))
    <3>1. once \in DownChannels
      BY <1>0, <1>3, DownTypes
    <3>2. \A h \in Games : \A t : InFlight(down[h], t, u) => InFlight(once[h], t, u)
      BY <1>0, <1>3, PostDownFlight
    <3> HIDE DEF once
    <3>3. down' = PostDown(once, g, SetReply(w, r))
      BY <2>2 DEF once
    <3>4. /\ InFlight(down'[g], "SET_REPLY", w)
          /\ \A h \in Games : \A t : InFlight(once[h], t, u) => InFlight(down'[h], t, u)
      BY <1>3, <3>1, <3>3, PostDownFlight
    <3> QED
      BY <3>2, <3>4 DEF StaysDown
  <2> QED
    BY <1>2, <2>1, <2>2
<1>5. Flows(u, g, {"SET"}, {}) /\ (w # u => Flows(u, g, {}, {}))
  BY <1>0, <1>4, AskFlows DEF w
<1>6. Elsewhere(u, g) /\ player'[g][u] = player[g][u] /\ tmp'[g][u] = tmp[g][u]
  BY <1>1 DEF Elsewhere
<1>7. CASE w = u
  <2>1. holder[u] = g => /\ Backing(player[g][u], up[g], down[g], u)
                         /\ instead[u] # None /\ fails = 0 =>
                              Yielding(player[g][u], tmp[g][u], up[g], down[g], u)
    BY DEF Moves
  <2>2. InFlight(down'[g], "SET_REPLY", u)
    BY <1>4, <1>7
  <2>3. /\ \A t \in {"EXIT", "ENTER", "GET"} : InFlight(up[g], t, u) => InFlight(up'[g], t, u)
        /\ \A t \in {"PASS", "GET_REPLY", "INSTEAD", "SET_REPLY"} :
             InFlight(down[g], t, u) => InFlight(down'[g], t, u)
    BY <1>5 DEF Flows
  <2>4. holder[u] = g => /\ Backing(player'[g][u], up'[g], down'[g], u)
                         /\ instead[u] # None /\ fails' = 0 =>
                              Yielding(player'[g][u], tmp'[g][u], up'[g], down'[g], u)
    BY <1>1, <1>6, <2>1, <2>2, <2>3 DEF Backing, Yielding, Loading
  <2> QED
    BY <1>5, <1>6, <2>4, GameMoves
<1>8. CASE w # u
  BY <1>5, <1>6, <1>8, QuietMoves
<1> QED
  BY <1>7, <1>8

\* The other steps take none of the messages, and leave the records alone.
LEMMA RegistMoves ==
  ASSUME TypeOK, NEW u \in Uids, Moves(u), NEW g \in Games, RegistSrvid(g) \/ REGIST(g)
  PROVE  MovesAfter(u)
<1>1. /\ UNCHANGED <<down, player, tmp, holder, instead, fails>> /\ up' = Receive(up, g)
      /\ Calls(up[g], "REGIST_SRVID") \/ Calls(up[g], "REGIST")
  BY DEF RegistSrvid, REGIST, gameVars, globalVars, bounds
<1>2. StaysDown(u) /\ Elsewhere(u, g) /\ player'[g][u] = player[g][u] /\ tmp'[g][u] = tmp[g][u]
  BY <1>1 DEF StaysDown, Elsewhere
<1>3. Flows(u, g, {"REGIST_SRVID"}, {}) \/ Flows(u, g, {"REGIST"}, {})
  BY <1>1, <1>2, AskFlows
<1>4. Flows(u, g, {}, {})
  BY <1>3 DEF Flows
<1> QED
  BY <1>2, <1>4, QuietMoves

LEMMA OtherMoves ==
  ASSUME NEW u \in Uids, Moves(u), UNCHANGED <<up, down, player, tmp, holder, instead, fails>>
  PROVE  MovesAfter(u)
  BY DEF Moves, MovesAfter

\* Every reply to a save in the queue says that it worked.
Acked(queue) == \A i \in 1..Len(queue) : queue[i].type = "SET_REPLY" => queue[i].result = 1

LEMMA QueueAcked ==
  ASSUME NEW q \in Seq(DownMessages), Acked(q)
  PROVE  /\ q # <<>> => Acked(Tail(q))
         /\ \A m \in DownMessages : (m.type = "SET_REPLY" => m.result = 1) => Acked(Append(q, m))
<1>1. ASSUME q # <<>> PROVE Acked(Tail(q))
  <2>1. /\ Len(Tail(q)) = Len(q) - 1 /\ Len(q) \in Nat
        /\ \A i \in 1..Len(Tail(q)) : Tail(q)[i] = q[i + 1]
    BY <1>1
  <2>2. \A i \in 1..Len(Tail(q)) : i + 1 \in 1..Len(q)
    BY <2>1
  <2> QED
    BY <2>1, <2>2 DEF Acked
<1>2. ASSUME NEW m \in DownMessages, m.type = "SET_REPLY" => m.result = 1
      PROVE  Acked(Append(q, m))
  <2>1. /\ Len(Append(q, m)) = Len(q) + 1 /\ Len(q) \in Nat
        /\ Append(q, m)[Len(q) + 1] = m
        /\ \A i \in 1..Len(q) : Append(q, m)[i] = q[i]
    OBVIOUS
  <2>2. \A i \in 1..Len(Append(q, m)) : i \in 1..Len(q) \/ i = Len(q) + 1
    BY <2>1
  <2> QED
    BY <1>2, <2>1, <2>2 DEF Acked
<1> QED
  BY <1>1, <1>2

AllAcked(chan) == \A h \in Games : Acked(chan[h])

LEMMA ChannelAcked ==
  ASSUME NEW chan \in DownChannels, AllAcked(chan), NEW g
  PROVE  /\ g \in Games /\ chan[g] # <<>> => AllAcked(Receive(chan, g))
         /\ \A m \in DownMessages : (m.type = "SET_REPLY" => m.result = 1) => AllAcked(PostDown(chan, g, m))
<1>0. \A h \in Games : chan[h] \in Seq(DownMessages) /\ Acked(chan[h])
  BY DEF DownChannels, AllAcked
<1>1. ASSUME g \in Games, chan[g] # <<>> PROVE AllAcked(Receive(chan, g))
  <2>1. \A h \in Games : Receive(chan, g)[h] = IF h = g THEN Tail(chan[g]) ELSE chan[h]
    BY <1>1 DEF Receive, DownChannels
  <2>2. Acked(Tail(chan[g]))
    BY <1>0, <1>1, QueueAcked
  <2> QED
    BY <1>0, <2>1, <2>2 DEF AllAcked
<1>2. ASSUME NEW m \in DownMessages, m.type = "SET_REPLY" => m.result = 1
      PROVE  AllAcked(PostDown(chan, g, m))
  <2>1. CASE g \in mapped /\ g \in Games
    <3>1. \A h \in Games : PostDown(chan, g, m)[h] = IF h = g THEN Append(chan[g], m) ELSE chan[h]
      BY <2>1 DEF PostDown, DownChannels
    <3>2. Acked(Append(chan[g], m))
      BY <1>0, <1>2, <2>1, QueueAcked
    <3> QED
      BY <1>0, <3>1, <3>2 DEF AllAcked
  <2>2. CASE ~(g \in mapped /\ g \in Games)
    <3>1. \A h \in Games : PostDown(chan, g, m)[h] = chan[h]
      BY <2>2 DEF PostDown, DownChannels
    <3> QED
      BY <1>0, <3>1 DEF AllAcked
  <2> QED
    BY <2>1, <2>2
<1> QED
  BY <1>1, <1>2

LEMMA AcknowledgedStep ==
  ASSUME TypeOK, Acknowledged, [Next]_vars, fails' = 0
  PROVE  AllAcked(down')
<1>0. down \in DownChannels /\ fails \in Nat /\ fails = 0
  <2>1. fails \in Nat
    BY DEF TypeOK
  <2> QED
    BY <2>1, FailuresCounted DEF TypeOK, DownChannels
<1>1. AllAcked(down)
  BY <1>0 DEF Acknowledged, AllAcked, Acked
<1>2. CASE down' = down
  BY <1>1, <1>2
<1>3. CASE \E g \in Games : down[g] # <<>> /\ down' = Receive(down, g)
  BY <1>0, <1>1, <1>3, ChannelAcked
<1>4. CASE \E g, m : /\ m \in DownMessages /\ (m.type = "SET_REPLY" => m.result = 1)
                     /\ down' = PostDown(down, g, m)
  BY <1>0, <1>1, <1>4, ChannelAcked
<1>5. ASSUME NEW g \in Games, GlobalStep(g) PROVE AllAcked(down')
  <2> DEFINE w == Head(up[g]).uid
  <2>1. CASE RegistSrvid(g) \/ REGIST(g)
    BY <1>2, <2>1 DEF RegistSrvid, REGIST
  <2>2. CASE CenterEnter(g) \/ CenterExit(g)
    <3>1. w \in Uids
      BY <2>2, TakenUp DEF CenterEnter, CenterExit
    <3>2. /\ Msg("PASS", w) \in DownMessages /\ Msg("PASS", w).type # "SET_REPLY"
          /\ Msg("INSTEAD", w) \in DownMessages /\ Msg("INSTEAD", w).type # "SET_REPLY"
      BY <3>1, MessageTypes DEF Msg
    <3>3. \/ down' = down
          \/ \E h : down' = PostDown(down, h, Msg("PASS", w))
          \/ \E h : down' = PostDown(down, h, Msg("INSTEAD", w))
      BY <2>2 DEF CenterEnter, CenterExit, Takeover
    <3> QED
      BY <1>2, <1>4, <3>2, <3>3
  <2>3. CASE DbGET(g)
    <3>1. w \in Uids /\ db[w] \subseteq Nat
      BY <2>3, TakenUp DEF DbGET, TypeOK
    <3>2. PICK v \in Nat, r \in {0, 1} : down' = PostDown(down, g, DbMsg("GET_REPLY", w, v, r))
      BY <2>3, <3>1 DEF DbGET, LoadFailed
    <3>3. DbMsg("GET_REPLY", w, v, r) \in DownMessages /\ DbMsg("GET_REPLY", w, v, r).type # "SET_REPLY"
      BY <3>1, MessageTypes DEF DbMsg
    <3> QED
      BY <1>4, <3>2, <3>3
  <2>4. CASE DbSET(g)
    <3>1. w \in Uids
      BY <2>4, TakenUp DEF DbSET
    <3>2. down' = PostDown(down, g, SetReply(w, 1))
      BY <1>0, <2>4 DEF DbSET, Fail
    <3>3. SetReply(w, 1) \in DownMessages /\ SetReply(w, 1).result = 1
      BY <3>1, MessageTypes DEF SetReply, DbMsg
    <3> QED
      BY <1>4, <3>2, <3>3
  <2> QED
    BY <1>5, <2>1, <2>2, <2>3, <2>4 DEF GlobalStep
<1>6. ASSUME NEW g \in Games, GameStep(g) PROVE AllAcked(down')
  <2>1. down' = down \/ (down[g] # <<>> /\ down' = Receive(down, g))
    BY <1>6 DEF GameStep, PLAYER_ENTER, PLAYER_EXIT, PLAYER_PASS, PLAYER_INSTEAD,
                msg_db_srv_set_playerdata, msg_db_srv_get_playerdata, Calls
  <2> QED
    BY <1>2, <1>3, <2>1
<1>7. ASSUME NEW g \in Games, LinkDown(g) PROVE AllAcked(down')
  <2>1. \A h \in Games : down'[h] = IF h = g THEN <<>> ELSE down[h]
    BY <1>0, <1>7 DEF LinkDown, DownChannels
  <2> QED
    BY <1>1, <2>1 DEF AllAcked, Acked
<1>8. CASE GateStep \/ (\E g \in Games : LinkUp(g) \/ \E w \in Uids : Play(g, w)) \/ UNCHANGED vars
  BY <1>2, <1>8 DEF GateStep, MSG_LOGIN, MSG_ENTER, player_disconnect, LinkUp, Play, vars
<1> QED
  BY <1>5, <1>6, <1>7, <1>8 DEF Next

LEMMA ConnectedStep ==
  ASSUME TypeOK, Connected, [Next]_vars, drops' = 0
  PROVE  drops = 0 /\ conn' = Games /\ mapped' = Games /\ game_manager' = Games
<1>0. drops \in Nat
  BY DEF TypeOK
<1> USE DEF bounds, linkVars, globalVars, Connected
<1>1. ASSUME NEW g \in Games, LinkDown(g) PROVE FALSE
  BY <1>0, <1>1 DEF LinkDown
<1>2. CASE GateStep \/ UNCHANGED vars
  BY <1>2 DEF GateStep, MSG_LOGIN, MSG_ENTER, player_disconnect, vars
<1>3. CASE \E g \in Games : GameStep(g) \/ \E w \in Uids : Play(g, w)
  BY <1>3 DEF GameStep, PLAYER_ENTER, PLAYER_EXIT, PLAYER_PASS, PLAYER_INSTEAD, Play,
              msg_db_srv_set_playerdata, msg_db_srv_get_playerdata
<1>4. CASE \E g \in Games : GlobalStep(g) \/ LinkUp(g)
  BY <1>4 DEF GlobalStep, CenterEnter, CenterExit, DbGET, DbSET, RegistSrvid, REGIST, LinkUp
<1> QED
  BY <1>1, <1>2, <1>3, <1>4 DEF Next

LEMMA MovesStep ==
  ASSUME TypeOK, conn = Games, mapped = Games, game_manager = Games, drops' = 0, drops = 0,
         Acknowledged, [Next]_vars, NEW u \in Uids, Moves(u)
  PROVE  MovesAfter(u)
<1>1. ASSUME NEW g \in Games, GameStep(g) PROVE MovesAfter(u)
  BY <1>1, EnterMoves, ExitMoves, PassMoves, InsteadMoves, SaveMoves, LoadMoves DEF GameStep
<1>2. ASSUME NEW g \in Games, GlobalStep(g) PROVE MovesAfter(u)
  BY <1>2, CenterEnterMoves, CenterExitMoves, GetMoves, SetMoves, RegistMoves DEF GlobalStep
<1>3. ASSUME NEW g \in Games, LinkDown(g) \/ LinkUp(g) PROVE FALSE
  BY <1>3 DEF LinkDown, LinkUp
<1>4. CASE GateStep \/ (\E g \in Games, w \in Uids : Play(g, w)) \/ UNCHANGED vars
  <2>1. UNCHANGED <<up, down, player, tmp, holder, instead, fails>>
    BY <1>4 DEF GateStep, MSG_LOGIN, MSG_ENTER, player_disconnect, Play, vars, gameVars, globalVars, bounds
  <2> QED
    BY <2>1, OtherMoves
<1> QED
  BY <1>1, <1>2, <1>3, <1>4 DEF Next

\* The inductive invariant: the links are as they were at the start, saves are
\* acknowledged, and every record of the center is backed and moves.
MovesInv ==
  /\ Connected
  /\ Acknowledged
  /\ drops = 0 => \A u \in Uids : Moves(u)

LEMMA MovesInvariant == Spec => []MovesInv
<1>1. Init => MovesInv
  <2> SUFFICES ASSUME Init PROVE MovesInv
    OBVIOUS
  <2>1. Connected /\ \A g \in Games : down[g] = <<>>
    BY DEF Init, Connected
  <2>2. Acknowledged
    BY <2>1 DEF Acknowledged
  <2>3. \A u \in Uids : holder[u] = None /\ instead[u] = None
    BY DEF Init
  <2> QED
    BY <2>1, <2>2, <2>3, LoginAssumption DEF MovesInv, Moves
<1>2. TypeOK /\ MovesInv /\ [Next]_vars => MovesInv'
  <2> SUFFICES ASSUME TypeOK, MovesInv, [Next]_vars PROVE MovesInv'
    OBVIOUS
  <2> USE DEF MovesInv
  <2>1. Connected'
    BY ConnectedStep DEF Connected
  <2>2. Acknowledged'
    BY AcknowledgedStep DEF Acknowledged, AllAcked, Acked
  <2>3. ASSUME drops' = 0, NEW u \in Uids PROVE Moves(u)'
    <3>1. /\ drops = 0 /\ Acknowledged /\ Moves(u)
          /\ conn = Games /\ mapped = Games /\ game_manager = Games
      BY <2>3, ConnectedStep DEF Connected
    <3>2. MovesAfter(u)
      BY <2>3, <3>1, MovesStep
    <3> QED
      BY <3>2, MovesPrime
  <2> QED
    BY <2>1, <2>2, <2>3
<1> QED
  BY <1>1, <1>2, TypeCorrect, PTL DEF Spec

\* A record of the center is never orphaned while the connections last: through
\* takeovers that cross, refused loads and failed saves, the game server that the
\* record names has the player, has a load of it under way, or has POSTed the
\* PLAYER_EXIT that gives the record back.
THEOREM RecordsStayBacked == Spec => []RecordsBacked
<1>1. MovesInv => RecordsBacked
  BY DEF MovesInv, RecordsBacked, Moves
<1> QED
  BY <1>1, MovesInvariant, PTL

\* A takeover cannot get stuck: while instead_srvid is set, the game server of the
\* record is about to get PLAYER_INSTEAD, or its save, its PLAYER_EXIT or a load
\* that will find the lock gone is on its way.  With fairness of the event loops
\* this is what TakeoverEnds rests on.
THEOREM TakeoversMove == Spec => []TakeoverMoves
<1>1. TypeOK /\ MovesInv => TakeoverMoves
  <2> SUFFICES ASSUME TypeOK, MovesInv, drops = 0, fails = 0, NEW u \in Uids, instead[u] # None
               PROVE  \E g \in Games : holder[u] = g /\ Yielding(player[g][u], tmp[g][u], up[g], down[g], u)
    BY DEF TakeoverMoves
  <2>1. Moves(u) /\ holder[u] \in Games \cup {None}
    BY DEF MovesInv, TypeOK
  <2> QED
    BY <2>1 DEF Moves
<1> QED
  BY <1>1, TypeCorrect, MovesInvariant, PTL
=============================================================================
