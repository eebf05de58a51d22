--------------------------- MODULE RegistryProofs ----------------------------
(* Proofs about Registry, for any clients, socket numbers and bounds. *)
EXTENDS Registry, TLAPS

\* What a channel may hold, and what is left of it when a message was read.
Queues == {<<>>, <<"REGIST">>, <<"SRVID", "REGIST">>}

LEMMA QueueTails ==
  ASSUME NEW q \in Queues, q # <<>>
  PROVE  /\ Tail(q) \in Queues
         /\ Head(q) = "SRVID" => Tail(q) = <<"REGIST">>
         /\ Head(q) = "REGIST" => q = <<"REGIST">> /\ Tail(q) = <<>>
<1>1. CASE q = <<"REGIST">>
  <2>1. Head(<<"REGIST">>) = "REGIST" /\ Tail(<<"REGIST">>) = <<>>
    OBVIOUS
  <2> QED BY <1>1, <2>1 DEF Queues
<1>2. CASE q = <<"SRVID", "REGIST">>
  <2>1. Head(<<"SRVID", "REGIST">>) = "SRVID" /\ Tail(<<"SRVID", "REGIST">>) = <<"REGIST">>
    OBVIOUS
  <2> QED BY <1>2, <2>1 DEF Queues
<1> QED BY <1>1, <1>2 DEF Queues

\* The tables of the clients and the connections keep their types when a
\* client connects.
LEMMA ConnectTypes ==
  ASSUME TypeOK, NEW c \in Clients, Connect(c)
  PROVE  /\ current' \in [Clients -> Conns \cup {None}]
         /\ owner' \in [Conns -> Clients \cup {None}]
         /\ used' \in Conns /\ used' \in 0..MaxConn /\ refusals' \in 0..MaxRefused
<1>1. used' \in Conns /\ used' \in 0..MaxConn
  BY RegistryAssumption DEF Connect, TypeOK, Conns
<1> QED BY <1>1 DEF Connect, TypeOK

LEMMA AbandonTypes ==
  ASSUME TypeOK, NEW c \in Clients, current[c] # None, Abandon(c)
  PROVE  /\ eof' \in [Conns -> BOOLEAN] /\ connected' \subseteq Clients
         /\ current' \in [Clients -> Conns \cup {None}]
         /\ owner' \in [Conns -> Clients \cup {None}]
         /\ used' \in 0..MaxConn /\ refusals' \in 0..MaxRefused
<1>1. eof' \in [Conns -> BOOLEAN] /\ connected' \subseteq Clients
  <2>1. current[c] \in Conns
    BY DEF TypeOK
  <2> QED BY <2>1 DEF Abandon, TypeOK
<1>2. CASE Connect(c)
  BY <1>1, <1>2, ConnectTypes
<1>3. ASSUME refusals < MaxRefused, refusals' = refusals + 1,
             current' = [current EXCEPT ![c] = None], UNCHANGED <<used, owner>>
      PROVE /\ current' \in [Clients -> Conns \cup {None}]
            /\ owner' \in [Conns -> Clients \cup {None}]
            /\ used' \in 0..MaxConn /\ refusals' \in 0..MaxRefused
  <2>1. refusals' \in 0..MaxRefused
    BY <1>3, RegistryAssumption DEF TypeOK
  <2> QED BY <1>3, <2>1 DEF TypeOK
<1> QED BY <1>1, <1>2, <1>3 DEF Abandon, check_connections

\* What a step of the server finds on an open connection, and what reading one
\* message leaves in its channel.
LEMMA OpenTypes ==
  ASSUME TypeOK, SocketsDistinct, NEW k \in Conns, Open(k)
  PROVE  fd[k] \in Fds /\ owner[k] \in Clients /\ sockfd2srvid[fd[k]] \in Clients \cup {None}
  BY DEF TypeOK, SocketsDistinct, Open

LEMMA ReadTypes ==
  ASSUME TypeOK, NEW k \in Conns, NEW type, Reads(k, type), chan' = [chan EXCEPT ![k] = Tail(@)]
  PROVE  /\ chan' \in [Conns -> Queues]
         /\ \A j \in Conns : j # k => chan'[j] = chan[j]
         /\ type = "SRVID" => chan'[k] = <<"REGIST">>
         /\ type = "REGIST" => chan[k] = <<"REGIST">> /\ chan'[k] = <<>>
<1>1. chan \in [Conns -> Queues] /\ chan[k] # <<>> /\ Head(chan[k]) = type
  BY DEF TypeOK, Queues, Reads
<1>2. chan'[k] = Tail(chan[k]) /\ Tail(chan[k]) \in Queues
  BY <1>1, QueueTails
<1> QED BY <1>1, <1>2, QueueTails

\* Every step keeps the types, if open connections have an owner.
LEMMA TypeStep ==
  ASSUME TypeOK, SocketsDistinct, [Next]_vars
  PROVE  TypeOK'
<1> USE DEF clientVars, serverVars
<1>1. ASSUME NEW c \in Clients, Start(c) PROVE TypeOK'
  BY <1>1, ConnectTypes DEF Start, TypeOK
<1>2. ASSUME NEW c \in Clients, ev_connect_suc(c) PROVE TypeOK'
  <2>1. current[c] \in Conns
    BY <1>2 DEF ev_connect_suc, TypeOK
  <2> QED BY <1>2, <2>1 DEF ev_connect_suc, TypeOK
<1>3. ASSUME NEW c \in Clients, ev_close(c) PROVE TypeOK'
  BY <1>3, AbandonTypes DEF ev_close, TypeOK
<1>4. ASSUME NEW c \in Clients, Lose(c) PROVE TypeOK'
  <2>1. current[c] \in Conns
    BY <1>4 DEF Lose, TypeOK
  <2>2. losses' \in 0..MaxLoss
    BY <1>4, RegistryAssumption DEF Lose, TypeOK
  <2>3. closed' \in [Conns -> BOOLEAN]
    <3>1. closed' = closed \/ closed' = [closed EXCEPT ![current[c]] = TRUE]
      BY <1>4 DEF Lose
    <3> QED BY <2>1, <3>1 DEF TypeOK
  <2>4. current[c] # None /\ Abandon(c)
    BY <1>4 DEF Lose
  <2> QED BY <1>4, <2>2, <2>3, <2>4, AbandonTypes DEF Lose, TypeOK
<1>5. ASSUME NEW k \in Conns, ev_accept(k) PROVE TypeOK'
  BY <1>5 DEF ev_accept, FreeFds, TypeOK
<1>6. ASSUME NEW k \in Conns, RegistSrvid(k) PROVE TypeOK'
  <2>1. fd[k] \in Fds /\ owner[k] \in Clients
    BY <1>6, OpenTypes DEF RegistSrvid, Reads
  <2>2. chan' \in [Conns -> Queues]
    BY <1>6, ReadTypes DEF RegistSrvid
  <2>3. srvid2sockfd' \in [Clients -> Fds \cup {None}] /\ sockfd2srvid' \in [Fds -> Clients \cup {None}]
    BY <1>6, <2>1 DEF RegistSrvid, TypeOK
  <2>4. hit' \subseteq Clients
    BY <1>6, <2>1 DEF RegistSrvid, TypeOK
  <2> QED BY <1>6, <2>2, <2>3, <2>4 DEF RegistSrvid, TypeOK, Queues
<1>7. ASSUME NEW k \in Conns, REGIST(k) PROVE TypeOK'
  <2>1. owner[k] \in Clients
    BY <1>7, OpenTypes DEF REGIST, Reads
  <2>2. chan' \in [Conns -> Queues]
    BY <1>7, ReadTypes DEF REGIST
  <2> QED BY <1>7, <2>1, <2>2 DEF REGIST, TypeOK, Queues
<1>8. ASSUME NEW k \in Conns, PeerClosed(k) \/ Drop(k) PROVE TypeOK'
  <2>1. Open(k) /\ ServerClose(k)
    BY <1>8 DEF PeerClosed, Drop
  <2>2. losses' \in 0..MaxLoss
    BY <1>8, RegistryAssumption DEF PeerClosed, Drop, TypeOK
  <2>3. fd[k] \in Fds /\ sockfd2srvid[fd[k]] \in Clients \cup {None}
    BY <2>1, OpenTypes
  <2>4. srvid2sockfd' \in [Clients -> Fds \cup {None}] /\ hit' \subseteq Clients
    BY <2>1, <2>3 DEF ServerClose, unregist, TypeOK
  <2>5. manager' \subseteq Clients
    BY <2>1 DEF ServerClose, Remove, TypeOK
  <2>6. /\ closed' \in [Conns -> BOOLEAN] /\ fd' \in [Conns -> Fds \cup {None}]
        /\ chan' \in [Conns -> Queues]
    BY <2>1 DEF ServerClose, TypeOK, Queues
  <2> QED BY <2>1, <2>2, <2>4, <2>5, <2>6 DEF ServerClose, TypeOK, Queues
<1>9. CASE UNCHANGED vars
  BY <1>9 DEF vars, TypeOK
<1> QED
  BY <1>1, <1>2, <1>3, <1>4, <1>5, <1>6, <1>7, <1>8, <1>9 DEF Next, ClientStep, ServerStep

\* A client that connects, or that does not, leaves the connections alone that
\* were tried before.
LEMMA ClientKeeps ==
  ASSUME TypeOK, SocketsDistinct, NEW c \in Clients, Start(c) \/ ClientStep(c) \/ Lose(c)
  PROVE  /\ fd' = fd /\ sockfd2srvid' = sockfd2srvid /\ srvid2sockfd' = srvid2sockfd
         /\ manager' = manager /\ used' \in Nat /\ used' >= used
         /\ \A k \in Conns : fd[k] # None \/ k > used' => owner'[k] = owner[k]
         /\ \A k \in Conns : chan'[k] = <<"REGIST">> => chan[k] = <<"REGIST">>
<1>1. ASSUME Connect(c)
      PROVE  /\ used' \in Nat /\ used' >= used
             /\ \A k \in Conns : fd[k] # None \/ k > used' => owner'[k] = owner[k]
  <2>1. used' = used + 1 /\ used \in Nat
    BY <1>1, RegistryAssumption DEF Connect, TypeOK
  <2>2. ASSUME NEW k \in Conns, fd[k] # None \/ k > used' PROVE k # used'
    BY <2>1, <2>2 DEF SocketsDistinct, Conns
  <2>3. \A k \in Conns : k # used' => owner'[k] = owner[k]
    BY <1>1 DEF Connect, TypeOK
  <2> QED BY <2>1, <2>2, <2>3
<1>2. ASSUME check_connections(c)
      PROVE  /\ used' \in Nat /\ used' >= used
             /\ \A k \in Conns : fd[k] # None \/ k > used' => owner'[k] = owner[k]
  <2>1. Connect(c) \/ (used' = used /\ owner' = owner)
    BY <1>2 DEF check_connections
  <2> QED BY <1>1, <2>1, RegistryAssumption DEF TypeOK
<1>3. ASSUME ev_connect_suc(c)
      PROVE \A k \in Conns : chan'[k] = <<"REGIST">> => chan[k] = <<"REGIST">>
  <2>1. current[c] \in Conns /\ <<"SRVID", "REGIST">> # <<"REGIST">>
    BY <1>3 DEF ev_connect_suc, TypeOK
  <2>2. \A k \in Conns : chan'[k] = chan[k] \/ chan'[k] = <<"SRVID", "REGIST">>
    BY <1>3, <2>1 DEF ev_connect_suc, TypeOK
  <2> QED BY <2>1, <2>2
<1>4. CASE Start(c)
  BY <1>1, <1>4 DEF Start, serverVars
<1>5. CASE ev_connect_suc(c)
  BY <1>3, <1>5, RegistryAssumption DEF ev_connect_suc, serverVars, TypeOK
<1>6. CASE ev_close(c)
  BY <1>2, <1>6 DEF ev_close, Abandon, serverVars
<1>7. CASE Lose(c)
  BY <1>2, <1>7 DEF Lose, Abandon
<1> QED BY <1>4, <1>5, <1>6, <1>7 DEF ClientStep

\* Socket numbers stay distinct: accept() takes a free one, and what was not
\* tried is not accepted.
LEMMA SocketsStep ==
  ASSUME TypeOK, SocketsDistinct, [Next]_vars
  PROVE  SocketsDistinct'
<1>1. ASSUME NEW c \in Clients, Start(c) \/ ClientStep(c) \/ Lose(c) PROVE SocketsDistinct'
  <2>1. fd' = fd /\ used' \in Nat /\ used' >= used /\ used \in Nat
    BY <1>1, ClientKeeps, RegistryAssumption DEF TypeOK
  <2>2. \A k \in Conns : fd[k] # None \/ k > used' => owner'[k] = owner[k]
    BY <1>1, ClientKeeps
  <2>3. \A k \in Conns : k > used' => k > used
    BY <2>1 DEF Conns
  <2> QED BY <2>1, <2>2, <2>3 DEF SocketsDistinct, Open
<1>2. ASSUME NEW k \in Conns, ev_accept(k) PROVE SocketsDistinct'
  <2>1. PICK f \in FreeFds : fd' = [fd EXCEPT ![k] = f]
    BY <1>2 DEF ev_accept
  <2>2. f \in Fds /\ \A j \in Conns : fd[j] # f
    BY RegistryAssumption DEF FreeFds, Open
  <2>3. fd'[k] = f /\ \A j \in Conns : j # k => fd'[j] = fd[j]
    BY <2>1 DEF TypeOK
  <2>4. owner[k] \in Clients /\ owner' = owner /\ used' = used /\ fd[k] = None
    BY <1>2 DEF ev_accept, TypeOK
  <2>5. ~(k > used)
    <3> SUFFICES ASSUME k > used PROVE FALSE
      OBVIOUS
    <3> QED BY <2>4, RegistryAssumption DEF SocketsDistinct
  <2> QED BY <2>2, <2>3, <2>4, <2>5 DEF SocketsDistinct, Open
<1>3. ASSUME NEW k \in Conns, PeerClosed(k) \/ Drop(k) PROVE SocketsDistinct'
  <2>1. /\ fd' = [fd EXCEPT ![k] = None] /\ owner' = owner /\ used' = used
    BY <1>3 DEF PeerClosed, Drop, ServerClose
  <2>2. \A j \in Conns : fd'[j] = None \/ fd'[j] = fd[j]
    BY <2>1 DEF TypeOK
  <2> QED BY <2>1, <2>2 DEF SocketsDistinct, Open
<1>4. ASSUME fd' = fd, owner' = owner, used' = used PROVE SocketsDistinct'
  BY <1>4 DEF SocketsDistinct, Open
<1>5. ASSUME NEW k \in Conns, RegistSrvid(k) \/ REGIST(k) PROVE SocketsDistinct'
  BY <1>4, <1>5 DEF RegistSrvid, REGIST
<1>6. CASE UNCHANGED vars
  BY <1>4, <1>6 DEF vars
<1> QED
  BY <1>1, <1>2, <1>3, <1>5, <1>6 DEF Next, ServerStep

\* What the tables say of a socket stays true until the server closes it.
Stays(j) == fd'[j] = fd[j] /\ owner'[j] = owner[j] /\ sockfd2srvid'[fd[j]] = owner[j]

LEMMA StaysTold ==
  ASSUME NEW j \in Conns, Told(j), Stays(j) PROVE Told(j)'
  BY DEF Told, Stays, Open

LEMMA CloseKeeps ==
  ASSUME TypeOK, SocketsDistinct, NEW k \in Conns, PeerClosed(k) \/ Drop(k)
  PROVE  /\ Open(k) /\ ServerClose(k) /\ chan'[k] = <<>>
         /\ \A j \in Conns : j # k => chan'[j] = chan[j]
         /\ \A j \in Conns : j # k /\ Told(j) => Stays(j)
<1>1. Open(k) /\ ServerClose(k)
  BY DEF PeerClosed, Drop
<1>2. /\ chan'[k] = <<>>
      /\ \A j \in Conns : j # k => chan'[j] = chan[j] /\ fd'[j] = fd[j]
      /\ owner' = owner /\ sockfd2srvid' = sockfd2srvid
  BY <1>1 DEF ServerClose, TypeOK
<1> QED BY <1>1, <1>2 DEF Told, Stays

LEMMA OthersKeep ==
  ASSUME TypeOK, SocketsDistinct, [Next]_vars, \A k \in Conns : ~PeerClosed(k) /\ ~Drop(k)
  PROVE  \A j \in Conns : Told(j) => Stays(j)
<1> SUFFICES ASSUME NEW j \in Conns, Told(j) PROVE Stays(j)
  OBVIOUS
<1>1. Open(j) /\ fd[j] # None /\ fd[j] \in Fds /\ sockfd2srvid[fd[j]] = owner[j]
  BY OpenTypes DEF Told, Open
<1>2. ASSUME NEW c \in Clients, Start(c) \/ ClientStep(c) \/ Lose(c) PROVE Stays(j)
  BY <1>1, <1>2, ClientKeeps DEF Stays
<1>3. ASSUME NEW k \in Conns, ev_accept(k) PROVE Stays(j)
  <2>1. j # k /\ owner' = owner /\ sockfd2srvid' = sockfd2srvid
    BY <1>1, <1>3 DEF ev_accept
  <2>2. fd'[j] = fd[j]
    BY <1>3, <2>1 DEF ev_accept, TypeOK
  <2> QED BY <1>1, <2>1, <2>2 DEF Stays
<1>4. ASSUME NEW k \in Conns, RegistSrvid(k) PROVE Stays(j)
  <2>1. fd' = fd /\ owner' = owner /\ Open(k) /\ fd[k] \in Fds
    BY <1>4, OpenTypes DEF RegistSrvid, Reads
  <2>2. sockfd2srvid' = [sockfd2srvid EXCEPT ![fd[k]] = owner[k]]
    BY <1>4 DEF RegistSrvid
  <2>3. CASE fd[j] = fd[k]
    <3>1. j = k
      BY <1>1, <2>3 DEF SocketsDistinct
    <3> QED BY <2>1, <2>2, <3>1 DEF Stays, TypeOK
  <2>4. CASE fd[j] # fd[k]
    BY <1>1, <2>1, <2>2, <2>4 DEF Stays, TypeOK
  <2> QED BY <2>3, <2>4
<1>5. ASSUME NEW k \in Conns, REGIST(k) PROVE Stays(j)
  BY <1>1, <1>5 DEF REGIST, Stays
<1>6. CASE UNCHANGED vars
  BY <1>1, <1>6 DEF vars, Stays
<1> QED
  BY <1>2, <1>3, <1>4, <1>5, <1>6 DEF Next, ServerStep

\* Postproto's tables stay true: a srvid is mapped when its message is read, and
\* the mapping of a socket goes when the socket is closed.
LEMMA TablesStep ==
  ASSUME TypeOK, SocketsDistinct, TablesTrue, [Next]_vars
  PROVE  TablesTrue'
<1> DEFINE Mapped(c) == \E k \in Conns : Told(k) /\ owner[k] = c /\ fd[k] = srvid2sockfd[c]
<1>1. ASSUME NEW k \in Conns, PeerClosed(k) \/ Drop(k) PROVE TablesTrue'
  <2> DEFINE srvid == sockfd2srvid[fd[k]]
  <2>1. /\ Open(k) /\ ServerClose(k) /\ chan'[k] = <<>>
        /\ \A j \in Conns : j # k => chan'[j] = chan[j]
        /\ \A j \in Conns : j # k /\ Told(j) => Stays(j)
    BY <1>1, CloseKeeps
  <2>2. ASSUME NEW j \in Conns, chan'[j] = <<"REGIST">> PROVE Told(j)'
    <3>1. j # k /\ chan[j] = <<"REGIST">>
      BY <2>1, <2>2
    <3> QED BY <2>1, <3>1, StaysTold DEF TablesTrue
  <2>3. ASSUME NEW c \in Clients, srvid2sockfd'[c] # None
        PROVE  srvid2sockfd'[c] = srvid2sockfd[c] /\ c # srvid
    <3>1. CASE srvid = None
      BY <2>1, <3>1, RegistryAssumption DEF ServerClose, unregist
    <3>2. CASE srvid # None
      <4>1. srvid \in Clients
        BY <2>1, <3>2, OpenTypes
      <4>2. srvid2sockfd' = [srvid2sockfd EXCEPT ![srvid] = None]
        BY <2>1, <3>2 DEF ServerClose, unregist
      <4> QED BY <2>3, <4>1, <4>2 DEF TypeOK
    <3> QED BY <3>1, <3>2
  <2>4. ASSUME NEW c \in Clients, srvid2sockfd'[c] # None PROVE Mapped(c)'
    <3>1. PICK j \in Conns : Told(j) /\ owner[j] = c /\ fd[j] = srvid2sockfd[c]
      BY <2>3, <2>4 DEF TablesTrue
    <3>2. j # k
      BY <2>3, <2>4, <3>1 DEF Told
    <3>3. Told(j)' /\ owner'[j] = c /\ fd'[j] = srvid2sockfd'[c]
      BY <2>1, <2>3, <2>4, <3>1, <3>2, StaysTold DEF Stays
    <3> QED BY <3>3
  <2> QED BY <2>2, <2>4 DEF TablesTrue
<1>2. ASSUME \A k \in Conns : ~PeerClosed(k) /\ ~Drop(k) PROVE TablesTrue'
  <2>1. \A j \in Conns : Told(j) => Stays(j) /\ Told(j)'
    BY <1>2, OthersKeep, StaysTold
  <2>2. ASSUME NEW c \in Clients, srvid2sockfd'[c] = srvid2sockfd[c], srvid2sockfd'[c] # None
        PROVE  Mapped(c)'
    <3>1. PICK j \in Conns : Told(j) /\ owner[j] = c /\ fd[j] = srvid2sockfd[c]
      BY <2>2 DEF TablesTrue
    <3>2. Told(j)' /\ owner'[j] = c /\ fd'[j] = srvid2sockfd'[c]
      BY <2>1, <2>2, <3>1 DEF Stays
    <3> QED BY <3>2
  <2>3. ASSUME NEW k \in Conns, RegistSrvid(k) PROVE TablesTrue'
    <3>1. Open(k) /\ fd[k] \in Fds /\ owner[k] \in Clients /\ fd' = fd /\ owner' = owner
      BY <2>3, OpenTypes DEF RegistSrvid, Reads
    <3>2. sockfd2srvid'[fd[k]] = owner[k] /\ srvid2sockfd'[owner[k]] = fd[k]
      BY <2>3, <3>1 DEF RegistSrvid, TypeOK
    <3>3. Told(k)'
      BY <3>1, <3>2 DEF Told, Open
    <3>4. \A c \in Clients : c # owner[k] => srvid2sockfd'[c] = srvid2sockfd[c]
      BY <2>3, <3>1 DEF RegistSrvid, TypeOK
    <3>5. \A c \in Clients : srvid2sockfd'[c] # None => Mapped(c)'
      <4>1. Mapped(owner[k])'
        BY <3>1, <3>2, <3>3
      <4> QED BY <2>2, <3>4, <4>1, <3>1
    <3>6. \A j \in Conns : j # k => chan'[j] = chan[j]
      BY <2>3 DEF RegistSrvid, TypeOK
    <3> QED BY <2>1, <3>3, <3>5, <3>6 DEF TablesTrue
  <2>4. ASSUME srvid2sockfd' = srvid2sockfd,
               \A k \in Conns : chan'[k] = <<"REGIST">> => chan[k] = <<"REGIST">>
        PROVE  TablesTrue'
    BY <2>1, <2>2, <2>4 DEF TablesTrue
  <2>5. ASSUME NEW c \in Clients, Start(c) \/ ClientStep(c) \/ Lose(c) PROVE TablesTrue'
    BY <2>4, <2>5, ClientKeeps
  <2>6. ASSUME NEW k \in Conns, ev_accept(k) PROVE TablesTrue'
    BY <2>4, <2>6 DEF ev_accept
  <2>7. ASSUME NEW k \in Conns, REGIST(k) PROVE TablesTrue'
    <3>1. <<>> # <<"REGIST">>
      OBVIOUS
    <3>2. chan'[k] = <<>> /\ \A j \in Conns : j # k => chan'[j] = chan[j]
      BY <2>7, ReadTypes DEF REGIST
    <3> QED BY <2>4, <2>7, <3>1, <3>2 DEF REGIST
  <2>8. CASE UNCHANGED vars
    BY <2>4, <2>8 DEF vars
  <2> QED
    BY <1>2, <2>3, <2>5, <2>6, <2>7, <2>8 DEF Next, ServerStep
<1> QED BY <1>1, <1>2

\* Who is in the manager has registered on a connection that is still open,
\* where ev_close removes the srvid of the socket.
LEMMA ManagerStep ==
  ASSUME TypeOK, SocketsDistinct, TablesTrue, ManagerTold, ~Shadowed, [Next]_vars
  PROVE  ManagerTold'
<1>1. ASSUME NEW k \in Conns, PeerClosed(k) \/ Drop(k) PROVE ManagerTold'
  <2>1. Open(k) /\ ServerClose(k) /\ \A j \in Conns : j # k /\ Told(j) => Stays(j)
    BY <1>1, CloseKeeps
  <2>2. manager' = manager \ {sockfd2srvid[fd[k]]}
    BY <2>1 DEF ServerClose, Remove
  <2>3. ASSUME NEW c \in manager' PROVE \E j \in Conns : Told(j)' /\ owner'[j] = c
    <3>1. PICK j \in Conns : Told(j) /\ owner[j] = c
      BY <2>2, <2>3 DEF ManagerTold
    <3>2. j # k
      BY <2>2, <2>3, <3>1 DEF Told
    <3> QED BY <2>1, <3>1, <3>2, StaysTold DEF Stays
  <2> QED BY <2>3 DEF ManagerTold
<1>2. ASSUME \A k \in Conns : ~PeerClosed(k) /\ ~Drop(k) PROVE ManagerTold'
  <2>1. \A j \in Conns : Told(j) => Told(j)' /\ owner'[j] = owner[j]
    BY <1>2, OthersKeep, StaysTold DEF Stays
  <2>2. ASSUME manager' = manager PROVE ManagerTold'
    BY <2>1, <2>2 DEF ManagerTold
  <2>3. ASSUME NEW k \in Conns, REGIST(k) PROVE ManagerTold'
    <3>1. Told(k) /\ manager' = manager \cup {owner[k]}
      BY <2>3, ReadTypes DEF REGIST, TablesTrue
    <3> QED BY <2>1, <3>1 DEF ManagerTold
  <2>4. ASSUME NEW c \in Clients, Start(c) \/ ClientStep(c) \/ Lose(c) PROVE ManagerTold'
    BY <2>2, <2>4, ClientKeeps
  <2>5. ASSUME NEW k \in Conns, ev_accept(k) \/ RegistSrvid(k) PROVE ManagerTold'
    BY <2>2, <2>5 DEF ev_accept, RegistSrvid
  <2>6. CASE UNCHANGED vars
    BY <2>2, <2>6 DEF vars
  <2> QED
    BY <1>2, <2>3, <2>4, <2>5, <2>6 DEF Next, ServerStep
<1> QED BY <1>1, <1>2

-----------------------------------------------------------------------------

LEMMA Initially ==
  ASSUME Init PROVE TypeOK /\ SocketsDistinct /\ TablesTrue /\ ManagerTold
<1>1. TypeOK
  BY RegistryAssumption DEF Init, TypeOK, Conns
<1>2. SocketsDistinct
  BY DEF Init, SocketsDistinct, Open
<1>3. <<>> # <<"REGIST">>
  OBVIOUS
<1>4. TablesTrue
  BY <1>3 DEF Init, TablesTrue
<1>5. ManagerTold
  BY DEF Init, ManagerTold
<1> QED BY <1>1, <1>2, <1>4, <1>5

\* The type invariant of the registration (postproto.lua and the modules that
\* register and connect).  It is inductive together with SocketsDistinct: a
\* message on an open connection has a client that sent it.
THEOREM TypeCorrect == Spec => []TypeOK
<1>1. Init => TypeOK /\ SocketsDistinct
  BY Initially
<1>2. TypeOK /\ SocketsDistinct /\ [Next]_vars => (TypeOK /\ SocketsDistinct)'
  BY TypeStep, SocketsStep
<1> QED BY <1>1, <1>2, PTL DEF Spec

\* Whatever connections are lost, at whichever end, and however socket numbers
\* are reused, a srvid that Postproto has a socket for is at the other end of it.
THEOREM PostsReachPeer == Spec => []PostReachesPeer
<1>1. Init => TypeOK /\ SocketsDistinct /\ TablesTrue
  BY Initially
<1>2. TypeOK /\ SocketsDistinct /\ TablesTrue /\ [Next]_vars
        => (TypeOK /\ SocketsDistinct /\ TablesTrue)'
  BY TypeStep, SocketsStep, TablesStep
<1>3. TablesTrue => PostReachesPeer
  BY DEF TablesTrue, PostReachesPeer, Told
<1> QED BY <1>1, <1>2, <1>3, PTL DEF Spec

\* Gatesrv's gate_manager, and game_manager if Gamesrv.ev_close compared srvids
\* as Gatesrv.ev_close does, lists only processes with an open connection.
THEOREM ManagerIsLive == ASSUME ~Shadowed PROVE Spec => []ManagerLive
<1>1. Init => TypeOK /\ SocketsDistinct /\ TablesTrue /\ ManagerTold
  BY Initially
<1>2. TypeOK /\ SocketsDistinct /\ TablesTrue /\ ManagerTold /\ [Next]_vars
        => (TypeOK /\ SocketsDistinct /\ TablesTrue /\ ManagerTold)'
  BY TypeStep, SocketsStep, TablesStep, ManagerStep
<1>3. ManagerTold => ManagerLive
  BY DEF ManagerTold, ManagerLive, Told
<1> QED BY <1>1, <1>2, <1>3, PTL DEF Spec
=============================================================================
