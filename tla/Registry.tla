------------------------------ MODULE Registry -------------------------------
(***************************************************************************)
(* How server processes find each other: a client process (a game, through *)
(* Globalclient; a gate, through Gameclient) connects to a server process  *)
(* (the global server, with Gamesrv; a game, with Gatesrv), tells it its   *)
(* srvid and registers.  Postproto of the server maps the srvid to the     *)
(* socket, and game_manager or gate_manager lists who is registered.       *)
(*                                                                         *)
(* The two ends of a connection see its loss at different times, and the   *)
(* client connects again at once, so the server may have an old and a new  *)
(* connection of one client.  The operating system reuses the numbers of   *)
(* closed sockets.                                                         *)
(***************************************************************************)
EXTENDS Integers, Sequences, FiniteSets

CONSTANTS
  Clients,     \* srvids of the client processes
  Fds,         \* socket numbers of the server process
  Shadowed,    \* TRUE for Gamesrv.ev_close, FALSE for Gatesrv.ev_close
  None,        \* Lua's nil
  MaxConn,     \* bound: connections that are tried
  MaxLoss,     \* bound: losses of a connection that one end sees first
  MaxRefused   \* bound: calls of connect() that fail at once

ASSUME RegistryAssumption ==
  /\ Fds \subseteq Nat
  /\ None \notin Clients \cup Fds \cup Nat
  /\ Shadowed \in BOOLEAN
  /\ MaxConn \in Nat /\ MaxLoss \in Nat /\ MaxRefused \in Nat

VARIABLES
  \* client processes (globalclient.lua, gameclient.lua)
  started,       \* clients whose main ran
  current,       \* socket_table: the connection a client has or tries
  connected,     \* clients that were told ev_connect_suc for it
  \* connections
  owner,         \* the client that tried a connection, or None
  chan,          \* what the client sent and the server did not read
  eof,           \* connections that the client's end closed
  \* server process (postproto.lua, gamesrv.lua, gatesrv.lua)
  fd,            \* the socket of a connection that is open, or None
  closed,        \* connections that the server closed, or never gets
  srvid2sockfd, sockfd2srvid,
  manager,       \* game_manager or gate_manager
  \* history and bounds
  hit,           \* clients that lost their mapping to another socket
  used, losses, refusals

clientVars == <<started, current, connected>>
serverVars == <<fd, closed, srvid2sockfd, sockfd2srvid, manager>>
vars == <<started, current, connected, owner, chan, eof, fd, closed, srvid2sockfd,
          sockfd2srvid, manager, hit, used, losses, refusals>>

Conns == 1..MaxConn

Open(k) == fd[k] # None

Init ==
  /\ started = {} /\ connected = {}
  /\ current = [c \in Clients |-> None]
  /\ owner = [k \in Conns |-> None]
  /\ chan = [k \in Conns |-> <<>>]
  /\ eof = [k \in Conns |-> FALSE]
  /\ fd = [k \in Conns |-> None]
  /\ closed = [k \in Conns |-> FALSE]
  /\ srvid2sockfd = [c \in Clients |-> None]
  /\ sockfd2srvid = [f \in Fds |-> None]
  /\ manager = {} /\ hit = {}
  /\ used = 0 /\ losses = 0 /\ refusals = 0

-----------------------------------------------------------------------------
(* Client processes *)

Connect(c) ==
  /\ used < MaxConn /\ used' = used + 1
  /\ owner' = [owner EXCEPT ![used'] = c]
  /\ current' = [current EXCEPT ![c] = used']
  /\ UNCHANGED refusals

\* The client has no socket in socket_table: a connection is tried.  When
\* connect() fails at once there is no socket and no event to try again on.
check_connections(c) ==
  \/ Connect(c)
  \/ /\ refusals < MaxRefused /\ refusals' = refusals + 1
     /\ current' = [current EXCEPT ![c] = None]
     /\ UNCHANGED <<used, owner>>

\* main.  A connect() that fails here raises an error that ends the process.
Start(c) ==
  /\ c \notin started /\ started' = started \cup {c}
  /\ Connect(c)
  /\ UNCHANGED <<connected, chan, eof, serverVars, hit, losses>>

\* Mutant: the client registers before it sends its srvid.
RegistFirst(c) ==
  /\ current[c] # None /\ c \notin connected /\ ~closed[current[c]]
  /\ connected' = connected \cup {c}
  /\ chan' = [chan EXCEPT ![current[c]] = <<"REGIST", "SRVID">>]
  /\ UNCHANGED <<started, current, owner, eof, serverVars, hit, used, losses, refusals>>

\* Postproto.regist sends the special message with the srvid, then REGIST.
ev_connect_suc(c) ==
  /\ current[c] # None /\ c \notin connected /\ ~closed[current[c]]
  /\ connected' = connected \cup {c}
  /\ chan' = [chan EXCEPT ![current[c]] = <<"SRVID", "REGIST">>]
  /\ UNCHANGED <<started, current, owner, eof, serverVars, hit, used, losses, refusals>>

\* The client's end of the connection is closed, and another one is tried.
Abandon(c) ==
  /\ eof' = [eof EXCEPT ![current[c]] = TRUE]
  /\ connected' = connected \ {c}
  /\ check_connections(c)

\* Mutant: ev_close forgets the socket and does not connect again.
SeeCloseOnly(c) ==
  /\ current[c] # None /\ closed[current[c]]
  /\ eof' = [eof EXCEPT ![current[c]] = TRUE]
  /\ connected' = connected \ {c}
  /\ current' = [current EXCEPT ![c] = None]
  /\ UNCHANGED <<started, owner, chan, serverVars, hit, used, losses, refusals>>

\* ev_close: the client reads that the server closed the connection.
ev_close(c) ==
  /\ current[c] # None /\ closed[current[c]]
  /\ Abandon(c)
  /\ UNCHANGED <<started, chan, serverVars, hit, losses>>

\* ev_connect_err, ev_close or a restart of the process: the client loses a
\* connection that the server does not know of, or still thinks open.
Lose(c) ==
  /\ current[c] # None /\ ~closed[current[c]]
  /\ losses < MaxLoss /\ losses' = losses + 1
  /\ Abandon(c)
  /\ \/ UNCHANGED closed
     \/ fd[current[c]] = None /\ closed' = [closed EXCEPT ![current[c]] = TRUE]
  /\ UNCHANGED <<started, chan, fd, srvid2sockfd, sockfd2srvid, manager, hit>>

-----------------------------------------------------------------------------
(* Server process *)

\* The lowest socket number that is free.
FreeFds == Fds \ {fd[k] : k \in {j \in Conns : Open(j)}}

ev_accept(k) ==
  /\ owner[k] # None /\ fd[k] = None /\ ~closed[k]
  /\ \E f \in FreeFds :
       /\ \A e \in FreeFds : f <= e
       /\ fd' = [fd EXCEPT ![k] = f]
  /\ UNCHANGED <<clientVars, owner, chan, eof, closed, srvid2sockfd, sockfd2srvid,
                 manager, hit, used, losses, refusals>>

Reads(k, type) == Open(k) /\ chan[k] # <<>> /\ Head(chan[k]) = type

\* Mutant: only the socket is mapped.
RegistSocket(k) ==
  /\ Reads(k, "SRVID")
  /\ sockfd2srvid' = [sockfd2srvid EXCEPT ![fd[k]] = owner[k]]
  /\ chan' = [chan EXCEPT ![k] = Tail(@)]
  /\ UNCHANGED <<clientVars, owner, eof, fd, closed, srvid2sockfd, manager, hit, used, losses, refusals>>

\* Postproto.dispatch of the special message.
RegistSrvid(k) ==
  /\ Reads(k, "SRVID")
  /\ srvid2sockfd' = [srvid2sockfd EXCEPT ![owner[k]] = fd[k]]
  /\ sockfd2srvid' = [sockfd2srvid EXCEPT ![fd[k]] = owner[k]]
  /\ chan' = [chan EXCEPT ![k] = Tail(@)]
  /\ hit' = IF eof[k] THEN hit \cup {owner[k]} ELSE hit
  /\ UNCHANGED <<clientVars, owner, eof, fd, closed, manager, used, losses, refusals>>

\* Gamesrv.REGIST or Gatesrv.REGIST: who is in the manager stays there.
REGIST(k) ==
  /\ Reads(k, "REGIST")
  /\ manager' = manager \cup {owner[k]}
  /\ chan' = [chan EXCEPT ![k] = Tail(@)]
  /\ UNCHANGED <<clientVars, owner, eof, fd, closed, srvid2sockfd, sockfd2srvid, hit,
                 used, losses, refusals>>

\* Mutant: the srvid stays mapped to the socket.
unregist_keeping(k) == UNCHANGED <<srvid2sockfd, hit>>

\* Postproto.unregist: the srvid that used the socket last loses its mapping,
\* though it may be mapped to another socket by now.
unregist(k) ==
  LET srvid == sockfd2srvid[fd[k]] IN
  IF srvid = None THEN UNCHANGED <<srvid2sockfd, hit>>
  ELSE /\ srvid2sockfd' = [srvid2sockfd EXCEPT ![srvid] = None]
       /\ hit' = IF srvid2sockfd[srvid] \in {fd[k], None} THEN hit ELSE hit \cup {srvid}

\* Mutant: nothing is removed.
RemoveNone(k) == UNCHANGED manager

\* Gatesrv.ev_close removes the srvid of the socket.  Gamesrv.ev_close compares
\* every srvid with itself, and removes the first one it meets.
Remove(k) ==
  IF Shadowed
  THEN IF manager = {} THEN UNCHANGED manager
       ELSE \E c \in manager : manager' = manager \ {c}
  ELSE manager' = manager \ {sockfd2srvid[fd[k]]}

ServerClose(k) ==
  /\ closed' = [closed EXCEPT ![k] = TRUE]
  /\ unregist(k)
  /\ Remove(k)
  /\ fd' = [fd EXCEPT ![k] = None]
  /\ chan' = [chan EXCEPT ![k] = <<>>]
  /\ UNCHANGED <<clientVars, owner, eof, sockfd2srvid, used, refusals>>

\* The server reads the end of the connection; what it did not read is lost
\* when the connection was reset.
PeerClosed(k) ==
  /\ Open(k) /\ eof[k]
  /\ ServerClose(k)
  /\ UNCHANGED losses

\* The server gives a connection up that the client still thinks open.
Drop(k) ==
  /\ Open(k) /\ ~eof[k]
  /\ losses < MaxLoss /\ losses' = losses + 1
  /\ ServerClose(k)

-----------------------------------------------------------------------------
ClientStep(c) == ev_connect_suc(c) \/ ev_close(c)
ServerStep(k) == ev_accept(k) \/ RegistSrvid(k) \/ REGIST(k) \/ PeerClosed(k)

Next ==
  \/ \E c \in Clients : Start(c) \/ ClientStep(c) \/ Lose(c)
  \/ \E k \in Conns : ServerStep(k) \/ Drop(k)

Spec == Init /\ [][Next]_vars

\* Both event loops handle what happens to their sockets, and every client is
\* started some day.  Losses are not fair.
FairSpec ==
  /\ Spec
  /\ \A c \in Clients : WF_vars(Start(c)) /\ WF_vars(ClientStep(c))
  /\ \A k \in Conns : WF_vars(ServerStep(k))

-----------------------------------------------------------------------------
(* Properties *)

\* The tables hold what their comments say.
TypeOK ==
  /\ started \subseteq Clients /\ connected \subseteq Clients
  /\ current \in [Clients -> Conns \cup {None}]
  /\ owner \in [Conns -> Clients \cup {None}]
  /\ chan \in [Conns -> {<<>>, <<"REGIST">>, <<"SRVID", "REGIST">>}]
  /\ eof \in [Conns -> BOOLEAN]
  /\ fd \in [Conns -> Fds \cup {None}]
  /\ closed \in [Conns -> BOOLEAN]
  /\ srvid2sockfd \in [Clients -> Fds \cup {None}]
  /\ sockfd2srvid \in [Fds -> Clients \cup {None}]
  /\ manager \subseteq Clients /\ hit \subseteq Clients
  /\ used \in 0..MaxConn /\ losses \in 0..MaxLoss /\ refusals \in 0..MaxRefused

\* What the server POSTs to a srvid goes to a socket that is open and whose
\* other end is the process of that srvid, although socket numbers are reused,
\* old connections linger, and sockfd2srvid is never cleared.
PostReachesPeer ==
  \A c \in Clients :
    srvid2sockfd[c] # None =>
      \E k \in Conns : Open(k) /\ fd[k] = srvid2sockfd[c] /\ owner[k] = c

\* Who is in the manager has an open connection to the server: ev_close removes
\* the process that went away.
ManagerLive ==
  \A c \in manager : \E k \in Conns : Open(k) /\ owner[k] = c

(* Why PostReachesPeer and ManagerLive hold.  What is not tried is not open, *)
(* no two open connections have one socket number, and what the tables say of *)
(* a socket is true as long as it is open.                                   *)
SocketsDistinct ==
  /\ \A k \in Conns : k > used => fd[k] = None /\ owner[k] = None
  /\ \A k \in Conns : Open(k) => owner[k] \in Clients
  /\ \A j, k \in Conns : Open(j) /\ fd[j] = fd[k] => j = k

\* The srvid was read on k: it was the first message on this socket.
Told(k) == Open(k) /\ sockfd2srvid[fd[k]] = owner[k]

TablesTrue ==
  /\ \A k \in Conns : chan[k] = <<"REGIST">> => Told(k)
  /\ \A c \in Clients : srvid2sockfd[c] # None =>
       \E k \in Conns : Told(k) /\ owner[k] = c /\ fd[k] = srvid2sockfd[c]

ManagerTold == \A c \in manager : \E k \in Conns : Told(k) /\ owner[k] = c

\* Once connections stop being lost, every client is connected for good, unless
\* a connect() failed at once.
Reconnected == [](refusals = 0) => <>[](connected = Clients)

\* Once connections stop being lost, the server can POST to every srvid again.
ReachableAgain == <>[](\A c \in Clients : srvid2sockfd[c] # None)

\* The same, with two exceptions: a connect() that failed at once, and a client
\* whose mapping was taken by another socket, because its srvid arrived late on
\* a connection it had given up, or because a socket was closed that it used
\* before or that was reused.
ReachableUnlessHit ==
  [](refusals = 0) => <>[](\A c \in Clients \ hit : srvid2sockfd[c] # None)
=============================================================================
