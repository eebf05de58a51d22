-------------------------------- MODULE Gate ---------------------------------
(***************************************************************************)
(* The client side of one gate server (clientsrv.lua, login.lua): sockets  *)
(* of clients, whose numbers the kernel uses again, the tables that find   *)
(* the player of a socket and of a uid, and the limit on the packets of a  *)
(* client.  The packets of clients, the replies of game servers and the    *)
(* ends of connections come in any order.                                  *)
(*                                                                         *)
(* A handler that raises loses its packet, which Pbproto has taken off the *)
(* buffer already.                                                         *)
(***************************************************************************)
EXTENDS Integers, Sequences

CONSTANTS
  Fds,         \* socket numbers of clients
  Uids,        \* valid uids
  Games,       \* srvids of game servers
  Threshold,   \* _CONF.packet_count_threshold
  Window,      \* _CONF.packet_time_threshold
  None,        \* Lua's nil
  MaxLogin,    \* bound: logins
  MaxPacket,   \* bound: packets
  MaxClock     \* bound: the last second

ASSUME GateAssumption ==
  /\ Fds \subseteq Nat \ {0}
  /\ Threshold \in Nat /\ Window \in Nat
  /\ None \notin Uids \cup Games \cup Nat
  /\ MaxLogin \in Nat /\ MaxPacket \in Nat /\ MaxClock \in Nat /\ Window <= MaxClock

VARIABLES
  open,           \* the sockets of clients that are open
  tmp,            \* tmp_socket_manager
  socket_manager, \* the player of a socket, as an index of players
  player_manager, \* the player of a uid
  players,        \* the player tables that MSG_LOGIN made
  clock,          \* os.time()
  out,            \* what the last step wrote to a socket or POSTed
  handled,        \* history: when the packets of a player were handled
  packets         \* packets so far

vars == <<open, tmp, socket_manager, player_manager, players, clock, out, handled, packets>>
tables == <<open, tmp, socket_manager, player_manager>>

\* A player's sockfd is the socket, None once it is closed, or 0, what the C
\* functions take the player table for that MSG_LOGIN gets from a socket that
\* is logged in: nothing is sent there.
NoFd == 0

\* The clock is past the first window, as last_check_packet_time begins with 0.
Init ==
  /\ open = {} /\ tmp = {}
  /\ socket_manager = [f \in Fds |-> None]
  /\ player_manager = [u \in Uids |-> None]
  /\ players = <<>> /\ handled = <<>>
  /\ clock = Window /\ out = None /\ packets = 0

Tick ==
  /\ clock < MaxClock /\ clock' = clock + 1
  /\ out' = None
  /\ UNCHANGED <<tables, players, handled, packets>>

Message(type, u, to) == [type |-> type, uid |-> u, to |-> to]

ev_accept(f) ==
  /\ f \notin open
  /\ open' = open \cup {f} /\ tmp' = tmp \cup {f}
  /\ out' = None
  /\ UNCHANGED <<socket_manager, player_manager, players, clock, handled, packets>>

-----------------------------------------------------------------------------
(* The end of a socket *)

\* Mutant: the player keeps the number of the socket.
ClosedKeeps(r) == players

\* The player has no socket any more.
Closed(r) == [players EXCEPT ![r].sockfd = None]

\* Login.player_disconnect: the game server that the player entered last.
player_disconnect(r) ==
  IF players[r].srvid = None THEN None ELSE Message("EXIT", players[r].uid, players[r].srvid)

\* Mutant: the game server is not told.
ev_close_silent(f) ==
  /\ f \in open /\ open' = open \ {f}
  /\ \/ /\ socket_manager[f] # None
        /\ out' = None
        /\ players' = Closed(socket_manager[f])
        /\ socket_manager' = [socket_manager EXCEPT ![f] = None]
        /\ UNCHANGED tmp
     \/ /\ socket_manager[f] = None
        /\ tmp' = tmp \ {f} /\ out' = None
        /\ UNCHANGED <<players, socket_manager>>
  /\ UNCHANGED <<player_manager, clock, handled, packets>>

ev_close(f) ==
  /\ f \in open /\ open' = open \ {f}
  /\ \/ /\ socket_manager[f] # None
        /\ out' = player_disconnect(socket_manager[f])
        /\ players' = Closed(socket_manager[f])
        /\ socket_manager' = [socket_manager EXCEPT ![f] = None]
        /\ UNCHANGED tmp
     \/ /\ socket_manager[f] = None
        /\ tmp' = tmp \ {f} /\ out' = None
        /\ UNCHANGED <<players, socket_manager>>
  /\ UNCHANGED <<player_manager, clock, handled, packets>>

-----------------------------------------------------------------------------
(* The limit on packets *)

Flooded(p) == p.packet_counter + 1 > Threshold /\ clock - p.last_check_packet_time < Window

\* Mutant: the time of the check is not kept.
CountedNoTime(p) ==
  IF p.packet_counter + 1 > Threshold THEN [p EXCEPT !.packet_counter = 0]
  ELSE [p EXCEPT !.packet_counter = @ + 1]

Counted(p) ==
  IF p.packet_counter + 1 > Threshold
  THEN [p EXCEPT !.packet_counter = 0, !.last_check_packet_time = clock]
  ELSE [p EXCEPT !.packet_counter = @ + 1]

\* The message of the disconnection is asked of pbc, which is nil: the handler
\* raises, the packet is lost and the client stays connected.
PacketHack(r) ==
  /\ Flooded(players[r])
  /\ players' = [players EXCEPT ![r].packet_counter = @ + 1]
  /\ out' = None
  /\ UNCHANGED <<tables, handled>>

-----------------------------------------------------------------------------
(* What a packet of a client does.  ps and hs are players and handled with *)
(* the packet counted.                                                     *)

\* Mutant: the uid is not kept.
NewPlayerNoUid(fd, u) ==
  [sockfd |-> fd, uid |-> None, srvid |-> None, packet_counter |-> 0, last_check_packet_time |-> 0]

NewPlayer(fd, u) ==
  [sockfd |-> fd, uid |-> u, srvid |-> None, packet_counter |-> 0, last_check_packet_time |-> 0]

\* Mutant: the socket stays in the table of those that have not logged in.
LoginKeepsTmp(fd, u, ps, hs) ==
  /\ Len(ps) < MaxLogin
  /\ players' = Append(ps, NewPlayer(fd, u)) /\ handled' = Append(hs, <<>>)
  /\ player_manager' = [player_manager EXCEPT ![u] = Len(players')]
  /\ socket_manager' = IF fd = NoFd THEN socket_manager ELSE [socket_manager EXCEPT ![fd] = Len(players')]
  /\ out' = Message("REPLY", u, fd)
  /\ UNCHANGED <<open, tmp>>

\* Login.MSG_LOGIN of a valid uid.  A socket that is logged in already passes
\* its player table as the fd (NoFd): the uid gets a player that nothing
\* reaches, and the socket keeps the one it has.
MSG_LOGIN(fd, u, ps, hs) ==
  /\ Len(ps) < MaxLogin
  /\ players' = Append(ps, NewPlayer(fd, u)) /\ handled' = Append(hs, <<>>)
  /\ player_manager' = [player_manager EXCEPT ![u] = Len(players')]
  /\ socket_manager' = IF fd = NoFd THEN socket_manager ELSE [socket_manager EXCEPT ![fd] = Len(players')]
  /\ tmp' = tmp \ {fd}
  /\ out' = Message("REPLY", u, fd)
  /\ UNCHANGED open

\* The uid or its token is wrong: the socket is closed, and with it its reply.
LoginRefused(f) ==
  /\ open' = open \ {f} /\ tmp' = tmp \ {f}
  /\ out' = None
  /\ UNCHANGED <<socket_manager, player_manager, players, handled>>

\* Login.MSG_ENTER, with the game server that the client names or a random one.
MSG_ENTER(r, g, ps, hs) ==
  /\ players' = [ps EXCEPT ![r].srvid = g] /\ handled' = hs
  /\ out' = Message("ENTER", ps[r].uid, g)
  /\ UNCHANGED tables

\* The other packets: a reply to a player, a POST along a route, or nothing,
\* because the handler raises (it needs a player, or Gameclient.forward, which
\* does not exist), the route needs a player, or there is no handler.
Answered(messages, ps, hs) ==
  /\ players' = ps /\ handled' = hs
  /\ out' \in messages \cup {None}
  /\ UNCHANGED tables

\* A packet of a socket without a player, which is not counted.
Anonymous(f) ==
  \/ \E u \in Uids : MSG_LOGIN(f, u, players, handled)
  \/ LoginRefused(f)
  \/ Answered({Message("FORWARD", None, None)}, players, handled)

\* A packet of a player, within the limit.
Known(r) ==
  LET ps == [players EXCEPT ![r] = Counted(@)]
      hs == [handled EXCEPT ![r] = Append(@, clock)]
      p  == players[r]
  IN
  /\ ~Flooded(p)
  /\ \/ \E u \in Uids : MSG_LOGIN(NoFd, u, ps, hs)
     \/ \E g \in Games : MSG_ENTER(r, g, ps, hs)
     \/ Answered({Message("FORWARD", p.uid, None), Message("REPLY", p.uid, p.sockfd)}, ps, hs)

dispatch(f) ==
  /\ f \in open
  /\ packets < MaxPacket /\ packets' = packets + 1
  /\ \/ socket_manager[f] = None /\ Anonymous(f)
     \/ socket_manager[f] # None /\ (PacketHack(socket_manager[f]) \/ Known(socket_manager[f]))
  /\ UNCHANGED clock

-----------------------------------------------------------------------------
(* What game servers send *)

\* Login.REPLY: a player that has no socket counts as socket 0.
REPLY(u) ==
  /\ player_manager[u] # None
  /\ LET fd == players[player_manager[u]].sockfd IN
     out' = Message("REPLY", u, IF fd = None THEN NoFd ELSE fd)
  /\ UNCHANGED <<tables, players, clock, handled, packets>>

Next ==
  \/ Tick
  \/ \E f \in Fds : ev_accept(f) \/ dispatch(f) \/ ev_close(f)
  \/ \E u \in Uids : REPLY(u)

Spec == Init /\ [][Next]_vars

-----------------------------------------------------------------------------
(* Properties *)

\* Players that the tables name exist, and counters and times are in range.
TypeOK ==
  /\ open \subseteq Fds /\ tmp \subseteq Fds
  /\ socket_manager \in [Fds -> DOMAIN players \cup {None}]
  /\ player_manager \in [Uids -> DOMAIN players \cup {None}]
  /\ \A r \in DOMAIN players :
       /\ players[r].sockfd \in Fds \cup {None, NoFd}
       /\ players[r].uid \in Uids /\ players[r].srvid \in Games \cup {None}
       /\ players[r].packet_counter \in 0..MaxPacket
       /\ players[r].last_check_packet_time \in 0..MaxClock
  /\ DOMAIN handled = DOMAIN players
  /\ clock \in Window..MaxClock /\ packets \in 0..MaxPacket

\* An open socket is in one of the two tables that ev_close and dispatch look
\* into, and a closed one in neither, so that its number can be used again.
OneTable ==
  \A f \in Fds :
    /\ f \in tmp => f \in open /\ socket_manager[f] = None
    /\ socket_manager[f] # None => f \in open /\ players[socket_manager[f]].sockfd = f
    /\ f \in open => f \in tmp \/ socket_manager[f] # None

\* A reply for a uid, of the gate or of a game server that has not heard of the
\* end of the socket yet, is written only to a socket that is logged in as that
\* uid: not to one that got the number of the socket afterwards.
RepliesToOwner ==
  [][out' # None /\ out'.type = "REPLY" /\ out'.to # NoFd =>
       /\ out'.to \in open' /\ socket_manager'[out'.to] # None
       /\ players'[socket_manager'[out'.to]].uid = out'.uid]_vars

\* Of the packets that a client sends over one login, at most twice the
\* threshold and one more are handled in less than the time of a window.
FloodBounded ==
  \A r \in DOMAIN handled : \A i \in DOMAIN handled[r] :
    LET j == i + 2 * Threshold + 1 IN
    j \in DOMAIN handled[r] => handled[r][j] - handled[r][i] >= Window

\* The session of a socket, as Login has it.
SessionOf(field) ==
  [f \in Fds |-> IF socket_manager[f] = None THEN None ELSE players[socket_manager[f]][field]]

Sessions == INSTANCE ClientSessions WITH
  Socks <- Fds, suid <- SessionOf("uid"), ssrvid <- SessionOf("srvid"),
  sent <- IF out # None /\ out.type \in {"ENTER", "EXIT"} THEN out ELSE None

\* The sessions of the sockets are those that Login has: logging in again,
\* replies, the limit on packets and numbers used again change nothing in them.
SessionsKept == Sessions!Spec
=============================================================================
