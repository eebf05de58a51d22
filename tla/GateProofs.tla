----------------------------- MODULE GateProofs ------------------------------
(* Proofs about Gate, for any sockets, uids, games, limits and bounds. *)
EXTENDS Gate, TLAPS

(***************************************************************************)
(* The inductive invariant.                                                *)
(***************************************************************************)

Player == [sockfd : Fds \cup {None, NoFd}, uid : Uids, srvid : Games \cup {None},
           packet_counter : Nat, last_check_packet_time : Nat]

\* The players and the times of their packets are lists of the same length.
Lists ==
  /\ players \in Seq(Player)
  /\ handled \in Seq(Seq(Nat)) /\ Len(handled) = Len(players)

\* A player that has a socket is the one of that socket; a uid has a player of
\* that uid.
Owners ==
  /\ \A r \in DOMAIN players :
       players[r].sockfd \in Fds => socket_manager[players[r].sockfd] = r
  /\ \A u \in Uids : player_manager[u] # None => players[player_manager[u]].uid = u

\* A counter counts packets, and the last check is not in the future.
Counters ==
  \A r \in DOMAIN players : /\ players[r].packet_counter <= packets
                            /\ players[r].last_check_packet_time <= clock

Inv == TypeOK /\ Lists /\ OneTable /\ Owners /\ Counters

-----------------------------------------------------------------------------
(* Lists of players *)

LEMMA SetAt ==
  ASSUME NEW S, NEW s \in Seq(S), NEW r \in DOMAIN s, NEW x \in S, NEW t, t = [s EXCEPT ![r] = x]
  PROVE  /\ t \in Seq(S) /\ Len(t) = Len(s) /\ DOMAIN t = DOMAIN s
         /\ t[r] = x /\ \A q \in DOMAIN s : q # r => t[q] = s[q]
<1>1. s \in [1..Len(s) -> S] /\ DOMAIN s = 1..Len(s) /\ Len(s) \in Nat
  OBVIOUS
<1>2. t \in [1..Len(s) -> S]
  BY <1>1
<1>3. t \in Seq(S) /\ Len(t) = Len(s)
  BY <1>1, <1>2
<1> QED BY <1>1, <1>2, <1>3

LEMMA AppendAt ==
  ASSUME NEW S, NEW s \in Seq(S), NEW x \in S, NEW t, t = Append(s, x)
  PROVE  /\ t \in Seq(S) /\ Len(t) = Len(s) + 1 /\ DOMAIN t = DOMAIN s \cup {Len(t)}
         /\ Len(t) \notin DOMAIN s /\ Len(t) \in DOMAIN t
         /\ t[Len(t)] = x /\ \A q \in DOMAIN s : t[q] = s[q]
  OBVIOUS

\* What the handlers do to a player.
LEMMA Fields ==
  ASSUME NEW p \in Player, clock \in Nat
  PROVE  /\ [p EXCEPT !.sockfd = None] \in Player
         /\ [p EXCEPT !.sockfd = None].sockfd = None
         /\ \A g \in Games : [p EXCEPT !.srvid = g] \in Player
         /\ [p EXCEPT !.packet_counter = @ + 1] \in Player
         /\ Counted(p) \in Player
<1>1. [p EXCEPT !.packet_counter = @ + 1] \in Player
  BY DEF Player
<1>2. [p EXCEPT !.packet_counter = 0, !.last_check_packet_time = clock] \in Player
  BY DEF Player
<1>3. Counted(p) \in Player
  BY <1>1, <1>2 DEF Counted
<1> QED BY <1>1, <1>3 DEF Player

\* A packet that is counted keeps who the player is.
LEMMA CountedSame ==
  ASSUME NEW p \in Player, clock \in Nat, NEW q, q = Counted(p) \/ q = [p EXCEPT !.packet_counter = @ + 1]
  PROVE  /\ q.sockfd = p.sockfd /\ q.uid = p.uid /\ q.srvid = p.srvid
         /\ q.packet_counter <= p.packet_counter + 1
         /\ q.last_check_packet_time \in {p.last_check_packet_time, clock}
<1>1. CASE q = [p EXCEPT !.packet_counter = @ + 1]
  BY <1>1 DEF Player
<1>2. CASE q = [p EXCEPT !.packet_counter = 0, !.last_check_packet_time = clock]
  BY <1>2 DEF Player
<1> QED BY <1>1, <1>2 DEF Counted

-----------------------------------------------------------------------------
(* A packet *)

\* ps and hs are players and handled with a packet counted or not.
Like(ps, hs) ==
  /\ ps \in Seq(Player) /\ Len(ps) = Len(players) /\ DOMAIN ps = DOMAIN players
  /\ hs \in Seq(Seq(Nat)) /\ Len(hs) = Len(ps)
  /\ \A r \in DOMAIN players :
       /\ ps[r].sockfd = players[r].sockfd /\ ps[r].uid = players[r].uid
       /\ ps[r].packet_counter <= packets + 1 /\ ps[r].last_check_packet_time <= clock

\* They entered the same game servers.
SameSrvids(ps) == \A r \in DOMAIN players : ps[r].srvid = players[r].srvid

\* The packet and the clock of a dispatch.
Taken == packets < MaxPacket /\ packets' = packets + 1 /\ clock' = clock

LEMMA LikeSame ==
  ASSUME Inv
  PROVE  Like(players, handled) /\ SameSrvids(players)
<1>1. \A r \in DOMAIN players : players[r].packet_counter \in Nat
  <2>1. \A r \in DOMAIN players : players[r] \in Player
    BY DEF Inv, Lists
  <2> QED BY <2>1 DEF Player
<1>2. packets \in Nat
  BY DEF Inv, TypeOK
<1> QED BY <1>1, <1>2 DEF Inv, Lists, Counters, Like, SameSrvids

LEMMA LikeCounted ==
  ASSUME Inv, NEW r \in DOMAIN players, NEW q, NEW hs,
         q = Counted(players[r]) \/ q = [players[r] EXCEPT !.packet_counter = @ + 1],
         hs \in Seq(Seq(Nat)), Len(hs) = Len(players)
  PROVE  Like([players EXCEPT ![r] = q], hs) /\ SameSrvids([players EXCEPT ![r] = q])
<1> DEFINE ps == [players EXCEPT ![r] = q]
<1>1. players \in Seq(Player) /\ players[r] \in Player /\ clock \in Nat /\ packets \in Nat
  BY GateAssumption DEF Inv, Lists, TypeOK
<1>2. q \in Player
  BY <1>1, Fields
<1>3. /\ q.sockfd = players[r].sockfd /\ q.uid = players[r].uid /\ q.srvid = players[r].srvid
      /\ q.packet_counter <= players[r].packet_counter + 1
      /\ q.last_check_packet_time \in {players[r].last_check_packet_time, clock}
  BY <1>1, CountedSame
<1>4. /\ ps \in Seq(Player) /\ Len(ps) = Len(players) /\ DOMAIN ps = DOMAIN players
      /\ ps[r] = q /\ \A s \in DOMAIN players : s # r => ps[s] = players[s]
  BY <1>1, <1>2, SetAt
<1> HIDE DEF ps
<1>5. ASSUME NEW s \in DOMAIN players
      PROVE  /\ ps[s].sockfd = players[s].sockfd /\ ps[s].uid = players[s].uid
             /\ ps[s].srvid = players[s].srvid
             /\ ps[s].packet_counter <= packets + 1 /\ ps[s].last_check_packet_time <= clock
  <2>1. /\ players[s].packet_counter \in Nat /\ players[s].packet_counter <= packets
        /\ players[s].last_check_packet_time <= clock
    <3>1. players[s] \in Player
      BY <1>1
    <3> QED BY <3>1 DEF Inv, Counters, Player
  <2>2. q.packet_counter \in Nat
    BY <1>2 DEF Player
  <2>3. CASE s = r
    BY <1>1, <1>3, <1>4, <2>1, <2>2, <2>3
  <2>4. CASE s # r
    BY <1>1, <1>4, <2>1, <2>4
  <2> QED BY <2>3, <2>4
<1> QED BY <1>4, <1>5 DEF Like, SameSrvids, ps

\* The part of the types that is about players follows from the lists.
LEMMA TypesOf ==
  ASSUME Lists', Counters', clock' \in Window..MaxClock, packets' \in 0..MaxPacket,
         open' \subseteq Fds, tmp' \subseteq Fds,
         socket_manager' \in [Fds -> DOMAIN players' \cup {None}],
         player_manager' \in [Uids -> DOMAIN players' \cup {None}]
  PROVE  TypeOK'
<1>1. clock' \in 0..MaxClock
  BY GateAssumption
<1>2. ASSUME NEW r \in DOMAIN players'
      PROVE  /\ players'[r].sockfd \in Fds \cup {None, NoFd}
             /\ players'[r].uid \in Uids /\ players'[r].srvid \in Games \cup {None}
             /\ players'[r].packet_counter \in 0..MaxPacket
             /\ players'[r].last_check_packet_time \in 0..MaxClock
  <2>1. players'[r] \in Player
    BY DEF Lists
  <2>2. players'[r].packet_counter <= packets' /\ players'[r].last_check_packet_time <= clock'
    BY DEF Counters
  <2>3. packets' \in 0..MaxPacket /\ MaxPacket \in Nat /\ MaxClock \in Nat
    BY <1>1, GateAssumption
  <2> QED BY <1>1, <2>1, <2>2, <2>3 DEF Player
<1>3. DOMAIN handled' = DOMAIN players'
  BY DEF Lists
<1> QED BY <1>1, <1>2, <1>3 DEF TypeOK

LEMMA TakenTypes ==
  ASSUME Inv, Taken
  PROVE  clock' \in Window..MaxClock /\ packets' \in 0..MaxPacket
  BY GateAssumption DEF Taken, Inv, TypeOK

\* A packet that leaves the tables alone.
LEMMA SameStep ==
  ASSUME Inv, Taken, NEW ps, NEW hs, Like(ps, hs), players' = ps, handled' = hs, UNCHANGED tables
  PROVE  Inv'
<1> USE DEF tables
<1>1. Lists'
  BY DEF Like, Lists
<1>2. Counters'
  BY DEF Like, Counters, Taken
<1>3. DOMAIN players' = DOMAIN players
  BY DEF Like
<1>4. TypeOK'
  BY <1>1, <1>2, <1>3, TypesOf, TakenTypes DEF Inv, TypeOK
<1>5. socket_manager \in [Fds -> DOMAIN players \cup {None}] /\ player_manager \in [Uids -> DOMAIN players \cup {None}]
  BY DEF Inv, TypeOK
<1>6. OneTable'
  BY <1>5 DEF Like, Inv, OneTable
<1>7. Owners'
  BY <1>5 DEF Like, Inv, Owners
<1> QED BY <1>1, <1>2, <1>4, <1>6, <1>7 DEF Inv

LEMMA EnterStep ==
  ASSUME Inv, Taken, NEW ps, NEW hs, Like(ps, hs), NEW r \in DOMAIN players, NEW g \in Games,
         MSG_ENTER(r, g, ps, hs)
  PROVE  /\ Inv' /\ players' \in Seq(Player) /\ DOMAIN players' = DOMAIN players
         /\ players'[r].srvid = g
         /\ \A s \in DOMAIN players : /\ players'[s].uid = players[s].uid
                                      /\ s # r => players'[s].srvid = ps[s].srvid
                                      /\ players'[s].packet_counter = ps[s].packet_counter
                                      /\ players'[s].last_check_packet_time = ps[s].last_check_packet_time
<1> DEFINE q == [ps[r] EXCEPT !.srvid = g]
<1>1. ps \in Seq(Player) /\ r \in DOMAIN ps /\ ps[r] \in Player /\ clock \in Nat
  BY GateAssumption DEF Like, Inv, TypeOK
<1>2. q \in Player
  BY <1>1, Fields
<1>3. /\ q.sockfd = ps[r].sockfd /\ q.uid = ps[r].uid /\ q.srvid = g
      /\ q.packet_counter = ps[r].packet_counter
      /\ q.last_check_packet_time = ps[r].last_check_packet_time
  BY <1>1 DEF Player
<1>4. players' = [ps EXCEPT ![r] = q] /\ handled' = hs /\ UNCHANGED tables
  BY DEF MSG_ENTER
<1> HIDE DEF q
<1>5. /\ players' \in Seq(Player) /\ Len(players') = Len(ps) /\ DOMAIN players' = DOMAIN ps
      /\ players'[r] = q /\ \A s \in DOMAIN ps : s # r => players'[s] = ps[s]
  BY <1>1, <1>2, <1>4, SetAt
<1>6. Like(players', hs)
  BY <1>3, <1>5 DEF Like
<1>7. Inv'
  BY <1>4, <1>6, SameStep
<1> QED BY <1>3, <1>5, <1>7 DEF Like

LEMMA LoginStep ==
  ASSUME Inv, Taken, NEW ps, NEW hs, Like(ps, hs), NEW fd, NEW u \in Uids,
         fd = NoFd \/ (fd \in open /\ socket_manager[fd] = None),
         MSG_LOGIN(fd, u, ps, hs)
  PROVE  /\ Inv' /\ Len(players') = Len(players) + 1 /\ DOMAIN players \subseteq DOMAIN players'
         /\ players'[Len(players')] = NewPlayer(fd, u)
         /\ \A r \in DOMAIN players : players'[r] = ps[r]
<1> DEFINE n == Len(players')
<1>1. TypeOK /\ OneTable /\ Owners /\ NoFd \notin Fds /\ None \notin Nat /\ NoFd = 0
  BY GateAssumption DEF Inv, NoFd
<1>2. fd \in Fds \cup {NoFd}
  BY <1>1 DEF TypeOK
<1>3. NewPlayer(fd, u) \in Player
  BY <1>2 DEF NewPlayer, Player
<1>4. /\ NewPlayer(fd, u).sockfd = fd /\ NewPlayer(fd, u).uid = u
      /\ NewPlayer(fd, u).packet_counter = 0 /\ NewPlayer(fd, u).last_check_packet_time = 0
  BY DEF NewPlayer
<1>5. /\ ps \in Seq(Player) /\ hs \in Seq(Seq(Nat)) /\ Len(hs) = Len(ps)
      /\ DOMAIN ps = DOMAIN players /\ Len(ps) = Len(players)
  BY DEF Like
<1>6. players' = Append(ps, NewPlayer(fd, u)) /\ handled' = Append(hs, <<>>)
  BY DEF MSG_LOGIN
<1>7. /\ players' \in Seq(Player) /\ n = Len(players) + 1 /\ DOMAIN players' = DOMAIN players \cup {n}
      /\ n \notin DOMAIN players /\ n \in DOMAIN players' /\ n \in Nat
      /\ players'[n] = NewPlayer(fd, u)
      /\ \A r \in DOMAIN players : players'[r] = ps[r]
  <2>1. Len(players') \in Nat
    BY <1>3, <1>5, <1>6
  <2> QED BY <1>3, <1>5, <1>6, <2>1, AppendAt
<1>8. /\ open' = open /\ tmp' = tmp \ {fd}
      /\ player_manager' = [player_manager EXCEPT ![u] = n]
      /\ fd = NoFd => socket_manager' = socket_manager
      /\ fd # NoFd => socket_manager' = [socket_manager EXCEPT ![fd] = n]
  BY DEF MSG_LOGIN
<1> HIDE DEF n
<1>9. Lists'
  <2>1. <<>> \in Seq(Nat)
    OBVIOUS
  <2>2. handled' \in Seq(Seq(Nat)) /\ Len(handled') = Len(hs) + 1
    BY <1>5, <1>6, <2>1, AppendAt
  <2> QED BY <1>5, <1>7, <2>2 DEF Lists, n
<1>10. Counters'
  <2>1. 0 <= packets + 1 /\ 0 <= clock /\ packets' = packets + 1 /\ clock' = clock
    BY GateAssumption DEF Taken, Inv, TypeOK
  <2>2. ASSUME NEW r \in DOMAIN players'
        PROVE  players'[r].packet_counter <= packets' /\ players'[r].last_check_packet_time <= clock'
    <3>1. CASE r \in DOMAIN players
      BY <1>7, <2>1, <3>1 DEF Like
    <3>2. CASE r = n
      BY <1>4, <1>7, <2>1, <3>2
    <3> QED BY <1>7, <3>1, <3>2
  <2> QED BY <2>2 DEF Counters
<1>11. /\ socket_manager \in [Fds -> DOMAIN players \cup {None}]
       /\ player_manager \in [Uids -> DOMAIN players \cup {None}]
  BY <1>1 DEF TypeOK
<1>12. /\ socket_manager' \in [Fds -> DOMAIN players' \cup {None}]
       /\ player_manager' \in [Uids -> DOMAIN players' \cup {None}]
       /\ \A f \in Fds : socket_manager'[f] = IF f = fd THEN n ELSE socket_manager[f]
       /\ \A v \in Uids : player_manager'[v] = IF v = u THEN n ELSE player_manager[v]
  BY <1>1, <1>2, <1>7, <1>8, <1>11
<1>13. TypeOK'
  BY <1>1, <1>8, <1>9, <1>10, <1>12, TypesOf, TakenTypes DEF TypeOK
<1>14. \A r \in DOMAIN players : players'[r].sockfd = players[r].sockfd /\ players'[r].uid = players[r].uid
  BY <1>7 DEF Like
<1>15. \A f \in Fds : socket_manager[f] # None => socket_manager[f] \in DOMAIN players
  BY <1>11
<1>16. OneTable'
  <2>1. n # None
    BY <1>1, <1>7
  <2>2. ASSUME NEW f \in Fds, f = fd
        PROVE  /\ f \notin tmp' /\ f \in open' /\ socket_manager'[f] # None
               /\ players'[socket_manager'[f]].sockfd = f
    BY <1>1, <1>4, <1>7, <1>8, <1>12, <2>1, <2>2
  <2>3. ASSUME NEW f \in Fds, f # fd
        PROVE  /\ f \in tmp' => f \in open' /\ socket_manager'[f] = None
               /\ socket_manager'[f] # None => f \in open' /\ players'[socket_manager'[f]].sockfd = f
               /\ f \in open' => f \in tmp' \/ socket_manager'[f] # None
    BY <1>1, <1>8, <1>12, <1>14, <1>15, <2>3 DEF OneTable
  <2> QED BY <2>2, <2>3 DEF OneTable
<1>17. Owners'
  <2>1. ASSUME NEW r \in DOMAIN players', players'[r].sockfd \in Fds
        PROVE  socket_manager'[players'[r].sockfd] = r
    <3>1. CASE r = n
      BY <1>4, <1>7, <1>12, <2>1, <3>1
    <3>2. CASE r \in DOMAIN players
      <4>1. /\ players[r].sockfd \in Fds /\ players'[r].sockfd = players[r].sockfd
            /\ socket_manager[players[r].sockfd] = r
        BY <1>1, <1>14, <2>1, <3>2 DEF Owners
      <4>2. r # None
        <5>1. r \in Nat
          BY <3>2 DEF Inv, Lists
        <5> QED BY <1>1, <5>1
      <4>3. players[r].sockfd # fd
        BY <1>1, <4>1, <4>2
      <4> QED BY <1>12, <4>1, <4>3
    <3> QED BY <1>7, <3>1, <3>2
  <2>2. ASSUME NEW v \in Uids, player_manager'[v] # None
        PROVE  players'[player_manager'[v]].uid = v
    <3>1. CASE v = u
      BY <1>4, <1>7, <1>12, <3>1
    <3>2. CASE v # u
      <4>1. player_manager[v] \in DOMAIN players /\ player_manager'[v] = player_manager[v]
        BY <1>11, <1>12, <2>2, <3>2
      <4> QED BY <1>1, <1>14, <2>2, <4>1 DEF Owners
    <3> QED BY <3>1, <3>2
  <2> QED BY <2>1, <2>2 DEF Owners
<1> QED BY <1>7, <1>9, <1>10, <1>13, <1>16, <1>17 DEF Inv, n

LEMMA RefusedStep ==
  ASSUME Inv, Taken, NEW f \in open, socket_manager[f] = None, LoginRefused(f)
  PROVE  Inv'
<1>1. Like(players, handled) /\ TypeOK /\ OneTable /\ Owners /\ Lists
  BY LikeSame DEF Inv
<1>2. /\ open' = open \ {f} /\ tmp' = tmp \ {f}
      /\ UNCHANGED <<socket_manager, player_manager, players, handled>>
  BY DEF LoginRefused
<1>3. Lists' /\ Owners'
  BY <1>1, <1>2 DEF Lists, Owners
<1>4. Counters'
  BY <1>1, <1>2 DEF Like, Counters, Taken
<1>5. TypeOK'
  BY <1>1, <1>2, <1>3, <1>4, TypesOf, TakenTypes DEF TypeOK
<1>6. OneTable'
  BY <1>1, <1>2 DEF OneTable
<1> QED BY <1>3, <1>4, <1>5, <1>6 DEF Inv

\* A packet of a player, counted.
LEMMA CountedLists ==
  ASSUME Inv, NEW r \in DOMAIN players
  PROVE  LET ps == [players EXCEPT ![r] = Counted(@)]
             hs == [handled EXCEPT ![r] = Append(@, clock)]
         IN  Like(ps, hs) /\ SameSrvids(ps)
<1> DEFINE hs == [handled EXCEPT ![r] = Append(@, clock)]
<1>1. /\ handled \in Seq(Seq(Nat)) /\ r \in DOMAIN handled /\ handled[r] \in Seq(Nat) /\ clock \in Nat
      /\ Len(handled) = Len(players)
  BY GateAssumption DEF Inv, Lists, TypeOK
<1>2. Append(handled[r], clock) \in Seq(Nat)
  BY <1>1
<1>3. hs \in Seq(Seq(Nat)) /\ Len(hs) = Len(players)
  BY <1>1, <1>2, SetAt
<1> HIDE DEF hs
<1>4. Like([players EXCEPT ![r] = Counted(players[r])], hs) /\ SameSrvids([players EXCEPT ![r] = Counted(players[r])])
  BY <1>3, LikeCounted
<1> QED BY <1>4 DEF hs

LEMMA HackLists ==
  ASSUME Inv, NEW r \in DOMAIN players, PacketHack(r)
  PROVE  /\ Like(players', handled) /\ SameSrvids(players')
         /\ handled' = handled /\ UNCHANGED tables
<1> DEFINE q == [players[r] EXCEPT !.packet_counter = @ + 1]
<1>1. players' = [players EXCEPT ![r] = q] /\ handled' = handled /\ UNCHANGED tables
  BY DEF PacketHack
<1>2. handled \in Seq(Seq(Nat)) /\ Len(handled) = Len(players)
  BY DEF Inv, Lists
<1>3. Like([players EXCEPT ![r] = q], handled) /\ SameSrvids([players EXCEPT ![r] = q])
  BY <1>2, LikeCounted
<1> HIDE DEF q
<1> QED BY <1>1, <1>3

LEMMA DispatchStep ==
  ASSUME Inv, NEW f \in Fds, dispatch(f)
  PROVE  Inv'
<1>1. Taken /\ f \in open
  BY DEF dispatch, Taken
<1>2. CASE socket_manager[f] = None /\ Anonymous(f)
  <2>1. Like(players, handled)
    BY LikeSame
  <2>2. ASSUME NEW u \in Uids, MSG_LOGIN(f, u, players, handled)
        PROVE  Inv'
    BY <1>1, <1>2, <2>1, <2>2, LoginStep
  <2>3. CASE LoginRefused(f)
    BY <1>1, <1>2, <2>3, RefusedStep
  <2>4. CASE Answered({Message("FORWARD", None, None)}, players, handled)
    BY <1>1, <2>1, <2>4, SameStep DEF Answered
  <2> QED BY <1>2, <2>2, <2>3, <2>4 DEF Anonymous
<1>3. ASSUME socket_manager[f] # None
      PROVE  socket_manager[f] \in DOMAIN players
  BY <1>3 DEF Inv, TypeOK
<1>4. CASE socket_manager[f] # None /\ PacketHack(socket_manager[f])
  BY <1>1, <1>3, <1>4, HackLists, SameStep
<1>5. CASE socket_manager[f] # None /\ Known(socket_manager[f])
  <2> DEFINE r == socket_manager[f]
             ps == [players EXCEPT ![r] = Counted(@)]
             hs == [handled EXCEPT ![r] = Append(@, clock)]
             messages == {Message("FORWARD", players[r].uid, None), Message("REPLY", players[r].uid, players[r].sockfd)}
  <2>1. r \in DOMAIN players
    BY <1>3, <1>5
  <2>2. Like(ps, hs)
    BY <2>1, CountedLists
  <2>3. \/ \E u \in Uids : MSG_LOGIN(NoFd, u, ps, hs)
        \/ \E g \in Games : MSG_ENTER(r, g, ps, hs)
        \/ Answered(messages, ps, hs)
    BY <1>5 DEF Known
  <2> HIDE DEF r, ps, hs, messages
  <2>4. ASSUME NEW u \in Uids, MSG_LOGIN(NoFd, u, ps, hs)
        PROVE  Inv'
    BY <1>1, <2>2, <2>4, LoginStep
  <2>5. ASSUME NEW g \in Games, MSG_ENTER(r, g, ps, hs)
        PROVE  Inv'
    BY <1>1, <2>1, <2>2, <2>5, EnterStep
  <2>6. CASE Answered(messages, ps, hs)
    BY <1>1, <2>2, <2>6, SameStep DEF Answered
  <2> QED BY <2>3, <2>4, <2>5, <2>6
<1> QED BY <1>2, <1>4, <1>5 DEF dispatch

-----------------------------------------------------------------------------
(* The other steps *)

\* The end of a socket that is logged in: its player has no socket any more,
\* and no other player had that one.
LEMMA ClosedStep ==
  ASSUME Inv, NEW f \in Fds, ev_close(f), socket_manager[f] # None
  PROVE  /\ Inv' /\ DOMAIN players' = DOMAIN players
         /\ \A s \in DOMAIN players : /\ players'[s].uid = players[s].uid
                                      /\ players'[s].srvid = players[s].srvid
                                      /\ players'[s].packet_counter = players[s].packet_counter
                                      /\ players'[s].last_check_packet_time = players[s].last_check_packet_time
<1> DEFINE r == socket_manager[f]
           q == [players[r] EXCEPT !.sockfd = None]
<1>1. TypeOK /\ Lists /\ OneTable /\ Owners /\ Counters /\ None \notin Fds
  BY GateAssumption DEF Inv
<1>2. /\ open' = open \ {f} /\ tmp' = tmp /\ players' = [players EXCEPT ![r] = q]
      /\ socket_manager' = [socket_manager EXCEPT ![f] = None]
      /\ player_manager' = player_manager /\ clock' = clock /\ handled' = handled /\ packets' = packets
  BY DEF ev_close, Closed
<1>3. /\ socket_manager \in [Fds -> DOMAIN players \cup {None}]
      /\ player_manager \in [Uids -> DOMAIN players \cup {None}]
      /\ clock \in Window..MaxClock /\ packets \in 0..MaxPacket /\ clock \in Nat
  BY <1>1, GateAssumption DEF TypeOK
<1>4. players \in Seq(Player) /\ r \in DOMAIN players /\ players[r] \in Player
  BY <1>1, <1>3 DEF Lists
<1>5. /\ q \in Player /\ q.sockfd = None /\ q.uid = players[r].uid /\ q.srvid = players[r].srvid
      /\ q.packet_counter = players[r].packet_counter
      /\ q.last_check_packet_time = players[r].last_check_packet_time
  <2>1. q \in Player /\ q.sockfd = None
    BY <1>3, <1>4, Fields
  <2> QED BY <1>4, <2>1 DEF Player
<1>6. /\ players' \in Seq(Player) /\ Len(players') = Len(players) /\ DOMAIN players' = DOMAIN players
      /\ players'[r] = q /\ \A s \in DOMAIN players : s # r => players'[s] = players[s]
  <2> HIDE DEF q, r
  <2> QED BY <1>2, <1>4, <1>5, SetAt
<1>7. \A g \in Fds : socket_manager'[g] = IF g = f THEN None ELSE socket_manager[g]
  BY <1>2, <1>3
<1> HIDE DEF q
<1>8. \A s \in DOMAIN players : /\ players'[s].uid = players[s].uid /\ players'[s].srvid = players[s].srvid
                                /\ players'[s].packet_counter = players[s].packet_counter
                                /\ players'[s].last_check_packet_time = players[s].last_check_packet_time
  BY <1>5, <1>6
<1>9. Lists' /\ Counters'
  BY <1>1, <1>2, <1>6, <1>8 DEF Lists, Counters
<1>10. TypeOK'
  BY <1>1, <1>2, <1>3, <1>6, <1>9, TypesOf DEF TypeOK
<1>11. players[r].sockfd = f /\ r # None
  BY <1>1 DEF OneTable
<1>12. OneTable'
  <2>1. ASSUME NEW g \in Fds, g # f, socket_manager[g] # None
        PROVE  socket_manager[g] \in DOMAIN players /\ socket_manager[g] # r
    BY <1>1, <1>3, <1>11, <2>1 DEF OneTable
  <2>2. f \notin tmp
    BY <1>1 DEF OneTable
  <2> HIDE DEF r
  <2> QED BY <1>1, <1>2, <1>6, <1>7, <2>1, <2>2 DEF OneTable
<1>13. Owners'
  <2>1. ASSUME NEW s \in DOMAIN players', players'[s].sockfd \in Fds
        PROVE  socket_manager'[players'[s].sockfd] = s
    <3>1. s # r /\ s \in DOMAIN players /\ players'[s] = players[s]
      BY <1>1, <1>5, <1>6, <2>1
    <3>2. socket_manager[players[s].sockfd] = s
      BY <1>1, <2>1, <3>1 DEF Owners
    <3> QED BY <1>7, <2>1, <3>1, <3>2
  <2> HIDE DEF r
  <2> QED BY <1>1, <1>2, <1>3, <1>8, <2>1 DEF Owners
<1> QED BY <1>6, <1>8, <1>9, <1>10, <1>12, <1>13 DEF Inv

LEMMA InvStep ==
  ASSUME Inv, [Next]_vars
  PROVE  Inv'
<1>1. TypeOK /\ Lists /\ OneTable /\ Owners /\ Counters
  BY DEF Inv
<1>2. CASE Tick
  <2>1. clock \in Nat /\ clock' = clock + 1 /\ clock' \in Window..MaxClock /\ packets' \in 0..MaxPacket
    BY <1>1, <1>2, GateAssumption DEF Tick, TypeOK
  <2>2. UNCHANGED <<open, tmp, socket_manager, player_manager, players, handled, packets>>
    BY <1>2 DEF Tick, tables
  <2>3. Lists' /\ OneTable' /\ Owners'
    BY <1>1, <2>2 DEF Lists, OneTable, Owners
  <2>4. Counters'
    <3>1. \A r \in DOMAIN players : players[r].last_check_packet_time \in Nat
      BY <1>1, GateAssumption DEF TypeOK
    <3> QED BY <1>1, <2>1, <2>2, <3>1 DEF Counters
  <2>5. TypeOK'
    BY <1>1, <2>1, <2>2, <2>3, <2>4, TypesOf DEF TypeOK
  <2> QED BY <2>3, <2>4, <2>5 DEF Inv
<1>3. ASSUME NEW f \in Fds, ev_accept(f)
      PROVE  Inv'
  <2>1. /\ f \notin open /\ open' = open \cup {f} /\ tmp' = tmp \cup {f}
        /\ UNCHANGED <<socket_manager, player_manager, players, clock, handled, packets>>
    BY <1>3 DEF ev_accept
  <2>2. Lists' /\ Owners' /\ Counters' /\ TypeOK'
    BY <1>1, <2>1 DEF Lists, Owners, Counters, TypeOK
  <2>3. OneTable'
    BY <1>1, <2>1 DEF OneTable
  <2> QED BY <2>2, <2>3 DEF Inv
<1>4. ASSUME NEW f \in Fds, dispatch(f)
      PROVE  Inv'
  BY <1>4, DispatchStep
<1>5. ASSUME NEW f \in Fds, ev_close(f)
      PROVE  Inv'
  <2>1. CASE socket_manager[f] # None
    BY <1>5, <2>1, ClosedStep
  <2>2. CASE socket_manager[f] = None
    <3>1. /\ open' = open \ {f} /\ tmp' = tmp \ {f}
          /\ UNCHANGED <<socket_manager, player_manager, players, clock, handled, packets>>
      BY <1>5, <2>2 DEF ev_close
    <3>2. Lists' /\ Owners' /\ Counters' /\ TypeOK'
      BY <1>1, <3>1 DEF Lists, Owners, Counters, TypeOK
    <3>3. OneTable'
      BY <1>1, <2>2, <3>1 DEF OneTable
    <3> QED BY <3>2, <3>3 DEF Inv
  <2> QED BY <2>1, <2>2
<1>6. ASSUME UNCHANGED <<tables, players, clock, handled, packets>>
      PROVE  Inv'
  BY <1>1, <1>6 DEF Inv, Lists, OneTable, Owners, Counters, TypeOK, tables
<1>7. CASE UNCHANGED vars
  BY <1>6, <1>7 DEF vars, tables
<1>8. CASE \E u \in Uids : REPLY(u)
  BY <1>6, <1>8 DEF REPLY
<1> QED BY <1>2, <1>3, <1>4, <1>5, <1>7, <1>8 DEF Next


LEMMA InvInit == Init => Inv
<1> SUFFICES ASSUME Init PROVE Inv
  OBVIOUS
<1>1. clock \in Window..MaxClock /\ packets \in 0..MaxPacket
  BY GateAssumption DEF Init
<1>2. players = <<>> /\ handled = <<>> /\ DOMAIN players = {} /\ DOMAIN handled = {}
  BY DEF Init
<1>3. TypeOK
  BY <1>1, <1>2 DEF Init, TypeOK
<1>4. Lists
  BY <1>2 DEF Lists
<1>5. OneTable /\ Owners /\ Counters
  BY <1>2 DEF Init, OneTable, Owners, Counters
<1> QED BY <1>3, <1>4, <1>5 DEF Inv

LEMMA Invariance == Spec => []Inv
  BY InvInit, InvStep, PTL DEF Spec

-----------------------------------------------------------------------------
(* What follows from the invariant *)

\* The players that socket_manager and player_manager name exist, and the
\* counters and times of a player stay in range.
THEOREM TypeCorrect == Spec => []TypeOK
<1>1. Inv => TypeOK
  BY DEF Inv
<1> QED BY <1>1, Invariance, PTL

\* ev_close and dispatch find an open socket in exactly one of the two tables,
\* and neither keeps a socket that is closed.
THEOREM TablesAgree == Spec => []OneTable
<1>1. Inv => OneTable
  BY DEF Inv
<1> QED BY <1>1, Invariance, PTL

\* The socket that a step writes a reply of a uid to is logged in as the uid.
ToOwner ==
  out' # None /\ out'.type = "REPLY" /\ out'.to # NoFd =>
    /\ out'.to \in open' /\ socket_manager'[out'.to] # None
    /\ players'[socket_manager'[out'.to]].uid = out'.uid

\* A reply goes to the socket of a player, which is the player of the socket.
LEMMA OwnerOf ==
  ASSUME Inv, NEW r \in DOMAIN players, NEW f \in Fds, players[r].sockfd = f
  PROVE  f \in open /\ socket_manager[f] = r /\ r # None
<1>1. socket_manager[f] = r
  BY DEF Inv, Owners
<1>2. r # None
  <2>1. r \in Nat
    BY DEF Inv, Lists
  <2> QED BY <2>1, GateAssumption
<1> QED BY <1>1, <1>2 DEF Inv, OneTable

LEMMA ReplyStep ==
  ASSUME Inv, Next
  PROVE  ToOwner
<1> SUFFICES ASSUME out' # None, out'.type = "REPLY", out'.to # NoFd
             PROVE  /\ out'.to \in open' /\ socket_manager'[out'.to] # None
                    /\ players'[socket_manager'[out'.to]].uid = out'.uid
  BY DEF ToOwner
<1> USE DEF Message
<1>1. CASE Tick
  BY <1>1 DEF Tick
<1>2. ASSUME NEW f \in Fds, ev_accept(f) PROVE FALSE
  BY <1>2 DEF ev_accept
<1>3. ASSUME NEW f \in Fds, ev_close(f) PROVE FALSE
  BY <1>3 DEF ev_close, player_disconnect
<1>4. ASSUME NEW u \in Uids, REPLY(u)
      PROVE  /\ out'.to \in open' /\ socket_manager'[out'.to] # None
             /\ players'[socket_manager'[out'.to]].uid = out'.uid
  <2> DEFINE r == player_manager[u]
             fd == players[r].sockfd
  <2>1. r \in DOMAIN players /\ players[r].uid = u
    BY <1>4 DEF REPLY, Inv, TypeOK, Owners
  <2>2. out' = Message("REPLY", u, IF fd = None THEN NoFd ELSE fd) /\ UNCHANGED tables /\ players' = players
    BY <1>4 DEF REPLY
  <2>3. fd \in Fds /\ out'.to = fd /\ out'.uid = u
    BY <2>1, <2>2 DEF Inv, TypeOK
  <2>4. fd \in open /\ socket_manager[fd] = r /\ r # None
    BY <2>1, <2>3, OwnerOf
  <2> QED BY <2>1, <2>2, <2>3, <2>4 DEF tables
<1>5. ASSUME NEW f \in Fds, dispatch(f)
      PROVE  /\ out'.to \in open' /\ socket_manager'[out'.to] # None
             /\ players'[socket_manager'[out'.to]].uid = out'.uid
  <2>1. Taken /\ f \in open /\ f # NoFd /\ Like(players, handled)
    BY <1>5, LikeSame, GateAssumption DEF dispatch, Taken, NoFd
  <2>2. ASSUME NEW u \in Uids, MSG_LOGIN(f, u, players, handled), socket_manager[f] = None
        PROVE  /\ out'.to \in open' /\ socket_manager'[out'.to] # None
               /\ players'[socket_manager'[out'.to]].uid = out'.uid
    <3>1. /\ out'.to = f /\ out'.uid = u /\ open' = open
          /\ socket_manager' = [socket_manager EXCEPT ![f] = Len(players')]
      BY <2>1, <2>2 DEF MSG_LOGIN
    <3>2. players'[Len(players')].uid = u /\ Len(players') = Len(players) + 1
      <4>1. players'[Len(players')] = NewPlayer(f, u) /\ Len(players') = Len(players) + 1
        BY <2>1, <2>2, LoginStep
      <4>2. NewPlayer(f, u).uid = u
        BY DEF NewPlayer
      <4> QED BY <4>1, <4>2
    <3>3. Len(players') # None
      BY <3>2, GateAssumption DEF Inv, Lists
    <3>4. socket_manager'[f] = Len(players')
      BY <3>1 DEF Inv, TypeOK
    <3> QED BY <2>1, <3>1, <3>2, <3>3, <3>4
  <2>3. CASE socket_manager[f] = None /\ Anonymous(f)
    BY <2>2, <2>3 DEF Anonymous, LoginRefused, Answered
  <2>4. CASE socket_manager[f] # None /\ PacketHack(socket_manager[f])
    BY <2>4 DEF PacketHack
  <2>5. CASE socket_manager[f] # None /\ Known(socket_manager[f])
    <3> DEFINE r == socket_manager[f]
               ps == [players EXCEPT ![r] = Counted(@)]
               hs == [handled EXCEPT ![r] = Append(@, clock)]
    <3>1. r \in DOMAIN players /\ players[r].sockfd = f
      BY <2>5 DEF Inv, TypeOK, OneTable
    <3>2. Like(ps, hs)
      BY <3>1, CountedLists
    <3>3. \/ \E u \in Uids : MSG_LOGIN(NoFd, u, ps, hs)
          \/ \E g \in Games : MSG_ENTER(r, g, ps, hs)
          \/ Answered({Message("FORWARD", players[r].uid, None), Message("REPLY", players[r].uid, players[r].sockfd)}, ps, hs)
      BY <2>5 DEF Known
    <3> HIDE DEF ps, hs, r
    <3>4. players' = ps /\ UNCHANGED tables /\ out' = Message("REPLY", players[r].uid, players[r].sockfd)
      <4>1. ASSUME NEW u \in Uids, MSG_LOGIN(NoFd, u, ps, hs) PROVE FALSE
        BY <4>1 DEF MSG_LOGIN
      <4>2. ASSUME NEW g \in Games, MSG_ENTER(r, g, ps, hs) PROVE FALSE
        BY <4>2 DEF MSG_ENTER
      <4> QED BY <3>3, <4>1, <4>2 DEF Answered
    <3>5. out'.to = f /\ out'.uid = players[r].uid
      BY <3>1, <3>4
    <3>6. players'[r].uid = players[r].uid
      BY <3>1, <3>2, <3>4 DEF Like
    <3> QED BY <2>1, <2>5, <3>4, <3>5, <3>6 DEF tables, r
  <2> QED BY <1>5, <2>3, <2>4, <2>5 DEF dispatch
<1> QED BY <1>1, <1>2, <1>3, <1>4, <1>5 DEF Next

\* Whatever order packets, replies of game servers and ends of sockets come in,
\* a reply for a uid is written only to a socket that is logged in as the uid:
\* never to one that got the number of the socket afterwards.
THEOREM RepliesReachOwner == Spec => RepliesToOwner
<1>1. Inv /\ [Next]_vars => [ToOwner]_vars
  BY ReplyStep
<1>2. RepliesToOwner <=> [][ToOwner]_vars
  BY PTL DEF RepliesToOwner, ToOwner
<1> QED BY <1>1, <1>2, Invariance, PTL DEF Spec

-----------------------------------------------------------------------------
(* The gate implements ClientSessions *)

LEMMA SessionUid ==
  ASSUME NEW f \in Fds
  PROVE  /\ SessionOf("uid")[f] = IF socket_manager[f] = None THEN None ELSE players[socket_manager[f]].uid
         /\ SessionOf("srvid")[f] = IF socket_manager[f] = None THEN None ELSE players[socket_manager[f]].srvid
  BY DEF SessionOf

\* The sessions of all sockets, from what they are one by one.
LEMMA SessionsSame ==
  ASSUME Inv, UNCHANGED socket_manager, DOMAIN players \subseteq DOMAIN players',
         \A r \in DOMAIN players : players'[r].uid = players[r].uid /\ players'[r].srvid = players[r].srvid
  PROVE  SessionOf("uid")' = SessionOf("uid") /\ SessionOf("srvid")' = SessionOf("srvid")
<1>1. \A f \in Fds : socket_manager[f] # None => socket_manager[f] \in DOMAIN players
  BY DEF Inv, TypeOK
<1>2. SessionOf("uid")' = SessionOf("uid")
  BY <1>1 DEF SessionOf
<1>3. SessionOf("srvid")' = SessionOf("srvid")
  BY <1>1 DEF SessionOf
<1> QED BY <1>2, <1>3

\* A step that sends no ENTER and no EXIT and keeps the sessions.
LEMMA QuietStep ==
  ASSUME Inv, UNCHANGED socket_manager, DOMAIN players \subseteq DOMAIN players',
         \A r \in DOMAIN players : players'[r].uid = players[r].uid /\ players'[r].srvid = players[r].srvid,
         out' = None \/ out'.type \notin {"ENTER", "EXIT"}
  PROVE  Sessions!Next
<1>1. SessionOf("uid")' = SessionOf("uid") /\ SessionOf("srvid")' = SessionOf("srvid")
  BY SessionsSame
<1> QED BY <1>1 DEF Sessions!Next, Sessions!Other

LEMMA LoginSession ==
  ASSUME Inv, Taken, NEW f \in Fds, f \in open, socket_manager[f] = None, NEW u \in Uids,
         MSG_LOGIN(f, u, players, handled)
  PROVE  Sessions!Next
<1> DEFINE n == Len(players')
<1>1. Like(players, handled)
  BY LikeSame
<1>2. /\ n = Len(players) + 1 /\ players'[n] = NewPlayer(f, u)
      /\ \A r \in DOMAIN players : players'[r] = players[r]
  BY <1>1, LoginStep
<1>3. NewPlayer(f, u).uid = u /\ NewPlayer(f, u).srvid = None
  BY DEF NewPlayer
<1>4. n # None
  BY <1>2, GateAssumption DEF Inv, Lists
<1>5. f # NoFd /\ socket_manager \in [Fds -> DOMAIN players \cup {None}]
  BY GateAssumption DEF Inv, TypeOK, NoFd
<1>6. socket_manager' = [socket_manager EXCEPT ![f] = n] /\ out' = Message("REPLY", u, f)
  BY <1>5 DEF MSG_LOGIN
<1> HIDE DEF n
<1>7. \A g \in Fds : socket_manager'[g] = IF g = f THEN n ELSE socket_manager[g]
  BY <1>5, <1>6
<1>8. ASSUME NEW g \in Fds
      PROVE  /\ SessionOf("uid")'[g] = IF g = f THEN u ELSE SessionOf("uid")[g]
             /\ SessionOf("srvid")'[g] = SessionOf("srvid")[g]
  <2>1. CASE g = f
    BY <1>2, <1>3, <1>4, <1>7, <2>1 DEF SessionOf
  <2>2. CASE g # f
    <3>1. socket_manager[g] # None => socket_manager[g] \in DOMAIN players
      BY <1>5
    <3> QED BY <1>2, <1>7, <2>2, <3>1 DEF SessionOf
  <2> QED BY <2>1, <2>2
<1>9. SessionOf("uid")' = [SessionOf("uid") EXCEPT ![f] = u] /\ SessionOf("uid")[f] = None
  BY <1>8 DEF SessionOf
<1>10. SessionOf("srvid")' = SessionOf("srvid")
  BY <1>8 DEF SessionOf
<1>11. out'.type \notin {"ENTER", "EXIT"}
  BY <1>6 DEF Message
<1>12. Sessions!MSG_LOGIN(f, u)
  BY <1>9, <1>10, <1>11 DEF Sessions!MSG_LOGIN
<1> QED BY <1>12 DEF Sessions!Next

LEMMA EnterSession ==
  ASSUME Inv, Taken, NEW f \in Fds, socket_manager[f] # None, NEW g \in Games, NEW ps, NEW hs,
         Like(ps, hs), SameSrvids(ps), MSG_ENTER(socket_manager[f], g, ps, hs)
  PROVE  Sessions!Next
<1> DEFINE r == socket_manager[f]
<1>1. r \in DOMAIN players /\ socket_manager \in [Fds -> DOMAIN players \cup {None}]
  BY DEF Inv, TypeOK
<1>2. /\ DOMAIN players' = DOMAIN players /\ players'[r].srvid = g
      /\ \A s \in DOMAIN players : /\ players'[s].uid = players[s].uid
                                   /\ s # r => players'[s].srvid = ps[s].srvid
  BY <1>1, EnterStep
<1>3. UNCHANGED socket_manager /\ out' = Message("ENTER", players[r].uid, g)
  BY <1>1 DEF MSG_ENTER, tables, Like
<1>4. ASSUME NEW h \in Fds, h # f, socket_manager[h] # None
      PROVE  socket_manager[h] \in DOMAIN players /\ socket_manager[h] # r
  BY <1>1, <1>4 DEF Inv, OneTable
<1>5. ASSUME NEW h \in Fds
      PROVE  /\ SessionOf("uid")'[h] = SessionOf("uid")[h]
             /\ SessionOf("srvid")'[h] = IF h = f THEN g ELSE SessionOf("srvid")[h]
  <2>1. CASE h = f
    BY <1>1, <1>2, <1>3, <2>1 DEF SessionOf
  <2>2. CASE h # f
    <3> HIDE DEF r
    <3> QED BY <1>2, <1>3, <1>4, <2>2 DEF SessionOf, SameSrvids
  <2> QED BY <2>1, <2>2
<1>6. SessionOf("uid")' = SessionOf("uid") /\ SessionOf("srvid")' = [SessionOf("srvid") EXCEPT ![f] = g]
  BY <1>5 DEF SessionOf
<1>7. SessionOf("uid")[f] = players[r].uid /\ players[r].uid # None
  BY <1>1, GateAssumption DEF SessionOf, Inv, TypeOK
<1>8. (IF out # None /\ out.type \in {"ENTER", "EXIT"} THEN out ELSE None)' = Sessions!Post("ENTER", players[r].uid, g)
  BY <1>3 DEF Message, Sessions!Post
<1>9. Sessions!MSG_ENTER(f, g)
  BY <1>6, <1>7, <1>8 DEF Sessions!MSG_ENTER
<1> QED BY <1>9 DEF Sessions!Next

LEMMA CloseSession ==
  ASSUME Inv, NEW f \in Fds, socket_manager[f] # None, ev_close(f)
  PROVE  Sessions!Next
<1> DEFINE r == socket_manager[f]
<1>1. r \in DOMAIN players /\ socket_manager \in [Fds -> DOMAIN players \cup {None}]
  BY DEF Inv, TypeOK
<1>2. \A s \in DOMAIN players : /\ players'[s].uid = players[s].uid
                                /\ players'[s].srvid = players[s].srvid
  BY ClosedStep
<1>3. socket_manager' = [socket_manager EXCEPT ![f] = None] /\ out' = player_disconnect(r)
  BY DEF ev_close
<1>4. \A h \in Fds : socket_manager'[h] = IF h = f THEN None ELSE socket_manager[h]
  BY <1>1, <1>3
<1>5. ASSUME NEW h \in Fds
      PROVE  /\ SessionOf("uid")'[h] = IF h = f THEN None ELSE SessionOf("uid")[h]
             /\ SessionOf("srvid")'[h] = IF h = f THEN None ELSE SessionOf("srvid")[h]
  <2>1. socket_manager[h] # None => socket_manager[h] \in DOMAIN players
    BY <1>1
  <2> QED BY <1>2, <1>4, <2>1 DEF SessionOf
<1>6. /\ SessionOf("uid")' = [SessionOf("uid") EXCEPT ![f] = None]
      /\ SessionOf("srvid")' = [SessionOf("srvid") EXCEPT ![f] = None]
  BY <1>5 DEF SessionOf
<1>7. /\ SessionOf("uid")[f] = players[r].uid /\ players[r].uid # None
      /\ SessionOf("srvid")[f] = players[r].srvid
  BY <1>1, GateAssumption DEF SessionOf, Inv, TypeOK
<1>8. (IF out # None /\ out.type \in {"ENTER", "EXIT"} THEN out ELSE None)'
        = IF players[r].srvid = None THEN None ELSE Sessions!Post("EXIT", players[r].uid, players[r].srvid)
  <2>1. CASE players[r].srvid = None
    BY <1>3, <2>1 DEF player_disconnect
  <2>2. CASE players[r].srvid # None
    BY <1>3, <2>2 DEF player_disconnect, Message, Sessions!Post
  <2> QED BY <2>1, <2>2
<1>9. Sessions!player_disconnect(f)
  BY <1>6, <1>7, <1>8 DEF Sessions!player_disconnect
<1> QED BY <1>9 DEF Sessions!Next

LEMMA SessionStep ==
  ASSUME Inv, [Next]_vars
  PROVE  [Sessions!Next]_Sessions!vars
<1>1. ASSUME players' = players, UNCHANGED socket_manager, out' = None \/ out'.type \notin {"ENTER", "EXIT"}
      PROVE  Sessions!Next
  BY <1>1, QuietStep
<1>2. CASE Tick
  BY <1>1, <1>2 DEF Tick, tables
<1>3. ASSUME NEW f \in Fds, ev_accept(f) PROVE Sessions!Next
  BY <1>1, <1>3 DEF ev_accept
<1>4. ASSUME NEW f \in Fds, ev_close(f) PROVE Sessions!Next
  <2>1. CASE socket_manager[f] # None
    BY <1>4, <2>1, CloseSession
  <2>2. CASE socket_manager[f] = None
    BY <1>1, <1>4, <2>2 DEF ev_close
  <2> QED BY <2>1, <2>2
<1>5. ASSUME NEW u \in Uids, REPLY(u) PROVE Sessions!Next
  <2>1. out'.type = "REPLY" /\ players' = players /\ UNCHANGED socket_manager
    BY <1>5 DEF REPLY, Message, tables
  <2> QED BY <1>1, <2>1
<1>6. ASSUME NEW f \in Fds, dispatch(f) PROVE Sessions!Next
  <2>1. Taken /\ f \in open
    BY <1>6 DEF dispatch, Taken
  <2>2. ASSUME NEW m, NEW v, NEW w, m \in {"FORWARD", "REPLY"} PROVE Message(m, v, w).type \notin {"ENTER", "EXIT"}
    BY <2>2 DEF Message
  <2>3. CASE socket_manager[f] = None /\ Anonymous(f)
    <3>1. ASSUME NEW u \in Uids, MSG_LOGIN(f, u, players, handled) PROVE Sessions!Next
      BY <2>1, <2>3, <3>1, LoginSession
    <3>2. CASE LoginRefused(f)
      BY <1>1, <3>2 DEF LoginRefused
    <3>3. CASE Answered({Message("FORWARD", None, None)}, players, handled)
      <4>1. out' = None \/ out'.type \notin {"ENTER", "EXIT"}
        BY <2>2, <3>3 DEF Answered
      <4> QED BY <1>1, <3>3, <4>1 DEF Answered, tables
    <3> QED BY <2>3, <3>1, <3>2, <3>3 DEF Anonymous
  <2>4. CASE socket_manager[f] # None /\ PacketHack(socket_manager[f])
    <3>1. socket_manager[f] \in DOMAIN players
      BY <2>4 DEF Inv, TypeOK
    <3>2. Like(players', handled) /\ SameSrvids(players') /\ UNCHANGED socket_manager
      BY <2>4, <3>1, HackLists DEF tables
    <3>3. out' = None
      BY <2>4 DEF PacketHack
    <3> QED BY <3>2, <3>3, QuietStep DEF Like, SameSrvids
  <2>5. CASE socket_manager[f] # None /\ Known(socket_manager[f])
    <3> DEFINE r == socket_manager[f]
               ps == [players EXCEPT ![r] = Counted(@)]
               hs == [handled EXCEPT ![r] = Append(@, clock)]
    <3>1. r \in DOMAIN players
      BY <2>5 DEF Inv, TypeOK
    <3>2. Like(ps, hs) /\ SameSrvids(ps)
      BY <3>1, CountedLists
    <3>3. \/ \E u \in Uids : MSG_LOGIN(NoFd, u, ps, hs)
          \/ \E g \in Games : MSG_ENTER(r, g, ps, hs)
          \/ Answered({Message("FORWARD", players[r].uid, None), Message("REPLY", players[r].uid, players[r].sockfd)}, ps, hs)
      BY <2>5 DEF Known
    <3> HIDE DEF ps, hs
    <3>4. ASSUME NEW u \in Uids, MSG_LOGIN(NoFd, u, ps, hs) PROVE Sessions!Next
      <4>1. DOMAIN players \subseteq DOMAIN players' /\ \A s \in DOMAIN players : players'[s] = ps[s]
        BY <2>1, <3>2, <3>4, LoginStep
      <4>2. UNCHANGED socket_manager /\ out'.type \notin {"ENTER", "EXIT"}
        BY <3>4, <2>2 DEF MSG_LOGIN
      <4> QED BY <3>2, <4>1, <4>2, QuietStep DEF Like, SameSrvids
    <3>5. ASSUME NEW g \in Games, MSG_ENTER(r, g, ps, hs) PROVE Sessions!Next
      BY <2>1, <2>5, <3>2, <3>5, EnterSession
    <3>6. CASE Answered({Message("FORWARD", players[r].uid, None), Message("REPLY", players[r].uid, players[r].sockfd)}, ps, hs)
      <4>1. out' = None \/ out'.type \notin {"ENTER", "EXIT"}
        BY <2>2, <3>6 DEF Answered
      <4>2. players' = ps /\ UNCHANGED socket_manager
        BY <3>6 DEF Answered, tables
      <4> QED BY <3>2, <4>1, <4>2, QuietStep DEF Like, SameSrvids
    <3> QED BY <3>3, <3>4, <3>5, <3>6
  <2> QED BY <1>6, <2>3, <2>4, <2>5 DEF dispatch
<1>7. CASE UNCHANGED vars
  BY <1>7 DEF vars, Sessions!vars, SessionOf
<1> QED BY <1>2, <1>3, <1>4, <1>5, <1>6, <1>7 DEF Next

LEMMA SessionInit == Init => Sessions!Init
  BY DEF Init, Sessions!Init, SessionOf

\* The gate keeps the sessions that Login takes for granted: a socket logs in
\* one uid, enters game servers one after the other, and only the last of them
\* hears of its end.
THEOREM GateKeepsSessions == Spec => SessionsKept
<1>1. Inv /\ [Next]_vars => [Sessions!Next]_Sessions!vars
  BY SessionStep
<1> QED BY <1>1, SessionInit, Invariance, PTL DEF Spec, SessionsKept, Sessions!Spec

-----------------------------------------------------------------------------
(* The limit on packets                                                    *)
(*                                                                         *)
(* A check that passes sets the counter to 0 and keeps the time L; as many *)
(* packets as the threshold says are handled after it without a check, and *)
(* then none before the next check passes.                                 *)

\* The packets handled since the last check, of which c counts those refused too.
Since(c) == IF c > Threshold THEN Threshold ELSE c

\* The times h of the packets handled do not decrease, the last check was the
\* packet before those handled since, and the check before that one was a
\* window earlier.
Flow(c, L, h, now) ==
  LET m == Len(h) - Since(c) IN
  /\ L <= now /\ m >= 0
  /\ \A i, j \in DOMAIN h : i <= j => h[i] <= h[j]
  /\ \A i \in DOMAIN h : h[i] <= now
  /\ m > 0 => h[m] = L
  /\ \A i \in DOMAIN h : i + Threshold + 1 <= m => L - h[i] >= Window
  /\ \A i, j \in DOMAIN h : j = i + 2 * Threshold + 1 => h[j] - h[i] >= Window

FlowsOf(ps, hs, now) ==
  \A r \in DOMAIN ps : Flow(ps[r].packet_counter, ps[r].last_check_packet_time, hs[r], now)

Flows == FlowsOf(players, handled, clock)

LEMMA FlowNew ==
  ASSUME NEW now \in Nat
  PROVE  Flow(0, 0, <<>>, now)
<1>1. Since(0) = 0 /\ DOMAIN <<>> = {} /\ Len(<<>>) = 0
  BY GateAssumption DEF Since
<1> QED BY <1>1 DEF Flow

LEMMA FlowLater ==
  ASSUME NEW c \in Nat, NEW L \in Nat, NEW h \in Seq(Nat), NEW now \in Nat, Flow(c, L, h, now)
  PROVE  Flow(c, L, h, now + 1)
<1>1. \A i \in DOMAIN h : h[i] \in Nat
  OBVIOUS
<1>2. L <= now + 1 /\ \A i \in DOMAIN h : h[i] <= now + 1
  BY <1>1 DEF Flow
<1> QED BY <1>2 DEF Flow

\* A packet that is refused.
LEMMA FlowHack ==
  ASSUME NEW c \in Nat, NEW L, NEW h, NEW now, Flow(c, L, h, now), c + 1 > Threshold
  PROVE  Flow(c + 1, L, h, now)
<1>1. Since(c + 1) = Since(c)
  BY GateAssumption DEF Since
<1> QED BY <1>1 DEF Flow

\* A packet that is handled without a check.
LEMMA FlowCounted ==
  ASSUME NEW c \in Nat, NEW L \in Nat, NEW h \in Seq(Nat), NEW now \in Nat, Flow(c, L, h, now),
         ~(c + 1 > Threshold)
  PROVE  Flow(c + 1, L, Append(h, now), now)
<1> DEFINE n == Len(h)
           k == Append(h, now)
<1>0. Threshold \in Nat /\ Window \in Nat /\ n \in Nat
  BY GateAssumption
<1>1. Since(c) = c /\ Since(c + 1) = c + 1 /\ c < Threshold
  BY <1>0 DEF Since
<1>2. DOMAIN h = 1..n /\ DOMAIN k = 1..(n + 1) /\ Len(k) = n + 1 /\ k[n + 1] = now
  OBVIOUS
<1>3. \A i \in 1..n : k[i] = h[i] /\ h[i] \in Nat
  OBVIOUS
<1>4. /\ L <= now /\ n - c >= 0
      /\ \A i, j \in 1..n : i <= j => h[i] <= h[j]
      /\ \A i \in 1..n : h[i] <= now
      /\ n - c > 0 => h[n - c] = L
      /\ \A i \in 1..n : i + Threshold + 1 <= n - c => L - h[i] >= Window
      /\ \A i, j \in 1..n : j = i + 2 * Threshold + 1 => h[j] - h[i] >= Window
  BY <1>1, <1>2 DEF Flow
<1> HIDE DEF n, k
<1>5. (n + 1) - (c + 1) = n - c
  BY <1>0
<1>6. \A i, j \in 1..(n + 1) : i <= j => k[i] <= k[j]
  <2>1. ASSUME NEW i \in 1..(n + 1), NEW j \in 1..(n + 1), i <= j PROVE k[i] <= k[j]
    <3>1. CASE j = n + 1
      BY <1>0, <1>2, <1>3, <1>4, <2>1, <3>1
    <3>2. CASE j # n + 1
      <4>1. i \in 1..n /\ j \in 1..n
        BY <1>0, <2>1, <3>2
      <4> QED BY <1>3, <1>4, <2>1, <4>1
    <3> QED BY <3>1, <3>2
  <2> QED BY <2>1
<1>7. \A i \in 1..(n + 1) : k[i] <= now
  BY <1>0, <1>2, <1>3, <1>4
<1>8. n - c > 0 => k[n - c] = L
  <2>1. n - c > 0 => n - c \in 1..n
    BY <1>0
  <2> QED BY <1>3, <1>4, <2>1
<1>9. ASSUME NEW i \in 1..(n + 1), i + Threshold + 1 <= n - c
      PROVE  L - k[i] >= Window
  <2>1. i \in 1..n
    BY <1>0, <1>9
  <2> QED BY <1>3, <1>4, <1>9, <2>1
<1>10. ASSUME NEW i \in 1..(n + 1), NEW j \in 1..(n + 1), j = i + 2 * Threshold + 1
       PROVE  k[j] - k[i] >= Window
  <2>0. i \in 1..n
    BY <1>0, <1>10
  <2>1. CASE j = n + 1
    <3>1. i + Threshold + 1 <= n - c
      BY <1>0, <1>1, <1>10, <2>1
    <3>2. L - h[i] >= Window /\ h[i] \in Nat
      BY <1>3, <1>4, <2>0, <3>1
    <3> QED BY <1>0, <1>2, <1>3, <1>4, <2>0, <2>1, <3>2
  <2>2. CASE j # n + 1
    <3>1. j \in 1..n
      BY <1>0, <2>2
    <3> QED BY <1>3, <1>4, <1>10, <2>0, <3>1
  <2> QED BY <2>1, <2>2
<1>11. Flow(c + 1, L, k, now)
  BY <1>1, <1>2, <1>4, <1>5, <1>6, <1>7, <1>8, <1>9, <1>10 DEF Flow
<1> QED BY <1>11 DEF k

\* A packet whose check passes.
LEMMA FlowChecked ==
  ASSUME NEW c \in Nat, NEW L \in Nat, NEW h \in Seq(Nat), NEW now \in Nat, Flow(c, L, h, now),
         c + 1 > Threshold, now - L >= Window
  PROVE  Flow(0, now, Append(h, now), now)
<1> DEFINE n == Len(h)
           k == Append(h, now)
           T == Threshold
<1>0. T \in Nat /\ Window \in Nat /\ n \in Nat
  BY GateAssumption
<1>1. Since(c) = T /\ Since(0) = 0
  BY <1>0 DEF Since
<1>2. DOMAIN h = 1..n /\ DOMAIN k = 1..(n + 1) /\ Len(k) = n + 1 /\ k[n + 1] = now
  OBVIOUS
<1>3. \A i \in 1..n : k[i] = h[i] /\ h[i] \in Nat
  OBVIOUS
<1>4. /\ L <= now /\ n - T >= 0
      /\ \A i, j \in 1..n : i <= j => h[i] <= h[j]
      /\ \A i \in 1..n : h[i] <= now
      /\ n - T > 0 => h[n - T] = L
      /\ \A i, j \in 1..n : j = i + 2 * T + 1 => h[j] - h[i] >= Window
  BY <1>1, <1>2 DEF Flow
<1> HIDE DEF n, k, T
<1>5. \A i, j \in 1..(n + 1) : i <= j => k[i] <= k[j]
  <2>1. ASSUME NEW i \in 1..(n + 1), NEW j \in 1..(n + 1), i <= j PROVE k[i] <= k[j]
    <3>1. CASE j = n + 1
      BY <1>0, <1>2, <1>3, <1>4, <2>1, <3>1
    <3>2. CASE j # n + 1
      <4>1. i \in 1..n /\ j \in 1..n
        BY <1>0, <2>1, <3>2
      <4> QED BY <1>3, <1>4, <2>1, <4>1
    <3> QED BY <3>1, <3>2
  <2> QED BY <2>1
<1>6. \A i \in 1..(n + 1) : k[i] <= now
  BY <1>0, <1>2, <1>3, <1>4
<1>7. ASSUME NEW i \in 1..n, i <= n - T
      PROVE  now - k[i] >= Window
  <2>1. n - T \in 1..n /\ n - T > 0
    BY <1>0, <1>7
  <2>2. h[i] <= L /\ h[i] \in Nat /\ k[i] = h[i]
    BY <1>3, <1>4, <1>7, <2>1
  <2> QED BY <1>0, <2>2
<1>8. ASSUME NEW i \in 1..(n + 1), i + T + 1 <= n + 1
      PROVE  now - k[i] >= Window
  <2>1. i \in 1..n /\ i <= n - T
    BY <1>0, <1>8
  <2> QED BY <1>7, <2>1
<1>9. ASSUME NEW i \in 1..(n + 1), NEW j \in 1..(n + 1), j = i + 2 * T + 1
      PROVE  k[j] - k[i] >= Window
  <2>0. i \in 1..n
    BY <1>0, <1>9
  <2>1. CASE j = n + 1
    <3>1. i <= n - T
      BY <1>0, <1>9, <2>1
    <3> QED BY <1>2, <1>7, <2>0, <2>1, <3>1
  <2>2. CASE j # n + 1
    <3>1. j \in 1..n
      BY <1>0, <2>2
    <3> QED BY <1>3, <1>4, <1>9, <2>0, <3>1
  <2> QED BY <2>1, <2>2
<1>10. /\ Len(k) - Since(0) = n + 1 /\ n + 1 >= 0 /\ now <= now
  BY <1>0, <1>1, <1>2
<1>11. Flow(0, now, k, now)
  BY <1>2, <1>5, <1>6, <1>8, <1>9, <1>10 DEF Flow, T
<1> QED BY <1>11 DEF k

\* A packet that a player sends within the limit, or that is refused.
LEMMA FlowOne ==
  ASSUME NEW p \in Player, NEW h \in Seq(Nat), clock \in Nat,
         Flow(p.packet_counter, p.last_check_packet_time, h, clock)
  PROVE  /\ ~Flooded(p) => Flow(Counted(p).packet_counter, Counted(p).last_check_packet_time,
                                Append(h, clock), clock)
         /\ Flooded(p) => LET q == [p EXCEPT !.packet_counter = @ + 1]
                          IN  Flow(q.packet_counter, q.last_check_packet_time, h, clock)
<1> DEFINE c == p.packet_counter
           L == p.last_check_packet_time
<1>1. c \in Nat /\ L \in Nat
  BY DEF Player
<1>2. ASSUME ~(c + 1 > Threshold) PROVE Counted(p).packet_counter = c + 1 /\ Counted(p).last_check_packet_time = L
  BY <1>2 DEF Counted, Player
<1>3. ASSUME c + 1 > Threshold PROVE Counted(p).packet_counter = 0 /\ Counted(p).last_check_packet_time = clock
  BY <1>3 DEF Counted, Player
<1>4. [p EXCEPT !.packet_counter = @ + 1].packet_counter = c + 1 /\ [p EXCEPT !.packet_counter = @ + 1].last_check_packet_time = L
  BY DEF Player
<1>5. ~Flooded(p) <=> (~(c + 1 > Threshold) \/ clock - L >= Window)
  BY <1>1, GateAssumption DEF Flooded
<1>6. ASSUME ~(c + 1 > Threshold) PROVE Flow(c + 1, L, Append(h, clock), clock)
  BY <1>1, <1>6, FlowCounted
<1>7. ASSUME c + 1 > Threshold, clock - L >= Window PROVE Flow(0, clock, Append(h, clock), clock)
  BY <1>1, <1>7, FlowChecked
<1>8. ASSUME Flooded(p) PROVE Flow(c + 1, L, h, clock)
  BY <1>1, <1>8, FlowHack DEF Flooded
<1>9. ASSUME ~Flooded(p)
      PROVE  Flow(Counted(p).packet_counter, Counted(p).last_check_packet_time, Append(h, clock), clock)
  <2>1. CASE ~(c + 1 > Threshold)
    BY <1>2, <1>6, <2>1
  <2>2. CASE c + 1 > Threshold
    BY <1>3, <1>5, <1>7, <1>9, <2>2
  <2> QED BY <2>1, <2>2
<1> HIDE DEF c, L
<1> QED BY <1>4, <1>8, <1>9

LEMMA FlowsKnown ==
  ASSUME Inv, Flows, NEW r \in DOMAIN players, ~Flooded(players[r])
  PROVE  FlowsOf([players EXCEPT ![r] = Counted(@)], [handled EXCEPT ![r] = Append(@, clock)], clock)
<1> DEFINE q == Counted(players[r])
           k == Append(handled[r], clock)
           ps == [players EXCEPT ![r] = q]
           hs == [handled EXCEPT ![r] = k]
<1>1. /\ players \in Seq(Player) /\ players[r] \in Player /\ clock \in Nat
      /\ handled \in Seq(Seq(Nat)) /\ DOMAIN handled = DOMAIN players /\ handled[r] \in Seq(Nat)
  BY GateAssumption DEF Inv, Lists, TypeOK
<1>2. q \in Player /\ k \in Seq(Nat)
  <2>1. k \in Seq(Nat)
    BY <1>1
  <2> QED BY <1>1, <2>1, Fields
<1>3. Flow(players[r].packet_counter, players[r].last_check_packet_time, handled[r], clock)
  BY DEF Flows, FlowsOf
<1>4. Flow(q.packet_counter, q.last_check_packet_time, k, clock)
  BY <1>1, <1>3, FlowOne
<1> HIDE DEF q, k
<1>5. DOMAIN ps = DOMAIN players /\ ps[r] = q /\ \A s \in DOMAIN players : s # r => ps[s] = players[s]
  BY <1>1, <1>2, SetAt
<1>6. hs[r] = k /\ \A s \in DOMAIN players : s # r => hs[s] = handled[s]
  BY <1>1, <1>2, SetAt
<1> HIDE DEF ps, hs
<1>7. FlowsOf(ps, hs, clock)
  <2>1. ASSUME NEW s \in DOMAIN players
        PROVE  Flow(ps[s].packet_counter, ps[s].last_check_packet_time, hs[s], clock)
    <3>1. CASE s = r
      BY <1>4, <1>5, <1>6, <3>1
    <3>2. CASE s # r
      BY <1>5, <1>6, <3>2 DEF Flows, FlowsOf
    <3> QED BY <3>1, <3>2
  <2> QED BY <1>5, <2>1 DEF FlowsOf
<1> QED BY <1>7 DEF ps, hs, q, k

LEMMA FlowsHack ==
  ASSUME Inv, Flows, NEW r \in DOMAIN players, PacketHack(r), clock' = clock
  PROVE  Flows'
<1> DEFINE q == [players[r] EXCEPT !.packet_counter = @ + 1]
<1>1. /\ players \in Seq(Player) /\ players[r] \in Player /\ clock \in Nat
      /\ handled[r] \in Seq(Nat)
  BY GateAssumption DEF Inv, Lists, TypeOK
<1>2. players' = [players EXCEPT ![r] = q] /\ handled' = handled /\ Flooded(players[r])
  BY DEF PacketHack
<1>3. q \in Player
  BY <1>1, Fields
<1>4. Flow(players[r].packet_counter, players[r].last_check_packet_time, handled[r], clock)
  BY DEF Flows, FlowsOf
<1>5. Flow(q.packet_counter, q.last_check_packet_time, handled[r], clock)
  BY <1>1, <1>2, <1>4, FlowOne
<1> HIDE DEF q
<1>6. DOMAIN players' = DOMAIN players /\ players'[r] = q /\ \A s \in DOMAIN players : s # r => players'[s] = players[s]
  BY <1>1, <1>2, <1>3, SetAt
<1>7. ASSUME NEW s \in DOMAIN players
      PROVE  Flow(players'[s].packet_counter, players'[s].last_check_packet_time, handled'[s], clock')
  <2>1. CASE s = r
    BY <1>2, <1>5, <1>6, <2>1
  <2>2. CASE s # r
    BY <1>2, <1>6, <2>2 DEF Flows, FlowsOf
  <2> QED BY <2>1, <2>2
<1> QED BY <1>6, <1>7 DEF Flows, FlowsOf

\* A login, after which the new player has handled no packet.
LEMMA FlowsLogin ==
  ASSUME Inv, Taken, NEW ps, NEW hs, Like(ps, hs), FlowsOf(ps, hs, clock), NEW fd, NEW u \in Uids,
         fd = NoFd \/ (fd \in open /\ socket_manager[fd] = None),
         MSG_LOGIN(fd, u, ps, hs)
  PROVE  Flows'
<1> DEFINE n == Len(players')
<1>1. /\ ps \in Seq(Player) /\ hs \in Seq(Seq(Nat)) /\ Len(hs) = Len(ps)
      /\ DOMAIN ps = DOMAIN players /\ Len(ps) = Len(players) /\ DOMAIN hs = DOMAIN ps
  BY DEF Like
<1>2. /\ n = Len(players) + 1 /\ players'[n] = NewPlayer(fd, u)
      /\ \A r \in DOMAIN players : players'[r] = ps[r]
  BY LoginStep
<1>3. NewPlayer(fd, u).packet_counter = 0 /\ NewPlayer(fd, u).last_check_packet_time = 0
  BY DEF NewPlayer
<1>4. handled' = Append(hs, <<>>) /\ clock' = clock /\ clock \in Nat
  BY GateAssumption DEF MSG_LOGIN, Taken, Inv, TypeOK
<1>5. \A r \in DOMAIN players : handled'[r] = hs[r]
  BY <1>1, <1>4
<1>6. handled'[n] = <<>>
  BY <1>1, <1>2, <1>4
<1>7. DOMAIN players' = DOMAIN players \cup {n}
  <2>1. Inv'
    BY LoginStep
  <2>2. DOMAIN players' = 1..n /\ DOMAIN players = 1..Len(players) /\ Len(players) \in Nat
    BY <2>1 DEF Inv, Lists
  <2> QED BY <1>2, <2>2
<1> HIDE DEF n
<1>8. ASSUME NEW r \in DOMAIN players'
      PROVE  Flow(players'[r].packet_counter, players'[r].last_check_packet_time, handled'[r], clock')
  <2>1. CASE r = n
    BY <1>2, <1>3, <1>4, <1>6, <2>1, FlowNew
  <2>2. CASE r \in DOMAIN players
    BY <1>1, <1>2, <1>4, <1>5, <2>2 DEF FlowsOf
  <2> QED BY <1>7, <2>1, <2>2
<1> QED BY <1>8 DEF Flows, FlowsOf

LEMMA FlowsSame ==
  ASSUME NEW ps, NEW hs, FlowsOf(ps, hs, clock), DOMAIN players' = DOMAIN ps, handled' = hs, clock' = clock,
         \A r \in DOMAIN ps : /\ players'[r].packet_counter = ps[r].packet_counter
                              /\ players'[r].last_check_packet_time = ps[r].last_check_packet_time
  PROVE  Flows'
  BY DEF Flows, FlowsOf

LEMMA FlowsStep ==
  ASSUME Inv, Flows, [Next]_vars
  PROVE  Flows'
<1>1. ASSUME UNCHANGED <<players, handled, clock>> PROVE Flows'
  BY <1>1 DEF Flows, FlowsOf
<1>2. CASE Tick
  <2>1. players' = players /\ handled' = handled /\ clock' = clock + 1 /\ clock \in Nat
    BY <1>2, GateAssumption DEF Tick, Inv, TypeOK
  <2>2. ASSUME NEW r \in DOMAIN players
        PROVE  Flow(players[r].packet_counter, players[r].last_check_packet_time, handled[r], clock + 1)
    <3>1. players[r] \in Player /\ handled[r] \in Seq(Nat)
      BY DEF Inv, Lists
    <3>2. players[r].packet_counter \in Nat /\ players[r].last_check_packet_time \in Nat
      BY <3>1 DEF Player
    <3>3. Flow(players[r].packet_counter, players[r].last_check_packet_time, handled[r], clock)
      BY DEF Flows, FlowsOf
    <3> QED BY <2>1, <3>1, <3>2, <3>3, FlowLater
  <2> QED BY <2>1, <2>2 DEF Flows, FlowsOf
<1>3. CASE (\E f \in Fds : ev_accept(f)) \/ (\E u \in Uids : REPLY(u)) \/ UNCHANGED vars
  BY <1>1, <1>3 DEF ev_accept, REPLY, vars
<1>4. ASSUME NEW f \in Fds, ev_close(f) PROVE Flows'
  <2>1. CASE socket_manager[f] # None
    <3>1. handled' = handled /\ clock' = clock
      BY <1>4 DEF ev_close
    <3>2. FlowsOf(players, handled, clock)
      BY DEF Flows
    <3> QED BY <1>4, <2>1, <3>1, <3>2, ClosedStep, FlowsSame
  <2>2. CASE socket_manager[f] = None
    BY <1>1, <1>4, <2>2 DEF ev_close
  <2> QED BY <2>1, <2>2
<1>5. ASSUME NEW f \in Fds, dispatch(f) PROVE Flows'
  <2>1. Taken /\ f \in open /\ clock' = clock
    BY <1>5 DEF dispatch, Taken
  <2>2. CASE socket_manager[f] = None /\ Anonymous(f)
    <3>1. Like(players, handled) /\ FlowsOf(players, handled, clock)
      BY LikeSame DEF Flows
    <3>2. ASSUME NEW u \in Uids, MSG_LOGIN(f, u, players, handled) PROVE Flows'
      BY <2>1, <2>2, <3>1, <3>2, FlowsLogin
    <3> QED BY <1>1, <2>1, <2>2, <3>2 DEF Anonymous, LoginRefused, Answered
  <2>3. ASSUME socket_manager[f] # None
        PROVE  socket_manager[f] \in DOMAIN players
    BY <2>3 DEF Inv, TypeOK
  <2>4. CASE socket_manager[f] # None /\ PacketHack(socket_manager[f])
    BY <2>1, <2>3, <2>4, FlowsHack
  <2>5. CASE socket_manager[f] # None /\ Known(socket_manager[f])
    <3> DEFINE r == socket_manager[f]
               ps == [players EXCEPT ![r] = Counted(@)]
               hs == [handled EXCEPT ![r] = Append(@, clock)]
               messages == {Message("FORWARD", players[r].uid, None), Message("REPLY", players[r].uid, players[r].sockfd)}
    <3>1. r \in DOMAIN players
      BY <2>3, <2>5
    <3>2. Like(ps, hs)
      BY <3>1, CountedLists
    <3>3. FlowsOf(ps, hs, clock)
      BY <2>5, <3>1, FlowsKnown DEF Known
    <3>4. \/ \E u \in Uids : MSG_LOGIN(NoFd, u, ps, hs)
          \/ \E g \in Games : MSG_ENTER(r, g, ps, hs)
          \/ Answered(messages, ps, hs)
      BY <2>5 DEF Known
    <3> HIDE DEF r, ps, hs, messages
    <3>5. ASSUME NEW u \in Uids, MSG_LOGIN(NoFd, u, ps, hs) PROVE Flows'
      BY <2>1, <3>2, <3>3, <3>5, FlowsLogin
    <3>6. ASSUME NEW g \in Games, MSG_ENTER(r, g, ps, hs) PROVE Flows'
      <4>1. DOMAIN ps = DOMAIN players
        BY <3>2 DEF Like
      <4>2. handled' = hs
        BY <3>6 DEF MSG_ENTER
      <4> QED BY <2>1, <3>1, <3>2, <3>3, <3>6, <4>1, <4>2, EnterStep, FlowsSame
    <3>7. CASE Answered(messages, ps, hs)
      BY <2>1, <3>3, <3>7, FlowsSame DEF Answered
    <3> QED BY <3>4, <3>5, <3>6, <3>7
  <2> QED BY <1>5, <2>2, <2>4, <2>5 DEF dispatch
<1> QED BY <1>2, <1>3, <1>4, <1>5 DEF Next

\* Of the packets that a client sends over one login, at most twice the
\* threshold and one more are handled in less than the time of a window,
\* whatever the threshold, the window and the pace of the client.
THEOREM FloodsLimited == Spec => []FloodBounded
<1>1. Init => Flows
  BY DEF Init, Flows, FlowsOf
<1>2. Inv /\ Flows /\ [Next]_vars => Flows'
  BY FlowsStep
<1>3. Inv /\ Flows => FloodBounded
  <2>1. Inv => DOMAIN handled = DOMAIN players
    BY DEF Inv, TypeOK
  <2>2. Flows => \A r \in DOMAIN players : \A i, j \in DOMAIN handled[r] :
                   j = i + 2 * Threshold + 1 => handled[r][j] - handled[r][i] >= Window
    BY DEF Flows, FlowsOf, Flow
  <2> QED BY <2>1, <2>2 DEF FloodBounded
<1> QED BY <1>1, <1>2, <1>3, Invariance, PTL DEF Spec
=============================================================================
