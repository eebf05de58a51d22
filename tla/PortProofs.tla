----------------------------- MODULE PortProofs ------------------------------
(* Proofs about Port, for any socket numbers, size of the table and bounds. *)
EXTENDS Port, WellFoundedInduction, TLAPS

(***************************************************************************)
(* The inductive invariant.                                                *)
(***************************************************************************)

\* The numbers beyond the table of sockets are not used: one is always free.
PlacesLeft == \A f \in Fds : f >= MaxSock => sock[f] = "free"

\* The listening socket stays, and is the only one with its handler.
Listens ==
  /\ sock[ListenFd] = "listen"
  /\ \A f \in Fds : /\ sock[f] = "listen" => f = ListenFd
                    /\ proc[f] = "accept" <=> f = ListenFd
                    /\ sock[f] \in {"connecting", "refused"} => proc[f] = "connect"

\* An open socket, and no other one, has a port; the connection to the other
\* process is the one of socket_table.
PortsOpen ==
  \A f \in Fds : /\ sock[f] = "free" <=> port[f] = None
                 /\ sock[f] # "free" => "R" \in mask[f]
                 /\ port[f] = "cli" => table = {f}

\* Before the mains of the modules nothing is polled and nothing is connected.
Idle == ~main => fired = {} /\ table = {}

\* An event of the last poll belongs to a socket that was ready and is open
\* since then; if it is closed, it was closed by the callback before, the event
\* is the next one, and it is not registered any more.
EventsLive ==
  \A e \in fired :
    /\ sock[e[1]] # "connecting"
    /\ sock[e[1]] = "refused" => <<e[1], "R">> \in fired
    /\ sock[e[1]] = "free" => mask[e[1]] = {} /\ Due(e[1], "W")

\* The listening socket is ready only for a connection that waits.
Waiting == <<ListenFd, "R">> \in fired => backlog > 0

\* Only a connect() that failed at once leaves a closed socket registered.
Watches == BadFd => refused > 0

Inv ==
  /\ TypeOK /\ backlog <= conns
  /\ PlacesLeft /\ Listens /\ PortsOpen /\ Idle /\ EventsLive /\ Waiting /\ Watches /\ ToldIsUp

-----------------------------------------------------------------------------
(* The numbers that the kernel gives out *)

LEMMA Smallest ==
  ASSUME NEW S, S \subseteq Nat, S # {}
  PROVE  \E m \in S : \A n \in S : m <= n
<1> DEFINE Less == {p \in Nat \X Nat : p[1] < p[2]}
<1>1. IsWellFoundedOn(Less, Nat)
  BY NatLessThanWellFounded, Zenon DEF OpToRel
<1> HIDE DEF Less
<1>2. PICK m \in S : \A n \in S : <<n, m>> \notin Less
  BY <1>1, WFMin
<1>3. \A n \in S : ~(n < m)
  BY <1>2 DEF Less
<1> QED BY <1>3

\* socket() and accept() return a number that was free.
LEMMA NewFdFree ==
  ASSUME TypeOK, PlacesLeft
  PROVE  NewFd \in Fds /\ sock[NewFd] = "free"
<1>1. FreeFds \subseteq Nat /\ FreeFds # {}
  BY PortAssumption DEF PlacesLeft, FreeFds
<1>2. \E f \in FreeFds : \A e \in FreeFds : f <= e
  BY <1>1, Smallest
<1>3. NewFd \in FreeFds
  BY <1>2 DEF NewFd
<1> QED BY <1>3 DEF FreeFds

-----------------------------------------------------------------------------
(* The end of a socket and the connection that replaces it *)

\* What Replace is called with.
Replaces(f, how) ==
  /\ f \in Fds \cup {None} /\ f # ListenFd
  /\ how \in {"none", "full", "started", "refused"}
  /\ how \in {"started", "refused"} => NewFd < MaxSock
  /\ how = "refused" => refused < MaxRefused
  /\ f \in Fds => sock[f] # "free"
  /\ how = "started" => \A h \in Fds : port[h] = "cli" => h = f

LEMMA ReplaceTypes ==
  ASSUME TypeOK, PlacesLeft, NEW f, NEW how, Replaces(f, how), Replace(f, how)
  PROVE  /\ sock' \in [Fds -> {"free", "listen", "connecting", "refused", "up"}]
         /\ mask' \in [Fds -> SUBSET Bits]
         /\ proc' \in [Fds -> {"accept", "connect", "stream"}]
         /\ port' \in [Fds -> {"srv", "cli", None}]
         /\ table' \subseteq Fds
         /\ refused' \in 0..MaxRefused
<1>1. NewFd \in Fds
  BY NewFdFree
<1>2. sock' \in [Fds -> {"free", "listen", "connecting", "refused", "up"}]
  BY DEF Replace, TypeOK
<1>3. mask' \in [Fds -> SUBSET Bits]
  BY DEF Replace, TypeOK, Cleared, Bits
<1>4. proc' \in [Fds -> {"accept", "connect", "stream"}]
  BY DEF Replace, TypeOK
<1>5. port' \in [Fds -> {"srv", "cli", None}]
  BY DEF Replace, TypeOK
<1>6. table' \subseteq Fds
  BY <1>1 DEF Replace, TypeOK
<1>7. refused' \in 0..MaxRefused
  BY PortAssumption DEF Replace, Replaces, TypeOK
<1> QED BY <1>2, <1>3, <1>4, <1>5, <1>6, <1>7

\* What Replace does to each socket: f is closed, a new one is connected or left
\* half open, and nothing happens to the others.
LEMMA ReplaceEach ==
  ASSUME TypeOK, PlacesLeft, NEW f, NEW how, Replaces(f, how), Replace(f, how), NEW h \in Fds
  PROVE  \/ /\ h = f /\ sock'[h] = "free" /\ mask'[h] = {} /\ port'[h] = None
            /\ proc'[h] = proc[h]
         \/ /\ h = NewFd /\ h # f /\ sock[h] = "free" /\ how = "started" /\ h < MaxSock
            /\ sock'[h] = "connecting" /\ mask'[h] = Bits /\ port'[h] = "cli"
            /\ proc'[h] = "connect" /\ table' = {h}
         \/ /\ h = NewFd /\ h # f /\ sock[h] = "free" /\ how = "refused" /\ refused' > 0
            /\ sock'[h] = "free" /\ port'[h] = port[h] /\ proc'[h] = "connect"
         \/ /\ h # f
            /\ sock'[h] = sock[h] /\ mask'[h] = mask[h] /\ port'[h] = port[h] /\ proc'[h] = proc[h]
<1>1. NewFd \in Fds /\ sock[NewFd] = "free"
  BY NewFdFree
<1>2. NewFd # f
  BY <1>1 DEF Replaces
<1>3. CASE h = f
  BY <1>2, <1>3 DEF Replace, Cleared
<1>4. CASE h # f /\ h = NewFd /\ how = "started"
  BY <1>1, <1>4 DEF Replace, Replaces, Watched
<1>5. CASE h # f /\ h = NewFd /\ how = "refused"
  <2>1. refused' = refused + 1 /\ refused \in Nat
    BY <1>5 DEF Replace, TypeOK
  <2> QED BY <1>1, <1>5, <2>1 DEF Replace, Watched
<1>6. CASE h # f /\ ~(h = NewFd /\ how \in {"started", "refused"})
  BY <1>6 DEF Replace, Watched
<1> QED BY <1>3, <1>4, <1>5, <1>6

LEMMA ReplaceInv ==
  ASSUME TypeOK, PlacesLeft, Listens, PortsOpen, Watches,
         NEW f, NEW how, Replaces(f, how), Replace(f, how)
  PROVE  PlacesLeft' /\ Listens' /\ PortsOpen' /\ Watches'
<1>1. PlacesLeft'
  <2>1. ASSUME NEW h \in Fds, h >= MaxSock PROVE sock'[h] = "free"
    <3>1. h \in Nat /\ MaxSock \in Nat /\ ~(h < MaxSock)
      BY <2>1, PortAssumption
    <3> QED BY <2>1, <3>1, ReplaceEach DEF PlacesLeft
  <2> QED BY <2>1 DEF PlacesLeft
<1>2. Listens'
  <2>1. ListenFd \in Fds /\ ListenFd # f
    BY PortAssumption DEF Replaces
  <2>2. sock'[ListenFd] = "listen"
    BY <2>1, ReplaceEach DEF Listens
  <2>3. ASSUME NEW h \in Fds
        PROVE  /\ sock'[h] = "listen" => h = ListenFd
               /\ proc'[h] = "accept" <=> h = ListenFd
               /\ sock'[h] \in {"connecting", "refused"} => proc'[h] = "connect"
    BY <2>1, ReplaceEach DEF Listens
  <2> QED BY <2>2, <2>3 DEF Listens
<1>3. PortsOpen'
  <2>1. "R" \in Bits
    BY DEF Bits
  <2>2. ASSUME NEW h \in Fds
        PROVE  /\ sock'[h] = "free" <=> port'[h] = None
               /\ sock'[h] # "free" => "R" \in mask'[h]
    BY <2>1, ReplaceEach, PortAssumption DEF PortsOpen
  <2>3. ASSUME NEW h \in Fds, port'[h] = "cli" PROVE table' = {h}
    <3>1. None # "cli"
      BY PortAssumption
    <3>2. CASE how = "started"
      <4>1. ~(port[h] = "cli" /\ h # f)
        BY <3>2 DEF Replaces
      <4>2. port[h] = None \/ sock[h] # "free"
        BY DEF PortsOpen
      <4> QED BY <2>3, <3>1, <4>1, <4>2, ReplaceEach
    <3>3. CASE how # "started"
      <4>1. port[h] = "cli" /\ h # f
        BY <2>3, <3>1, <3>3, ReplaceEach
      <4>2. table = {h} /\ table' = table \ {f}
        BY <3>3, <4>1 DEF PortsOpen, Replace
      <4> QED BY <4>1, <4>2
    <3> QED BY <3>2, <3>3
  <2> QED BY <2>2, <2>3 DEF PortsOpen
<1>4. Watches'
  <2>1. ASSUME NEW h \in Fds, mask'[h] # {}, sock'[h] = "free" PROVE refused' > 0
    <3>1. CASE mask[h] # {} /\ sock[h] = "free"
      <4>1. refused > 0 /\ refused \in Nat
        BY <3>1 DEF Watches, BadFd, TypeOK
      <4>2. refused' = refused \/ refused' = refused + 1
        BY DEF Replace
      <4> QED BY <4>1, <4>2
    <3>2. CASE ~(mask[h] # {} /\ sock[h] = "free")
      BY <2>1, <3>2, ReplaceEach
    <3> QED BY <3>1, <3>2
  <2> QED BY <2>1 DEF Watches, BadFd
<1> QED BY <1>1, <1>2, <1>3, <1>4

-----------------------------------------------------------------------------
(* The events of a poll *)

LEMMA EventParts ==
  ASSUME TypeOK, NEW e \in fired
  PROVE  e[1] \in Fds /\ e[1] \in Nat /\ e[2] \in Bits /\ e = <<e[1], e[2]>>
<1>1. e \in Fds \X Bits
  BY DEF TypeOK
<1>2. Fds \subseteq Nat
  BY PortAssumption
<1>3. PICK h \in Fds, c \in Bits : e = <<h, c>>
  BY <1>1
<1> QED BY <1>2, <1>3

\* A callback runs for a socket that is open and was ready.
LEMMA CalledIsOpen ==
  ASSUME Inv, NEW f \in Fds, NEW b \in Bits, Due(f, b), Valid(f, b)
  PROVE  /\ sock[f] \notin {"free", "connecting"} /\ main
         /\ b = "W" => sock[f] # "refused"
<1>1. <<f, b>> \in fired /\ mask[f] # {}
  BY DEF Due, Valid
<1>2. sock[f] # "connecting" /\ sock[f] # "free"
  BY <1>1 DEF Inv, EventsLive
<1>3. main
  BY <1>1 DEF Inv, Idle
<1>4. ASSUME b = "W", sock[f] = "refused" PROVE FALSE
  <2>1. <<f, "R">> \in fired
    BY <1>1, <1>4 DEF Inv, EventsLive
  <2>2. \A e \in fired : f = e[1] => e[2] = "W"
    BY <1>4 DEF Due
  <2> QED BY <2>1, <2>2
<1> QED BY <1>2, <1>3, <1>4

\* The events behind one that is handled are of open sockets, or of the same one.
LEMMA OthersAreOpen ==
  ASSUME Inv, NEW f \in Fds, NEW b \in Bits, Due(f, b), NEW e \in fired, e[1] # f
  PROVE  sock[e[1]] # "free"
<1>1. e[1] \in Nat /\ f \in Nat /\ <<f, b>> \in fired
  BY EventParts, PortAssumption DEF Inv, Due
<1>2. ASSUME sock[e[1]] = "free" PROVE FALSE
  <2>1. e[1] <= f
    BY <1>1, <1>2 DEF Inv, EventsLive, Due
  <2>2. f <= e[1]
    BY DEF Due
  <2> QED BY <1>1, <2>1, <2>2
<1> QED BY <1>2

\* When an event is handled and its socket stays as it is, the rest of the
\* events stay live.
LEMMA HandledLive ==
  ASSUME Inv, NEW f \in Fds, NEW b \in Bits, Due(f, b), Handled(f, b),
         b = "R" => sock[f] \notin {"refused", "free"},
         \A e \in fired : sock'[e[1]] = sock[e[1]]
  PROVE  EventsLive'
<1> SUFFICES ASSUME NEW e \in fired'
             PROVE  /\ sock'[e[1]] # "connecting"
                    /\ sock'[e[1]] = "refused" => <<e[1], "R">> \in fired'
                    /\ sock'[e[1]] = "free" => mask'[e[1]] = {} /\ Due(e[1], "W")'
  BY DEF EventsLive
<1>1. e \in fired /\ e # <<f, b>> /\ sock'[e[1]] = sock[e[1]]
  BY DEF Handled
<1>2. e[1] \in Fds /\ e[2] \in Bits /\ e = <<e[1], e[2]>>
  BY <1>1, EventParts DEF Inv
<1>3. sock'[e[1]] # "connecting"
  BY <1>1 DEF Inv, EventsLive
<1>4. ASSUME sock[e[1]] = "refused" PROVE <<e[1], "R">> \in fired'
  <2>1. <<e[1], "R">> \in fired
    BY <1>1, <1>4 DEF Inv, EventsLive
  <2>2. <<e[1], "R">> # <<f, b>>
    BY <1>4
  <2> QED BY <2>1, <2>2 DEF Handled
<1>5. sock[e[1]] # "free"
  <2>1. CASE e[1] # f
    BY <1>1, <2>1, OthersAreOpen
  <2>2. CASE e[1] = f /\ b = "R"
    BY <2>2
  <2>3. CASE e[1] = f /\ b = "W"
    BY <1>1, <1>2, <2>3 DEF Due
  <2> QED BY <2>1, <2>2, <2>3 DEF Bits
<1> QED BY <1>1, <1>3, <1>4, <1>5

\* A callback that closes its socket leaves at most one event of it behind,
\* which is the next one.
LEMMA ClosedLive ==
  ASSUME Inv, NEW f \in Fds, NEW b \in Bits, Due(f, b), Handled(f, b),
         NEW how, Replaces(f, how), Replace(f, how)
  PROVE  EventsLive'
<1> SUFFICES ASSUME NEW e \in fired'
             PROVE  /\ sock'[e[1]] # "connecting"
                    /\ sock'[e[1]] = "refused" => <<e[1], "R">> \in fired'
                    /\ sock'[e[1]] = "free" => mask'[e[1]] = {} /\ Due(e[1], "W")'
  BY DEF EventsLive
<1>1. e \in fired /\ e # <<f, b>> /\ fired' = fired \ {<<f, b>>}
  BY DEF Handled
<1>2. e[1] \in Fds /\ e[2] \in Bits /\ e = <<e[1], e[2]>>
  BY <1>1, EventParts DEF Inv
<1>3. TypeOK /\ PlacesLeft
  BY DEF Inv
<1>4. CASE e[1] = f
  <2>1. sock'[f] = "free" /\ mask'[f] = {}
    BY <1>3, ReplaceEach
  <2>2. b = "R" /\ e[2] = "W"
    BY <1>1, <1>2, <1>4 DEF Due, Bits
  <2>3. \A d \in fired' : f <= d[1] /\ d # <<f, "R">> /\ d \in fired
    BY <1>1, <2>2 DEF Due
  <2>4. \A d \in fired' : f = d[1] => d[2] = "W"
    BY <1>3, <2>3, EventParts DEF Bits
  <2>5. <<f, "W">> \in fired'
    BY <1>2, <1>4, <2>2
  <2>6. Due(f, "W")'
    BY <2>3, <2>4, <2>5 DEF Due
  <2> QED BY <1>4, <2>1, <2>6
<1>5. CASE e[1] # f
  <2>1. sock[e[1]] # "free"
    BY <1>1, <1>5, OthersAreOpen
  <2>2. sock'[e[1]] = sock[e[1]]
    BY <1>2, <1>3, <1>5, <2>1, ReplaceEach
  <2>3. sock[e[1]] # "connecting"
    BY <1>1 DEF Inv, EventsLive
  <2>4. sock[e[1]] = "refused" => <<e[1], "R">> \in fired
    BY <1>1 DEF Inv, EventsLive
  <2> QED BY <1>1, <1>5, <2>1, <2>2, <2>3, <2>4
<1> QED BY <1>4, <1>5

-----------------------------------------------------------------------------
(* The steps *)

LEMMA CloseStep ==
  ASSUME Inv, NEW f \in Fds, NEW b \in Bits, Due(f, b), Valid(f, b), proc[f] # "accept",
         Handled(f, b), real_close(f), UNCHANGED <<backlog, main, conns, arrivals, losses>>
  PROVE  Inv'
<1>1. TypeOK /\ PlacesLeft /\ Listens /\ PortsOpen /\ Watches
  BY DEF Inv
<1>2. sock[f] # "free" /\ main
  BY CalledIsOpen
<1>3. f # ListenFd
  BY <1>1 DEF Listens
<1>4. PICK how : /\ how \in IF port[f] = "cli" THEN Outcomes ELSE {"none"}
                 /\ Replace(f, how)
  BY DEF real_close
<1>5. Replaces(f, how)
  <2>1. CASE port[f] = "cli"
    <3>1. \A h \in Fds : port[h] = "cli" => h = f
      BY <1>1, <2>1 DEF PortsOpen
    <3>2. /\ how \in {"full", "started", "refused"}
          /\ how \in {"started", "refused"} => ~(NewFd >= MaxSock)
          /\ how = "refused" => refused < MaxRefused
      BY <1>4, <2>1 DEF Outcomes
    <3>3. NewFd \in Nat /\ MaxSock \in Nat
      BY <1>1, NewFdFree, PortAssumption
    <3> QED BY <1>2, <1>3, <3>1, <3>2, <3>3 DEF Replaces
  <2>2. CASE port[f] # "cli"
    BY <1>2, <1>3, <1>4, <2>2 DEF Replaces
  <2> QED BY <2>1, <2>2
<1>6. Forget(f)
  BY DEF real_close
<1>7. TypeOK'
  <2>1. fired' \subseteq Fds \X Bits
    BY <1>1 DEF Handled, TypeOK
  <2>2. /\ hup' \in [Fds -> BOOLEAN] /\ data' \in [Fds -> BOOLEAN] /\ unsent' \in [Fds -> BOOLEAN]
        /\ told' \subseteq Fds
    BY <1>1, <1>6 DEF Forget, TypeOK
  <2> QED BY <1>1, <1>4, <1>5, <2>1, <2>2, ReplaceTypes DEF TypeOK
<1>8. PlacesLeft' /\ Listens' /\ PortsOpen' /\ Watches'
  BY <1>1, <1>4, <1>5, ReplaceInv
<1>9. EventsLive'
  BY <1>4, <1>5, ClosedLive
<1>10. Idle'
  BY <1>2 DEF Idle
<1>11. Waiting'
  BY DEF Waiting, Handled, Inv
<1>12. ToldIsUp'
  <2>1. ASSUME NEW h \in told' PROVE sock'[h] = "up"
    <3>1. h \in told /\ h # f /\ h \in Fds
      BY <1>1, <1>6, <2>1 DEF Forget, TypeOK
    <3>2. sock[h] = "up"
      BY <3>1 DEF Inv, ToldIsUp
    <3> QED BY <1>1, <1>4, <1>5, <3>1, <3>2, ReplaceEach
  <2> QED BY <2>1 DEF ToldIsUp
<1>13. (backlog <= conns)'
  BY DEF Inv
<1> QED BY <1>7, <1>8, <1>9, <1>10, <1>11, <1>12, <1>13 DEF Inv

LEMMA MainStep ==
  ASSUME Inv, Main PROVE Inv'
<1>1. TypeOK /\ PlacesLeft /\ Listens /\ PortsOpen /\ Watches
  BY DEF Inv
<1>2. Replace(None, "started") /\ fired = {} /\ table = {} /\ main' = TRUE
  BY DEF Main, Inv, Idle
<1>3. ~(NewFd >= MaxSock) /\ NewFd \in Nat /\ MaxSock \in Nat
  <2>1. ~(NewFd >= MaxSock)
    BY DEF Main, Outcomes
  <2> QED BY <1>1, <2>1, NewFdFree, PortAssumption
<1>4. Replaces(None, "started")
  <2>1. \A h \in Fds : port[h] # "cli"
    BY <1>1, <1>2 DEF PortsOpen
  <2>2. None \notin Fds /\ None # ListenFd
    BY PortAssumption
  <2> QED BY <1>3, <2>1, <2>2 DEF Replaces
<1>5. TypeOK'
  BY <1>1, <1>2, <1>4, ReplaceTypes DEF Main, TypeOK
<1>6. PlacesLeft' /\ Listens' /\ PortsOpen' /\ Watches'
  BY <1>1, <1>2, <1>4, ReplaceInv
<1>7. Idle' /\ EventsLive' /\ Waiting'
  BY <1>2 DEF Main, Idle, EventsLive, Waiting
<1>8. ToldIsUp'
  <2>1. ASSUME NEW h \in told' PROVE sock'[h] = "up"
    <3>1. h \in Fds /\ sock[h] = "up" /\ h # None
      BY <1>1, <2>1, PortAssumption DEF Main, Inv, ToldIsUp, TypeOK
    <3> QED BY <1>1, <1>2, <1>4, <3>1, ReplaceEach
  <2> QED BY <2>1 DEF ToldIsUp
<1>9. (backlog <= conns)'
  BY DEF Inv, Main
<1> QED BY <1>5, <1>6, <1>7, <1>8, <1>9 DEF Inv

\* Steps of the kernel change the state of a socket that is under way, and what
\* there is to read.
LEMMA KernelStep ==
  ASSUME Inv, Kernel PROVE Inv'
<1>1. ASSUME NEW f \in Fds, ConnectDone(f) PROVE Inv'
  <2>1. PICK st \in {"up", "refused"} : sock' = [sock EXCEPT ![f] = st]
    BY <1>1 DEF ConnectDone
  <2>2. sock \in [Fds -> {"free", "listen", "connecting", "refused", "up"}]
    BY DEF Inv, TypeOK
  <2>3. losses' \in 0..MaxLoss
    BY <1>1, PortAssumption DEF ConnectDone, Inv, TypeOK
  <2>4. /\ sock[f] = "connecting" /\ sock'[f] = st
        /\ \A h \in Fds : h # f => sock'[h] = sock[h]
    BY <1>1, <2>1, <2>2 DEF ConnectDone
  <2>5. TypeOK'
    <3>1. sock' \in [Fds -> {"free", "listen", "connecting", "refused", "up"}]
      BY <2>1, <2>2
    <3> QED BY <1>1, <2>3, <3>1 DEF ConnectDone, Inv, TypeOK
  <2>6. PlacesLeft'
    BY <2>4 DEF Inv, PlacesLeft
  <2>7. Listens'
    <3>1. f # ListenFd /\ ListenFd \in Fds
      BY <2>4, PortAssumption DEF Inv, Listens
    <3> QED BY <1>1, <2>4, <3>1 DEF ConnectDone, Inv, Listens
  <2>8. PortsOpen'
    BY <1>1, <2>4 DEF ConnectDone, Inv, PortsOpen
  <2>9. \A e \in fired : e[1] # f /\ e[1] \in Fds
    BY <2>4, EventParts DEF Inv, EventsLive
  <2>10. EventsLive'
    BY <1>1, <2>4, <2>9 DEF ConnectDone, Inv, EventsLive, Due
  <2>11. Idle' /\ Waiting' /\ (backlog <= conns)'
    BY <1>1 DEF ConnectDone, Inv, Idle, Waiting
  <2>12. Watches'
    BY <1>1, <2>4 DEF ConnectDone, Inv, Watches, BadFd
  <2>13. ToldIsUp'
    <3>1. told \subseteq Fds
      BY DEF Inv, TypeOK
    <3> QED BY <1>1, <2>4, <3>1 DEF ConnectDone, Inv, ToldIsUp
  <2> QED BY <2>5, <2>6, <2>7, <2>8, <2>10, <2>11, <2>12, <2>13 DEF Inv
<1>2. ASSUME UNCHANGED <<sock, mask, proc, fired, port, main, table, told, refused>>,
             TypeOK', backlog' >= backlog, (backlog <= conns)'
      PROVE  Inv'
  <2>1. PlacesLeft' /\ Listens' /\ PortsOpen' /\ Idle'
    BY <1>2 DEF Inv, PlacesLeft, Listens, PortsOpen, Idle
  <2>2. EventsLive' /\ Watches' /\ ToldIsUp'
    BY <1>2 DEF Inv, EventsLive, Due, Watches, BadFd, ToldIsUp
  <2>3. Waiting'
    <3>1. backlog \in Int /\ backlog' \in Int
      BY <1>2 DEF Inv, TypeOK
    <3> QED BY <1>2, <3>1 DEF Inv, Waiting
  <2> QED BY <1>2, <2>1, <2>2, <2>3 DEF Inv
<1>3. CASE Arrive
  <2>1. backlog \in Nat /\ conns \in Nat /\ backlog <= conns
    BY DEF Inv, TypeOK
  <2>2. backlog' \in 0..MaxConn /\ conns' \in 0..MaxConn /\ backlog' <= conns' /\ backlog' >= backlog
    BY <1>3, <2>1, PortAssumption DEF Arrive
  <2>3. TypeOK'
    BY <1>3, <2>2 DEF Arrive, Inv, TypeOK
  <2> QED BY <1>2, <1>3, <2>2, <2>3 DEF Arrive
<1>4. ASSUME NEW f \in Fds, Data(f) PROVE Inv'
  <2>1. arrivals' \in 0..MaxData
    BY <1>4, PortAssumption DEF Data, Inv, TypeOK
  <2>2. TypeOK'
    BY <1>4, <2>1 DEF Data, Inv, TypeOK
  <2>3. backlog' >= backlog /\ (backlog <= conns)'
    BY <1>4 DEF Data, Inv, TypeOK
  <2> QED BY <1>2, <1>4, <2>2, <2>3 DEF Data
<1>5. ASSUME NEW f \in Fds, Hup(f) PROVE Inv'
  <2>1. losses' \in 0..MaxLoss
    BY <1>5, PortAssumption DEF Hup, Inv, TypeOK
  <2>2. TypeOK'
    BY <1>5, <2>1 DEF Hup, Inv, TypeOK
  <2>3. backlog' >= backlog /\ (backlog <= conns)'
    BY <1>5 DEF Hup, Inv, TypeOK
  <2> QED BY <1>2, <1>5, <2>2, <2>3 DEF Hup
<1> QED BY <1>1, <1>3, <1>4, <1>5 DEF Kernel

\* A poll finds open sockets only, as select() fails otherwise.
LEMMA PollStep ==
  ASSUME Inv, Poll PROVE Inv'
<1> USE DEF kernelVars, boundVars
<1>1. ASSUME NEW e \in fired'
      PROVE  /\ e \in Fds \X Bits /\ e[1] \in Fds /\ e[2] \in mask[e[1]] /\ Ready(e[1], e[2])
  BY <1>1 DEF Poll
<1>2. TypeOK'
  BY DEF Poll, Inv, TypeOK
<1>3. PlacesLeft' /\ Listens' /\ PortsOpen' /\ Idle'
  BY DEF Poll, Inv, PlacesLeft, Listens, PortsOpen, Idle
<1>4. Watches' /\ ToldIsUp' /\ (backlog <= conns)'
  BY DEF Poll, Inv, Watches, BadFd, ToldIsUp
<1>5. EventsLive'
  <2> SUFFICES ASSUME NEW e \in fired'
               PROVE  /\ sock[e[1]] \notin {"connecting", "free"}
                      /\ sock[e[1]] = "refused" => <<e[1], "R">> \in fired'
    BY DEF EventsLive, Poll
  <2>1. e[1] \in Fds /\ Ready(e[1], e[2])
    BY <1>1
  <2>2. sock[e[1]] \notin {"connecting", "free"}
    BY <2>1 DEF Ready
  <2>3. ASSUME sock[e[1]] = "refused" PROVE <<e[1], "R">> \in fired'
    <3>1. "R" \in mask[e[1]] /\ Ready(e[1], "R") /\ <<e[1], "R">> \in Fds \X Bits
      BY <2>1, <2>3 DEF Inv, PortsOpen, Ready, Bits
    <3> QED BY <3>1 DEF Poll
  <2> QED BY <2>2, <2>3
<1>6. Waiting'
  <2>1. ASSUME <<ListenFd, "R">> \in fired' PROVE backlog > 0
    <3>1. Ready(ListenFd, "R") /\ sock[ListenFd] = "listen"
      BY <1>1, <2>1 DEF Inv, Listens
    <3> QED BY <3>1 DEF Ready
  <2> QED BY <2>1 DEF Waiting, Poll
<1> QED BY <1>2, <1>3, <1>4, <1>5, <1>6 DEF Inv

\* An event that was removed is passed over: its socket is closed, or it is a
\* write event of a connection.
LEMMA SkipStep ==
  ASSUME Inv, NEW f \in Fds, NEW b \in Bits, Skip(f, b)
  PROVE  Inv'
<1> USE DEF kernelVars, boundVars
<1>1. Due(f, b) /\ b \notin mask[f] /\ Handled(f, b)
  BY DEF Skip, Valid
<1>2. <<f, b>> \in fired /\ fired' = fired \ {<<f, b>>}
  BY <1>1 DEF Due, Handled
<1>3. TypeOK' /\ PlacesLeft' /\ Listens' /\ PortsOpen' /\ Watches' /\ ToldIsUp' /\ (backlog <= conns)'
  <2>1. TypeOK'
    BY <1>2 DEF Skip, Inv, TypeOK
  <2> QED BY <2>1 DEF Skip, Inv, PlacesLeft, Listens, PortsOpen, Watches, BadFd, ToldIsUp
<1>4. Idle' /\ Waiting'
  BY <1>2 DEF Skip, Inv, Idle, Waiting
<1>5. EventsLive'
  <2>1. b = "R" => sock[f] \notin {"refused", "free"}
    <3>1. ASSUME b = "R" PROVE sock[f] = "free" /\ Due(f, "W")
      BY <1>1, <1>2, <3>1 DEF Inv, PortsOpen, EventsLive
    <3>2. ASSUME b = "R" PROVE FALSE
      BY <1>2, <3>1, <3>2 DEF Due
    <3> QED BY <3>2
  <2>2. \A e \in fired : sock'[e[1]] = sock[e[1]]
    BY DEF Skip
  <2> QED BY <1>1, <2>1, <2>2, HandledLive
<1> QED BY <1>3, <1>4, <1>5 DEF Inv

\* An accepted connection gets a free number of the table, which no event is
\* left of.
LEMMA AcceptStep ==
  ASSUME Inv, NEW f \in Fds, port_on_accept(f)
  PROVE  Inv'
<1> DEFINE g == NewFd
<1>1. Due(f, "R") /\ Valid(f, "R") /\ Handled(f, "R") /\ proc[f] = "accept" /\ "R" \in Bits
  BY DEF port_on_accept, Calls, Bits
<1>2. f = ListenFd /\ <<ListenFd, "R">> \in fired /\ sock[f] = "listen" /\ main
  BY <1>1, CalledIsOpen DEF Inv, Listens, Due
<1>3. g \in Fds /\ sock[g] = "free" /\ g \in Nat /\ MaxSock \in Nat
  BY NewFdFree, PortAssumption DEF Inv
<1> HIDE DEF g
<1>4. /\ backlog' \in 0..MaxConn /\ (backlog <= conns)' /\ conns' = conns
  <2>1. backlog \in 0..MaxConn /\ backlog > 0 /\ backlog <= conns /\ conns \in Nat
    BY <1>2 DEF Inv, TypeOK, Waiting
  <2>2. backlog' = backlog - 1 /\ conns' = conns
    BY DEF port_on_accept, boundVars
  <2> QED BY <2>1, <2>2, PortAssumption
<1>5. fired' = fired \ {<<f, "R">>} /\ fired' \subseteq Fds \X Bits
  BY <1>1 DEF Handled, Inv, TypeOK
<1>6. Waiting' /\ Idle'
  BY <1>2, <1>5 DEF Waiting, Idle, port_on_accept
<1>7. /\ sock' = sock \/ sock' = [sock EXCEPT ![g] = "up"]
      /\ UNCHANGED <<hup, data, unsent, main, table, arrivals, losses, refused>>
  BY DEF port_on_accept, boundVars, g
<1>8. EventsLive'
  <2>1. ASSUME NEW e \in fired PROVE sock'[e[1]] = sock[e[1]]
    <3>1. e[1] \in Fds
      BY EventParts DEF Inv
    <3>2. e[1] # g
      BY <1>1, <1>2, <1>3, OthersAreOpen
    <3> QED BY <1>7, <3>1, <3>2 DEF Inv, TypeOK
  <2> QED BY <1>1, <1>2, <2>1, HandledLive
<1>9. CASE UNCHANGED <<sock, mask, proc, port, told>>
  <2>1. TypeOK'
    BY <1>4, <1>5, <1>7, <1>9 DEF Inv, TypeOK
  <2>2. PlacesLeft' /\ Listens' /\ PortsOpen' /\ Watches' /\ ToldIsUp'
    BY <1>7, <1>9 DEF Inv, PlacesLeft, Listens, PortsOpen, Watches, BadFd, ToldIsUp
  <2> QED BY <1>4, <1>6, <1>8, <2>1, <2>2 DEF Inv
<1>10. CASE /\ g < MaxSock
            /\ sock' = [sock EXCEPT ![g] = "up"]
            /\ port' = [port EXCEPT ![g] = "srv"]
            /\ mask' = [mask EXCEPT ![g] = Bits]
            /\ proc' = [proc EXCEPT ![g] = "stream"]
            /\ told' = told \cup {g}
  <2>1. TypeOK
    BY DEF Inv
  <2>2. /\ sock' \in [Fds -> {"free", "listen", "connecting", "refused", "up"}]
        /\ port' \in [Fds -> {"srv", "cli", None}]
        /\ mask' \in [Fds -> SUBSET Bits]
        /\ proc' \in [Fds -> {"accept", "connect", "stream"}]
        /\ told' \subseteq Fds
    BY <1>3, <1>10, <2>1 DEF TypeOK
  <2>3. TypeOK'
    BY <1>4, <1>5, <1>7, <2>1, <2>2 DEF TypeOK
  <2>4. /\ sock'[g] = "up" /\ port'[g] = "srv" /\ mask'[g] = Bits /\ proc'[g] = "stream"
        /\ \A h \in Fds : h # g => /\ sock'[h] = sock[h] /\ port'[h] = port[h]
                                   /\ mask'[h] = mask[h] /\ proc'[h] = proc[h]
    BY <1>3, <1>10, <2>1 DEF TypeOK
  <2>5. PlacesLeft'
    <3>1. ~(g >= MaxSock)
      BY <1>3, <1>10
    <3> QED BY <2>4, <3>1 DEF Inv, PlacesLeft
  <2>6. Listens'
    BY <1>2, <1>3, <2>4 DEF Inv, Listens
  <2>7. PortsOpen'
    <3>1. None # "srv" /\ "R" \in Bits
      BY PortAssumption DEF Bits
    <3> QED BY <1>7, <2>4, <3>1 DEF Inv, PortsOpen
  <2>8. Watches'
    BY <1>7, <2>4 DEF Inv, Watches, BadFd
  <2>9. ToldIsUp'
    BY <1>10, <2>1, <2>4 DEF Inv, ToldIsUp, TypeOK
  <2> QED BY <1>4, <1>6, <1>8, <2>3, <2>5, <2>6, <2>7, <2>8, <2>9 DEF Inv
<1> QED BY <1>9, <1>10 DEF port_on_accept, g

\* Callbacks that change no socket: what they do to the events that are
\* registered keeps the read event, and touches open sockets only.
LEMMA QuietStep ==
  ASSUME Inv, NEW f \in Fds, NEW b \in Bits, Due(f, b), Valid(f, b), Handled(f, b),
         b = "R" => proc[f] # "connect",
         UNCHANGED <<sock, hup, backlog, port, main, table, boundVars>>,
         data' \in [Fds -> BOOLEAN], unsent' \in [Fds -> BOOLEAN],
         proc' \in [Fds -> {"accept", "connect", "stream"}],
         mask' \in [Fds -> SUBSET Bits],
         told' \subseteq Fds,
         \A h \in Fds : proc'[h] = proc[h] \/ (h = f /\ f # ListenFd /\ proc'[h] = "stream" /\ sock[h] = "up"),
         \A h \in Fds : mask'[h] = mask[h] \/ (sock[h] = "up" /\ "R" \in mask'[h]),
         \A h \in told' : sock[h] = "up"
  PROVE  Inv'
<1> USE DEF boundVars
<1>1. TypeOK' /\ (backlog <= conns)'
  BY DEF Inv, TypeOK, Handled
<1>2. PlacesLeft' /\ ToldIsUp'
  BY DEF Inv, PlacesLeft, ToldIsUp
<1>3. Listens'
  BY DEF Inv, Listens
<1>4. PortsOpen'
  BY DEF Inv, PortsOpen
<1>5. Idle' /\ Waiting'
  BY DEF Inv, Idle, Waiting, Handled
<1>6. Watches'
  BY DEF Inv, Watches, BadFd
<1>7. EventsLive'
  <2>1. b = "R" => sock[f] \notin {"refused", "free"}
    BY CalledIsOpen DEF Inv, Listens
  <2> QED BY <2>1, HandledLive
<1> QED BY <1>1, <1>2, <1>3, <1>4, <1>5, <1>6, <1>7 DEF Inv

LEMMA ConnectSucStep ==
  ASSUME Inv, NEW f \in Fds, port_on_connect_suc(f)
  PROVE  Inv'
<1>1. Due(f, "W") /\ Valid(f, "W") /\ Handled(f, "W") /\ proc[f] = "connect"
  BY DEF port_on_connect_suc, Calls
<1>2. "W" \in Bits /\ "R" \in Bits
  BY DEF Bits
<1>3. sock[f] = "up" /\ f # ListenFd
  <2>1. sock[f] \notin {"free", "connecting", "refused"}
    BY <1>1, <1>2, CalledIsOpen
  <2>2. f # ListenFd /\ sock[f] # "listen"
    BY <1>1 DEF Inv, Listens
  <2> QED BY <2>1, <2>2 DEF Inv, TypeOK
<1>4. TypeOK /\ ToldIsUp
  BY DEF Inv
<1>5. /\ data' \in [Fds -> BOOLEAN] /\ unsent' \in [Fds -> BOOLEAN]
      /\ proc' \in [Fds -> {"accept", "connect", "stream"}]
      /\ mask' \in [Fds -> SUBSET Bits]
      /\ told' \subseteq Fds
  BY <1>4 DEF port_on_connect_suc, kernelVars, TypeOK
<1>6. \A h \in Fds : proc'[h] = proc[h] \/ (h = f /\ f # ListenFd /\ proc'[h] = "stream" /\ sock[h] = "up")
  BY <1>3, <1>4 DEF port_on_connect_suc, TypeOK
<1>7. \A h \in Fds : mask'[h] = mask[h] \/ (sock[h] = "up" /\ "R" \in mask'[h])
  BY <1>2, <1>3, <1>4 DEF port_on_connect_suc, TypeOK
<1>8. \A h \in told' : sock[h] = "up"
  BY <1>3, <1>4 DEF port_on_connect_suc, ToldIsUp
<1>9. UNCHANGED <<sock, hup, backlog, port, main, table, boundVars>>
  BY DEF port_on_connect_suc, kernelVars
<1> QED BY <1>1, <1>2, <1>5, <1>6, <1>7, <1>8, <1>9, QuietStep

LEMMA ReadStep ==
  ASSUME Inv, NEW f \in Fds, port_on_read(f)
  PROVE  Inv'
<1>1. /\ Due(f, "R") /\ Valid(f, "R") /\ Handled(f, "R") /\ proc[f] = "stream" /\ "R" \in Bits
      /\ UNCHANGED <<backlog, main, conns, arrivals, losses>>
  BY DEF port_on_read, Calls, Bits
<1>2. CASE real_close(f)
  BY <1>1, <1>2, CloseStep
<1>3. ASSUME data' = [data EXCEPT ![f] = FALSE],
             UNCHANGED <<sock, hup, proc, port, table, told, refused>>,
             \/ UNCHANGED <<unsent, mask>>
             \/ \E h \in told : /\ unsent' = [unsent EXCEPT ![h] = TRUE]
                                /\ mask' = [mask EXCEPT ![h] = @ \cup {"W"}]
      PROVE  Inv'
  <2>1. TypeOK /\ ToldIsUp /\ PortsOpen
    BY DEF Inv
  <2>2. data' \in [Fds -> BOOLEAN]
    BY <1>3, <2>1 DEF TypeOK
  <2>3. UNCHANGED <<sock, hup, backlog, port, main, table, boundVars>>
    BY <1>1, <1>3 DEF boundVars
  <2>4. /\ unsent' \in [Fds -> BOOLEAN] /\ mask' \in [Fds -> SUBSET Bits]
        /\ \A h \in Fds : mask'[h] = mask[h] \/ (sock[h] = "up" /\ "R" \in mask'[h])
    <3>1. CASE UNCHANGED <<unsent, mask>>
      BY <2>1, <3>1 DEF TypeOK
    <3>2. ASSUME NEW h \in told, unsent' = [unsent EXCEPT ![h] = TRUE],
                 mask' = [mask EXCEPT ![h] = @ \cup {"W"}]
          PROVE  /\ unsent' \in [Fds -> BOOLEAN] /\ mask' \in [Fds -> SUBSET Bits]
                 /\ \A k \in Fds : mask'[k] = mask[k] \/ (sock[k] = "up" /\ "R" \in mask'[k])
      <4>1. h \in Fds /\ sock[h] = "up" /\ "R" \in mask[h]
        BY <2>1 DEF TypeOK, ToldIsUp, PortsOpen
      <4>2. unsent' \in [Fds -> BOOLEAN] /\ mask' \in [Fds -> SUBSET Bits]
        BY <2>1, <3>2, <4>1 DEF TypeOK, Bits
      <4> QED BY <2>1, <3>2, <4>1, <4>2 DEF TypeOK
    <3> QED BY <1>3, <3>1, <3>2
  <2>5. /\ proc' \in [Fds -> {"accept", "connect", "stream"}] /\ told' \subseteq Fds
        /\ \A h \in told' : sock[h] = "up"
    BY <1>3, <2>1 DEF TypeOK, ToldIsUp
  <2> QED BY <1>1, <1>3, <2>2, <2>3, <2>4, <2>5, QuietStep
<1> QED BY <1>2, <1>3 DEF port_on_read

LEMMA WriteStep ==
  ASSUME Inv, NEW f \in Fds, port_on_write(f)
  PROVE  Inv'
<1>1. /\ Due(f, "W") /\ Valid(f, "W") /\ Handled(f, "W") /\ proc[f] = "stream" /\ "W" \in Bits
      /\ UNCHANGED <<backlog, main, conns, arrivals, losses>>
  BY DEF port_on_write, Calls, Bits
<1>2. CASE real_close(f)
  BY <1>1, <1>2, CloseStep
<1>3. ASSUME UNCHANGED <<sock, hup, data, proc, port, table, told, refused>>,
             \/ UNCHANGED <<unsent, mask>>
             \/ /\ unsent' = [unsent EXCEPT ![f] = FALSE]
                /\ mask' = [mask EXCEPT ![f] = @ \ {"W"}]
      PROVE  Inv'
  <2>1. TypeOK /\ ToldIsUp /\ PortsOpen
    BY DEF Inv
  <2>2. UNCHANGED <<sock, hup, backlog, port, main, table, boundVars>>
    BY <1>1, <1>3 DEF boundVars
  <2>3. sock[f] = "up"
    <3>1. sock[f] \notin {"free", "connecting", "refused"}
      BY <1>1, CalledIsOpen
    <3>2. sock[f] # "listen"
      BY <1>1 DEF Inv, Listens
    <3> QED BY <2>1, <3>1, <3>2 DEF TypeOK
  <2>4. /\ unsent' \in [Fds -> BOOLEAN] /\ mask' \in [Fds -> SUBSET Bits]
        /\ \A h \in Fds : mask'[h] = mask[h] \/ (sock[h] = "up" /\ "R" \in mask'[h])
    <3>1. CASE UNCHANGED <<unsent, mask>>
      BY <2>1, <3>1 DEF TypeOK
    <3>2. CASE unsent' = [unsent EXCEPT ![f] = FALSE] /\ mask' = [mask EXCEPT ![f] = @ \ {"W"}]
      <4>1. "R" \in mask[f]
        BY <2>1, <2>3 DEF PortsOpen
      <4>2. unsent' \in [Fds -> BOOLEAN] /\ mask' \in [Fds -> SUBSET Bits]
        BY <2>1, <3>2 DEF TypeOK
      <4> QED BY <2>1, <2>3, <3>2, <4>1, <4>2 DEF TypeOK
    <3> QED BY <1>3, <3>1, <3>2
  <2>5. /\ proc' \in [Fds -> {"accept", "connect", "stream"}] /\ told' \subseteq Fds
        /\ data' \in [Fds -> BOOLEAN] /\ \A h \in told' : sock[h] = "up"
    BY <1>3, <2>1 DEF TypeOK, ToldIsUp
  <2> QED BY <1>1, <1>3, <2>2, <2>4, <2>5, QuietStep
<1> QED BY <1>2, <1>3 DEF port_on_write

LEMMA InvInit == Init => Inv
<1> SUFFICES ASSUME Init PROVE Inv
  OBVIOUS
<1>1. ListenFd \in Fds /\ ListenFd < MaxSock /\ Fds \subseteq Nat /\ MaxSock \in Nat
  BY PortAssumption
<1>2. TypeOK /\ backlog <= conns
  <2>1. /\ backlog \in 0..MaxConn /\ conns \in 0..MaxConn /\ arrivals \in 0..MaxData
        /\ losses \in 0..MaxLoss /\ refused \in 0..MaxRefused /\ backlog <= conns
    BY PortAssumption DEF Init
  <2>2. mask \in [Fds -> SUBSET Bits]
    BY DEF Init, Bits
  <2>3. /\ hup \in [Fds -> BOOLEAN] /\ data \in [Fds -> BOOLEAN] /\ unsent \in [Fds -> BOOLEAN]
        /\ port \in [Fds -> {"srv", "cli", None}] /\ main \in BOOLEAN
    BY DEF Init
  <2> QED BY <2>1, <2>2, <2>3 DEF Init, TypeOK
<1>3. PlacesLeft
  <2>1. ~(ListenFd >= MaxSock)
    BY <1>1
  <2> QED BY <2>1 DEF Init, PlacesLeft
<1>4. Listens /\ PortsOpen
  BY <1>1, PortAssumption DEF Init, Listens, PortsOpen
<1>5. Idle /\ EventsLive /\ Waiting /\ ToldIsUp
  BY DEF Init, Idle, EventsLive, Waiting, ToldIsUp
<1>6. Watches
  BY DEF Init, Watches, BadFd
<1> QED BY <1>2, <1>3, <1>4, <1>5, <1>6 DEF Inv

LEMMA InvStep ==
  ASSUME Inv, [Next]_vars
  PROVE  Inv'
<1>1. ASSUME NEW f \in Fds, Callback(f) PROVE Inv'
  <2>1. CASE port_on_accept(f)
    BY <2>1, AcceptStep
  <2>2. CASE port_on_connect_suc(f)
    BY <2>2, ConnectSucStep
  <2>3. CASE port_on_connect_err(f)
    <3>1. /\ Due(f, "R") /\ Valid(f, "R") /\ Handled(f, "R") /\ proc[f] = "connect" /\ "R" \in Bits
          /\ real_close(f) /\ UNCHANGED <<backlog, main, conns, arrivals, losses>>
      BY <2>3 DEF port_on_connect_err, Calls, Bits
    <3> QED BY <3>1, CloseStep
  <2>4. CASE port_on_read(f)
    BY <2>4, ReadStep
  <2>5. CASE port_on_write(f)
    BY <2>5, WriteStep
  <2> QED BY <1>1, <2>1, <2>2, <2>3, <2>4, <2>5 DEF Callback
<1>2. CASE Loop
  BY <1>1, <1>2, PollStep, SkipStep DEF Loop
<1>3. CASE UNCHANGED vars
  <2>1. TypeOK' /\ PlacesLeft' /\ Listens' /\ PortsOpen' /\ (backlog <= conns)'
    BY <1>3 DEF vars, Inv, TypeOK, PlacesLeft, Listens, PortsOpen
  <2>2. Idle' /\ EventsLive' /\ Waiting' /\ Watches' /\ ToldIsUp'
    BY <1>3 DEF vars, Inv, Idle, EventsLive, Due, Waiting, Watches, BadFd, ToldIsUp
  <2> QED BY <2>1, <2>2 DEF Inv
<1> QED BY <1>2, <1>3, MainStep, KernelStep DEF Next

LEMMA Invariance == Spec => []Inv
  BY InvInit, InvStep, PTL DEF Spec

-----------------------------------------------------------------------------
(* Theorems *)

\* The tables of the kernel, the event loop and Lua have their types.
THEOREM TypeCorrect == Spec => []TypeOK
<1>1. Inv => TypeOK
  BY DEF Inv
<1> QED BY <1>1, Invariance, PTL

\* port_on_read, port_on_write and the others, which use the pointer to the port
\* unchecked, are never called for a socket without one.
THEOREM CallbacksHavePort == Spec => []CallbackHasPort
<1>1. Inv => CallbackHasPort
  <2> SUFFICES ASSUME Inv, NEW f \in Fds, NEW b \in Bits, Due(f, b), Valid(f, b)
               PROVE  port[f] # None
    BY DEF CallbackHasPort
  <2>1. sock[f] # "free"
    BY CalledIsOpen
  <2> QED BY <2>1 DEF Inv, PortsOpen
<1> QED BY <1>1, Invariance, PTL

\* ev_connect_suc and ev_accept tell Lua of connections that are up, and Lua is
\* told before their numbers are used again.
THEOREM ToldAreUp == Spec => []ToldIsUp
<1>1. Inv => ToldIsUp
  BY DEF Inv
<1> QED BY <1>1, Invariance, PTL

\* No open socket loses its port, its read event or its place in socket_table,
\* and no closed one stays registered, unless a connect() failed at once.
THEOREM NoSocketForgotten == Spec => []NoneForgotten
<1>1. Inv => NoneForgotten
  BY DEF Inv, PortsOpen, Watches, NoneForgotten
<1> QED BY <1>1, Invariance, PTL
=============================================================================
