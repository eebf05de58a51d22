-------------------------------- MODULE Port ---------------------------------
(***************************************************************************)
(* The sockets of one process: Port (lport.cc) on the file events of the   *)
(* event loop (ae.cc, with ae_select.cc as the makefile builds it).  The   *)
(* process listens, as Gatesrv does, and keeps one connection to another   *)
(* process, as Globalclient does.                                          *)
(*                                                                         *)
(* Callbacks run one at a time, but they close sockets and open new ones   *)
(* while events of the same poll are still to be handled, and the kernel   *)
(* gives the numbers of closed sockets away again.                         *)
(***************************************************************************)
EXTENDS Integers, FiniteSets

CONSTANTS
  Fds,         \* socket numbers: the kernel has more than the table of sockets
  ListenFd,    \* the socket that listens
  MaxSock,     \* size of the table of sockets (MAX_SOCK)
  None,        \* a null pointer
  MaxConn,     \* bound: connections of other processes to this one
  MaxData,     \* bound: times that data arrive
  MaxLoss,     \* bound: connections that are lost, or refused after a while
  MaxRefused   \* bound: calls of connect() that fail at once

ASSUME PortAssumption ==
  /\ Fds \subseteq Nat /\ IsFiniteSet(Fds)
  /\ ListenFd \in Fds
  /\ MaxSock \in Nat /\ ListenFd < MaxSock
  /\ \E f \in Fds : f >= MaxSock
  /\ None \notin {"srv", "cli"} /\ None \notin Fds
  /\ MaxConn \in Nat /\ MaxData \in Nat /\ MaxLoss \in Nat /\ MaxRefused \in Nat

VARIABLES
  \* the kernel
  sock,      \* "free", "listen", "connecting", "refused" or "up"
  hup,       \* the other end is closed
  data,      \* there are data to read
  backlog,   \* connections that wait to be accepted
  \* the event loop
  mask,      \* the events registered for a socket: "R", "W"
  proc,      \* whose handlers they have: "accept", "connect" or "stream"
  fired,     \* events of the last poll that are still to be handled
  \* Port and the Lua modules
  port,      \* the port of a socket: "srv", "cli", or None
  unsent,    \* the send buffer is not empty
  main,      \* the mains of the modules ran
  table,     \* socket_table of Globalclient
  told,      \* sockets that Lua was told to be connected, and not to be closed
  \* bounds
  conns, arrivals, losses, refused

kernelVars == <<sock, hup, data, backlog>>
boundVars == <<conns, arrivals, losses, refused>>
vars == <<sock, hup, data, backlog, mask, proc, fired, port, unsent, main, table, told,
          conns, arrivals, losses, refused>>

Bits == {"R", "W"}

\* After llisten.
Init ==
  /\ sock = [f \in Fds |-> IF f = ListenFd THEN "listen" ELSE "free"]
  /\ hup = [f \in Fds |-> FALSE]
  /\ data = [f \in Fds |-> FALSE]
  /\ backlog = 0
  /\ mask = [f \in Fds |-> IF f = ListenFd THEN {"R"} ELSE {}]
  /\ proc = [f \in Fds |-> IF f = ListenFd THEN "accept" ELSE "stream"]
  /\ fired = {}
  /\ port = [f \in Fds |-> IF f = ListenFd THEN "srv" ELSE None]
  /\ unsent = [f \in Fds |-> FALSE]
  /\ main = FALSE /\ table = {} /\ told = {}
  /\ conns = 0 /\ arrivals = 0 /\ losses = 0 /\ refused = 0

-----------------------------------------------------------------------------
(* The kernel *)

FreeFds == {f \in Fds : sock[f] = "free"}

\* socket() and accept() return the lowest number that is free.
NewFd == CHOOSE f \in FreeFds : \A e \in FreeFds : f <= e

ConnectDone(f) ==
  /\ sock[f] = "connecting"
  /\ \/ /\ sock' = [sock EXCEPT ![f] = "up"]
        /\ UNCHANGED losses
     \/ /\ sock' = [sock EXCEPT ![f] = "refused"]
        /\ losses < MaxLoss /\ losses' = losses + 1
  /\ UNCHANGED <<hup, data, backlog, mask, proc, fired, port, unsent, main, table, told,
                 conns, arrivals, refused>>

Arrive ==
  /\ conns < MaxConn /\ conns' = conns + 1
  /\ backlog' = backlog + 1
  /\ UNCHANGED <<sock, hup, data, mask, proc, fired, port, unsent, main, table, told,
                 arrivals, losses, refused>>

Data(f) ==
  /\ sock[f] = "up" /\ ~hup[f] /\ ~data[f]
  /\ arrivals < MaxData /\ arrivals' = arrivals + 1
  /\ data' = [data EXCEPT ![f] = TRUE]
  /\ UNCHANGED <<sock, hup, backlog, mask, proc, fired, port, unsent, main, table, told,
                 conns, losses, refused>>

Hup(f) ==
  /\ sock[f] = "up" /\ ~hup[f]
  /\ losses < MaxLoss /\ losses' = losses + 1
  /\ hup' = [hup EXCEPT ![f] = TRUE]
  /\ UNCHANGED <<sock, data, backlog, mask, proc, fired, port, unsent, main, table, told,
                 conns, arrivals, refused>>

Ready(f, b) ==
  \/ b = "R" /\ sock[f] = "listen" /\ backlog > 0
  \/ b = "R" /\ sock[f] = "up" /\ (data[f] \/ hup[f])
  \/ b = "W" /\ sock[f] = "up"
  \/ sock[f] = "refused"

-----------------------------------------------------------------------------
(* Port.connect, and the end of a socket *)

\* What lconnect comes to: no place in the table of sockets; connect() fails at
\* once; or the connection is under way.
Outcomes ==
  IF NewFd >= MaxSock THEN {"full"}
  ELSE {"started"} \cup (IF refused < MaxRefused THEN {"refused"} ELSE {})

\* lconnect registers its events before it calls connect(), and does not remove
\* them when that fails.
Watched(how) == how \in {"started", "refused"}

\* Mutant: only the read event is removed.
ClearedRead(f) == mask[f] \ {"R"}

\* aeDeleteFileEvent, for reading and for writing.
Cleared(f) == {}

\* The socket f ends, unless it is None, and check_connections comes to how for
\* the socket that connect() would get.
Replace(f, how) ==
  LET g == NewFd IN
  /\ sock' = [h \in Fds |-> IF h = f THEN "free"
                            ELSE IF h = g /\ how = "started" THEN "connecting" ELSE sock[h]]
  /\ mask' = [h \in Fds |-> IF h = f THEN Cleared(h)
                            ELSE IF h = g /\ Watched(how) THEN Bits ELSE mask[h]]
  /\ proc' = [h \in Fds |-> IF h = g /\ Watched(how) THEN "connect" ELSE proc[h]]
  /\ port' = [h \in Fds |-> IF h = f THEN None
                            ELSE IF h = g /\ how = "started" THEN "cli" ELSE port[h]]
  /\ table' = IF how = "started" THEN {g} ELSE table \ {f}
  /\ refused' = IF how = "refused" THEN refused + 1 ELSE refused

\* Nothing is left of a socket in the kernel, in its buffers and in Lua.
Forget(f) ==
  /\ hup' = [hup EXCEPT ![f] = FALSE]
  /\ data' = [data EXCEPT ![f] = FALSE]
  /\ unsent' = [unsent EXCEPT ![f] = FALSE]
  /\ told' = told \ {f}

\* Mutant: the socket is closed before ev_close is called, so that connect() may
\* get its number.
CloseFirst(f) ==
  /\ Forget(f)
  /\ IF port[f] = "cli"
     THEN /\ sock' = [sock EXCEPT ![f] = "connecting"]
          /\ mask' = [mask EXCEPT ![f] = Bits]
          /\ proc' = [proc EXCEPT ![f] = "connect"]
          /\ UNCHANGED <<port, table, refused>>
     ELSE Replace(f, "none")

\* real_close: ev_close is called first, and connects again if f was the
\* connection to the other process; then f is closed.
real_close(f) ==
  /\ Forget(f)
  /\ \E how \in IF port[f] = "cli" THEN Outcomes ELSE {"none"} : Replace(f, how)

\* The mains of the modules.  A connect() that fails here raises an error that
\* ends the process.
Main ==
  /\ ~main /\ main' = TRUE
  /\ "started" \in Outcomes /\ Replace(None, "started")
  /\ UNCHANGED <<hup, data, backlog, fired, unsent, told, conns, arrivals, losses>>

-----------------------------------------------------------------------------
(* aeProcessEvents *)

\* A socket that is closed and still registered: select() fails with EBADF.
BadFd == \E f \in Fds : mask[f] # {} /\ sock[f] = "free"

\* aeApiPoll.  After an error there are no events.
Poll ==
  /\ main /\ fired = {} /\ ~BadFd
  /\ fired' = {e \in Fds \X Bits : e[2] \in mask[e[1]] /\ Ready(e[1], e[2])}
  /\ fired' # {}
  /\ UNCHANGED <<kernelVars, mask, proc, port, unsent, main, table, told, boundVars>>

\* The events are handled by socket number, reading before writing.
Due(f, b) ==
  /\ <<f, b>> \in fired
  /\ \A e \in fired : f <= e[1] /\ (f = e[1] /\ b = "W" => e[2] = "W")

\* Mutant: an event is handled although it is not registered any more.
ValidAlways(f, b) == TRUE

\* A callback before may have removed the event.
Valid(f, b) == b \in mask[f]

Handled(f, b) == fired' = fired \ {<<f, b>>}

Calls(f, b, who) == Due(f, b) /\ Valid(f, b) /\ proc[f] = who /\ Handled(f, b)

Skip(f, b) ==
  /\ Due(f, b) /\ ~Valid(f, b) /\ Handled(f, b)
  /\ UNCHANGED <<kernelVars, mask, proc, port, unsent, main, table, told, boundVars>>

-----------------------------------------------------------------------------
(* The callbacks *)

\* Mutant: accept() is called twice for one event.
port_on_accept_twice(f) ==
  /\ Calls(f, "R", "accept")
  /\ backlog' = backlog - 2
  /\ LET g == NewFd IN
     /\ g < MaxSock
     /\ sock' = [sock EXCEPT ![g] = "up"]
     /\ port' = [port EXCEPT ![g] = "srv"]
     /\ mask' = [mask EXCEPT ![g] = Bits]
     /\ proc' = [proc EXCEPT ![g] = "stream"]
     /\ told' = told \cup {g}
  /\ UNCHANGED <<hup, data, unsent, main, table, boundVars>>

\* A connection without a place in the table of sockets is closed.
port_on_accept(f) ==
  /\ Calls(f, "R", "accept")
  /\ backlog' = backlog - 1
  /\ LET g == NewFd IN
     \/ /\ g >= MaxSock
        /\ UNCHANGED <<sock, mask, proc, port, told>>
     \/ /\ g < MaxSock
        /\ sock' = [sock EXCEPT ![g] = "up"]
        /\ port' = [port EXCEPT ![g] = "srv"]
        /\ mask' = [mask EXCEPT ![g] = Bits]
        /\ proc' = [proc EXCEPT ![g] = "stream"]
        /\ told' = told \cup {g}
  /\ UNCHANGED <<hup, data, unsent, main, table, boundVars>>

\* Mutant: the new handler is registered for writing only.
connect_suc_deaf(f) ==
  /\ Calls(f, "W", "connect")
  /\ mask' = [mask EXCEPT ![f] = {"W"}]
  /\ proc' = [proc EXCEPT ![f] = "stream"]
  /\ told' = told \cup {f}
  /\ unsent' = [unsent EXCEPT ![f] = TRUE]
  /\ UNCHANGED <<kernelVars, port, main, table, boundVars>>

\* The handlers of a connection replace those of connect(), and ev_connect_suc
\* sends the srvid.
port_on_connect_suc(f) ==
  /\ Calls(f, "W", "connect")
  /\ mask' = [mask EXCEPT ![f] = Bits]
  /\ proc' = [proc EXCEPT ![f] = "stream"]
  /\ told' = told \cup {f}
  /\ unsent' = [unsent EXCEPT ![f] = TRUE]
  /\ UNCHANGED <<kernelVars, port, main, table, boundVars>>

\* A socket that is readable before it was told to be connected was refused, or
\* its other end was as fast as to send or to close.
port_on_connect_err(f) ==
  /\ Calls(f, "R", "connect")
  /\ real_close(f)
  /\ UNCHANGED <<backlog, main, conns, arrivals, losses>>

\* ev_read takes the data, and its handlers may send on any connection; at the
\* end of the stream, or with a full buffer, the socket is closed.
port_on_read(f) ==
  /\ Calls(f, "R", "stream")
  /\ \/ /\ data[f]
        /\ data' = [data EXCEPT ![f] = FALSE]
        /\ \/ UNCHANGED <<unsent, mask>>
           \/ \E h \in told :
                /\ unsent' = [unsent EXCEPT ![h] = TRUE]
                /\ mask' = [mask EXCEPT ![h] = @ \cup {"W"}]
        /\ UNCHANGED <<sock, hup, proc, port, table, told, refused>>
     \/ real_close(f)
  /\ UNCHANGED <<backlog, main, conns, arrivals, losses>>

\* The buffer is sent and the event removed; or the kernel takes no more for now;
\* or the other end is gone.
port_on_write(f) ==
  /\ Calls(f, "W", "stream")
  /\ \/ /\ \/ /\ unsent' = [unsent EXCEPT ![f] = FALSE]
              /\ mask' = [mask EXCEPT ![f] = @ \ {"W"}]
           \/ unsent[f] /\ UNCHANGED <<unsent, mask>>
        /\ UNCHANGED <<sock, hup, data, proc, port, table, told, refused>>
     \/ /\ unsent[f] /\ hup[f]
        /\ real_close(f)
  /\ UNCHANGED <<backlog, main, conns, arrivals, losses>>

Callback(f) ==
  \/ port_on_accept(f) \/ port_on_connect_suc(f) \/ port_on_connect_err(f)
  \/ port_on_read(f) \/ port_on_write(f)

-----------------------------------------------------------------------------
Loop == Poll \/ \E f \in Fds : Callback(f) \/ \E b \in Bits : Skip(f, b)

Kernel == Arrive \/ \E f \in Fds : ConnectDone(f) \/ Data(f) \/ Hup(f)

Next == Main \/ Loop \/ Kernel

Spec == Init /\ [][Next]_vars

\* The process runs, and the kernel decides on a connection some day.
FairSpec ==
  /\ Spec
  /\ WF_vars(Main) /\ WF_vars(Loop)
  /\ \A f \in Fds : WF_vars(ConnectDone(f))

-----------------------------------------------------------------------------
(* Properties *)

\* The tables hold what their comments say.
TypeOK ==
  /\ sock \in [Fds -> {"free", "listen", "connecting", "refused", "up"}]
  /\ hup \in [Fds -> BOOLEAN] /\ data \in [Fds -> BOOLEAN] /\ unsent \in [Fds -> BOOLEAN]
  /\ backlog \in 0..MaxConn
  /\ mask \in [Fds -> SUBSET Bits]
  /\ proc \in [Fds -> {"accept", "connect", "stream"}]
  /\ fired \subseteq Fds \X Bits
  /\ port \in [Fds -> {"srv", "cli", None}]
  /\ main \in BOOLEAN /\ table \subseteq Fds /\ told \subseteq Fds
  /\ conns \in 0..MaxConn /\ arrivals \in 0..MaxData
  /\ losses \in 0..MaxLoss /\ refused \in 0..MaxRefused

\* A callback is called only for a socket that has a port: the callbacks use its
\* pointer unchecked.  The events of one poll outlive sockets that a callback
\* closed.
CallbackHasPort ==
  \A f \in Fds, b \in Bits : Due(f, b) /\ Valid(f, b) => port[f] # None

\* A socket that Lua was told to be connected is connected: an event of a socket
\* that is gone is not taken for one of the new socket of the same number.
ToldIsUp == \A f \in told : sock[f] = "up"

\* Every socket that is open belongs to a port and is watched for reading, and
\* the connection to the other process is in socket_table: none is forgotten,
\* whatever was closed and opened in the callbacks of one poll.  No socket that
\* is closed is watched, which would stop the loop for all of them, unless a
\* connect() failed at once.
NoneForgotten ==
  /\ \A f \in Fds :
       /\ sock[f] # "free" => port[f] # None /\ "R" \in mask[f]
       /\ port[f] = "cli" => f \in table
  /\ BadFd => refused > 0

\* Every connection of another process is accepted.
Accepts == [](main /\ backlog > 0 => <>(backlog = 0))

\* Lua is told of the end of every connection it was told of.
EndsAreTold == \A f \in Fds : [](f \in told /\ hup[f] => <>~(f \in told /\ hup[f]))

\* The same, as long as no connect() fails at once.
ServesUnlessRefused == [](refused = 0) => Accepts /\ EndsAreTold
=============================================================================
