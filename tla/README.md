# Verification of the lua333 distributed game server

This directory holds TLA+ models of the server framework in `src/framework/distsrv`, of the
Lua modules it is built from (`src/mod`) and of the C++ event loop and buffers below them
(`src/src`), with TLC runs on small instances and TLAPS proofs for every size.

Run a configuration with `tlc -config MCLogin_live.cfg MCLogin`, check proofs with
`tlapm LoginProofs.tla`. `PROJECT.json` lists components, runs, mutants (a plausible bug that each
property has to find), the lines each definition models, findings, hazards and theorems.

## The system

A game world runs as a set of single-threaded processes of three kinds
(`src/framework/distsrv/README`: "gate --> game --> global").

* **Gate servers** (`gatesrv`) accept the client sockets.
* **Game servers** (`gamesrv`) hold the online players. Every gate is connected to every game.
* **The global server** (`globalsrv`) runs the center, which says where a player is, and the
  database server. Every game is connected to it.

Processes talk by `POST(srvid, "Module.FUNCTION", ...)`: a one-way message on a TCP connection.
There are no acknowledgements, timeouts or retries; an answer is another POST. A POST to a srvid
without a socket is dropped.

### Inventory

| Component | State | Operations | Hard behaviour | What makes it correct |
|---|---|---|---|---|
| Game `Login` (`gamesrv/login/main.lua`) | `tmp_player_manager` (lock of a player on its way in), `player_manager`, `onlinenum` | `PLAYER_ENTER/EXIT/PASS/INSTEAD`, replies of the database server | replies that arrive after the state they belong to is gone | one server holds a player; a save never undoes a newer one |
| Center `Login` (`globalsrv/centersrv/login/main.lua`) | a record per uid: server, waiting server; `onlinenum` | `PLAYER_ENTER`, `PLAYER_EXIT` | takeovers that cross exits and loads | a takeover ends; a record has a player behind it |
| Gate `Login`, `Clientsrv` | `socket_manager`, `tmp_socket_manager`, `player_manager`, packet counters of a player | `ev_accept`, `dispatch`, `MSG_LOGIN`, `MSG_ENTER`, `REPLY`, `ev_close` | a client that leaves or logs in again at any time; replies that come after the socket's number is someone else's | every player that entered is reported gone to the game it entered last; a reply reaches its own player; the packet limit limits |
| `Dbsrv` | Redis hash per uid, MySQL rows, save list | `GET`, `SET` | a cache over a store, each command of which can fail; writes that are delayed | an acknowledged save is durable, or queued, and is what is loaded next |
| Registration (`Postproto`, `Gamesrv`, `Gatesrv`, `Globalclient`, `Gameclient`) | `srvid2sockfd`, `sockfd2srvid`, `game_manager`, `gate_manager`, `socket_table` | connect, reconnect, srvid message, `REGIST`, `ev_close` | the two ends see a loss at different times; socket numbers are reused | a POST reaches the process it is for, and can be made again after a loss |
| Streams (`Srvproto`, `Pbproto`, `lrecvbuf.cc`, `lsendbuf.cc`, `ar.cc`) | blocks of the send buffer, receive buffer, pool of archives | send, write event, read event, dispatch | packets cut anywhere, full buffers, handlers that raise, arguments the format cannot carry | handlers get what was sent, in order, once, with the arguments of the POST |
| Sockets (`lport.cc`, `ae.cc`, `ae_select.cc`) | table of sockets, registered events, events of the last poll | listen, connect, accept, read, write, close | callbacks that close and open sockets between the events of one poll | no event goes to the wrong socket; all sockets are served |
| Timers (`ae.cc`, `ltimer.cc`, `lae.cc`) | list of time events, time of the last walk | add, stop, sleep, walk | callbacks that add and stop timers, their own too, under the walk; a clock that is set back | the walk neither skips nor repeats a timer nor calls it early; the loop does not sleep through one |

Above the sockets everything is sequential inside a process; what is concurrent is the set of
processes, the network and the kernel. The hazards this leads to are listed in `PROJECT.json`
with the line at which each one bites and the properties that would show it.

## The modules

| Module | Models | Composition |
|---|---|---|
| `SessionLease` | abstract: one lease per player, which moves only while the player is offline | |
| `Login` | gate, game and center logins over their connections, with the database server as a register that may fail | `INSTANCE`s `SessionLease` |
| `LoginProofs` | proofs about `Login`, which implements `SessionLease` | extends `Login` |
| `PlayerStore` | abstract: the tables of a player as registers, with what a failed save may leave | |
| `Dbsrv` | the database server over Redis and MySQL | `INSTANCE`s `PlayerStore` |
| `ClientSessions` | abstract: the sessions of client sockets and the POSTs a gate makes for them | |
| `Gate` | the client side of one gate | `INSTANCE`s `ClientSessions` |
| `Registry` | registration and reconnection of server processes | |
| `RegistryProofs` | proofs about `Registry` | extends `Registry` |
| `DbsrvProofs`, `GateProofs` | proofs about `Dbsrv` and `Gate`, which implement `PlayerStore` and `ClientSessions` | extend `Dbsrv`, `Gate` |
| `SrvprotoProofs` | what `Decode` makes of what `Encode` wrote | extends `Srvproto` |
| `StreamProofs`, `PortProofs`, `TimersProofs` | proofs about the lower layers | extend `Stream` (with `SrvprotoProofs`), `Port`, `Timers` |
| `Srvproto` | how the arguments of a POST are written and read (pure) | |
| `Stream` | one direction of a connection, from `send` to the handler | extends `Srvproto` |
| `Port` | the sockets of one process over the event loop | |
| `Timers` | the time events of one process over the event loop | |
| `MC*` | instances for TLC | extend the module they are named after |

The modules are layers. `Login` takes from the lower ones that POSTs of one process to another
arrive in order and once while the connection is up (`Stream`, `HandledInOrder`), that a POST to a
game reaches that game or is dropped (`Registry`, `PostReachesPeer`), and that a request to the
database server is answered (`Dbsrv`, `RequestsHandled`, which names two cases in which a GET is not; in those `TakeoverEnds` and
`RecordIsBacked` do not apply). Two abstract modules stand between layers:
`Login`'s gates do what `ClientSessions` says, and `Gate` implements it (`SessionsKept`); `Login`'s
register `db`, whose load after an acknowledged save brings that save and after a failed one either version, is
`PlayerStore` for tables that are not stale, and `Dbsrv` implements it (`StoreKept`). `Stream` and `Registry` take from `Port`
that the callbacks of a socket are called for that socket and until it is closed.

### Login

`suid`, `ssrvid` are the player record of a client socket at its gate; `tmp`, `player`, `data`,
`gonline` the tables of a game; `holder`, `instead`, `conline` the center's records; `game_manager`
and `mapped` who is registered; `inq`, `up`, `down` the POSTs in flight. One action per handler,
under its name in the code (`CenterEnter` and `CenterExit` are the center's `PLAYER_ENTER` and
`PLAYER_EXIT`). The data of a player are a version number, which `Play` raises. `db` is the set of
versions that a load may bring: a SET that fails may have been written or not. `LinkDown` loses
what is in flight between a game and the global server; `LinkUp`, `RegistSrvid` and `REGIST`
bring it back.

`stray` is a history variable: a game reported the exit of a player it did not hold. That is the
branch at `gamesrv/login/main.lua:26`, and the run `login_ghost` shows what it leads to. The other
promises are about players to which that has not happened.

Abstractions: a loss of the connection is seen at both ends in one step (`Registry` has the two
ends apart); gates and games do not lose their connections; a handler that raises leaves its
message in the buffer and changes nothing, which is a stutter here; the replies to the client are
left out, as they change no state; a `MSG_LOGIN` on a socket that is logged in makes a player that nothing
reaches and leaves the socket's session alone (`Gate` has it), which is a stutter here.

### Dbsrv

Tables have versions as data. `cache` is the Redis hash, `rows` the MySQL rows, `missed` (history)
the cached tables that a SET could not replace. A handler is one action, and its commands may fail
in all the ways the bindings report: no connection, a connection that breaks under way, an
error reply (which `SET` takes for success, as `redis_reply.type` is then `error`), a MySQL
command that fails for one of the tables. `Expire` is the TTL. GETs name one table or both, so
that the cache fills in parts; SETs name all tables, as `player_logout` sends them. The option `delay_write` and the tables whose name has a
descriptor (`described`) are chosen at the start, as one of `Configs`. With it a SET is acknowledged when it is in the hash and in the list of what is to be saved; nothing in
the repository empties that list, so no action does, and `lapsed` (history) holds the uids whose hash
expired. `PlayerStore` has as `may` the versions a load can bring, and as `stale` the tables for which it
promises no more than that: those in `missed`, and all of them when writes are delayed. When the connection to Redis
breaks, the cached copies of all players are out of reach at once, so that `may` shrinks for the others too.

A handler that raises leaves its request in the receive buffer, where it holds up all that its game server sends, and is tried again when more
arrives: until then the game is in `stuck`. A GET raises over a broken connection to Redis (`HmgetRaises`: the message about the failure names
`reply_reply`, a variable that is nothing), and when `select_from_mysql` finds a row of a table for whose name `Pbc.get_descriptor` has nothing (`SelectRaises`: the row has no column
`table_bin`, and `string.len` gets nil). The second is what the configuration of the repository does. Its table is `user`
(`src/game/jxqy/globalsrv/main.lua:38-40`), descriptors go by package and class (`pbc.lua:71,121`), so none has that name, and a
stored player whose hash expired cannot be loaded any more. `RequestsHandled` names both cases and says that nothing else in front stays unanswered: no SET, and no GET that
finds its tables in the cache or no row in MySQL. `Login` assumes that its GETs are answered.

Requests are taken as whole: between processes a POST with two protobufs does not survive `Srvproto` (see `ArgsArrive`), so that
several tables in one request work only because the configuration in the repository has a single one.

### Gate

`players` are the player tables that `MSG_LOGIN` made, which `socket_manager` and `player_manager` name by their
index; a table that neither names is garbage to Lua and stays in the model. `dispatch` is
one packet: of a socket without a player (`Anonymous`), over the limit (`PacketHack`) or within it
(`Known`). A packet within the limit logs in, enters, or is answered or forwarded; a handler that raises has lost its packet. `MSG_LOGIN`
from a socket that is logged in gets the player table in place of a socket number, which the C functions take for 0: the uid's new
player has no socket that anything can be sent to (`NoFd`), and the socket keeps its session. `PacketHack`
is the branch that should disconnect the client: it asks `pbc`, a variable that is nothing, for its
message, and raises. `handled` (history) is when the packets of a login were handled; the
counter starts again every `Threshold` packets, so that twice as many, and one, can pass in the time of a window.

### Registry

A connection is a number; `fd` is the server's socket of it while it is open and `owner` the client
that tried it. `Shadowed` chooses between the two `ev_close`: that of `Gatesrv`, which compares with
the srvid of the socket, and that of `Gamesrv`, whose loop variable hides it. `Lose` is the loss of a
connection at the client's end, `Drop` at the server's. `hit` (history) holds the clients whose
mapping was taken by another socket.

### Stream

A packet is what `Srvproto!Encode` writes: the length, the count of arguments, and a unit per
argument, two for a protobuf. On their way the units carry where they come from, so that what
a handler gets can be compared with what was sent. `Sizes` are the sizes a block can have (4096 bytes, doubled until
the packet fits); `SizesAssumption` says that there is one for every packet. `Decode` reads as `dispatch` of `srvproto.lua`
does: it counts a `nil` that the writer passed over, and a boolean or function for which the writer has no case; it hands a table out as its JSON, and it stays in front of the body of a
protobuf, so that what follows is read from the wrong place (`Garbage`, anything). A number is written as an int32 (`Int32`, with `Half` for 2^31): a fraction is dropped, and so is what is above 32 bits. `ArgsArrive` says which arguments are
unharmed: integers that fit, strings, and a protobuf at the end; any other number arrives as some number and leaves those behind it
alone. The lengths of strings and the count of arguments are written as int16; they fit in every packet that can
be received, because a packet has to fit the 1024 bytes of the receive buffer. Numbers beyond the 64 bits of `lua_tointeger` are
left out. The send buffer has its blocks, the receive
buffer its two pointers and its compaction, `ars` counts the archives that are taken. A handler
that raises keeps its packet and its archive, and is called again with the next bytes that arrive; `AllHandled` says that a packet then waits for good only
if nothing more arrives, if the buffer, which was not compacted, fills up and the connection is closed, or if the errors took all archives
(`Stalled`). `send` takes an archive, too, and gives it back in the same call, so that it could only find none after handlers in its own process had
taken all of them; that is not modelled. `Proto` chooses between `Srvproto`, which reads once and then
takes packets out, and `Pbproto`, which reads for every packet.

### Port

`sock`, `hup`, `data`, `backlog` are the kernel's; `mask`, `proc`, `fired` the event loop's;
`port`, `unsent` the tables of `lport.cc`; `table` and `told` what Lua knows. The kernel gives the
lowest number that is free. `Poll` takes the events of all sockets; the callbacks then run one by one in the order
of the code, and `Valid` is the check of `ae.cc` that an event is still registered. The process
listens and keeps one connection of its own, as a game does, which `ev_close` and `ev_connect_err`
open again while the old one is not closed yet. The makefile builds `ae_select.cc`.

### Timers

`list` is the list of time events, newest first; `phase` is where the turn of `aeMain` is: before the poll,
in it, in the callbacks of sockets, in the walk of `processTimeEvents`, or in the callback of timer `id`. `te` is the pointer
of the walk. A callback may add timers (of the three kinds Lua can make) and stop any, its own too: `te` then
points to freed memory (`None`), or, if a timer was added since, to that one if `malloc` gave it the same place; the
code writes the new time through it (`ae.cc:293`). `due` (history) is the time before which a timer
must not be called: it moves when a timer is added and when its own callback returns, and not when another timer is armed through a stale pointer.
`heirs` (history) are the timers that a callback added after it had stopped its own timer, the only ones that the stale
pointer can name. They may be called early, late or never, and `NotEarly`, `OthersKeepTime`, `SleepsNotTooLong` and `DueIsCalled` except them; TLC
refutes `NotEarly` without that exception. The code says nothing about a timer that is added there, and the case has no run of its own. The clock is the wall clock: `SetBack` sets it back once, and if a walk sees that, every timer becomes
due (`forced`).

Two details the properties have to leave room for: of a time that has passed, `aeProcessEvents` keeps the fraction of the second,
so that a timer that is already overdue may wait for almost another second, and others with it (`SleepsNotTooLong`; without an overdue timer the poll
ends when the next one is due, or earlier); and a timer of `Ae.create_time_event` that
returns 0 is called again in the same walk.

## The runs

| Run | Question | Bounds |
|---|---|---|
| `login_safety` | Are sessions exclusive, saves in order, counters right, and is `SessionLease` implemented, when two sockets on two gates fight for a uid over two games? | 3 entries, 1 uid, 2 games, 2 gates, 2 sockets, 1 change of the data; with a third entry no failure, else 1 failure and 1 loss |
| `login_live` | Does every takeover end, and is every record backed? | 2 entries, no failures |
| `login_ghost` (violation) | Can two games hold one player? | 2 entries |
| `db_cache` | Is what was acknowledged durable (or queued), is what is loaded that of the last save (`PlayerStore`) and of one save, is every request handled? | 4 requests of 2 games, of which 2 wait at a time (`MaxQueue`), 2 tables, the configuration of the repository and both `delay_write` with descriptors, 1 request in which MySQL fails, 1 refusal, 1 break |
| `reg_live` | Do POSTs reach their process, is the manager right (`Gatesrv.ev_close`), are clients connected and reachable again? | 2 clients, 4 connections, 3 sockets, 2 losses, 1 connect that fails at once |
| `reg_stale` (violation) | Is every client reachable again? | 1 client, 2 connections, 1 loss |
| `stream_srv` | Do packets arrive in order, once, with their arguments, and without waiting for each other? | 7 packets of 3 to 7 units, receive buffer of 6, blocks of 3, 6 and 12, 2 archives, 2 errors, integers from -4 to 3 |
| `stream_pb` (violation) | The same for `Pbproto` | 2 packets |
| `port_live` | Do events reach the right socket, is none forgotten, are all served? | 2 sockets besides the listening one, 2 arrivals, 2 packets of data, 2 losses, 1 connect that fails at once |
| `port_refused` (violation) | Is every connection accepted? | 1 arrival, 1 loss, 1 connect that fails at once |
| `gate_clients` | Do replies go to their player, does the packet limit hold, are the sessions those of `ClientSessions`? | 2 socket numbers, 2 uids, 2 games, 3 logins, 5 packets, threshold 1, window 2, 3 seconds |
| `timers_loop` | Is every timer called, once, not early, and without harm to the others? | 3 timers, delays of 1, returns 0, 1 and 2, a second of 3 ms, 2 ticks, 1 setting back |

**Why the bounds are enough.** A takeover needs two entries, and a third one crosses it with a
takeover back; records of different uids share only counters, and the proofs cover any number of
uids. Two tables are what a mixed load needs. Four connections of two clients contain an old and a new connection of each, or three of one, and
three sockets are fewer than connections, so that numbers are reused. The packets of the stream
include one that fills a block, one that spans blocks, and one that does not fit the buffer. With
two places in the table of sockets, `connect` and `accept` meet a full one. In `login_safety` a third entry is combined with
changes of the data but not with failures (`MaxFaulty`), which keeps the run within minutes; two entries meet every failure. At
the gate three logins are one more than there are sockets and uids, so that a number and a uid are both used again, and five
packets with a threshold of 1 pass a window, break the limit and pass the next one. Three
timers are the one that runs, one it stops and one it adds; a second of three milliseconds lets sums of times carry or not, and lets a timer be overdue by more than the sleep that is left of it. The numbers of the stream are
at both ends of the range, and one has a fraction. Deadlock is not checked: all these
systems stop when the bounds on arrivals, entries and failures are used up.

**What the violations show.** Each has an entry under `findings`.

* `login_ghost`: a client that enters and leaves before its data are loaded is reported gone, but
  its lock stays, the load succeeds, and the player is online without a record of the center. The
  next server gets the player too.
* `reg_stale`: `Postproto.unregist` clears the mapping of the srvid that last used the socket, even when that
  srvid has moved to a new socket: the server can no longer POST to a client that is connected.
* `stream_pb`: `Pbproto` receives over data it has not handled.
* `port_refused`: a `connect()` that fails at once leaves the events of a closed socket registered; `select()` fails
  from then on.

`Gamesrv.ev_close` removes whichever game it meets first from `game_manager`: with `Shadowed` set to TRUE, TLC refutes `ManagerLive`. The code
says nothing about that table that this would contradict, and it has no run of its own.

**Fairness.** Event loops are assumed to run: weak fairness of every handler of a message that is
there (`FromGate`, `FromGlobal`, `GlobalStep`, `Handle`, `ClientStep`, `ServerStep`, `Receive`,
`port_on_write`, `Loop`), which is what a single-threaded loop over level-triggered `select` gives:
a socket that stays readable is in the next poll, and every event of a poll is
handled before the next one. Also weakly fair: that a process is started (`Start`, `Main`), that a lost connection comes
back (`LinkUp`, which stands for the retries of `ev_connect_err`), and that the kernel decides on a connection under way
(`ConnectDone`). For `Timers` the turns of the loop
are fair, with the end of a poll by its timeout and the return of a callback, and so is `Tick`, the clock. Nothing is assumed of clients, players, losses, failures, expiry, recovery, handlers that raise, or what callbacks do.

## The proofs

The proofs are for any sets of players, servers, sockets, tables, packets and timers and any bounds, from the assumptions
named in the modules, which TLC evaluates in the runs. They say that the constants have
their types and `None` is none of the others, and further that a window is not longer than the clock runs (`GateAssumption`, without
which the limit says nothing), that the clock starts within its bound and after its first second (`TimersAssumption`), that there is a number
beyond the table of sockets (`PortAssumption`), that there is a block every packet fits into (`SizesAssumption`), and that there are integers (`HalfAssumption`). Every inductive invariant was checked by TLC before it was
proved, and the mutants of the properties that are proved break the proofs, too.

**Login.** `TypeCorrect` is the type invariant. `OnlyHolderOnline` (`ExclusiveUnlessStray`) is not
inductive: nothing in it says why the reply to a load, when it brings a player online, does so on the
server of the record. `TenureUnique` does: from the center's PASS on, the right to hold a
player is in one place, the message PASS, GET, GET_REPLY or EXIT in flight or the session itself, and always with the server that
the record names. A handler takes the right from one place and puts it into one other; a lost connection drops
it; only a stray exit makes a second one. `TenureIsUnique` proves this handler by handler, with lemmas about
what a POST and a receive do to the messages in flight, and `OnlyHolderOnline` follows.
`LeaseImplemented` (`LeaseKept`) shows with the same invariant that every step of `Login` is a step or a stutter of
`SessionLease`: the record is moved by an EXIT, and while there is an EXIT there is no session.
`CountersRight` (`CountsAgree`) is about cardinalities of finite sets, which is why `LoginAssumption` wants finitely many uids: the handlers
count when a table gets or loses an entry and never when an entry only changes (another gate, a record that is handed on); that a reply to a save
finds no player, the second answer to one save, is the case that would count twice.
The last two rest on where a save can be (`SaveInv`): a save in flight has its session, or the EXIT that ended the session is behind it in the same
channel (`AllBacked`; a server without a connection has nothing in flight, so the end of a session there needs no EXIT). With `TenureUnique`, while
Dbsrv handles a save no PASS and no answer to a load of that uid is on its way: the reply is POSTed in front of whatever begins the next session
(`RepliesFindTheirSession`), and no other server has a save, a load or a session of the uid. So what is stored is not newer than the saves in flight, which
are in order, and than the session, and is what a load answers (`Newest`), until a failure or a stray exit, and `SavesOnlyGrow`
(`SavesNeverRegress`) follows. What a step does to the channels and the session of one uid is proved once (`SessionStep`, `AnswerStep`), and the invariants from that.

Two theorems are the safety half of what `RecordIsBacked` and `TakeoverEnds` promise under fairness. `RecordsStayBacked`: as long as no connection is lost, the
server that a record names has the player, has a PASS, GET or GET_REPLY of it in flight, or has sent the EXIT. `TakeoversMove`: as long as nothing fails
either, while a server waits for a record there is a message whose handler brings the takeover on: INSTEAD or an ENTER that will cause one, a save
of the player or its reply, an EXIT, or a load that will find the lock gone (`Yielding`). They are proved together (`Moves`), since an INSTEAD that finds no player is answered by
what backs the record, and rest on `Connected` (nothing is dropped by a POST) and `Acknowledged` (without a failure a save is answered with success, or the player would
stay). After a lost connection both are false, and after a failed save the second one: the handler of the reply leaves the player online and nobody asks again. That is why the live run has
its premise about failures in its bounds.

**Registry.** `SocketsDistinct` (open connections have different socket numbers and an owner) makes
the types inductive. `PostsReachPeer` rests on `TablesTrue`: where `srvid2sockfd` has a socket for a
srvid, `sockfd2srvid` of that socket is that srvid, so that closing it clears this very mapping.
`ManagerIsLive` is proved for the `ev_close` of `Gatesrv`; for that of `Gamesrv` it does not hold.

**Gate** (`GateProofs`). `OneTable` is inductive with the types and `Owners`: a player table that still has a socket is the one that
`socket_manager` has for that socket, and `player_manager` has for a uid a player of that uid. From this `RepliesReachOwner`: a reply goes by
`player_manager` to a player's socket, and `Owners` says that this socket is still that player's. `GateKeepsSessions` maps a socket to the
session of its player and shows for each of the actions which one of `ClientSessions` it is; a second login on a socket, a reply or a
refused packet is a stutter. `FloodsLimited` needs a history of its own (`Flow`): the packets since the last check are no more than the
threshold, the check before was a threshold and one packet earlier and a window ago, and so two packets that are twice the threshold
and one apart are a window apart.

**Dbsrv** (`DbsrvProofs`). `AckedStaysDurable` rests on `SetsAll` (a SET names all tables, so that it replaces all of them), `Versions` (what is
stored is never newer than the last save, so that a SET never goes back) and `Queued` (what is queued is in the hash as a whole). `LoadsAreWhole`
rests on `Whole`: as long as MySQL did not fail, the rows are of one save, and the copies in the cache that no SET missed are either the rows or
all of one SET. A GET that fills in the cache in parts copies rows, and one that is answered from the cache is in one of the two cases.
`DbsrvKeepsStore` maps `may` to what MySQL and a reachable cache have and shows for the outcomes of GET and SET, one by one, which step of
`PlayerStore` they are.

**Port** (`PortProofs`). The callbacks of one poll run one after the other, and each may close sockets and open others under the numbers
that became free. `EventsLive` says what is left of an event that waits for its turn: it belongs to a socket that has been open since the poll, or it
is the write event of a socket that the read callback just before has closed, which `Valid` drops because its mask is empty. So no event of the poll is left
for a number by the time a later callback gets that number from the kernel. `CallbacksHavePort`, `ToldAreUp`
and `NoSocketForgotten` follow with `PortsOpen` (an open socket has its port and its read event) and `Listens`.

**Timers** (`TimersProofs`). `Dues` ties the second and millisecond of an event to the promise `due`; `Pointers` says what `te` can
be while a callback runs: its own timer, or, if that was stopped, nothing or a timer added since, which the walk is not to touch (`te > maxId`);
`Walked` is the progress of the walk: what lies before `te` and was there at its beginning is not due. Since `processTimeEvents` starts again at the head after every callback,
`Walked` is lost and won again from the fact that a timer that was called is armed for later (`Served`). `WalkIsComplete` is `Walked` with `te` at the end.
`NoTimerEarly`, `OthersLeftAlone` and `NoOversleeping` except the timers in `heirs`: if a callback stopped its own timer, `te` is nothing or one of those, and only then does the end of a callback
arm a timer that is not its own.
`NoOversleeping` is arithmetic of seconds and milliseconds, with the nearest timer by a least element of a set of naturals (`LeastNat`).

**Stream** (`StreamProofs`). `TypeCorrect` holds with both protocols. `PacketsInOrder` is for `Srvproto`; with `Pbproto` it is false (`stream_pb`). The invariant
is about the units that are on their way: those in the receive buffer between the pointers, then those on the wire, then what is left of the first block
(`Pending`), which are a `Stretch`: the packets from the one behind those handled up to the last one in that block, each with all its units and in order. The
other blocks are stretches that continue each other (`Chained`). Stretches can be joined (`StretchJoin`: `send` and a block that is given back) and lose
their first packet (`StretchDrop`: `Handle`, which reads as length what the header of that very packet says); `Recv`, `port_on_write` and `buf2line` move units
within `Pending` and leave it the same. A handler that raises changes nothing of it. The proof has no induction over packets: `Stretch` says of any two
positions how their units relate.

`ArgumentsArrive` (`ArgsArrive`) needs what a packet of any number of arguments decodes to, and so induction over the arguments (`SrvprotoProofs`). The
provers cannot instantiate an induction theorem with a predicate, but they can take a *set* of numbers: `SetInduction` shows that a set
which has 0 and is closed under successor has all, by the least number that is missing (`LeastNat`). `Recursion` shows in the same way that a function defined by
recursion over `0..n` exists and obeys its equation, from the functions on smaller intervals; this serves the fold in `FlattenSeq`
(`Flattened`: the units of the arguments one after the other) and the loop in `Decode` (`DecodeLoop`). The invariant of that loop: as long as
the arguments are sound, after `i` turns the first `i` of them were read, as they were `Carried` (a number through `Int32`, which leaves the integers in its range alone), and what is left of the packet begins with the units of the others, or with the body of the protobuf that was the last; after
that what was read is never taken back. `ArgumentsRead` puts it together, whatever is in the buffer behind the packet, and with `PacketsInOrder`,
which says that the buffer does begin with that packet, `ArgumentsArrive` follows. `LensType`, that `calc_len` counts the header, comes from the same lemmas and was an assumption before.

`NothingWaits` (`Settled`) is the safety half of `AllHandled`: until a handler raises, the receiver closes only in front of a packet that is larger than its
buffer, and as long as a packet is on its way an archive is free and there is a block to write, a unit on the wire, or a buffer being taken apart. It rests on
`Waiting`: between two reads the buffer is compacted and does not have the next packet as a whole, so that it is never the last read that a packet waits for.

**What the proofs corrected.** Four statements did not hold, or did not say what was meant, beyond the instances that TLC had looked at. `LoadIsWhole`
spoke of the last answer after the state had moved on and is now about the step that answers. `PlayerStore` did not let the data of other players be lost
with the connection. The value a timer's callback returns was a `CASE` with overlapping arms, which leaves open which one is taken. And stopping a timer was a
filter of the list, where `aeDeleteTimeEvent` unlinks one event.

**Only model-checked:** liveness (`TakeoverEnds`, `RecordIsBacked`, `AllHandled`, `DueIsCalled`, `RequestsHandled` and the other properties under fairness), which
the prover does not reach. Every invariant, action property and refinement of the passing runs is a theorem.

## Not modelled

* The rules of the games (`src/game`), to which `Play` stands; vendored code (`src/3rd`); the protobuf, JSON,
  BSON, MongoDB, log, file, date and string bindings, which hold no protocol state.
* `timer_check` of `Login` and `Clientsrv`, which nothing schedules; `MGET` and `KVSET` of `Dbsrv`, which nothing calls and which call a
  function that does not exist; `lshutdown` and `lsyncconnect` of `lport.cc`, which the servers do not use; changes of the
  configuration at run time.
* At the gate: what the routes of the configuration are (a forwarded packet is a POST to some process), and `PLAYER_ENTER` of
  `gatesrv/login/login.lua`, which no process POSTs to. It would send a player to a game without looking whether the client is still there, which
  `ClientSessions` does not allow.
* Descriptors above `FD_SETSIZE` (the table of sockets is larger than what `select` can watch) and `socket()` that fails.
* Of the timers: `s_timer_counter`, which is counted down twice for a timer that is stopped and which nothing reads, and
  `src/mod/timer`, whose functions call bindings that do not exist (`add_self_timer` for `addselftimer`).

## Plan

1. Done: `SessionLease`, `Login` with proofs and refinement; `Registry` with proofs; `Dbsrv` with both settings of `delay_write` and the
   refinement of `PlayerStore`; `Gate` with the refinement of `ClientSessions`; `Srvproto` and `Stream`; `Port`; `Timers`.
   Proofs of all the safety invariants, action properties and refinements, of what `Srvproto` reads, and of the safety half of the liveness of takeovers, records and streams.
2. A composition of `Login`'s link with `Registry`, in which the two ends see a loss at different times.
